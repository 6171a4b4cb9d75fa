------------------------------ MODULE Warnings ------------------------------
(***************************************************************************)
(* The warning system of src/src/warnings.rs: one row per user in the      *)
(* user_warnings table (of one guild; rows of different guilds never meet),*)
(* escalated by message handlers and flushes, decayed by an hourly job,    *)
(* cleared by moderators.  Each SQL statement is atomic; nothing makes a   *)
(* sequence of them atomic, so each statement is an action.                *)
(*                                                                         *)
(*   record_violation   ReadWarning ; Upsert ; InsertViolation             *)
(*   its callers        MarkKicked when the new level is Kick              *)
(*   decay_warnings     DecaySelect ; DecayRow for each row selected       *)
(*   clear_warnings     Clear         bulk_clear_old_warnings  BulkClear   *)
(*                                                                         *)
(* last_violation is kept as the hours since it (saturating at a day) and  *)
(* whether midnight has passed since, which is what the code compares.     *)
(*                                                                         *)
(* A definition named Faulty... is the one after it with a bug put in, kept*)
(* to show that the properties notice; no specification uses it.           *)
(***************************************************************************)
EXTENDS Naturals, FiniteSets

CONSTANTS Users,
          Tasks,        \* tasks that record violations
          DayLength,    \* hours in a day
          MaxOffences   \* bound: violations recorded per user

ASSUME WarningsAssumption == /\ DayLength \in Nat \ {0}
                             /\ MaxOffences \in Nat

VARIABLES
    row,        \* user_warnings: a row per user, or NoRow
    hour,       \* hour of the day
    step,       \* next statement of each recording task
    who,        \* the user whose violation the task records
    got,        \* the row state record_violation has read
    new,        \* the level it computed from it
    due,        \* the hourly interval has ticked for the decay job
    snap,       \* rows selected by decay_warnings and not yet written back
    offences,   \* history: escalations written per user
    marked      \* history: users ever marked as kicked

tasks == <<step, who, got, new>>
job   == <<due, snap>>
hist  == <<offences, marked>>
vars  == <<row, hour, tasks, job, hist>>

Nobody == "nobody"

NoWarning == 0
Warning == 1
ShortTimeout == 2
LongTimeout == 3
Kick == 4
Ban == 5
Levels == NoWarning..Ban

\* No row has level 0: escalation starts at 1 and decay to 0 deletes the row.
Row == [level : Levels, kicked : BOOLEAN, since : 0..DayLength, midnight : BOOLEAN]
NoRow == [level |-> NoWarning, kicked |-> FALSE, since |-> 0, midnight |-> FALSE]
State == [level : Levels, kicked : BOOLEAN]
Fresh == [level |-> NoWarning, kicked |-> FALSE]

Level(u) == row[u].level
Stored(u) == [level |-> row[u].level, kicked |-> row[u].kicked]

\* Bug: the second offence skips the short timeout.
FaultyEscalateSkips(s) ==
    CASE s.level = Warning -> LongTimeout
      [] s.level < Kick /\ s.level # Warning -> s.level + 1
      [] s.level = Kick -> IF s.kicked THEN Ban ELSE Kick
      [] s.level = Ban -> Ban

\* Bug: the offence after a Kick bans, whether or not a kick took place.
FaultyEscalateBans(s) == IF s.level < Ban THEN s.level + 1 ELSE Ban

\* Bug: an offence of a banned user counts as a kick.
FaultyEscalateRepeats(s) ==
    CASE s.level < Kick -> s.level + 1
      [] s.level = Kick -> IF s.kicked THEN Ban ELSE Kick
      [] s.level = Ban -> Kick

\* WarningLevel::escalate
Escalate(s) ==
    CASE s.level < Kick -> s.level + 1
      [] s.level = Kick -> IF s.kicked THEN Ban ELSE Kick
      [] s.level = Ban -> Ban

\* WarningLevel::decay
Decayed(l) == IF l \in {NoWarning, Ban} THEN l ELSE l - 1

InFlight(u) == {r \in Tasks : step[r] = "upsert" /\ who[r] = u}

-----------------------------------------------------------------------------
\* A process that has just started.
Started ==
    /\ hour = 0
    /\ step = [r \in Tasks |-> "idle"]
    /\ who = [r \in Tasks |-> Nobody]
    /\ got = [r \in Tasks |-> Fresh]
    /\ new = [r \in Tasks |-> NoWarning]
    /\ due = TRUE            \* an interval's first tick completes at once
    /\ snap = [u \in {} |-> NoWarning]
    /\ offences = [u \in Users |-> 0]

Init ==
    /\ row = [u \in Users |-> NoRow]
    /\ marked = {}
    /\ Started

Rest(r) == /\ step' = [step EXCEPT ![r] = "idle"]
           /\ who' = [who EXCEPT ![r] = Nobody]
           /\ got' = [got EXCEPT ![r] = Fresh]
           /\ new' = [new EXCEPT ![r] = NoWarning]

(* record_violation: SELECT the row (a missing row is a fresh user).       *)
ReadWarning(r, u) ==
    /\ step[r] = "idle"
    /\ offences[u] + Cardinality(InFlight(u)) < MaxOffences
    /\ step' = [step EXCEPT ![r] = "upsert"]
    /\ who' = [who EXCEPT ![r] = u]
    /\ got' = [got EXCEPT ![r] = Stored(u)]
    /\ new' = [new EXCEPT ![r] = Escalate(Stored(u))]
    /\ UNCHANGED <<row, hour, job, hist>>

\* Bug: INSERT OR REPLACE, and the ladder starts again for a row of an earlier day.
FaultyUpsert(r) ==
    LET u == who[r] IN
    /\ step[r] = "upsert"
    /\ step' = [step EXCEPT ![r] = "insert"]
    /\ row' = [row EXCEPT ![u] =
                 [level |-> IF row[u].midnight THEN Warning ELSE new[r],
                  kicked |-> got[r].kicked, since |-> 0, midnight |-> FALSE]]
    /\ offences' = [offences EXCEPT ![u] = @ + 1]
    /\ UNCHANGED <<hour, who, got, new, job, marked>>

(* INSERT .. ON CONFLICT DO UPDATE: a new row takes kicked_before from what*)
(* was read, an existing one keeps its own.                                *)
Upsert(r) ==
    LET u == who[r] IN
    /\ step[r] = "upsert"
    /\ step' = [step EXCEPT ![r] = "insert"]
    /\ row' = [row EXCEPT ![u] =
                 [level |-> new[r],
                  kicked |-> IF row[u] = NoRow THEN got[r].kicked ELSE row[u].kicked,
                  since |-> 0, midnight |-> FALSE]]
    /\ offences' = [offences EXCEPT ![u] = @ + 1]
    /\ UNCHANGED <<hour, who, got, new, job, marked>>

(* INSERT INTO violations; the caller gets the level.                      *)
InsertViolation(r) ==
    /\ step[r] = "insert"
    /\ IF new[r] = Kick
       THEN step' = [step EXCEPT ![r] = "mark"] /\ UNCHANGED <<who, got, new>>
       ELSE Rest(r)
    /\ UNCHANGED <<row, hour, job, hist>>

(* The caller marks a user whose level is Kick as kicked; an UPDATE, which *)
(* does nothing when the row is gone.                                      *)
MarkKicked(r) ==
    LET u == who[r] IN
    /\ step[r] = "mark"
    /\ Rest(r)
    /\ IF row[u] = NoRow
       THEN UNCHANGED <<row, marked>>
       ELSE row' = [row EXCEPT ![u].kicked = TRUE] /\ marked' = marked \cup {u}
    /\ UNCHANGED <<hour, job, offences>>

(* A statement fails: the error goes up with ? and nothing more happens.   *)
RecordError(r) ==
    /\ step[r] # "idle"
    /\ Rest(r)
    /\ UNCHANGED <<row, hour, job, hist>>

-----------------------------------------------------------------------------
\* Bug: level < 4, kicks are never selected.
FaultyEligible == {u \in Users : row[u].level \in Warning..LongTimeout /\ row[u].midnight}

(* decay_warnings.  The SELECT compares last_violation (YYYY-MM-DD HH:MM:SS) *)
(* with an RFC 3339 cutoff (YYYY-MM-DDTHH:MM:SS) as text: on the cutoff's  *)
(* own date the blank sorts before the T, so a violation made before the   *)
(* last midnight counts as older than 24 hours.                            *)
Eligible == {u \in Users : row[u].level \in Warning..Kick /\ row[u].midnight}

DecaySelect ==
    /\ due /\ DOMAIN snap = {}
    /\ due' = FALSE
    /\ snap' = [u \in Eligible |-> row[u].level]
    /\ UNCHANGED <<row, hour, tasks, hist>>

Unsnap(us) == snap' = [u \in DOMAIN snap \ us |-> snap[u]]

(* DELETE the row or UPDATE its level, from the level that was selected.   *)
DecayRow(u) ==
    /\ u \in DOMAIN snap
    /\ Unsnap({u})
    /\ row' = [row EXCEPT ![u] =
                 IF row[u] = NoRow \/ Decayed(snap[u]) = NoWarning THEN NoRow
                 ELSE [row[u] EXCEPT !.level = Decayed(snap[u])]]
    /\ UNCHANGED <<hour, tasks, due, hist>>

(* A statement of the job fails: the rest waits for the next hour.         *)
DecayError ==
    /\ DOMAIN snap # {}
    /\ Unsnap(DOMAIN snap)
    /\ UNCHANGED <<row, hour, tasks, due, hist>>

-----------------------------------------------------------------------------
(* Moderators.                                                             *)
Clear(u) ==
    /\ row[u] # NoRow
    /\ row' = [row EXCEPT ![u] = NoRow]
    /\ UNCHANGED <<hour, tasks, job, hist>>

(* bulk_clear_old_warnings: the text comparison selects whole dates; those  *)
(* of a cutoff today or later, of one yesterday, or of one before that.    *)
BulkClear(gone) ==
    /\ gone \in {Users, {u \in Users : row[u].midnight}}
                 \cup SUBSET {u \in Users : row[u].since = DayLength}
    /\ row' = [u \in Users |-> IF u \in gone THEN NoRow ELSE row[u]]
    /\ UNCHANGED <<hour, tasks, job, hist>>

-----------------------------------------------------------------------------
Aged(w) == [w EXCEPT !.since = IF @ < DayLength THEN @ + 1 ELSE @,
                     !.midnight = @ \/ hour = DayLength - 1]

Tick ==
    /\ hour' = (hour + 1) % DayLength
    /\ row' = [u \in Users |-> IF row[u] = NoRow THEN NoRow ELSE Aged(row[u])]
    /\ due' = TRUE
    /\ UNCHANGED <<tasks, snap, hist>>

Record(r) ==
    \/ \E u \in Users : ReadWarning(r, u)
    \/ Upsert(r) \/ InsertViolation(r) \/ MarkKicked(r) \/ RecordError(r)

DecayStep == \E u \in Users : DecayRow(u)
Moderate == (\E u \in Users : Clear(u)) \/ (\E gone \in SUBSET Users : BulkClear(gone))

Next == (\E r \in Tasks : Record(r)) \/ DecaySelect \/ DecayStep \/ DecayError \/ Moderate \/ Tick

Spec == Init /\ [][Next]_vars

(* Time passes, the hourly job runs, tasks go on, and a job that keeps     *)
(* getting to a row in the end has its statement succeed.                  *)
FairSpec == /\ Spec
            /\ WF_vars(Tick) /\ WF_vars(DecaySelect)
            /\ \A u \in Users : SF_vars(DecayRow(u))
            /\ \A r \in Tasks : WF_vars(Upsert(r) \/ InsertViolation(r) \/ MarkKicked(r))

-----------------------------------------------------------------------------
(* Properties.                                                             *)

\* Types of the rows, of what tasks hold and of the decay snapshot.
TypeOK ==
    /\ row \in [Users -> Row]
    /\ \A u \in Users : Level(u) = NoWarning => row[u] = NoRow
    /\ hour \in 0..DayLength - 1
    /\ step \in [Tasks -> {"idle", "upsert", "insert", "mark"}]
    /\ who \in [Tasks -> Users \cup {Nobody}]
    /\ \A r \in Tasks : step[r] # "idle" => who[r] \in Users /\ new[r] = Escalate(got[r])
    /\ got \in [Tasks -> State]
    /\ new \in [Tasks -> Levels]
    /\ due \in BOOLEAN
    /\ DOMAIN snap \subseteq Users
    /\ \A u \in DOMAIN snap : snap[u] \in Warning..Kick
    /\ offences \in [Users -> Nat]
    /\ marked \subseteq Users

\* However records, decays and clears interleave, and whatever stale level is
\* written back, nobody stands higher on the ladder than the number of
\* violations recorded against them: discipline is never ahead of offences.
LevelEarned == \A u \in Users : Level(u) <= offences[u]

\* Nobody reaches Ban without having been marked as kicked before: not even
\* from a state read before a clear or written back after one.
BanAfterKick == \A u \in Users : Level(u) = Ban => u \in marked

\* A user who stops offending is in the end without warnings, or banned.
EventuallyForgiven == <>[](\A u \in Users : Level(u) \in {NoWarning, Ban})

\* A level falls for a known reason only: a moderator's clear, decay by one step
\* from below Ban, or a write by someone whose read of the row is stale.
\* With fresh reads, discipline climbs and bans stay.
OnlyStaleReadsLower ==
    [][ \A u \in Users : Level(u)' < Level(u) =>
          \/ Moderate
          \/ DecayRow(u) /\ Level(u)' = Level(u) - 1 /\ Level(u) # Ban
          \/ DecayRow(u) /\ snap[u] # Level(u)
          \/ \E r \in InFlight(u) : got[r] # Stored(u) ]_vars

=============================================================================
