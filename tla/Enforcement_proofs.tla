------------------------- MODULE Enforcement_proofs -------------------------
(***************************************************************************)
(* Proofs about the warning ladder, for any users, any number of tasks that*)
(* record violations concurrently, and any number of offences; and about   *)
(* enforcement, for any verdicts and messages, any number of tasks that    *)
(* share the action queue, and any rows the table starts with.             *)
(***************************************************************************)
EXTENDS Enforcement, FiniteSetTheorems, SequenceTheorems, TLAPS

USE DEF NoWarning, Warning, ShortTimeout, LongTimeout, Kick, Ban, Levels

-----------------------------------------------------------------------------
(* The ladder's two functions.                                             *)

\* WarningLevel::escalate climbs, at most one level, and reaches Ban only from
\* Ban or, having been kicked before, from Kick.
LEMMA EscalateClimbs ==
  ASSUME NEW s \in State
  PROVE  /\ Escalate(s) \in Warning..Ban
         /\ s.level <= Escalate(s)
         /\ Escalate(s) <= s.level + 1
         /\ Escalate(s) = Ban => s.level = Ban \/ s.kicked
  <1>1. s.level \in 0..5 /\ s.kicked \in BOOLEAN
    BY DEF State
  <1>2. CASE s.level < Kick
    BY <1>1, <1>2 DEF Escalate
  <1>3. CASE s.level = Kick
    BY <1>1, <1>3 DEF Escalate
  <1>4. CASE s.level = Ban
    BY <1>1, <1>4 DEF Escalate
  <1>5. QED
    BY <1>1, <1>2, <1>3, <1>4

\* WarningLevel::decay, on the levels the job selects, steps down by one.
LEMMA DecaySteps ==
  ASSUME NEW l \in Warning..Kick
  PROVE  Decayed(l) \in NoWarning..LongTimeout /\ Decayed(l) = l - 1
  BY DEF Decayed

-----------------------------------------------------------------------------
(* Type correctness.                                                       *)

\* What the statements write is a row: an upserted one, no row, a row whose
\* level or kicked flag is updated, a row an hour later.
LEMMA RowWrites ==
  /\ NoRow \in Row
  /\ \A l \in Levels, k \in BOOLEAN :
       [level |-> l, kicked |-> k, since |-> 0, midnight |-> FALSE] \in Row
  /\ \A w \in Row : /\ \A l \in Levels : [w EXCEPT !.level = l] \in Row
                    /\ [w EXCEPT !.kicked = TRUE] \in Row
  /\ \A w \in Row : Aged(w) \in Row /\ Aged(w).level = w.level
  <1>1. 0 \in 0..DayLength
    BY WarningsAssumption DEF WarningsAssumption
  <1>2. ASSUME NEW w \in Row
        PROVE  /\ Aged(w) \in Row /\ Aged(w).level = w.level
               /\ \A l \in Levels : [w EXCEPT !.level = l] \in Row
               /\ [w EXCEPT !.kicked = TRUE] \in Row
    <2>1. w.since \in 0..DayLength /\ w.midnight \in BOOLEAN
      BY DEF Row
    <2> DEFINE s == IF w.since < DayLength THEN w.since + 1 ELSE w.since
               n == w.midnight \/ hour = DayLength - 1
    <2>2. s \in 0..DayLength /\ n \in BOOLEAN
      BY <2>1, WarningsAssumption DEF WarningsAssumption
    <2>3. Aged(w) = [w EXCEPT !.since = s, !.midnight = n]
      BY Zenon DEF Aged
    <2> HIDE DEF s, n
    <2>4. QED
      BY <2>2, <2>3 DEF Row
  <1>3. /\ NoRow \in Row
        /\ \A l \in Levels, k \in BOOLEAN :
             [level |-> l, kicked |-> k, since |-> 0, midnight |-> FALSE] \in Row
    BY <1>1 DEF NoRow, Row
  <1>4. QED
    BY <1>2, <1>3, Zenon

LEMMA TypeInit == Init => TypeOK
  BY WarningsAssumption
     DEF WarningsAssumption, Init, Started, TypeOK, Row, NoRow, State, Fresh, Level, Nobody

\* A task at rest holds nothing.
LEMMA RestTypes ==
  ASSUME TypeOK, NEW r \in Tasks, Rest(r)
  PROVE  /\ step' \in [Tasks -> {"idle", "upsert", "insert", "mark"}]
         /\ who' \in [Tasks -> Users \cup {Nobody}]
         /\ \A q \in Tasks : step'[q] # "idle" => who'[q] \in Users /\ new'[q] = Escalate(got'[q])
         /\ got' \in [Tasks -> State]
         /\ new' \in [Tasks -> Levels]
  BY DEF Rest, TypeOK, State, Fresh

LEMMA TypeStep == TypeOK /\ [Next]_vars => TypeOK'
  <1> SUFFICES ASSUME TypeOK, [Next]_vars PROVE TypeOK'
    OBVIOUS
  <1>1. ASSUME NEW r \in Tasks, NEW u \in Users, ReadWarning(r, u) PROVE TypeOK'
    <2>1. Stored(u) \in State
      BY DEF TypeOK, Stored, State, Row
    <2>2. Escalate(Stored(u)) \in Levels
      BY <2>1, EscalateClimbs
    <2>3. /\ step' \in [Tasks -> {"idle", "upsert", "insert", "mark"}]
          /\ who' \in [Tasks -> Users \cup {Nobody}]
          /\ got' \in [Tasks -> State]
          /\ new' \in [Tasks -> Levels]
      BY <1>1, <2>1, <2>2 DEF ReadWarning, TypeOK
    <2>4. \A q \in Tasks : step'[q] # "idle" => who'[q] \in Users /\ new'[q] = Escalate(got'[q])
      BY <1>1 DEF ReadWarning, TypeOK
    <2>5. QED
      BY <1>1, <2>3, <2>4 DEF ReadWarning, TypeOK, job, hist, Level
  <1>2. ASSUME NEW r \in Tasks, Upsert(r) PROVE TypeOK'
    <2>1. who[r] \in Users /\ new[r] = Escalate(got[r]) /\ got[r] \in State
      BY <1>2 DEF Upsert, TypeOK
    <2>2. new[r] \in Warning..Ban
      BY <2>1, EscalateClimbs
    <2>3. /\ row' \in [Users -> Row]
          /\ \A u \in Users : row'[u].level = NoWarning => row'[u] = NoRow
      <3>1. [level |-> new[r],
             kicked |-> IF row[who[r]] = NoRow THEN got[r].kicked ELSE row[who[r]].kicked,
             since |-> 0, midnight |-> FALSE] \in Row
        <4>1. (IF row[who[r]] = NoRow THEN got[r].kicked ELSE row[who[r]].kicked) \in BOOLEAN
          BY <2>1 DEF TypeOK, Row, State
        <4>2. QED
          BY <4>1, <2>2, RowWrites
      <3>2. QED
        BY <1>2, <2>1, <2>2, <3>1 DEF Upsert, TypeOK, Level
    <2>4. /\ step' \in [Tasks -> {"idle", "upsert", "insert", "mark"}]
          /\ \A q \in Tasks : step'[q] # "idle" => step[q] # "idle"
      BY <1>2 DEF Upsert, TypeOK
    <2>5. offences' \in [Users -> Nat]
      BY <1>2 DEF Upsert, TypeOK
    <2>6. QED
      BY <1>2, <2>3, <2>4, <2>5 DEF Upsert, TypeOK, job, Level
  <1>3. ASSUME NEW r \in Tasks, InsertViolation(r) PROVE TypeOK'
    <2>1. CASE new[r] = Kick
      BY <1>3, <2>1 DEF InsertViolation, TypeOK, job, hist, Level
    <2>2. CASE new[r] # Kick
      BY <1>3, <2>2, RestTypes DEF InsertViolation, TypeOK, job, hist, Level
    <2>3. QED
      BY <2>1, <2>2
  <1>4. ASSUME NEW r \in Tasks, MarkKicked(r) PROVE TypeOK'
    <2>1. who[r] \in Users /\ Rest(r)
      BY <1>4 DEF MarkKicked, TypeOK
    <2>2. CASE row[who[r]] = NoRow
      BY <1>4, <2>1, <2>2, RestTypes DEF MarkKicked, TypeOK, job, Level
    <2>3. CASE row[who[r]] # NoRow
      <3>1. /\ row' \in [Users -> Row] /\ marked' \subseteq Users
            /\ \A u \in Users : row'[u].level = NoWarning => row'[u] = NoRow
        <4>1. row[who[r]] \in Row /\ row[who[r]].level # NoWarning
          BY <2>1, <2>3 DEF TypeOK, Level
        <4>2. row' = [row EXCEPT ![who[r]] = [row[who[r]] EXCEPT !.kicked = TRUE]]
          BY <1>4, <2>3, Zenon DEF MarkKicked
        <4>3. [row[who[r]] EXCEPT !.kicked = TRUE] \in Row
          BY <4>1, RowWrites
        <4>4. [row[who[r]] EXCEPT !.kicked = TRUE].level # NoWarning
          BY <4>1 DEF Row
        <4>5. marked' \subseteq Users
          BY <1>4, <2>1, <2>3 DEF MarkKicked, TypeOK
        <4>6. QED
          BY <2>1, <4>2, <4>3, <4>4, <4>5 DEF TypeOK, Level
      <3>2. QED
        BY <1>4, <2>1, <3>1, RestTypes DEF MarkKicked, TypeOK, job, Level
    <2>4. QED
      BY <2>2, <2>3
  <1>5. ASSUME NEW r \in Tasks, RecordError(r) PROVE TypeOK'
    BY <1>5, RestTypes DEF RecordError, TypeOK, job, hist, Level
  <1>6. CASE DecaySelect
    BY <1>6 DEF DecaySelect, Eligible, TypeOK, tasks, hist, Level
  <1>7. ASSUME NEW u \in Users, DecayRow(u) PROVE TypeOK'
    <2>1. snap[u] \in Warning..Kick /\ Decayed(snap[u]) \in NoWarning..LongTimeout
      BY <1>7, DecaySteps DEF DecayRow, TypeOK
    <2>2. /\ row' \in [Users -> Row]
          /\ \A v \in Users : row'[v].level = NoWarning => row'[v] = NoRow
      <3>1. CASE row[u] = NoRow \/ Decayed(snap[u]) = NoWarning
        BY <1>7, <3>1, RowWrites DEF DecayRow, TypeOK, Level
      <3>2. CASE row[u] # NoRow /\ Decayed(snap[u]) # NoWarning
        <4>1. row' = [row EXCEPT ![u] = [row[u] EXCEPT !.level = Decayed(snap[u])]]
          BY <1>7, <3>2, Zenon DEF DecayRow
        <4>2. [row[u] EXCEPT !.level = Decayed(snap[u])] \in Row
          <5>1. row[u] \in Row /\ Decayed(snap[u]) \in Levels
            BY <2>1 DEF TypeOK
          <5>2. QED
            BY <5>1, RowWrites, Zenon
        <4>3. [row[u] EXCEPT !.level = Decayed(snap[u])].level # NoWarning
          BY <2>1, <3>2 DEF TypeOK, Row
        <4>4. QED
          BY <4>1, <4>2, <4>3 DEF TypeOK, Level
      <3>3. QED
        BY <3>1, <3>2
    <2>3. DOMAIN snap' \subseteq Users /\ \A v \in DOMAIN snap' : snap'[v] \in Warning..Kick
      BY <1>7 DEF DecayRow, Unsnap, TypeOK
    <2>4. QED
      BY <1>7, <2>2, <2>3 DEF DecayRow, TypeOK, tasks, hist, Level
  <1>8. CASE DecayError
    BY <1>8 DEF DecayError, Unsnap, TypeOK, tasks, hist, Level
  <1>9. ASSUME NEW u \in Users, Clear(u) PROVE TypeOK'
    BY <1>9, RowWrites DEF Clear, TypeOK, tasks, job, hist, Level
  <1>10. ASSUME NEW gone \in SUBSET Users, BulkClear(gone) PROVE TypeOK'
    BY <1>10, RowWrites DEF BulkClear, TypeOK, tasks, job, hist, Level
  <1>11. CASE Tick
    <2>1. hour' \in 0..DayLength - 1
      BY <1>11, WarningsAssumption DEF Tick, TypeOK, WarningsAssumption
    <2>4. /\ row' \in [Users -> Row]
          /\ \A u \in Users : row'[u].level = NoWarning => row'[u] = NoRow
      BY <1>11, RowWrites DEF Tick, TypeOK, Level
    <2>5. QED
      BY <1>11, <2>1, <2>4 DEF Tick, TypeOK, tasks, hist, Level
  <1>12. CASE UNCHANGED vars
    BY <1>12 DEF vars, TypeOK, tasks, job, hist, Level
  <1>13. QED
    BY <1>1, <1>2, <1>3, <1>4, <1>5, <1>6, <1>7, <1>8, <1>9, <1>10, <1>11, <1>12
       DEF Next, Record, DecayStep, Moderate

\* Rows, tasks and the decay snapshot keep their types.
THEOREM TypeCorrect == Spec => []TypeOK
  BY TypeInit, TypeStep, PTL DEF Spec

-----------------------------------------------------------------------------
(* What the two updates of an existing row change.                         *)

\* mark_kicked leaves every level alone and raises no flag but of users marked.
LEMMA MarkKeepsLevels ==
  ASSUME TypeOK, NEW r \in Tasks, MarkKicked(r)
  PROVE  \A u \in Users : /\ row'[u].level = row[u].level
                          /\ row'[u].kicked => row[u].kicked \/ u \in marked'
  <1>1. CASE row[who[r]] = NoRow
    BY <1>1 DEF MarkKicked
  <1>2. CASE row[who[r]] # NoRow
    <2>1. row' = [row EXCEPT ![who[r]] = [row[who[r]] EXCEPT !.kicked = TRUE]]
      BY <1>2, Zenon DEF MarkKicked
    <2>2. row \in [Users -> Row] /\ who[r] \in marked'
      BY <1>2 DEF TypeOK, MarkKicked
    <2>3. \A w \in Row : [w EXCEPT !.kicked = TRUE].level = w.level
      BY DEF Row
    <2>4. QED
      BY <2>1, <2>2, <2>3
  <1>3. QED
    BY <1>1, <1>2

\* A decayed row is gone, or stands one below the level selected; no other row
\* changes and no kicked flag is raised.
LEMMA DecayWrites ==
  ASSUME TypeOK, NEW u \in Users, DecayRow(u)
  PROVE  \A v \in Users : /\ row'[v].level \in {row[v].level, NoWarning, Decayed(snap[v])}
                          /\ v # u => row'[v] = row[v]
                          /\ row'[v].level = Ban => row[v].level = Ban
                          /\ row'[v].kicked => row[v].kicked
  <1>1. CASE row[u] = NoRow \/ Decayed(snap[u]) = NoWarning
    BY <1>1 DEF DecayRow, TypeOK, NoRow
  <1>2. CASE row[u] # NoRow /\ Decayed(snap[u]) # NoWarning
    <2>1. row' = [row EXCEPT ![u] = [row[u] EXCEPT !.level = Decayed(snap[u])]]
      BY <1>2, Zenon DEF DecayRow
    <2>2. /\ [row[u] EXCEPT !.level = Decayed(snap[u])].level = Decayed(snap[u])
          /\ [row[u] EXCEPT !.level = Decayed(snap[u])].kicked = row[u].kicked
      BY DEF TypeOK, Row
    <2>3. Decayed(snap[u]) \in NoWarning..LongTimeout
      BY DecaySteps DEF DecayRow, TypeOK
    <2>4. QED
      BY <2>1, <2>2, <2>3 DEF TypeOK
  <1>3. QED
    BY <1>1, <1>2

-----------------------------------------------------------------------------
(* Discipline is never ahead of offences.                                  *)

\* LevelEarned strengthened to what is inductive: the levels that are about to
\* be written back, a task's and the decay job's, are covered as well.
EarnedInv ==
    /\ LevelEarned
    /\ \A r \in Tasks : step[r] # "idle" => got[r].level <= offences[who[r]]
    /\ \A u \in DOMAIN snap : snap[u] <= offences[u]

LEMMA EarnedInit == Init => EarnedInv
  BY DEF Init, Started, EarnedInv, LevelEarned, Level, NoRow

LEMMA EarnedStep == TypeOK /\ TypeOK' /\ EarnedInv /\ [Next]_vars => EarnedInv'
  <1> SUFFICES ASSUME TypeOK, TypeOK', EarnedInv, [Next]_vars PROVE EarnedInv'
    OBVIOUS
  <1> DEFINE Grew(u) == offences[u] <= offences'[u]
  <1>0. /\ \A u \in Users : row[u].level \in Nat /\ row'[u].level \in Nat
        /\ \A u \in Users : offences[u] \in Nat /\ offences'[u] \in Nat
        /\ \A r \in Tasks : got[r].level \in Nat /\ new[r] \in Nat
        /\ \A u \in DOMAIN snap : snap[u] \in Warning..Kick /\ u \in Users
    <2>1. row \in [Users -> Row] /\ row' \in [Users -> Row]
      BY DEF TypeOK
    <2>2. \A w \in Row : w.level \in Nat
      BY DEF Row
    <2>3. \A r \in Tasks : got[r].level \in Nat /\ new[r] \in Nat
      BY DEF TypeOK, State
    <2>4. QED
      BY <2>1, <2>2, <2>3 DEF TypeOK
  <1>1. ASSUME NEW r \in Tasks, NEW u \in Users, ReadWarning(r, u) PROVE EarnedInv'
    <2>1. got'[r].level = row[u].level /\ who'[r] = u
      BY <1>1 DEF ReadWarning, Stored, TypeOK
    <2>2. \A q \in Tasks : q # r => got'[q] = got[q] /\ who'[q] = who[q] /\ step'[q] = step[q]
      BY <1>1 DEF ReadWarning, TypeOK
    <2>3. UNCHANGED <<row, offences, snap>>
      BY <1>1 DEF ReadWarning, hist, job
    <2>4. QED
      BY <2>1, <2>2, <2>3 DEF EarnedInv, LevelEarned, Level
  <1>2. ASSUME NEW r \in Tasks, Upsert(r) PROVE EarnedInv'
    <2>1. /\ who[r] \in Users /\ new[r] = Escalate(got[r]) /\ got[r] \in State
          /\ got[r].level <= offences[who[r]]
      BY <1>2 DEF Upsert, TypeOK, EarnedInv
    <2>2. new[r] <= offences[who[r]] + 1
      BY <1>0, <2>1, EscalateClimbs
    <2>3. \A v \in Users : offences'[v] = IF v = who[r] THEN offences[v] + 1 ELSE offences[v]
      BY <1>2, <2>1 DEF Upsert, TypeOK
    <2>4. \A v \in Users : row'[v].level = IF v = who[r] THEN new[r] ELSE row[v].level
      BY <1>2, <2>1 DEF Upsert, TypeOK
    <2>5. LevelEarned'
      BY <1>0, <2>2, <2>3, <2>4 DEF EarnedInv, LevelEarned, Level
    <2>6. UNCHANGED <<got, who, snap>> /\ \A q \in Tasks : step'[q] # "idle" => step[q] # "idle"
      BY <1>2 DEF Upsert, TypeOK, job
    <2>7. \A q \in Tasks : step'[q] # "idle" => got'[q].level <= offences'[who'[q]]
      <3> SUFFICES ASSUME NEW q \in Tasks, step'[q] # "idle"
                   PROVE  got'[q].level <= offences'[who'[q]]
        OBVIOUS
      <3>1. who[q] \in Users /\ got[q].level <= offences[who[q]]
        BY <2>6 DEF TypeOK, EarnedInv
      <3>2. QED
        BY <1>0, <2>3, <2>6, <3>1
    <2>8. \A v \in DOMAIN snap' : snap'[v] <= offences'[v]
      BY <1>0, <2>3, <2>6 DEF EarnedInv
    <2>9. QED
      BY <2>5, <2>7, <2>8 DEF EarnedInv
  <1>3. ASSUME NEW r \in Tasks, Rest(r), UNCHANGED <<offences, snap>>, LevelEarned'
        PROVE  EarnedInv'
    <2>1. \A q \in Tasks : step'[q] # "idle" => /\ step[q] # "idle" /\ got'[q] = got[q]
                                                /\ who'[q] = who[q]
      BY <1>3 DEF Rest, TypeOK
    <2>2. QED
      BY <1>3, <2>1 DEF EarnedInv
  <1>4. ASSUME NEW r \in Tasks, InsertViolation(r) PROVE EarnedInv'
    <2>1. LevelEarned' /\ UNCHANGED <<offences, snap>>
      BY <1>4 DEF InsertViolation, hist, job, EarnedInv, LevelEarned, Level
    <2>2. CASE new[r] = Kick
      BY <1>4, <2>1, <2>2 DEF InsertViolation, EarnedInv, TypeOK
    <2>3. CASE new[r] # Kick
      BY <1>3, <1>4, <2>1, <2>3 DEF InsertViolation
    <2>4. QED
      BY <2>2, <2>3
  <1>5. ASSUME NEW r \in Tasks, MarkKicked(r) PROVE EarnedInv'
    <2>1. \A u \in Users : row'[u].level = row[u].level
      BY <1>5, MarkKeepsLevels
    <2>2. Rest(r) /\ UNCHANGED <<offences, snap>>
      BY <1>5 DEF MarkKicked, job
    <2>3. LevelEarned'
      BY <2>1, <2>2 DEF EarnedInv, LevelEarned, Level
    <2>4. QED
      BY <1>3, <2>2, <2>3
  <1>6. ASSUME NEW r \in Tasks, RecordError(r) PROVE EarnedInv'
    BY <1>3, <1>6 DEF RecordError, hist, job, EarnedInv, LevelEarned, Level
  <1>7. CASE DecaySelect
    <2>1. UNCHANGED <<row, offences, step, got, who>>
      BY <1>7 DEF DecaySelect, hist, tasks
    <2>2. \A u \in DOMAIN snap' : u \in Users /\ snap'[u] = row[u].level
      BY <1>7 DEF DecaySelect, Eligible
    <2>3. QED
      BY <2>1, <2>2 DEF EarnedInv, LevelEarned, Level
  <1>8. ASSUME NEW u \in Users, DecayRow(u) PROVE EarnedInv'
    <2>1. Decayed(snap[u]) <= offences[u] /\ Decayed(snap[u]) \in Nat
      BY <1>0, <1>8, DecaySteps DEF DecayRow, EarnedInv
    <2>2. \A v \in Users : /\ row'[v].level \in {row[v].level, NoWarning, Decayed(snap[v])}
                           /\ v # u => row'[v] = row[v]
      BY <1>8, DecayWrites
    <2>3. UNCHANGED <<offences, step, got, who>>
      BY <1>8 DEF DecayRow, hist, tasks
    <2>4. LevelEarned'
      BY <1>0, <2>1, <2>2, <2>3 DEF EarnedInv, LevelEarned, Level
    <2>5. \A v \in DOMAIN snap' : v \in DOMAIN snap /\ snap'[v] = snap[v]
      BY <1>8 DEF DecayRow, Unsnap
    <2>6. QED
      BY <2>3, <2>4, <2>5 DEF EarnedInv
  <1>9. CASE DecayError
    <2>1. UNCHANGED <<row, offences, step, got, who>> /\ DOMAIN snap' = {}
      BY <1>9 DEF DecayError, Unsnap, hist, tasks
    <2>2. QED
      BY <2>1 DEF EarnedInv, LevelEarned, Level
  <1>10. ASSUME UNCHANGED <<offences, step, got, who, snap>>,
                \A u \in Users : row'[u].level \in {row[u].level, NoWarning}
         PROVE  EarnedInv'
    BY <1>0, <1>10 DEF EarnedInv, LevelEarned, Level
  <1>11. ASSUME NEW u \in Users, Clear(u) PROVE EarnedInv'
    BY <1>10, <1>11 DEF Clear, TypeOK, NoRow, hist, tasks, job
  <1>12. ASSUME NEW gone \in SUBSET Users, BulkClear(gone) PROVE EarnedInv'
    BY <1>10, <1>12 DEF BulkClear, NoRow, hist, tasks, job
  <1>13. CASE Tick
    <2>1. \A u \in Users : row[u] \in Row
      BY DEF TypeOK
    <2>2. \A u \in Users : row'[u].level = row[u].level
      BY <1>13, <2>1, RowWrites DEF Tick
    <2>3. QED
      BY <1>10, <1>13, <2>2 DEF Tick, hist, tasks
  <1>14. CASE UNCHANGED vars
    BY <1>10, <1>14 DEF vars, hist, tasks, job
  <1>15. QED
    BY <1>1, <1>2, <1>4, <1>5, <1>6, <1>7, <1>8, <1>9, <1>11, <1>12, <1>13, <1>14
       DEF Next, Record, DecayStep, Moderate

\* No interleaving of records, decays, marks and clears puts a user higher on
\* the ladder than the violations recorded against them.
THEOREM LevelEarnedEver == Spec => []LevelEarned
  <1>1. EarnedInv => LevelEarned
    BY DEF EarnedInv
  <1>2. QED
    BY <1>1, TypeInit, TypeStep, EarnedInit, EarnedStep, PTL DEF Spec

-----------------------------------------------------------------------------
(* Nobody is banned who was not kicked first.                              *)

\* BanAfterKick strengthened to what is inductive: kicked flags, in rows and in
\* the state that tasks have read, belong to users marked as kicked, and so
\* does every Ban read.
KickedInv ==
    /\ BanAfterKick
    /\ \A u \in Users : row[u].kicked => u \in marked
    /\ \A r \in Tasks : step[r] # "idle" =>
         (got[r].kicked \/ got[r].level = Ban => who[r] \in marked)

LEMMA KickedInit == Init => KickedInv
  BY DEF Init, Started, KickedInv, BanAfterKick, Level, NoRow

\* A step keeps the invariant when, marks only growing, every Ban and kicked
\* flag it leaves in the table was there before or is of a user marked, and
\* tasks hold what they held or rest.
LEMMA KickedFrame ==
  ASSUME KickedInv, marked \subseteq marked',
         \A u \in Users : row'[u].level = Ban => row[u].level = Ban \/ u \in marked',
         \A u \in Users : row'[u].kicked => row[u].kicked \/ u \in marked',
         \A r \in Tasks : step'[r] # "idle" =>
           step[r] # "idle" /\ got'[r] = got[r] /\ who'[r] = who[r]
  PROVE  KickedInv'
  BY DEF KickedInv, BanAfterKick, Level

LEMMA KickedStep == TypeOK /\ KickedInv /\ [Next]_vars => KickedInv'
  <1> SUFFICES ASSUME TypeOK, KickedInv, [Next]_vars PROVE KickedInv'
    OBVIOUS
  <1> DEFINE TasksKept == \A r \in Tasks : step'[r] # "idle" =>
                            step[r] # "idle" /\ got'[r] = got[r] /\ who'[r] = who[r]
  <1>0. ASSUME NEW r \in Tasks, Rest(r) PROVE TasksKept
    BY <1>0 DEF Rest, TypeOK
  <1>1. ASSUME NEW r \in Tasks, NEW u \in Users, ReadWarning(r, u) PROVE KickedInv'
    <2>1. got'[r].level = row[u].level /\ got'[r].kicked = row[u].kicked /\ who'[r] = u
      BY <1>1 DEF ReadWarning, Stored, TypeOK
    <2>2. \A q \in Tasks : q # r => got'[q] = got[q] /\ who'[q] = who[q] /\ step'[q] = step[q]
      BY <1>1 DEF ReadWarning, TypeOK
    <2>3. UNCHANGED <<row, marked>>
      BY <1>1 DEF ReadWarning, hist
    <2>4. QED
      BY <2>1, <2>2, <2>3 DEF KickedInv, BanAfterKick, Level
  <1>2. ASSUME NEW r \in Tasks, Upsert(r) PROVE KickedInv'
    <2>1. /\ who[r] \in Users /\ new[r] = Escalate(got[r]) /\ got[r] \in State
          /\ got[r].kicked \/ got[r].level = Ban => who[r] \in marked
      BY <1>2 DEF Upsert, TypeOK, KickedInv
    <2>2. new[r] = Ban => who[r] \in marked
      BY <2>1, EscalateClimbs
    <2>3. TasksKept /\ UNCHANGED marked
      BY <1>2 DEF Upsert, TypeOK
    <2>4. \A v \in Users : v # who[r] => row'[v] = row[v]
      BY <1>2 DEF Upsert, TypeOK
    <2>5. /\ row'[who[r]].level = new[r]
          /\ row'[who[r]].kicked => got[r].kicked \/ row[who[r]].kicked
      BY <1>2, <2>1 DEF Upsert, TypeOK
    <2>6. QED
      BY <2>1, <2>2, <2>3, <2>4, <2>5, KickedFrame
  <1>3. ASSUME NEW r \in Tasks, InsertViolation(r) PROVE KickedInv'
    <2>1. UNCHANGED <<row, marked>> /\ TasksKept
      BY <1>0, <1>3 DEF InsertViolation, hist, TypeOK
    <2>2. QED
      BY <2>1, KickedFrame
  <1>4. ASSUME NEW r \in Tasks, MarkKicked(r) PROVE KickedInv'
    <2>1. marked \subseteq marked' /\ TasksKept
      BY <1>0, <1>4 DEF MarkKicked
    <2>2. QED
      BY <1>4, <2>1, MarkKeepsLevels, KickedFrame
  <1>5. ASSUME NEW r \in Tasks, RecordError(r) PROVE KickedInv'
    BY <1>0, <1>5, KickedFrame DEF RecordError, hist
  <1>6. CASE DecaySelect
    BY <1>6, KickedFrame DEF DecaySelect, hist, tasks
  <1>7. ASSUME NEW u \in Users, DecayRow(u) PROVE KickedInv'
    BY <1>7, DecayWrites, KickedFrame DEF DecayRow, hist, tasks
  <1>8. CASE DecayError
    BY <1>8, KickedFrame DEF DecayError, hist, tasks
  <1>9. ASSUME NEW u \in Users, Clear(u) PROVE KickedInv'
    <2>1. \A v \in Users : row'[v] \in {row[v], NoRow}
      BY <1>9 DEF Clear, TypeOK
    <2>2. QED
      BY <1>9, <2>1, KickedFrame DEF Clear, NoRow, hist, tasks
  <1>10. ASSUME NEW gone \in SUBSET Users, BulkClear(gone) PROVE KickedInv'
    <2>1. \A v \in Users : row'[v] \in {row[v], NoRow}
      BY <1>10 DEF BulkClear
    <2>2. QED
      BY <1>10, <2>1, KickedFrame DEF BulkClear, NoRow, hist, tasks
  <1>11. CASE Tick
    <2>1. \A w \in Row : Aged(w).level = w.level /\ Aged(w).kicked = w.kicked
      BY DEF Aged, Row
    <2>2. \A v \in Users : row'[v].level = row[v].level /\ row'[v].kicked = row[v].kicked
      BY <1>11, <2>1 DEF Tick, TypeOK
    <2>3. QED
      BY <1>11, <2>2, KickedFrame DEF Tick, hist, tasks
  <1>12. CASE UNCHANGED vars
    BY <1>12, KickedFrame DEF vars, hist, tasks
  <1>13. QED
    BY <1>1, <1>2, <1>3, <1>4, <1>5, <1>6, <1>7, <1>8, <1>9, <1>10, <1>11, <1>12
       DEF Next, Record, DecayStep, Moderate

\* Whoever stands at Ban has been marked as kicked before, whatever stale state
\* a record escalates from and whatever the decay job and moderators do.
THEOREM BanAfterKickEver == Spec => []BanAfterKick
  <1>1. KickedInv => BanAfterKick
    BY DEF KickedInv
  <1>2. QED
    BY <1>1, TypeInit, TypeStep, KickedInit, KickedStep, PTL DEF Spec
-----------------------------------------------------------------------------
(* Levels fall for a known reason.                                         *)

\* The two statements that update levels: an upsert from a given read does not
\* lower the level, a decay from a given selection lowers it by one.
LEMMA FreshWrites ==
  ASSUME TypeOK
  PROVE  /\ \A r \in Tasks : Upsert(r) => \A u \in Users :
              row'[u].level < row[u].level => r \in InFlight(u) /\ got[r] # Stored(u)
         /\ \A u, v \in Users : DecayRow(u) /\ row'[v].level < row[v].level =>
              /\ v = u
              /\ \/ row'[v].level = row[v].level - 1 /\ row[v].level # Ban
                 \/ snap[v] # row[v].level
  <1>0. \A u \in Users : row[u] \in Row /\ row[u].level \in 0..5 /\ Stored(u) \in State
    BY DEF TypeOK, Row, Stored, State
  <1>1. ASSUME NEW r \in Tasks, Upsert(r), NEW u \in Users, row'[u].level < row[u].level
        PROVE  r \in InFlight(u) /\ got[r] # Stored(u)
    <2>1. \A v \in Users : v # who[r] => row'[v] = row[v]
      BY <1>1 DEF Upsert, TypeOK
    <2>2. u = who[r] /\ r \in InFlight(u)
      BY <1>0, <1>1, <2>1 DEF Upsert, InFlight
    <2>3. row'[u].level = Escalate(got[r])
      BY <1>1, <2>2 DEF Upsert, TypeOK
    <2>4. ASSUME got[r] = Stored(u) PROVE FALSE
      <3>1. Stored(u).level <= Escalate(Stored(u)) /\ Escalate(Stored(u)) \in 1..5
        BY <1>0, EscalateClimbs
      <3>2. Stored(u).level = row[u].level
        BY DEF Stored
      <3>3. QED
        BY <1>0, <1>1, <2>3, <2>4, <3>1, <3>2
    <2>5. QED
      BY <2>2, <2>4
  <1>2. ASSUME NEW u \in Users, NEW v \in Users, DecayRow(u), row'[v].level < row[v].level,
               snap[v] = row[v].level
        PROVE  v = u /\ row'[v].level = row[v].level - 1 /\ row[v].level # Ban
    <2>1. /\ row'[v].level \in {row[v].level, NoWarning, Decayed(snap[v])}
          /\ v # u => row'[v] = row[v]
      BY <1>2, DecayWrites
    <2>2. v = u
      BY <1>0, <1>2, <2>1
    <2>3. snap[u] \in Warning..Kick
      BY <1>2 DEF DecayRow, TypeOK
    <2>4. Decayed(snap[u]) = snap[u] - 1
      BY <2>3, DecaySteps
    <2>5. row'[u].level = Decayed(snap[u])
      <3>1. row[u] # NoRow
        BY <1>2, <2>2, <2>3 DEF NoRow
      <3>2. CASE Decayed(snap[u]) = NoWarning
        BY <1>2, <3>2 DEF DecayRow, TypeOK, NoRow
      <3>3. CASE Decayed(snap[u]) # NoWarning
        <4>1. row' = [row EXCEPT ![u] = [row[u] EXCEPT !.level = Decayed(snap[u])]]
          BY <1>2, <3>1, <3>3, Zenon DEF DecayRow
        <4>2. [row[u] EXCEPT !.level = Decayed(snap[u])].level = Decayed(snap[u])
          BY <1>0 DEF Row
        <4>3. QED
          BY <4>1, <4>2 DEF TypeOK
      <3>4. QED
        BY <3>2, <3>3
    <2>6. QED
      BY <1>2, <2>2, <2>3, <2>4, <2>5
  <1>3. ASSUME NEW u \in Users, NEW v \in Users, DecayRow(u), row'[v].level < row[v].level
        PROVE  v = u
    BY <1>0, <1>3, DecayWrites
  <1>4. QED
    BY <1>1, <1>2, <1>3

\* Whatever interleaves, discipline of the user is undone only by a moderator, by
\* one step of decay below Ban, or by a write that rests on a stale read.
THEOREM LevelsFallForAReason == Spec => OnlyStaleReadsLower
  <1> DEFINE Falls(u) == \/ Moderate
                         \/ DecayRow(u) /\ Level(u)' = Level(u) - 1 /\ Level(u) # Ban
                         \/ DecayRow(u) /\ snap[u] # Level(u)
                         \/ \E r \in InFlight(u) : got[r] # Stored(u)
             Explained == \A u \in Users : Level(u)' < Level(u) => Falls(u)
  <1>1. TypeOK /\ [Next]_vars => [Explained]_vars
    <2> SUFFICES ASSUME TypeOK, Next, NEW u \in Users, row'[u].level < row[u].level
                 PROVE  Falls(u)
      BY DEF Level
    <2>0. row[u].level \in 0..5
      BY DEF TypeOK, Row
    <2>1. ASSUME NEW r \in Tasks, Upsert(r) PROVE Falls(u)
      BY <2>1, FreshWrites
    <2>2. ASSUME NEW r \in Tasks, MarkKicked(r) PROVE FALSE
      BY <2>0, <2>2, MarkKeepsLevels
    <2>3. ASSUME NEW v \in Users, DecayRow(v) PROVE Falls(u)
      BY <2>3, FreshWrites DEF Level
    <2>4. CASE Moderate
      BY <2>4
    <2>5. CASE Tick
      <3>1. row[u] \in Row
        BY DEF TypeOK
      <3>2. row'[u] = IF row[u] = NoRow THEN NoRow ELSE Aged(row[u])
        BY <2>5 DEF Tick
      <3>3. QED
        BY <2>0, <3>1, <3>2, RowWrites
    <2>6. CASE UNCHANGED row
      BY <2>0, <2>6
    <2>7. QED
      BY <2>1, <2>2, <2>3, <2>4, <2>5, <2>6
         DEF Next, Record, DecayStep, ReadWarning, InsertViolation, RecordError,
             DecaySelect, DecayError, hist
  <1>2. QED
    BY <1>1, TypeCorrect, PTL DEF Spec, OnlyStaleReadsLower

-----------------------------------------------------------------------------
(* Actions, and sequences of them.                                         *)

\* The kinds of action differ, and an action names what it is about.
LEMMA ActionKinds ==
  /\ \A d, n : Delete(d) = Delete(n) => d = n
  /\ \A d, n : Delete(d) # Notify(n)
  /\ \A d, u : Delete(d) # Summary(u)
  /\ \A d, u, l : Delete(d) # Sanction(u, l)
  /\ \A d : Delete(d) # Nothing
  <1>1. \A d : Delete(d).kind = "delete" /\ Delete(d).of = d
    BY DEF Delete
  <1>2. /\ \A n : Notify(n).kind = "notify" /\ Summary(n).kind = "summary"
        /\ \A u, l : Sanction(u, l).kind = "sanction"
        /\ Nothing.kind = "none"
    BY DEF Notify, Summary, Sanction, Nothing
  <1>3. ASSUME NEW d, NEW n, Delete(d) = Delete(n) PROVE d = n
    BY <1>1, <1>3
  <1>4. "delete" \notin {"notify", "summary", "sanction", "none"}
    OBVIOUS
  <1>5. ASSUME NEW d, NEW a, a.kind \in {"notify", "summary", "sanction", "none"}
        PROVE  Delete(d) # a
    BY <1>1, <1>4, <1>5
  <1>6. QED
    BY <1>2, <1>3, <1>5

\* The actions there are.
LEMMA ActionTypes ==
  /\ \A d \in Verdicts : Delete(d) \in Actions /\ Notify(d) \in Actions
  /\ \A u \in Users : Summary(u) \in Actions
  /\ \A u \in Users, l \in ShortTimeout..Ban : Sanction(u, l) \in Actions
  <1>1. \A u \in Users, l \in ShortTimeout..Ban : Sanction(u, l) \in Sanctions
    BY DEF Sanctions
  <1>2. QED
    BY <1>1, Zenon DEF Actions

\* queue_warning_action: at most one action, the sanction of that level.
LEMMA WarningActionTypes ==
  ASSUME NEW u \in Users, NEW l \in Levels
  PROVE  /\ WarningAction(u, l) \in Seq(Sanctions)
         /\ WarningAction(u, l) \in Seq(Actions)
         /\ l >= ShortTimeout => WarningAction(u, l) = <<Sanction(u, l)>>
         /\ l < ShortTimeout => WarningAction(u, l) = <<>>
  <1>1. CASE l >= ShortTimeout
    <2>1. Sanction(u, l) \in Sanctions /\ Sanction(u, l) \in Actions
      <3>1. l \in ShortTimeout..Ban
        BY <1>1
      <3>2. QED
        BY <3>1, ActionTypes DEF Sanctions
    <2>2. WarningAction(u, l) = <<Sanction(u, l)>>
      BY <1>1 DEF WarningAction
    <2>3. \A S : \A s \in S : <<s>> \in Seq(S)
      OBVIOUS
    <2>4. <<Sanction(u, l)>> \in Seq(Sanctions) /\ <<Sanction(u, l)>> \in Seq(Actions)
      BY <2>1, <2>3
    <2>5. QED
      BY <1>1, <2>2, <2>4
  <1>2. CASE ~ (l >= ShortTimeout)
    <2>1. WarningAction(u, l) = <<>>
      BY <1>2 DEF WarningAction
    <2>2. QED
      BY <1>2, <2>1, EmptySeq
  <1>3. QED
    BY <1>1, <1>2

\* What a concatenation holds.
LEMMA PushedSet ==
  ASSUME NEW S, NEW s \in Seq(S), NEW as \in Seq(S)
  PROVE  /\ s \o as \in Seq(S)
         /\ ToSet(s \o as) = ToSet(s) \cup ToSet(as)
  <1> DEFINE r == s \o as
             n == Len(s)
             k == Len(as)
  <1>1. n \in Nat /\ k \in Nat
    BY LenProperties
  <1>2. r \in Seq(S) /\ Len(r) = n + k
    BY ConcatProperties
  <1>3. \A i \in 1..n + k : r[i] = IF i <= n THEN s[i] ELSE as[i - n]
    BY ConcatProperties
  <1>4. DOMAIN s = 1..n /\ DOMAIN as = 1..k
    BY LenProperties
  <1> HIDE DEF r, n, k
  <1>5. DOMAIN r = 1..n + k
    BY <1>2, LenProperties
  <1>6. ASSUME NEW i \in 1..n PROVE i \in 1..n + k /\ r[i] = s[i]
    <2>1. i \in 1..n + k
      BY <1>1
    <2>2. i <= n
      BY <1>1
    <2>3. r[i] = IF i <= n THEN s[i] ELSE as[i - n]
      BY <1>3, <2>1
    <2>4. QED
      BY <2>1, <2>2, <2>3
  <1>7. ASSUME NEW j \in 1..k PROVE n + j \in 1..n + k /\ r[n + j] = as[j]
    <2>1. n + j \in 1..n + k
      BY <1>1
    <2>2. ~ (n + j <= n) /\ (n + j) - n = j
      BY <1>1
    <2>3. r[n + j] = IF n + j <= n THEN s[n + j] ELSE as[(n + j) - n]
      BY <1>3, <2>1
    <2>4. QED
      BY <2>1, <2>2, <2>3
  <1>8. ASSUME NEW i \in 1..n + k, i \notin 1..n
        PROVE  \E j \in 1..k : i = n + j /\ r[i] = as[j]
    <2>1. i - n \in 1..k
      BY <1>1, <1>8
    <2>2. i = n + (i - n)
      BY <1>1
    <2>3. r[i] = as[i - n]
      BY <1>7, <2>1, <2>2
    <2>4. QED
      BY <2>1, <2>2, <2>3
  <1>9. ToSet(r) = ToSet(s) \cup ToSet(as)
    <2>1. ToSet(r) \subseteq ToSet(s) \cup ToSet(as)
      BY <1>4, <1>5, <1>6, <1>8 DEF ToSet
    <2>2. ToSet(s) \subseteq ToSet(r)
      BY <1>4, <1>5, <1>6 DEF ToSet
    <2>3. ToSet(as) \subseteq ToSet(r)
      BY <1>4, <1>5, <1>7 DEF ToSet
    <2>4. QED
      BY <2>1, <2>2, <2>3
  <1>10. QED
    BY <1>2, <1>9 DEF r

LEMMA AppendedSet ==
  ASSUME NEW S, NEW s \in Seq(S), NEW e \in S
  PROVE  ToSet(Append(s, e)) = ToSet(s) \cup {e}
  <1>1. <<e>> \in Seq(S) /\ ToSet(<<e>>) = {e} /\ Append(s, e) = s \o <<e>>
    BY DEF ToSet
  <1>2. ToSet(s \o <<e>>) = ToSet(s) \cup ToSet(<<e>>)
    BY <1>1, PushedSet
  <1>3. QED
    BY <1>1, <1>2

\* What is left of a sequence when its head is taken.
LEMMA TakenSet ==
  ASSUME NEW S, NEW s \in Seq(S), s # <<>>
  PROVE  /\ Tail(s) \in Seq(S) /\ Head(s) \in S
         /\ ToSet(s) = {Head(s)} \cup ToSet(Tail(s))
         /\ DOMAIN s \subseteq Nat \ {0} /\ 1 \in DOMAIN s /\ s[1] = Head(s)
         /\ \A i \in DOMAIN Tail(s) : i \in Nat /\ i + 1 \in DOMAIN s /\ Tail(s)[i] = s[i + 1]
         /\ \A i \in DOMAIN s : i # 1 => i - 1 \in DOMAIN Tail(s)
  <1>1. /\ Head(s) \in S /\ Tail(s) \in Seq(S) /\ Len(Tail(s)) = Len(s) - 1
        /\ \A i \in 1..Len(Tail(s)) : Tail(s)[i] = s[i + 1]
    BY HeadTailProperties
  <1>2. /\ Len(s) \in Nat \ {0} /\ DOMAIN s = 1..Len(s)
        /\ DOMAIN Tail(s) = 1..Len(s) - 1 /\ Head(s) = s[1]
    BY <1>1, LenProperties, EmptySeq
  <1>3. 1 \in DOMAIN s
    BY <1>2
  <1>4. \A i \in DOMAIN Tail(s) : i + 1 \in DOMAIN s /\ Tail(s)[i] = s[i + 1]
    BY <1>1, <1>2
  <1>5. \A i \in DOMAIN s : i # 1 => i - 1 \in DOMAIN Tail(s) /\ (i - 1) + 1 = i
    BY <1>2
  <1>6. ToSet(s) \subseteq {Head(s)} \cup ToSet(Tail(s))
    <2> SUFFICES ASSUME NEW i \in DOMAIN s, i # 1 PROVE s[i] \in ToSet(Tail(s))
      BY <1>2 DEF ToSet
    <2>1. i - 1 \in DOMAIN Tail(s) /\ (i - 1) + 1 = i
      BY <1>5
    <2>2. Tail(s)[i - 1] = s[i]
      BY <1>4, <2>1
    <2>3. QED
      BY <2>1, <2>2 DEF ToSet
  <1>7. {Head(s)} \cup ToSet(Tail(s)) \subseteq ToSet(s)
    <2>1. Head(s) \in ToSet(s)
      BY <1>2, <1>3 DEF ToSet
    <2>2. ToSet(Tail(s)) \subseteq ToSet(s)
      BY <1>4 DEF ToSet
    <2>3. QED
      BY <2>1, <2>2
  <1>8. QED
    BY <1>1, <1>2, <1>3, <1>4, <1>5, <1>6, <1>7

-----------------------------------------------------------------------------
(* Type correctness.                                                       *)

\* What the constants are.
LEMMA Given ==
  /\ \A d \in Verdicts : Offender(d) \in Users
  /\ StartRows \subseteq {w \in Row : w.level = NoWarning => w = NoRow}
  <1>1. /\ About \in [Verdicts -> Messages] /\ Author \in [Messages -> Users]
        /\ StartRows \subseteq {w \in Row : w.level = NoWarning => w = NoRow}
    BY EnforcementAssumption, Zenon DEF EnforcementAssumption
  <1>2. QED
    BY <1>1 DEF Offender

\* Every step leaves the warning system alone or is a step of it.
LEMMA EnforcementStep ==
  ASSUME ETypeOK, [ENext]_evars
  PROVE  [Next]_vars
  <1>1. ASSUME NEW t \in Tasks, Record1(t) PROVE Next
    <2>1. Offender(cur[t]) \in Users
      BY <1>1, Given DEF Record1, ETypeOK
    <2>2. QED
      BY <1>1, <2>1 DEF Record1, Next, Record
  <1>2. ASSUME NEW t \in Tasks, Record2(t) \/ Mark(t) \/ Abort(t) PROVE [Next]_vars
    BY <1>2 DEF Record2, Mark, Abort, Next, Record
  <1>3. ASSUME NEW t \in Tasks, NEW d \in Verdicts, Screen(t, d) \/ QueueDelete(t, d)
        PROVE  UNCHANGED vars
    BY <1>3 DEF Screen, QueueDelete
  <1>4. ASSUME NEW t \in Tasks, NEW verdicts \in SUBSET Verdicts, Analyse(t, verdicts)
        PROVE  UNCHANGED vars
    BY <1>4 DEF Analyse
  <1>5. ASSUME NEW t \in Tasks, NEW u \in Users, Tell(t, u) PROVE UNCHANGED vars
    BY <1>5 DEF Tell
  <1>6. ASSUME NEW t \in Tasks, PushNext(t) \/ Pop(t) \/ Execute(t) \/ Finish(t)
        PROVE  UNCHANGED vars
    BY <1>6 DEF PushNext, Pop, Execute, Finish
  <1>7. CASE UNCHANGED evars
    BY <1>7 DEF evars
  <1>8. QED
    BY <1>1, <1>2, <1>3, <1>4, <1>5, <1>6, <1>7 DEF ENext, Act

\* The maps from users to levels that a flush keeps.
LevelMaps == UNION {[us -> Levels] : us \in SUBSET Users}

\* The highest level per user after another verdict: no user's level falls.
LEMMA HigherKeeps ==
  ASSUME NEW levels \in LevelMaps, NEW u \in Users, NEW l \in Levels
  PROVE  /\ Higher(levels, u, l) \in LevelMaps
         /\ DOMAIN Higher(levels, u, l) = DOMAIN levels \cup {u}
         /\ Higher(levels, u, l)[u] >= l
         /\ \A v \in DOMAIN levels : Higher(levels, u, l)[v] >= levels[v]
  <1>1. DOMAIN levels \subseteq Users /\ \A v \in DOMAIN levels : levels[v] \in Levels
    BY DEF LevelMaps
  <1>2. /\ DOMAIN Higher(levels, u, l) = DOMAIN levels \cup {u}
        /\ Higher(levels, u, l) = [v \in DOMAIN levels \cup {u} |-> Higher(levels, u, l)[v]]
    BY DEF Higher
  <1>3. \A v \in DOMAIN levels : v # u => Higher(levels, u, l)[v] = levels[v]
    BY DEF Higher
  <1>4. Higher(levels, u, l)[u] = IF u \in DOMAIN levels /\ levels[u] > l THEN levels[u] ELSE l
    BY DEF Higher
  <1>5. /\ Higher(levels, u, l)[u] \in Levels /\ Higher(levels, u, l)[u] >= l
        /\ u \in DOMAIN levels => Higher(levels, u, l)[u] >= levels[u]
    BY <1>1, <1>4
  <1> DEFINE h == Higher(levels, u, l)
  <1> HIDE DEF h
  <1>6. \A v \in DOMAIN levels \cup {u} : h[v] \in Levels
    BY <1>1, <1>3, <1>5 DEF h
  <1>7. h \in [DOMAIN levels \cup {u} -> Levels] /\ DOMAIN levels \cup {u} \in SUBSET Users
    BY <1>1, <1>2, <1>6 DEF h
  <1>8. h \in LevelMaps
    BY <1>7 DEF LevelMaps
  <1>9. \A v \in DOMAIN levels : h[v] >= levels[v]
    BY <1>1, <1>3, <1>5 DEF h
  <1>10. QED
    BY <1>2, <1>5, <1>8, <1>9 DEF h

LEMMA NoUsersTypes == NoUsers \in LevelMaps /\ DOMAIN NoUsers = {}
  <1>1. NoUsers \in [{} -> Levels] /\ {} \in SUBSET Users /\ DOMAIN NoUsers = {}
    BY DEF NoUsers
  <1>2. QED
    BY <1>1 DEF LevelMaps

LEMMA ETypeInit == EInit => ETypeOK
  <1> SUFFICES ASSUME EInit PROVE ETypeOK
    OBVIOUS
  <1>1. TypeOK
    <2>1. row \in [Users -> Row] /\ \A u \in Users : Level(u) = NoWarning => row[u] = NoRow
      <3>1. \A w \in StartRows : w \in Row /\ (w.level = NoWarning => w = NoRow)
        BY Given
      <3>2. QED
        BY <3>1 DEF EInit, Level
    <2>2. marked \subseteq Users
      BY DEF EInit
    <2>3. QED
      BY <2>1, <2>2, WarningsAssumption
         DEF WarningsAssumption, EInit, Started, TypeOK, State, Fresh, Nobody
  <1>2. queue \in Seq(Actions) /\ \A t \in Tasks : plan[t] \in Seq(Actions)
    BY EmptySeq DEF EInit
  <1>3. tried \subseteq Actions
    <2>1. \A u \in Users : Sanction(u, Kick) \in Actions
      BY ActionTypes
    <2>2. QED
      BY <1>1, <2>1 DEF EInit, TypeOK
  <1>4. top \in [Tasks -> LevelMaps]
    BY NoUsersTypes DEF EInit
  <1>5. QED
    BY <1>1, <1>2, <1>3, <1>4, Zenon DEF EInit, ETypeOK, LevelMaps

\* The actions a task plans are those of the levels it has recorded.
LEMMA RecordedTypes ==
  ASSUME ETypeOK, NEW t \in Tasks, who[t] \in Users, new[t] \in Levels, Recorded(t)
  PROVE  /\ stage' = [stage EXCEPT ![t] = "act"]
         /\ plan' \in [Tasks -> Seq(Actions)]
         /\ top' \in [Tasks -> LevelMaps]
  <1>1. plan \in [Tasks -> Seq(Actions)] /\ top \in [Tasks -> LevelMaps]
    BY DEF ETypeOK, LevelMaps
  <1>2. CASE flushing[t]
    <2>1. Higher(top[t], who[t], new[t]) \in LevelMaps
      BY <1>1, HigherKeeps
    <2>2. top' = [top EXCEPT ![t] = Higher(top[t], who[t], new[t])] /\ plan' = plan
      BY <1>2 DEF Recorded
    <2>3. QED
      BY <1>1, <2>1, <2>2 DEF Recorded
  <1>3. CASE ~ flushing[t]
    <2>1. WarningAction(who[t], new[t]) \in Seq(Actions)
      BY WarningActionTypes
    <2>2. plan' = [plan EXCEPT ![t] = WarningAction(who[t], new[t])] /\ top' = top
      BY <1>3 DEF Recorded
    <2>3. QED
      BY <1>1, <2>1, <2>2 DEF Recorded
  <1>4. QED
    BY <1>2, <1>3

\* What a task may hold at each stage: a task at rest nothing, one that records
\* a violation neither plans nor executes, and what it writes to the warning
\* system is about the author of its current verdict.
PhaseOf(t) ==
    /\ stage[t] = "idle" => /\ step[t] = "idle" /\ todo[t] = {} /\ DOMAIN top[t] = {}
                            /\ plan[t] = <<>> /\ doing[t] = Nothing
    /\ plan[t] # <<>> => stage[t] = "act" /\ todo[t] = {}
    /\ doing[t] # Nothing => stage[t] = "act" /\ step[t] = "idle" /\ todo[t] = {}
    /\ todo[t] # {} \/ DOMAIN top[t] # {} => flushing[t]
    /\ step[t] # "idle" =>
         /\ cur[t] \in Verdicts /\ who[t] = Offender(cur[t])
         /\ \/ stage[t] = "record" /\ (step[t] = "mark" => flushing[t])
            \/ stage[t] = "act" /\ step[t] = "mark" /\ ~ flushing[t]

Phases == \A t \in Tasks : PhaseOf(t)

LEMMA ETypeStep == ETypeOK /\ Phases /\ [ENext]_evars => ETypeOK'
  <1> SUFFICES ASSUME ETypeOK, Phases, [ENext]_evars PROVE ETypeOK'
    OBVIOUS
  <1>0. TypeOK' /\ TypeOK
    BY EnforcementStep, TypeStep DEF ETypeOK
  <1> DEFINE Stages == {"idle", "act", "record"}
  <1>1. ASSUME NEW t \in Tasks, NEW d \in Verdicts, Screen(t, d) PROVE ETypeOK'
    <2>1. queue' \in Seq(Actions)
      <3>1. <<Delete(d), Notify(d)>> \in Seq(Actions)
        BY ActionTypes
      <3>2. QED
        BY <1>1, <3>1, PushedSet DEF Screen, Push, ETypeOK
    <2>2. stage' \in [Tasks -> Stages] /\ cur' \in [Tasks -> Verdicts \cup {NoVerdict}]
      BY <1>1 DEF Screen, ETypeOK
    <2>3. \A q \in Tasks : stage'[q] = "record" => cur'[q] \in Verdicts
      BY <1>1 DEF Screen, ETypeOK
    <2>4. QED
      BY <1>0, <1>1, <2>1, <2>2, <2>3 DEF Screen, ETypeOK
  <1>2. ASSUME NEW t \in Tasks, NEW verdicts \in SUBSET Verdicts, Analyse(t, verdicts)
        PROVE  ETypeOK'
    <2>1. \A q \in Tasks : stage'[q] = "record" => stage[q] = "record"
      BY <1>2 DEF Analyse, ETypeOK
    <2>2. stage' \in [Tasks -> Stages] /\ todo' \in [Tasks -> SUBSET Verdicts]
      BY <1>2 DEF Analyse, ETypeOK
    <2>3. QED
      BY <1>0, <1>2, <2>1, <2>2 DEF Analyse, ETypeOK
  <1>3. ASSUME NEW t \in Tasks, NEW d \in Verdicts, QueueDelete(t, d) PROVE ETypeOK'
    <2>1. queue' \in Seq(Actions)
      <3>1. <<Delete(d)>> \in Seq(Actions)
        BY ActionTypes
      <3>2. QED
        BY <1>3, <3>1, PushedSet DEF QueueDelete, Push, ETypeOK
    <2>2. stage' \in [Tasks -> Stages] /\ cur' \in [Tasks -> Verdicts \cup {NoVerdict}]
      BY <1>3 DEF QueueDelete, ETypeOK
    <2>3. \A q \in Tasks : stage'[q] = "record" => cur'[q] \in Verdicts
      BY <1>3 DEF QueueDelete, ETypeOK
    <2>4. top' \in [Tasks -> LevelMaps]
      <3>1. top \in [Tasks -> LevelMaps] /\ Offender(d) \in Users
        BY Given DEF ETypeOK, LevelMaps
      <3>2. Higher(top[t], Offender(d), NoWarning) \in LevelMaps
        <4>1. top[t] \in LevelMaps /\ NoWarning \in Levels
          BY <3>1
        <4>2. QED
          BY <3>1, <4>1, HigherKeeps
      <3>3. QED
        BY <1>3, <3>1, <3>2 DEF QueueDelete
    <2>5. todo' \in [Tasks -> SUBSET Verdicts]
      BY <1>3 DEF QueueDelete, ETypeOK
    <2>6. QED
      BY <1>0, <1>3, <2>1, <2>2, <2>3, <2>4, <2>5 DEF QueueDelete, ETypeOK, LevelMaps
  <1>4. ASSUME NEW t \in Tasks, Record1(t) PROVE ETypeOK'
    BY <1>0, <1>4 DEF Record1, local, ETypeOK
  <1>5. ASSUME NEW t \in Tasks,
               UNCHANGED <<queue, flushing, cur, todo, doing, given, tried, dropped>>,
               Recorded(t), step[t] # "idle"
        PROVE  ETypeOK'
    <2>1. who[t] \in Users /\ new[t] \in Levels
      BY <1>0, <1>5 DEF TypeOK
    <2>2. /\ stage' = [stage EXCEPT ![t] = "act"]
          /\ plan' \in [Tasks -> Seq(Actions)] /\ top' \in [Tasks -> LevelMaps]
      BY <1>5, <2>1, RecordedTypes
    <2>3. stage' \in [Tasks -> Stages] /\ \A q \in Tasks : stage'[q] = "record" => stage[q] = "record"
      BY <2>2 DEF ETypeOK
    <2>4. QED
      BY <1>0, <1>5, <2>2, <2>3 DEF ETypeOK, LevelMaps
  <1>6. ASSUME UNCHANGED <<queue, local, doing, given, tried, dropped>> PROVE ETypeOK'
    BY <1>0, <1>6 DEF local, ETypeOK
  <1>7. ASSUME NEW t \in Tasks, Record2(t) PROVE ETypeOK'
    <2>1. step[t] # "idle"
      BY <1>7 DEF Record2, InsertViolation
    <2>2. QED
      BY <1>5, <1>6, <1>7, <2>1 DEF Record2, local
  <1>8. ASSUME NEW t \in Tasks, Mark(t) PROVE ETypeOK'
    <2>1. step[t] # "idle"
      BY <1>8 DEF Mark, MarkKicked
    <2>2. QED
      BY <1>5, <1>6, <1>8, <2>1 DEF Mark, local
  <1>9. ASSUME NEW t \in Tasks, Abort(t) PROVE ETypeOK'
    <2>1. /\ stage' \in [Tasks -> Stages] /\ flushing' \in [Tasks -> BOOLEAN]
          /\ cur' \in [Tasks -> Verdicts \cup {NoVerdict}] /\ todo' \in [Tasks -> SUBSET Verdicts]
      BY <1>9 DEF Abort, ETypeOK
    <2>2. \A q \in Tasks : stage'[q] = "record" => cur'[q] \in Verdicts
      BY <1>9 DEF Abort, ETypeOK
    <2>3. top' \in [Tasks -> LevelMaps]
      BY <1>9, NoUsersTypes DEF Abort, ETypeOK, LevelMaps
    <2>4. dropped' \subseteq Users
      <3>1. cur[t] \in Verdicts
        <4>1. stage[t] = "record" => cur[t] \in Verdicts
          BY DEF ETypeOK
        <4>2. step[t] = "mark" => cur[t] \in Verdicts
          BY DEF Phases, PhaseOf
        <4>3. QED
          BY <1>9, <4>1, <4>2 DEF Abort
      <3>2. DOMAIN top[t] \subseteq Users
        BY DEF ETypeOK
      <3>3. QED
        BY <1>9, <3>1, <3>2, Given DEF Abort, ETypeOK
    <2>5. QED
      BY <1>0, <1>9, <2>1, <2>2, <2>3, <2>4 DEF Abort, ETypeOK, LevelMaps

  <1>10. ASSUME NEW t \in Tasks, NEW u \in Users, Tell(t, u) PROVE ETypeOK'
    <2>1. u \in DOMAIN top[t] /\ top[t] \in LevelMaps
      BY <1>10 DEF Tell, ETypeOK, LevelMaps
    <2>2. top[t][u] \in Levels
      BY <2>1 DEF LevelMaps
    <2>3. plan' \in [Tasks -> Seq(Actions)]
      <3>1. WarningAction(u, top[t][u]) \in Seq(Actions) /\ Summary(u) \in Actions
        BY <2>2, WarningActionTypes, ActionTypes
      <3>2. Append(WarningAction(u, top[t][u]), Summary(u)) \in Seq(Actions)
        BY <3>1, AppendProperties
      <3>3. QED
        BY <1>10, <3>2 DEF Tell, ETypeOK
    <2>4. top' \in [Tasks -> LevelMaps]
      <3> DEFINE rest == [v \in DOMAIN top[t] \ {u} |-> top[t][v]]
      <3>1. rest \in [DOMAIN top[t] \ {u} -> Levels] /\ DOMAIN top[t] \ {u} \in SUBSET Users
        BY <2>1 DEF LevelMaps
      <3>2. rest \in LevelMaps
        BY <3>1 DEF LevelMaps
      <3>3. top' = [top EXCEPT ![t] = rest]
        BY <1>10 DEF Tell
      <3> HIDE DEF rest
      <3>4. QED
        BY <3>2, <3>3 DEF ETypeOK, LevelMaps
    <2>5. QED
      BY <1>0, <1>10, <2>3, <2>4 DEF Tell, ETypeOK, LevelMaps
  <1>11. ASSUME NEW t \in Tasks, PushNext(t) PROVE ETypeOK'
    <2>1. plan[t] \in Seq(Actions) /\ plan[t] # <<>> /\ queue \in Seq(Actions)
      BY <1>11 DEF PushNext, ETypeOK
    <2>2. <<Head(plan[t])>> \in Seq(Actions) /\ Tail(plan[t]) \in Seq(Actions)
      <3>1. Head(plan[t]) \in Actions /\ Tail(plan[t]) \in Seq(Actions)
        BY <2>1, HeadTailProperties
      <3>2. QED
        BY <3>1
    <2>3. queue' \in Seq(Actions)
      BY <1>11, <2>1, <2>2, PushedSet DEF PushNext, Push
    <2>4. plan' \in [Tasks -> Seq(Actions)]
      BY <1>11, <2>2 DEF PushNext, ETypeOK
    <2>5. QED
      BY <1>0, <1>11, <2>3, <2>4 DEF PushNext, ETypeOK
  <1>12. ASSUME NEW t \in Tasks, Pop(t) PROVE ETypeOK'
    <2>1. Tail(queue) \in Seq(Actions) /\ Head(queue) \in Actions
      BY <1>12, HeadTailProperties DEF Pop, ETypeOK
    <2>2. doing' \in [Tasks -> Actions \cup {Nothing}]
      BY <1>12, <2>1 DEF Pop, ETypeOK
    <2>3. QED
      BY <1>0, <1>12, <2>1, <2>2 DEF Pop, local, ETypeOK
  <1>13. ASSUME NEW t \in Tasks, Execute(t) PROVE ETypeOK'
    <2>1. doing' \in [Tasks -> Actions \cup {Nothing}] /\ tried' \subseteq Actions
      BY <1>13 DEF Execute, ETypeOK
    <2>2. QED
      BY <1>0, <1>13, <2>1 DEF Execute, local, ETypeOK
  <1>14. ASSUME NEW t \in Tasks, Finish(t) PROVE ETypeOK'
    <2>1. /\ stage' \in [Tasks -> Stages] /\ flushing' \in [Tasks -> BOOLEAN]
          /\ cur' \in [Tasks -> Verdicts \cup {NoVerdict}]
      BY <1>14 DEF Finish, ETypeOK
    <2>2. \A q \in Tasks : stage'[q] = "record" => cur'[q] \in Verdicts
      BY <1>14 DEF Finish, ETypeOK
    <2>3. QED
      BY <1>0, <1>14, <2>1, <2>2 DEF Finish, ETypeOK
  <1>15. CASE UNCHANGED evars
    BY <1>0, <1>6, <1>15 DEF evars
  <1>16. QED
    BY <1>1, <1>2, <1>3, <1>4, <1>7, <1>8, <1>9, <1>10, <1>11, <1>12, <1>13, <1>14, <1>15
       DEF ENext, Act

-----------------------------------------------------------------------------
(* The stages of a task.                                                   *)

\* A step of one task leaves the others where they are.
OthersStay(t) ==
    \A q \in Tasks \ {t} :
        /\ UNCHANGED <<stage[q], step[q], who[q], new[q]>>
        /\ UNCHANGED <<flushing[q], cur[q], todo[q], top[q], plan[q], doing[q]>>

Moves(t) ==
    \/ \E d \in Verdicts : Screen(t, d)
    \/ \E verdicts \in SUBSET Verdicts : Analyse(t, verdicts)
    \/ Act(t)

LEMMA OneMoves ==
  ASSUME ETypeOK, NEW t \in Tasks, Moves(t)
  PROVE  OthersStay(t)
  <1>0. /\ step \in [Tasks -> {"idle", "upsert", "insert", "mark"}]
        /\ who \in [Tasks -> Users \cup {Nobody}] /\ new \in [Tasks -> Levels]
        /\ stage \in [Tasks -> {"idle", "act", "record"}] /\ flushing \in [Tasks -> BOOLEAN]
        /\ cur \in [Tasks -> Verdicts \cup {NoVerdict}] /\ todo \in [Tasks -> SUBSET Verdicts]
        /\ top \in [Tasks -> LevelMaps] /\ plan \in [Tasks -> Seq(Actions)]
        /\ doing \in [Tasks -> Actions \cup {Nothing}]
    BY DEF ETypeOK, TypeOK, LevelMaps
  <1>1. ASSUME NEW d \in Verdicts, Screen(t, d) PROVE OthersStay(t)
    BY <1>0, <1>1 DEF Screen, OthersStay, vars, tasks
  <1>2. ASSUME NEW verdicts \in SUBSET Verdicts, Analyse(t, verdicts) PROVE OthersStay(t)
    BY <1>0, <1>2 DEF Analyse, OthersStay, vars, tasks
  <1>3. ASSUME NEW d \in Verdicts, QueueDelete(t, d) PROVE OthersStay(t)
    BY <1>0, <1>3 DEF QueueDelete, OthersStay, vars, tasks
  <1>4. CASE Record1(t)
    BY <1>0, <1>4 DEF Record1, ReadWarning, Upsert, OthersStay, local
  <1>5. CASE Record2(t)
    BY <1>0, <1>5 DEF Record2, Recorded, InsertViolation, Rest, OthersStay
  <1>6. CASE Mark(t)
    BY <1>0, <1>6 DEF Mark, Recorded, MarkKicked, Rest, OthersStay
  <1>7. CASE Abort(t)
    BY <1>0, <1>7 DEF Abort, RecordError, Rest, OthersStay, vars, tasks
  <1>8. ASSUME NEW u \in Users, Tell(t, u) PROVE OthersStay(t)
    BY <1>0, <1>8 DEF Tell, OthersStay, vars, tasks
  <1>9. CASE PushNext(t)
    BY <1>0, <1>9 DEF PushNext, OthersStay, vars, tasks
  <1>10. CASE Pop(t)
    BY <1>0, <1>10 DEF Pop, OthersStay, vars, tasks, local
  <1>11. CASE Execute(t)
    BY <1>0, <1>11 DEF Execute, OthersStay, vars, tasks, local
  <1>12. CASE Finish(t)
    BY <1>0, <1>12 DEF Finish, OthersStay, vars, tasks
  <1>13. QED
    BY <1>1, <1>2, <1>3, <1>4, <1>5, <1>6, <1>7, <1>8, <1>9, <1>10, <1>11, <1>12
       DEF Moves, Act

\* The arrays, by task.
LEMMA Arrays ==
  ASSUME ETypeOK
  PROVE  /\ step \in [Tasks -> {"idle", "upsert", "insert", "mark"}]
         /\ who \in [Tasks -> Users \cup {Nobody}] /\ new \in [Tasks -> Levels]
         /\ stage \in [Tasks -> {"idle", "act", "record"}] /\ flushing \in [Tasks -> BOOLEAN]
         /\ cur \in [Tasks -> Verdicts \cup {NoVerdict}] /\ todo \in [Tasks -> SUBSET Verdicts]
         /\ top \in [Tasks -> LevelMaps] /\ plan \in [Tasks -> Seq(Actions)]
         /\ doing \in [Tasks -> Actions \cup {Nothing}]
  BY DEF ETypeOK, TypeOK, LevelMaps

\* The task that moves goes from one phase to another.
LEMMA PhaseMoves ==
  ASSUME ETypeOK, NEW t \in Tasks, PhaseOf(t), Moves(t)
  PROVE  PhaseOf(t)'
  <1>0. /\ step \in [Tasks -> {"idle", "upsert", "insert", "mark"}]
        /\ who \in [Tasks -> Users \cup {Nobody}] /\ new \in [Tasks -> Levels]
        /\ stage \in [Tasks -> {"idle", "act", "record"}] /\ flushing \in [Tasks -> BOOLEAN]
        /\ cur \in [Tasks -> Verdicts \cup {NoVerdict}] /\ todo \in [Tasks -> SUBSET Verdicts]
        /\ top \in [Tasks -> LevelMaps] /\ plan \in [Tasks -> Seq(Actions)]
        /\ doing \in [Tasks -> Actions \cup {Nothing}]
    BY Arrays
  <1>1. ASSUME NEW d \in Verdicts, Screen(t, d) PROVE PhaseOf(t)'
    <2>1. /\ stage'[t] # "idle" /\ step'[t] = "idle" /\ todo'[t] = {}
          /\ top'[t] = top[t] /\ plan'[t] = <<>> /\ doing'[t] = Nothing
      BY <1>0, <1>1 DEF Screen, PhaseOf, vars, tasks
    <2>2. DOMAIN top[t] = {}
      BY <1>1 DEF Screen, PhaseOf
    <2>3. QED
      BY <2>1, <2>2 DEF PhaseOf
  <1>2. ASSUME NEW verdicts \in SUBSET Verdicts, Analyse(t, verdicts) PROVE PhaseOf(t)'
    <2>1. /\ stage'[t] = "act" /\ step'[t] = "idle" /\ flushing'[t]
          /\ plan'[t] = <<>> /\ doing'[t] = Nothing
      BY <1>0, <1>2 DEF Analyse, PhaseOf, vars, tasks
    <2>2. QED
      BY <2>1 DEF PhaseOf
  <1>3. ASSUME NEW d \in Verdicts, QueueDelete(t, d) PROVE PhaseOf(t)'
    <2>1. /\ stage[t] = "act" /\ todo[t] # {} /\ flushing[t] /\ plan[t] = <<>>
          /\ doing[t] = Nothing /\ step[t] = "idle"
      BY <1>3 DEF QueueDelete, PhaseOf
    <2>2. /\ stage'[t] \in {"act", "record"} /\ flushing'[t] /\ plan'[t] = <<>>
          /\ doing'[t] = Nothing /\ step'[t] = "idle"
      BY <1>0, <1>3, <2>1 DEF QueueDelete, vars, tasks
    <2>3. QED
      BY <2>2 DEF PhaseOf
  <1>4. CASE Record1(t)
    <2>1. stage[t] = "record" /\ plan[t] = <<>> /\ doing[t] = Nothing
      BY <1>4 DEF Record1, PhaseOf
    <2>2. UNCHANGED <<stage, flushing, cur, todo, top, plan, doing>>
      BY <1>4 DEF Record1, local
    <2>3. cur[t] \in Verdicts
      BY <2>1 DEF ETypeOK
    <2>4. step'[t] \in {"upsert", "insert"} /\ who'[t] = Offender(cur[t])
      BY <1>0, <1>4 DEF Record1, ReadWarning, Upsert, PhaseOf
    <2>5. QED
      BY <2>1, <2>2, <2>3, <2>4 DEF PhaseOf
  <1>5. CASE Record2(t)
    <2>1. /\ stage[t] = "record" /\ plan[t] = <<>> /\ doing[t] = Nothing /\ step[t] = "insert"
          /\ cur[t] \in Verdicts /\ who[t] = Offender(cur[t])
      BY <1>5 DEF Record2, InsertViolation, PhaseOf
    <2>2. UNCHANGED <<flushing, cur, todo, doing>>
      BY <1>5 DEF Record2
    <2>3. CASE flushing[t]
      <3>1. CASE new[t] = Kick
        <4>1. step'[t] = "mark" /\ UNCHANGED <<who, stage, top, plan>>
          BY <1>0, <1>5, <2>3, <3>1 DEF Record2, InsertViolation
        <4>2. QED
          BY <2>1, <2>2, <2>3, <4>1 DEF PhaseOf
      <3>2. CASE new[t] # Kick
        <4>1. step'[t] = "idle" /\ stage'[t] = "act" /\ plan' = plan
          BY <1>0, <1>5, <2>3, <3>2 DEF Record2, Recorded, InsertViolation, Rest
        <4>2. QED
          BY <2>1, <2>2, <2>3, <4>1 DEF PhaseOf
      <3>3. QED
        BY <3>1, <3>2
    <2>4. CASE ~ flushing[t]
      <3>1. stage'[t] = "act" /\ top' = top /\ todo[t] = {} /\ DOMAIN top[t] = {}
        BY <1>0, <1>5, <2>4 DEF Record2, Recorded, PhaseOf
      <3>2. step'[t] = "idle" \/ (step'[t] = "mark" /\ who' = who)
        BY <1>0, <1>5 DEF Record2, InsertViolation, Rest
      <3>3. QED
        BY <2>1, <2>2, <2>4, <3>1, <3>2 DEF PhaseOf
    <2>5. QED
      BY <2>3, <2>4
  <1>6. CASE Mark(t)
    <2>1. /\ step[t] = "mark" /\ doing[t] = Nothing /\ step'[t] = "idle"
          /\ UNCHANGED <<flushing, cur, todo, doing>>
      BY <1>0, <1>6 DEF Mark, MarkKicked, Rest, PhaseOf
    <2>2. CASE flushing[t]
      <3>1. stage'[t] = "act" /\ plan' = plan /\ plan[t] = <<>>
        BY <1>0, <1>6, <2>1, <2>2 DEF Mark, Recorded, PhaseOf
      <3>2. QED
        BY <2>1, <2>2, <3>1 DEF PhaseOf
    <2>3. CASE ~ flushing[t]
      <3>1. UNCHANGED <<stage, top, plan>> /\ stage[t] = "act" /\ plan[t] = <<>>
        BY <1>6, <2>1, <2>3 DEF Mark, PhaseOf
      <3>2. QED
        BY <2>1, <2>3, <3>1 DEF PhaseOf
    <2>4. QED
      BY <2>2, <2>3
  <1>7. CASE Abort(t)
    <2>1. /\ stage'[t] = "idle" /\ todo'[t] = {} /\ top'[t] = NoUsers /\ UNCHANGED <<plan, doing>>
      BY <1>0, <1>7 DEF Abort
    <2>2. step'[t] = "idle"
      BY <1>0, <1>7 DEF Abort, RecordError, Rest, vars, tasks
    <2>3. plan[t] = <<>> /\ doing[t] = Nothing
      BY <1>7 DEF Abort, PhaseOf
    <2>4. QED
      BY <2>1, <2>2, <2>3, NoUsersTypes DEF PhaseOf
  <1>8. ASSUME NEW u \in Users, Tell(t, u) PROVE PhaseOf(t)'
    <2>1. /\ stage[t] = "act" /\ todo[t] = {} /\ flushing[t]
          /\ UNCHANGED <<step, who, stage, flushing, cur, todo, doing>>
      BY <1>8 DEF Tell, PhaseOf, vars, tasks
    <2>2. QED
      BY <2>1 DEF PhaseOf
  <1>9. CASE PushNext(t)
    <2>1. stage[t] = "act" /\ todo[t] = {} /\ UNCHANGED <<step, who, stage, flushing, cur, todo, top, doing>>
      BY <1>9 DEF PushNext, PhaseOf, vars, tasks
    <2>2. QED
      BY <2>1 DEF PhaseOf
  <1>10. CASE Pop(t)
    <2>1. /\ stage[t] = "act" /\ step[t] = "idle" /\ todo[t] = {}
          /\ UNCHANGED <<step, who, stage, flushing, cur, todo, top, plan>>
      BY <1>10 DEF Pop, Draining, vars, tasks, local
    <2>2. QED
      BY <2>1 DEF PhaseOf
  <1>11. CASE Execute(t)
    <2>1. /\ doing'[t] = Nothing /\ stage[t] # "idle"
          /\ UNCHANGED <<step, who, stage, flushing, cur, todo, top, plan>>
      BY <1>0, <1>11 DEF Execute, PhaseOf, vars, tasks, local
    <2>2. QED
      BY <2>1 DEF PhaseOf
  <1>12. CASE Finish(t)
    <2>1. /\ step[t] = "idle" /\ todo[t] = {} /\ DOMAIN top[t] = {} /\ plan[t] = <<>>
          /\ doing[t] = Nothing /\ UNCHANGED <<step, todo, top, plan, doing>>
      BY <1>12 DEF Finish, Draining, vars, tasks
    <2>2. QED
      BY <2>1 DEF PhaseOf
  <1>13. QED
    BY <1>1, <1>2, <1>3, <1>4, <1>5, <1>6, <1>7, <1>8, <1>9, <1>10, <1>11, <1>12
       DEF Moves, Act

LEMMA PhasesInit == EInit => Phases
  <1> SUFFICES ASSUME EInit, NEW t \in Tasks PROVE PhaseOf(t)
    BY DEF Phases
  <1>1. /\ stage[t] = "idle" /\ step[t] = "idle" /\ todo[t] = {} /\ top[t] = NoUsers
        /\ plan[t] = <<>> /\ doing[t] = Nothing
    BY DEF EInit, Started
  <1>2. QED
    BY <1>1, NoUsersTypes DEF PhaseOf

LEMMA PhasesStep == ETypeOK /\ Phases /\ [ENext]_evars => Phases'
  <1> SUFFICES ASSUME ETypeOK, Phases, [ENext]_evars, NEW q \in Tasks PROVE PhaseOf(q)'
    BY DEF Phases
  <1>1. PhaseOf(q)
    BY DEF Phases
  <1>2. ASSUME NEW t \in Tasks, Moves(t) PROVE PhaseOf(q)'
    <2>1. CASE q = t
      BY <1>1, <1>2, <2>1, PhaseMoves
    <2>2. CASE q # t
      <3>1. /\ UNCHANGED <<stage[q], step[q], who[q], new[q]>>
            /\ UNCHANGED <<flushing[q], cur[q], todo[q], top[q], plan[q], doing[q]>>
        BY <1>2, <2>2, OneMoves DEF OthersStay
      <3>2. QED
        BY <1>1, <3>1 DEF PhaseOf
    <2>3. QED
      BY <2>1, <2>2
  <1>3. CASE UNCHANGED evars
    BY <1>1, <1>3 DEF evars, vars, tasks, local, PhaseOf
  <1>4. QED
    BY <1>2, <1>3 DEF ENext, Moves

\* Every variable of the enforcement keeps to its type, the warning table's
\* rows and the shared queue's actions included, and a task holds only what its
\* stage allows: however handlers and flushes interleave, and wherever an error
\* cuts one of them short.
THEOREM EnforcementTypes == ESpec => [](ETypeOK /\ Phases)
  BY ETypeInit, ETypeStep, PhasesInit, PhasesStep, PTL DEF ESpec

-----------------------------------------------------------------------------
(* The queue is left behind only after an error.                           *)

\* Stronger than the property, and inductive: while the queue holds something
\* and no error has struck, some task is not at rest.
LeftInv == queue # <<>> /\ dropped = {} => \E t \in Tasks : stage[t] # "idle"

LEMMA LeftInit == EInit => LeftInv
  BY DEF EInit, LeftInv

LEMMA LeftStep == ETypeOK /\ ETypeOK' /\ Phases /\ LeftInv /\ [ENext]_evars => LeftInv'
  <1> SUFFICES ASSUME ETypeOK, ETypeOK', Phases, LeftInv, [ENext]_evars,
                      queue' # <<>>, dropped' = {}
               PROVE  \E q \in Tasks : stage'[q] # "idle"
    BY DEF LeftInv
  <1>1. ASSUME NEW t \in Tasks, stage'[t] # "idle" PROVE \E q \in Tasks : stage'[q] # "idle"
    BY <1>1
  <1>2. ASSUME queue = queue', dropped = dropped', UNCHANGED stage
        PROVE  \E q \in Tasks : stage'[q] # "idle"
    BY <1>2 DEF LeftInv
  <1>3. ASSUME NEW t \in Tasks, NEW d \in Verdicts, Screen(t, d) PROVE stage'[t] # "idle"
    BY <1>3, Arrays DEF Screen
  <1>4. ASSUME NEW t \in Tasks, NEW verdicts \in SUBSET Verdicts, Analyse(t, verdicts)
        PROVE  stage'[t] # "idle"
    BY <1>4, Arrays DEF Analyse
  <1>5. ASSUME NEW t \in Tasks, NEW d \in Verdicts, QueueDelete(t, d) PROVE stage'[t] # "idle"
    BY <1>5, Arrays DEF QueueDelete
  <1>6. ASSUME NEW t \in Tasks, Record1(t) \/ Record2(t) \/ Mark(t) PROVE stage'[t] # "idle"
    <2>1. stage[t] # "idle" \/ step[t] # "idle"
      BY <1>6 DEF Record1, Record2, Mark, MarkKicked
    <2>2. stage[t] # "idle"
      BY <2>1 DEF Phases, PhaseOf
    <2>3. UNCHANGED stage \/ stage' = [stage EXCEPT ![t] = "act"]
      BY <1>6 DEF Record1, Record2, Recorded, Mark, local
    <2>4. QED
      BY <2>2, <2>3, Arrays
  <1>7. ASSUME NEW t \in Tasks, Abort(t) PROVE FALSE
    <2>1. cur[t] \in Verdicts
      BY <1>7 DEF Abort, ETypeOK, Phases, PhaseOf
    <2>2. Offender(cur[t]) \in dropped'
      BY <1>7, <2>1 DEF Abort
    <2>3. QED
      BY <2>2
  <1>8. ASSUME NEW t \in Tasks, NEW u \in Users, Tell(t, u) PROVE stage'[t] # "idle"
    BY <1>8 DEF Tell
  <1>9. ASSUME NEW t \in Tasks, PushNext(t) \/ Pop(t) \/ Execute(t) PROVE stage'[t] # "idle"
    <2>1. stage[t] # "idle" /\ UNCHANGED stage
      BY <1>9 DEF PushNext, Pop, Execute, Draining, local, Phases, PhaseOf
    <2>2. QED
      BY <2>1
  <1>10. ASSUME NEW t \in Tasks, Finish(t) PROVE FALSE
    BY <1>10 DEF Finish
  <1>11. CASE UNCHANGED evars
    BY <1>2, <1>11 DEF evars, local
  <1>12. QED
    BY <1>1, <1>3, <1>4, <1>5, <1>6, <1>7, <1>8, <1>9, <1>10, <1>11 DEF ENext, Act

\* A task leaves only once it has found the queue empty, and whoever pushes has
\* not left: for any number of tasks and messages, actions wait in the queue
\* with every task at rest only after an error has cut some task short.
THEOREM LeftoverNeedsErrorEver == ESpec => []LeftoverNeedsError
  <1>1. LeftInv => LeftoverNeedsError
    BY DEF LeftInv, LeftoverNeedsError, Resting
  <1>2. QED
    BY <1>1, ETypeInit, ETypeStep, PhasesInit, PhasesStep, LeftInit, LeftStep, PTL DEF ESpec

-----------------------------------------------------------------------------
(* Every recorded level of a sanction is followed by that sanction.        *)

\* Some action among these sanctions the user at level l or higher.
Reaches(as, u, l) == \E k \in l..Ban : Sanction(u, k) \in as

\* The task still has to see to the user's sanction of level l: it has written
\* the level and not yet returned from record_violation, keeps it as the user's
\* highest of the flush, or holds an action it has to push or to execute.
InHand(t, u, l) ==
    \/ stage[t] = "record" /\ step[t] \in {"insert", "mark"} /\ who[t] = u /\ new[t] >= l
    \/ u \in DOMAIN top[t] /\ top[t][u] >= l
    \/ Reaches(ToSet(plan[t]) \cup {doing[t]}, u, l)

Covered(u, l) == Reaches(Issued, u, l) \/ \E t \in Tasks : InHand(t, u, l)

\* The inductive invariant.  The property speaks of tasks at rest; that it is
\* reached needs every place a recorded level passes through on its way.
SanctionsInv ==
    \A u \in Users \ dropped :
        offences[u] > 0 /\ Level(u) >= ShortTimeout => Covered(u, Level(u))

\* More actions reach at least as far; a task that holds none reaches nothing.
LEMMA ReachesMore ==
  /\ \A as, bs, u, l : as \subseteq bs /\ Reaches(as, u, l) => Reaches(bs, u, l)
  /\ \A as, bs, cs, u, l :
       as \subseteq bs \cup cs /\ Reaches(as, u, l) => Reaches(bs, u, l) \/ Reaches(cs, u, l)
  /\ ToSet(<<>>) = {}
  /\ \A u, l : ~ Reaches({Nothing}, u, l)
  <1>1. \A u, k : Sanction(u, k) # Nothing
    <2>1. \A u, k : Sanction(u, k).kind = "sanction"
      BY DEF Sanction
    <2>2. Nothing.kind = "none"
      BY DEF Nothing
    <2>3. QED
      BY <2>1, <2>2
  <1>2. \A u, l : ~ Reaches({Nothing}, u, l)
    BY <1>1 DEF Reaches
  <1>3. ToSet(<<>>) = {}
    BY DEF ToSet
  <1>4. QED
    BY <1>2, <1>3 DEF Reaches

\* The level just recorded is kept or planned for.
LEMMA RecordedCovers ==
  ASSUME ETypeOK, NEW t \in Tasks, who[t] \in Users, plan[t] = <<>>, Recorded(t),
         NEW u \in Users, NEW l \in ShortTimeout..Ban,
         (who[t] = u /\ new[t] >= l) \/ (u \in DOMAIN top[t] /\ top[t][u] >= l)
  PROVE  \/ u \in DOMAIN top'[t] /\ top'[t][u] >= l
         \/ Reaches(ToSet(plan'[t]), u, l)
  <1>0. new[t] \in Levels /\ top[t] \in LevelMaps /\ plan \in [Tasks -> Seq(Actions)]
        /\ top \in [Tasks -> LevelMaps]
    BY Arrays
  <1>1. CASE flushing[t]
    <2> DEFINE h == Higher(top[t], who[t], new[t])
    <2>1. top'[t] = h
      BY <1>0, <1>1 DEF Recorded
    <2>2. /\ h \in LevelMaps /\ DOMAIN h = DOMAIN top[t] \cup {who[t]}
          /\ h[who[t]] >= new[t] /\ \A v \in DOMAIN top[t] : h[v] >= top[t][v]
      BY <1>0, HigherKeeps
    <2> HIDE DEF h
    <2>3. /\ \A v \in DOMAIN h : h[v] \in Nat
          /\ \A v \in DOMAIN top[t] : top[t][v] \in Nat
      <3>1. \A f \in LevelMaps : \A v \in DOMAIN f : f[v] \in Nat
        BY DEF LevelMaps
      <3>2. QED
        BY <1>0, <2>2, <3>1
    <2>4. CASE who[t] = u /\ new[t] >= l
      <3>1. u \in DOMAIN h /\ h[u] \in Nat /\ h[u] >= new[t]
        BY <2>2, <2>3, <2>4
      <3>2. h[u] >= l
        BY <1>0, <2>4, <3>1
      <3>3. QED
        BY <2>1, <3>1, <3>2
    <2>5. CASE u \in DOMAIN top[t] /\ top[t][u] >= l
      <3>1. u \in DOMAIN h /\ h[u] \in Nat /\ top[t][u] \in Nat /\ h[u] >= top[t][u]
        BY <2>2, <2>3, <2>5
      <3>2. h[u] >= l
        BY <2>5, <3>1
      <3>3. QED
        BY <2>1, <3>1, <3>2
    <2>6. QED
      BY <2>4, <2>5
  <1>2. CASE ~ flushing[t]
    <2>1. top' = top /\ plan'[t] = WarningAction(who[t], new[t])
      BY <1>0, <1>2 DEF Recorded
    <2>2. CASE who[t] = u /\ new[t] >= l
      <3>1. new[t] >= ShortTimeout /\ new[t] \in l..Ban
        BY <1>0, <2>2
      <3>2. plan'[t] = <<Sanction(u, new[t])>>
        BY <1>0, <2>1, <2>2, <3>1, WarningActionTypes
      <3>3. Sanction(u, new[t]) \in ToSet(plan'[t])
        BY <3>2 DEF ToSet
      <3>4. QED
        BY <3>1, <3>3 DEF Reaches
    <2>3. QED
      BY <2>1, <2>2
  <1>3. QED
    BY <1>1, <1>2

\* No step lets go of a level to be covered, save an error, which is noted.
LEMMA StillCovered ==
  ASSUME ETypeOK, ETypeOK', Phases, NEW t \in Tasks, Moves(t),
         NEW u \in Users, NEW l \in ShortTimeout..Ban, Covered(u, l), u \notin dropped'
  PROVE  Covered(u, l)'
  <1>0. /\ step \in [Tasks -> {"idle", "upsert", "insert", "mark"}]
        /\ who \in [Tasks -> Users \cup {Nobody}] /\ new \in [Tasks -> Levels]
        /\ stage \in [Tasks -> {"idle", "act", "record"}] /\ flushing \in [Tasks -> BOOLEAN]
        /\ cur \in [Tasks -> Verdicts \cup {NoVerdict}] /\ todo \in [Tasks -> SUBSET Verdicts]
        /\ top \in [Tasks -> LevelMaps] /\ plan \in [Tasks -> Seq(Actions)]
        /\ doing \in [Tasks -> Actions \cup {Nothing}] /\ queue \in Seq(Actions)
    BY Arrays DEF ETypeOK
  <1>1. PhaseOf(t)
    BY DEF Phases
  <1> DEFINE Held == ToSet(plan[t]) \cup {doing[t]}
             HeldAfter == ToSet(plan'[t]) \cup {doing'[t]}
  <1>2. ASSUME NEW q \in Tasks, q # t, InHand(q, u, l) PROVE Covered(u, l)'
    <2>1. /\ UNCHANGED <<stage[q], step[q], who[q], new[q]>>
          /\ UNCHANGED <<top[q], plan[q], doing[q]>>
      BY <1>2, OneMoves DEF OthersStay
    <2>2. InHand(q, u, l)'
      BY <1>2, <2>1 DEF InHand, Reaches
    <2>3. QED
      BY <2>2 DEF Covered
  <1>3. ASSUME Issued \subseteq Issued', InHand(t, u, l) => Covered(u, l)'
        PROVE  Covered(u, l)'
    <2>1. Reaches(Issued, u, l) => Reaches(Issued', u, l)
      BY <1>3, ReachesMore
    <2>2. Reaches(Issued', u, l) => Covered(u, l)'
      BY DEF Covered, Reaches
    <2>3. QED
      BY <1>2, <1>3, <2>1, <2>2 DEF Covered
  <1>4. ASSUME queue' = queue, tried' = tried PROVE Issued \subseteq Issued'
    BY <1>4 DEF Issued
  <1>5. ASSUME NEW as \in Seq(Actions), Push(as), tried' = tried
        PROVE  Issued' = Issued \cup ToSet(as)
    <2>1. queue \in Seq(Actions)
      BY <1>0
    <2>2. ToSet(queue \o as) = ToSet(queue) \cup ToSet(as)
      BY ONLY <2>1, as \in Seq(Actions), PushedSet
    <2>3. QED
      BY <1>5, <2>2 DEF Push, Issued
  <1>6. ASSUME stage[t] = "idle" PROVE ~ InHand(t, u, l)
    <2>1. /\ DOMAIN top[t] = {} /\ Held = {Nothing}
      BY <1>1, <1>6, ReachesMore DEF PhaseOf
    <2>2. QED
      BY <1>6, <2>1, ReachesMore DEF InHand
  <1>7. ASSUME InHand(t, u, l)' PROVE Covered(u, l)'
    BY <1>7 DEF Covered
  <1>8. ASSUME u \in DOMAIN top'[t] /\ top'[t][u] >= l PROVE Covered(u, l)'
    BY <1>7, <1>8 DEF InHand
  <1>9. ASSUME Reaches(HeldAfter, u, l) PROVE Covered(u, l)'
    BY <1>7, <1>9 DEF InHand, Reaches
  <1>10. ASSUME NEW d \in Verdicts, Screen(t, d) PROVE Covered(u, l)'
    <2>1. <<Delete(d), Notify(d)>> \in Seq(Actions)
      BY ActionTypes
    <2>2. Issued \subseteq Issued' /\ ~ InHand(t, u, l)
      BY <1>5, <1>6, <1>10, <2>1 DEF Screen
    <2>3. QED
      BY <1>3, <2>2
  <1>11. ASSUME NEW verdicts \in SUBSET Verdicts, Analyse(t, verdicts) PROVE Covered(u, l)'
    <2>1. Issued \subseteq Issued' /\ ~ InHand(t, u, l)
      BY <1>4, <1>6, <1>11 DEF Analyse
    <2>2. QED
      BY <1>3, <2>1
  <1>12. ASSUME NEW d \in Verdicts, QueueDelete(t, d) PROVE Covered(u, l)'
    <2>1. Issued \subseteq Issued'
      <3>1. <<Delete(d)>> \in Seq(Actions)
        BY ActionTypes
      <3>2. QED
        BY <1>5, <1>12, <3>1 DEF QueueDelete
    <2>2. stage[t] = "act" /\ UNCHANGED <<plan, doing>>
      BY <1>12 DEF QueueDelete
    <2>3. ASSUME u \in DOMAIN top[t], top[t][u] >= l PROVE u \in DOMAIN top'[t] /\ top'[t][u] >= l
      <3>1. CASE About[d] \in Direct
        <4> DEFINE h == Higher(top[t], Offender(d), NoWarning)
        <4>1. top'[t] = h
          BY <1>0, <1>12, <3>1 DEF QueueDelete
        <4>2. top[t] \in LevelMaps /\ Offender(d) \in Users /\ NoWarning \in Levels
          BY <1>0, Given
        <4>3. h \in LevelMaps /\ u \in DOMAIN h /\ h[u] >= top[t][u]
          <5>1. /\ h \in LevelMaps /\ DOMAIN h = DOMAIN top[t] \cup {Offender(d)}
                /\ \A v \in DOMAIN top[t] : h[v] >= top[t][v]
            BY <4>2, HigherKeeps
          <5>2. QED
            BY <2>3, <5>1
        <4> HIDE DEF h
        <4>4. h[u] \in Nat /\ top[t][u] \in Nat
          BY <2>3, <4>2, <4>3 DEF LevelMaps
        <4>5. QED
          BY <2>3, <4>1, <4>3, <4>4
      <3>2. CASE About[d] \notin Direct
        BY <1>12, <2>3, <3>2 DEF QueueDelete
      <3>3. QED
        BY <3>1, <3>2
    <2>4. InHand(t, u, l) => Covered(u, l)'
      BY <1>8, <1>9, <2>2, <2>3 DEF InHand
    <2>5. QED
      BY <1>3, <2>1, <2>4

  <1>13. CASE Record1(t)
    <2>1. UNCHANGED <<queue, tried, top, plan, doing>> /\ step[t] \in {"idle", "upsert"}
      BY <1>13 DEF Record1, ReadWarning, Upsert, local
    <2>2. InHand(t, u, l) => Covered(u, l)'
      BY <1>8, <1>9, <2>1 DEF InHand
    <2>3. QED
      BY <1>3, <1>4, <2>1, <2>2
  <1>14. ASSUME plan[t] = <<>>, doing[t] = Nothing PROVE ~ Reaches(Held, u, l)
    <2>1. Held = {Nothing}
      BY <1>14, ReachesMore
    <2>2. QED
      BY <2>1, ReachesMore
  <1>15. ASSUME Recorded(t), plan[t] = <<>>, doing[t] = Nothing, who[t] \in Users
         PROVE  InHand(t, u, l) => Covered(u, l)'
    <2> SUFFICES ASSUME InHand(t, u, l) PROVE Covered(u, l)'
      OBVIOUS
    <2>1. (who[t] = u /\ new[t] >= l) \/ (u \in DOMAIN top[t] /\ top[t][u] >= l)
      BY <1>14, <1>15 DEF InHand
    <2>2. \/ u \in DOMAIN top'[t] /\ top'[t][u] >= l
          \/ Reaches(ToSet(plan'[t]), u, l)
      BY <1>15, <2>1, RecordedCovers
    <2>3. Reaches(ToSet(plan'[t]), u, l) => Reaches(HeldAfter, u, l)
      BY ReachesMore
    <2>4. QED
      BY <1>8, <1>9, <2>2, <2>3
  <1>16. CASE Record2(t)
    <2>1. /\ stage[t] = "record" /\ plan[t] = <<>> /\ doing[t] = Nothing /\ step[t] = "insert"
          /\ UNCHANGED <<queue, tried, doing>>
      BY <1>1, <1>16 DEF Record2, InsertViolation, PhaseOf
    <2>2. who[t] \in Users
      BY <2>1 DEF ETypeOK, TypeOK
    <2>3. InHand(t, u, l) => Covered(u, l)'
      <3>1. CASE flushing[t] /\ new[t] = Kick
        <4>1. step'[t] = "mark" /\ UNCHANGED <<who, new, stage, top, plan>>
          BY <1>0, <1>16, <3>1 DEF Record2, InsertViolation
        <4>2. InHand(t, u, l) => InHand(t, u, l)'
          BY <2>1, <4>1 DEF InHand, Reaches
        <4>3. QED
          BY <1>7, <4>2
      <3>2. CASE ~ (flushing[t] /\ new[t] = Kick)
        BY <1>15, <1>16, <2>1, <2>2, <3>2 DEF Record2
      <3>3. QED
        BY <3>1, <3>2
    <2>4. QED
      BY <1>3, <1>4, <2>1, <2>3
  <1>17. CASE Mark(t)
    <2>1. /\ step[t] = "mark" /\ doing[t] = Nothing
          /\ UNCHANGED <<queue, tried, doing>>
      BY <1>1, <1>17 DEF Mark, MarkKicked, PhaseOf
    <2>2. who[t] \in Users
      BY <2>1 DEF ETypeOK, TypeOK
    <2>3. InHand(t, u, l) => Covered(u, l)'
      <3>1. CASE flushing[t]
        <4>1. plan[t] = <<>>
          BY <1>1, <2>1, <3>1 DEF PhaseOf
        <4>2. QED
          BY <1>15, <1>17, <2>1, <2>2, <3>1, <4>1 DEF Mark
      <3>2. CASE ~ flushing[t]
        <4>1. stage[t] = "act" /\ UNCHANGED <<top, plan>>
          BY <1>1, <1>17, <2>1, <3>2 DEF Mark, PhaseOf
        <4>2. QED
          BY <1>8, <1>9, <2>1, <4>1 DEF InHand
      <3>3. QED
        BY <3>1, <3>2
    <2>4. QED
      BY <1>3, <1>4, <2>1, <2>3
  <1>18. CASE Abort(t)
    <2>1. /\ cur[t] \in Verdicts /\ Offender(cur[t]) \in dropped' /\ DOMAIN top[t] \subseteq dropped'
          /\ UNCHANGED <<queue, tried, plan, doing>>
      BY <1>1, <1>18 DEF Abort, ETypeOK, PhaseOf
    <2>2. step[t] # "idle" => who[t] = Offender(cur[t])
      BY <1>1 DEF PhaseOf
    <2>3. InHand(t, u, l) => Covered(u, l)'
      BY <1>9, <2>1, <2>2 DEF InHand
    <2>4. QED
      BY <1>3, <1>4, <2>1, <2>3
  <1>19. ASSUME NEW v \in Users, Tell(t, v) PROVE Covered(u, l)'
    <2>1. /\ stage[t] = "act" /\ plan[t] = <<>> /\ v \in DOMAIN top[t]
          /\ UNCHANGED <<queue, tried, doing>>
      BY <1>19 DEF Tell, vars
    <2>2. /\ plan'[t] = Append(WarningAction(v, top[t][v]), Summary(v))
          /\ top'[t] = [w \in DOMAIN top[t] \ {v} |-> top[t][w]]
      BY <1>0, <1>19 DEF Tell
    <2>3. ASSUME u \in DOMAIN top[t], top[t][u] >= l PROVE Covered(u, l)'
      <3>1. CASE u = v
        <4>1. top[t][v] \in Levels
          BY <1>0, <2>1 DEF LevelMaps
        <4>2. WarningAction(v, top[t][v]) = <<Sanction(u, top[t][v])>> /\ top[t][v] \in l..Ban
          <5>1. top[t][v] >= ShortTimeout
            BY <2>3, <3>1, <4>1
          <5>2. QED
            BY <2>3, <3>1, <4>1, <5>1, WarningActionTypes
        <4>3. /\ WarningAction(v, top[t][v]) \in Seq(Actions) /\ Summary(v) \in Actions
              /\ Sanction(u, top[t][v]) \in ToSet(WarningAction(v, top[t][v]))
          BY <4>1, <4>2, WarningActionTypes, ActionTypes DEF ToSet
        <4>4. Sanction(u, top[t][v]) \in ToSet(plan'[t])
          BY <2>2, <4>3, AppendedSet
        <4>5. Reaches(HeldAfter, u, l)
          BY <4>2, <4>4 DEF Reaches
        <4>6. QED
          BY <1>9, <4>5
      <3>2. CASE u # v
        <4>1. u \in DOMAIN top'[t] /\ top'[t][u] = top[t][u]
          BY <2>2, <2>3, <3>2
        <4>2. QED
          BY <1>8, <2>3, <4>1
      <3>3. QED
        BY <3>1, <3>2
    <2>4. Reaches(Held, u, l) => Covered(u, l)'
      <3>1. Held \subseteq HeldAfter
        BY <2>1, ReachesMore
      <3>2. QED
        BY <1>9, <3>1, ReachesMore
    <2>5. InHand(t, u, l) => Covered(u, l)'
      BY <2>1, <2>3, <2>4 DEF InHand
    <2>6. QED
      BY <1>3, <1>4, <2>1, <2>5
  <1>20. CASE PushNext(t)
    <2>1. plan[t] \in Seq(Actions) /\ plan[t] # <<>>
      BY <1>0, <1>20 DEF PushNext
    <2>2. ToSet(plan[t]) = {Head(plan[t])} \cup ToSet(Tail(plan[t])) /\ Head(plan[t]) \in Actions
      BY <2>1, TakenSet
    <2>3. /\ plan'[t] = Tail(plan[t])
          /\ UNCHANGED <<step, who, new, stage, top, doing, tried>>
      BY <1>0, <1>20 DEF PushNext, vars, tasks
    <2>4. Issued' = Issued \cup {Head(plan[t])}
      <3>1. <<Head(plan[t])>> \in Seq(Actions) /\ ToSet(<<Head(plan[t])>>) = {Head(plan[t])}
        BY <2>2 DEF ToSet
      <3>2. QED
        BY <1>5, <1>20, <2>3, <3>1 DEF PushNext
    <2>5. Held \subseteq Issued' \cup HeldAfter
      BY <2>2, <2>3, <2>4
    <2>6. Reaches(Held, u, l) => Covered(u, l)'
      <3>1. Reaches(Held, u, l) => Reaches(Issued', u, l) \/ Reaches(HeldAfter, u, l)
        BY <2>5, ReachesMore
      <3>2. Reaches(Issued', u, l) => Covered(u, l)'
        BY DEF Covered, Reaches
      <3>3. QED
        BY <1>9, <3>1, <3>2
    <2>7. stage[t] = "act"
      BY <1>1, <2>1 DEF PhaseOf
    <2>8. InHand(t, u, l) => Covered(u, l)'
      BY <1>8, <2>3, <2>6, <2>7 DEF InHand
    <2>9. QED
      BY <1>3, <2>4, <2>8
  <1>21. CASE Pop(t)
    <2>1. queue # <<>> /\ UNCHANGED <<step, who, new, stage, top, plan, tried>>
      BY <1>21 DEF Pop, vars, tasks, local
    <2>2. /\ queue' = Tail(queue) /\ doing'[t] = Head(queue)
          /\ stage[t] = "act" /\ doing[t] = Nothing /\ plan[t] = <<>>
      BY <1>0, <1>21 DEF Pop, Draining
    <2>3. Issued \subseteq Issued' \cup HeldAfter
      BY <1>0, <2>1, <2>2, TakenSet DEF Issued
    <2>4. Reaches(Issued, u, l) => Covered(u, l)'
      <3>1. Reaches(Issued, u, l) => Reaches(Issued', u, l) \/ Reaches(HeldAfter, u, l)
        BY <2>3, ReachesMore
      <3>2. Reaches(Issued', u, l) => Covered(u, l)'
        BY DEF Covered, Reaches
      <3>3. QED
        BY <1>9, <3>1, <3>2
    <2>5. InHand(t, u, l) => Covered(u, l)'
      BY <1>8, <1>14, <2>1, <2>2 DEF InHand
    <2>6. QED
      BY <1>2, <2>4, <2>5 DEF Covered
  <1>22. CASE Execute(t)
    <2>1. /\ UNCHANGED <<queue, step, who, new, stage, top, plan>>
          /\ tried' = tried \cup {doing[t]}
      BY <1>22 DEF Execute, vars, tasks, local
    <2>2. Issued' = Issued \cup {doing[t]}
      BY <2>1 DEF Issued
    <2>3. Held \subseteq Issued' \cup HeldAfter
      BY <2>1, <2>2
    <2>4. Reaches(Held, u, l) => Covered(u, l)'
      <3>1. Reaches(Held, u, l) => Reaches(Issued', u, l) \/ Reaches(HeldAfter, u, l)
        BY <2>3, ReachesMore
      <3>2. Reaches(Issued', u, l) => Covered(u, l)'
        BY DEF Covered, Reaches
      <3>3. QED
        BY <1>9, <3>1, <3>2
    <2>5. stage[t] = "act"
      BY <1>1, <1>22 DEF Execute, PhaseOf
    <2>6. InHand(t, u, l) => Covered(u, l)'
      BY <1>8, <2>1, <2>4, <2>5 DEF InHand
    <2>7. QED
      BY <1>3, <2>2, <2>6
  <1>23. CASE Finish(t)
    <2>1. stage[t] = "act" /\ UNCHANGED <<queue, tried, top, plan, doing>>
      BY <1>23 DEF Finish, Draining
    <2>2. InHand(t, u, l) => Covered(u, l)'
      BY <1>8, <1>9, <2>1 DEF InHand
    <2>3. QED
      BY <1>3, <1>4, <2>1, <2>2
  <1>24. QED
    BY <1>10, <1>11, <1>12, <1>13, <1>16, <1>17, <1>18, <1>19, <1>20, <1>21, <1>22, <1>23
       DEF Moves, Act

LEMMA SanctionsInit == EInit => SanctionsInv
  BY DEF EInit, Started, SanctionsInv

LEMMA SanctionsStep ==
  ETypeOK /\ ETypeOK' /\ Phases /\ SanctionsInv /\ [ENext]_evars => SanctionsInv'
  <1> SUFFICES ASSUME ETypeOK, ETypeOK', Phases, SanctionsInv, [ENext]_evars,
                      NEW u \in Users \ dropped',
                      offences'[u] > 0, row'[u].level >= ShortTimeout
               PROVE  Covered(u, row[u].level)'
    BY DEF SanctionsInv, Level
  <1>0. row'[u].level \in ShortTimeout..Ban
    <2>1. row' \in [Users -> Row]
      BY DEF ETypeOK, TypeOK
    <2>2. row'[u].level \in Levels
      BY <2>1 DEF Row
    <2>3. QED
      BY <2>2
  <1>1. dropped \subseteq dropped'
    <2>1. ASSUME NEW t \in Tasks, Moves(t) PROVE dropped \subseteq dropped'
      BY <2>1 DEF Moves, Act, Screen, Analyse, QueueDelete, Record1, Record2, Mark, Abort, Tell,
                  PushNext, Pop, Execute, Finish
    <2>2. QED
      BY <2>1 DEF ENext, Moves, evars
  <1>2. ASSUME NEW t \in Tasks, Moves(t) PROVE Covered(u, row[u].level)'
    <2>1. CASE Record1(t) /\ step[t] = "upsert" /\ who[t] = u
      <3>1. Upsert(t) /\ stage[t] = "record" /\ stage' = stage
        BY <2>1 DEF Record1, ReadWarning, local
      <3>2. /\ row'[u].level = new[t] /\ step'[t] = "insert" /\ new' = new /\ who' = who
        BY <2>1, <3>1 DEF Upsert, ETypeOK, TypeOK
      <3>3. row'[u].level >= row'[u].level
        BY <1>0
      <3>4. InHand(t, u, row[u].level)'
        BY <2>1, <3>1, <3>2, <3>3 DEF InHand
      <3>5. QED
        BY <3>4 DEF Covered
    <2>2. CASE ~ (Record1(t) /\ step[t] = "upsert" /\ who[t] = u)
      <3>1. offences'[u] = offences[u] /\ row'[u].level = row[u].level
        <4>1. UNCHANGED vars => UNCHANGED <<offences, row>>
          BY DEF vars, hist
        <4>2. CASE Record1(t)
          BY <2>2, <4>2 DEF Record1, ReadWarning, Upsert, ETypeOK, TypeOK, hist
        <4>3. CASE Record2(t)
          BY <4>3 DEF Record2, InsertViolation, hist
        <4>4. CASE Mark(t)
          <5>1. MarkKicked(t) /\ TypeOK
            BY <4>4 DEF Mark, ETypeOK
          <5>2. QED
            BY <5>1, MarkKeepsLevels DEF MarkKicked
        <4>5. CASE Abort(t)
          BY <4>1, <4>5 DEF Abort, RecordError, hist
        <4>6. QED
          BY <1>2, <4>1, <4>2, <4>3, <4>4, <4>5
             DEF Moves, Act, Screen, Analyse, QueueDelete, Tell, PushNext, Pop, Execute, Finish
      <3>2. Covered(u, row[u].level)
        BY <1>1, <3>1 DEF SanctionsInv, Level
      <3>3. Covered(u, row'[u].level)
        BY <3>1, <3>2
      <3> DEFINE l == row[u].level
      <3>4. l \in ShortTimeout..Ban
        BY <1>0, <3>1
      <3> HIDE DEF l
      <3>5. Covered(u, l)
        BY <3>2 DEF l
      <3>6. QED
        BY <1>2, <3>1, <3>4, <3>5, StillCovered DEF l, Covered, Reaches, InHand
    <2>3. QED
      BY <2>1, <2>2
  <1>3. CASE UNCHANGED evars
    <2>1. UNCHANGED <<vars, queue, local, doing, tried, dropped>>
      BY <1>3 DEF evars
    <2>2. UNCHANGED <<row, offences, step, who, new, stage, top, plan>>
      BY <2>1 DEF vars, tasks, hist, local
    <2>3. Covered(u, row[u].level)
      BY <2>1, <2>2 DEF SanctionsInv, Level
    <2>4. QED
      BY <2>1, <2>2, <2>3 DEF Covered, Reaches, InHand, Issued
  <1>4. QED
    BY <1>2, <1>3 DEF ENext, Moves

\* However many handlers and flushes share the queue, and whichever of them
\* pushes or executes an action: once all rest, every user whose level rose to a
\* sanction has had an action of that level or a higher one queued or executed,
\* unless an error struck.
THEOREM SanctionsFollowEver == ESpec => []SanctionsFollow
  <1>1. Phases /\ SanctionsInv => SanctionsFollow
    <2> SUFFICES ASSUME Phases, SanctionsInv, Resting, NEW u \in Users,
                        offences[u] > 0, u \notin dropped, Level(u) >= ShortTimeout
                 PROVE  \E l \in Level(u)..Ban : Sanction(u, l) \in Issued
      BY DEF SanctionsFollow
    <2>1. Covered(u, Level(u))
      BY DEF SanctionsInv
    <2>2. ASSUME NEW t \in Tasks PROVE ~ InHand(t, u, Level(u))
      <3>1. stage[t] = "idle" /\ DOMAIN top[t] = {} /\ plan[t] = <<>> /\ doing[t] = Nothing
        BY DEF Resting, Phases, PhaseOf
      <3>2. ToSet(plan[t]) \cup {doing[t]} = {Nothing}
        BY <3>1, ReachesMore
      <3>3. QED
        BY <3>1, <3>2, ReachesMore DEF InHand
    <2>3. QED
      BY <2>1, <2>2 DEF Covered, Reaches
  <1>2. QED
    BY <1>1, ETypeInit, ETypeStep, PhasesInit, PhasesStep, SanctionsInit, SanctionsStep, PTL
       DEF ESpec

-----------------------------------------------------------------------------
(* A verdict has its message deleted once.                                 *)

\* A value occurs in a sequence at most once.
Single(d, s) == \A i, j \in DOMAIN s : s[i] = d /\ s[j] = d => i = j

LEMMA SinglePush ==
  ASSUME NEW S, NEW s \in Seq(S), NEW as \in Seq(S), NEW d, Single(d, s), Single(d, as),
         d \notin ToSet(s) \/ d \notin ToSet(as)
  PROVE  Single(d, s \o as)
  <1> DEFINE r == s \o as
             n == Len(s)
             k == Len(as)
  <1>1. n \in Nat /\ k \in Nat /\ DOMAIN s = 1..n /\ DOMAIN as = 1..k
    BY LenProperties
  <1>2. r \in Seq(S) /\ Len(r) = n + k
    BY ConcatProperties
  <1>3. \A i \in 1..n + k : r[i] = IF i <= n THEN s[i] ELSE as[i - n]
    BY ConcatProperties
  <1> HIDE DEF r, n, k
  <1>4. DOMAIN r = 1..n + k
    BY <1>2, LenProperties
  <1>5. /\ \A i \in 1..n : s[i] \in ToSet(s)
        /\ \A i \in 1..k : as[i] \in ToSet(as)
    BY <1>1 DEF ToSet
  <1>6. ASSUME NEW i \in 1..n + k, i \notin 1..n PROVE i - n \in 1..k /\ r[i] = as[i - n]
    <2>1. i - n \in 1..k /\ ~ (i <= n)
      BY <1>1, <1>6
    <2>2. QED
      BY <1>3, <2>1
  <1>7. ASSUME NEW i \in 1..n + k, i \in 1..n PROVE r[i] = s[i]
    <2>1. i <= n
      BY <1>1, <1>7
    <2>2. QED
      BY <1>3, <2>1
  <1>8. ASSUME NEW i \in 1..n + k, NEW j \in 1..n + k, r[i] = d, r[j] = d PROVE i = j
    <2>1. CASE i \in 1..n /\ j \in 1..n
      BY <1>1, <1>7, <1>8, <2>1 DEF Single
    <2>2. CASE i \notin 1..n /\ j \notin 1..n
      <3>1. i - n = j - n
        BY <1>1, <1>6, <1>8, <2>2 DEF Single
      <3>2. QED
        BY <1>1, <3>1
    <2>3. CASE (i \in 1..n) # (j \in 1..n)
      <3>1. d \in ToSet(s)
        BY <1>5, <1>7, <1>8, <2>3
      <3>2. PICK l \in 1..n + k : l \notin 1..n /\ r[l] = d
        BY <1>8, <2>3
      <3>3. l - n \in 1..k /\ as[l - n] = d
        BY <1>6, <3>2
      <3>4. d \in ToSet(as)
        BY <1>5, <3>3
      <3>5. QED
        BY <3>1, <3>4
    <2>4. QED
      BY <2>1, <2>2, <2>3
  <1>9. QED
    BY <1>4, <1>8 DEF Single, r

LEMMA SingleTail ==
  ASSUME NEW S, NEW s \in Seq(S), s # <<>>, NEW d, Single(d, s)
  PROVE  Single(d, Tail(s)) /\ (Head(s) = d => d \notin ToSet(Tail(s)))
  <1>1. /\ 1 \in DOMAIN s /\ s[1] = Head(s)
        /\ \A i \in DOMAIN Tail(s) : i \in Nat /\ i + 1 \in DOMAIN s /\ Tail(s)[i] = s[i + 1]
        /\ DOMAIN Tail(s) \subseteq Nat \ {0}
    <2>1. Tail(s) \in Seq(S)
      BY TakenSet
    <2>2. DOMAIN Tail(s) \subseteq Nat \ {0}
      BY <2>1, LenProperties
    <2>3. QED
      BY <2>2, TakenSet
  <1> DEFINE r == Tail(s)
  <1> HIDE DEF r
  <1>2. ASSUME NEW i \in DOMAIN r, NEW j \in DOMAIN r, r[i] = d, r[j] = d PROVE i = j
    <2>1. i \in Nat /\ j \in Nat /\ i + 1 = j + 1
      BY <1>1, <1>2 DEF Single, r
    <2>2. QED
      BY <2>1
  <1>3. ASSUME s[1] = d, NEW i \in DOMAIN r, r[i] = d PROVE FALSE
    <2>1. i \in Nat \ {0} /\ i + 1 = 1
      BY <1>1, <1>3 DEF Single, r
    <2>2. QED
      BY <2>1
  <1>4. Head(s) = d => d \notin ToSet(r)
    BY <1>1, <1>3 DEF ToSet
  <1>5. QED
    BY <1>2, <1>4 DEF Single, r

\* Where the deletion a verdict calls for is.
InTodo(d)  == \E t \in Tasks : d \in todo[t]
InQueue(d) == Delete(d) \in ToSet(queue)
InDoing(d) == \E t \in Tasks : doing[t] = Delete(d)
InTried(d) == Delete(d) \in tried

Somewhere(d) == InTodo(d) \/ InQueue(d) \/ InDoing(d) \/ InTried(d)

\* In one place only, and there only once.
Once(d) ==
    /\ InTodo(d) => ~ InQueue(d) /\ ~ InDoing(d) /\ ~ InTried(d)
    /\ InQueue(d) => ~ InDoing(d) /\ ~ InTried(d)
    /\ InDoing(d) => ~ InTried(d)
    /\ \A s, t \in Tasks : d \in todo[s] /\ d \in todo[t] => s = t
    /\ \A s, t \in Tasks : doing[s] = Delete(d) /\ doing[t] = Delete(d) => s = t
    /\ Single(Delete(d), queue)

\* Inductive: a verdict not given yet is nowhere, and it is given once, so what
\* gives it is its first place; what a task plans to push holds no deletion, so
\* nothing else adds one.
OnceInv(d) ==
    /\ Once(d)
    /\ d \notin given => ~ Somewhere(d)
    /\ d \in given => Offender(d) \in dropped \/ Somewhere(d)

Summaries == {Summary(u) : u \in Users}

PlansInv == \A t \in Tasks : ToSet(plan[t]) \subseteq Sanctions \cup Summaries

DeletedInv == PlansInv /\ \A d \in Verdicts : OnceInv(d)

LEMMA NoDeletion == \A d : Delete(d) \notin Sanctions \cup Summaries
  BY ActionKinds DEF Sanctions, Summaries

LEMMA PlansStep == ETypeOK /\ Phases /\ PlansInv /\ [ENext]_evars => PlansInv'
  <1> SUFFICES ASSUME ETypeOK, Phases, PlansInv, [ENext]_evars, NEW q \in Tasks
               PROVE  ToSet(plan'[q]) \subseteq Sanctions \cup Summaries
    BY DEF PlansInv
  <1>0. ToSet(plan[q]) \subseteq Sanctions \cup Summaries
    BY DEF PlansInv
  <1>1. CASE plan'[q] = plan[q]
    BY <1>0, <1>1
  <1>2. ASSUME NEW s \in Seq(Sanctions) PROVE ToSet(s) \subseteq Sanctions \cup Summaries
    <2>1. \A i \in DOMAIN s : s[i] \in Sanctions
      BY <1>2
    <2>2. QED
      BY <2>1 DEF ToSet
  <1>3. ASSUME NEW t \in Tasks, Recorded(t), step[t] # "idle", plan'[q] # plan[q]
        PROVE  ToSet(plan'[q]) \subseteq Sanctions \cup Summaries
    <2>1. who[t] \in Users /\ new[t] \in Levels
      BY <1>3 DEF ETypeOK, TypeOK
    <2>2. plan'[q] = WarningAction(who[t], new[t])
      BY <1>3, Arrays DEF Recorded
    <2>3. WarningAction(who[t], new[t]) \in Seq(Sanctions)
      BY <2>1, WarningActionTypes
    <2>4. QED
      BY <1>2, <2>2, <2>3
  <1>4. ASSUME NEW t \in Tasks, NEW u \in Users, Tell(t, u), q = t
        PROVE  ToSet(plan'[q]) \subseteq Sanctions \cup Summaries
    <2>1. top[t] \in LevelMaps /\ u \in DOMAIN top[t]
      BY <1>4, Arrays DEF Tell
    <2>2. top[t][u] \in Levels
      BY <2>1 DEF LevelMaps
    <2> DEFINE wa == WarningAction(u, top[t][u])
    <2>3. wa \in Seq(Sanctions) /\ wa \in Seq(Actions) /\ Summary(u) \in Actions
      BY <2>2, WarningActionTypes, ActionTypes
    <2>4. plan'[q] = Append(wa, Summary(u))
      BY <1>4, Arrays DEF Tell
    <2> HIDE DEF wa
    <2>5. ToSet(Append(wa, Summary(u))) = ToSet(wa) \cup {Summary(u)}
      BY <2>3, AppendedSet
    <2>6. ToSet(wa) \subseteq Sanctions \cup Summaries
      BY <1>2, <2>3
    <2>7. QED
      BY <2>4, <2>5, <2>6 DEF Summaries
  <1>5. ASSUME NEW t \in Tasks, PushNext(t), q = t
        PROVE  ToSet(plan'[q]) \subseteq Sanctions \cup Summaries
    <2>1. plan[t] \in Seq(Actions) /\ plan[t] # <<>> /\ plan'[t] = Tail(plan[t])
      BY <1>5, Arrays DEF PushNext
    <2>2. ToSet(plan[t]) = {Head(plan[t])} \cup ToSet(Tail(plan[t]))
      BY <2>1, TakenSet
    <2>3. QED
      BY <1>0, <1>5, <2>1, <2>2
  <1>6. ASSUME NEW t \in Tasks, Record2(t) \/ Mark(t), plan'[q] # plan[q]
        PROVE  Recorded(t) /\ step[t] # "idle"
    BY <1>6 DEF Record2, InsertViolation, Mark, MarkKicked
  <1>7. ASSUME NEW t \in Tasks, Moves(t), q # t PROVE plan'[q] = plan[q]
    BY <1>7, OneMoves DEF OthersStay
  <1>8. ASSUME NEW t \in Tasks, Moves(t), plan' # plan
        PROVE  \/ Record2(t) \/ Mark(t) \/ PushNext(t)
               \/ \E u \in Users : Tell(t, u)
    BY <1>8 DEF Moves, Act, Screen, Analyse, QueueDelete, Record1, Abort, Pop, Execute, Finish, local
  <1>9. CASE UNCHANGED evars
    BY <1>0, <1>9 DEF evars, local
  <1>10. QED
    BY <1>1, <1>3, <1>4, <1>5, <1>6, <1>7, <1>8, <1>9 DEF ENext, Moves

\* A verdict none of whose places a step touches.
LEMMA Untouched ==
  ASSUME NEW d, OnceInv(d), dropped \subseteq dropped', d \in given' <=> d \in given,
         \A q \in Tasks : d \in todo'[q] <=> d \in todo[q],
         \A q \in Tasks : doing'[q] = Delete(d) <=> doing[q] = Delete(d),
         InQueue(d)' <=> InQueue(d), Single(Delete(d), queue'), InTried(d)' <=> InTried(d)
  PROVE  OnceInv(d)'
  <1>1. (InTodo(d)' <=> InTodo(d)) /\ (InDoing(d)' <=> InDoing(d))
    BY DEF InTodo, InDoing
  <1>2. Somewhere(d)' <=> Somewhere(d)
    BY <1>1 DEF Somewhere
  <1>3. Once(d)'
    <2>1. /\ InTodo(d)' => ~ InQueue(d)' /\ ~ InDoing(d)' /\ ~ InTried(d)'
          /\ InQueue(d)' => ~ InDoing(d)' /\ ~ InTried(d)'
          /\ InDoing(d)' => ~ InTried(d)'
      BY <1>1 DEF OnceInv, Once
    <2>2. \A s, t \in Tasks : d \in todo'[s] /\ d \in todo'[t] => s = t
      BY DEF OnceInv, Once
    <2>3. \A s, t \in Tasks : doing'[s] = Delete(d) /\ doing'[t] = Delete(d) => s = t
      BY DEF OnceInv, Once
    <2>4. Single(Delete(d), queue)'
      BY DEF Single
    <2>5. QED
      BY <2>1, <2>2, <2>3, <2>4 DEF Once
  <1>4. QED
    BY <1>2, <1>3 DEF OnceInv

\* What a push does to the deletion for a verdict.
LEMMA DeletionPushed ==
  ASSUME ETypeOK, NEW d, Single(Delete(d), queue), NEW as \in Seq(Actions), Push(as)
  PROVE  /\ Delete(d) \notin ToSet(as) => /\ InQueue(d)' <=> InQueue(d)
                                         /\ Single(Delete(d), queue')
         /\ Delete(d) \in ToSet(as) /\ Single(Delete(d), as) /\ ~ InQueue(d)
              => InQueue(d)' /\ Single(Delete(d), queue')
  <1>1. queue \in Seq(Actions) /\ queue' = queue \o as
    BY DEF ETypeOK, Push
  <1>2. ToSet(queue \o as) = ToSet(queue) \cup ToSet(as)
    BY ONLY <1>1, as \in Seq(Actions), PushedSet
  <1>3. ASSUME Single(Delete(d), as), Delete(d) \notin ToSet(queue) \/ Delete(d) \notin ToSet(as)
        PROVE  Single(Delete(d), queue \o as)
    BY ONLY <1>1, <1>3, as \in Seq(Actions), Single(Delete(d), queue), SinglePush
  <1>4. Delete(d) \notin ToSet(as) => Single(Delete(d), as)
    BY DEF Single, ToSet
  <1>5. QED
    BY <1>1, <1>2, <1>3, <1>4 DEF InQueue

LEMMA OnceInit == EInit => DeletedInv
  <1> SUFFICES ASSUME EInit PROVE DeletedInv
    OBVIOUS
  <1>0. ToSet(<<>>) = {}
    BY DEF ToSet
  <1>1. PlansInv
    BY <1>0 DEF EInit, PlansInv
  <1>2. ASSUME NEW d \in Verdicts PROVE OnceInv(d)
    <2>1. ~ InTodo(d) /\ ~ InQueue(d)
      BY <1>0 DEF EInit, InTodo, InQueue
    <2>2. ~ InDoing(d) /\ ~ InTried(d)
      BY ActionKinds DEF EInit, InDoing, InTried
    <2>3. Single(Delete(d), queue) /\ d \notin given
      BY DEF EInit, Single
    <2>4. \A t \in Tasks : d \notin todo[t] /\ doing[t] # Delete(d)
      BY <2>1, <2>2 DEF InTodo, InDoing
    <2>5. QED
      BY <2>1, <2>2, <2>3, <2>4 DEF OnceInv, Once, Somewhere
  <1>3. QED
    BY <1>1, <1>2 DEF DeletedInv

LEMMA OnceMoves ==
  ASSUME ETypeOK, Phases, PlansInv, NEW t \in Tasks, Moves(t), NEW d \in Verdicts, OnceInv(d)
  PROVE  OnceInv(d)'
  <1>0. /\ todo \in [Tasks -> SUBSET Verdicts] /\ plan \in [Tasks -> Seq(Actions)]
        /\ doing \in [Tasks -> Actions \cup {Nothing}] /\ queue \in Seq(Actions)
    BY DEF ETypeOK
  <1>1. Single(Delete(d), queue)
    BY DEF OnceInv, Once
  <1>2. ASSUME UNCHANGED <<queue, todo, doing, given, tried, dropped>> PROVE OnceInv(d)'
    BY <1>1, <1>2, Untouched DEF InQueue, InTried
  <1>3. ASSUME NEW n \in Verdicts, Screen(t, n) PROVE OnceInv(d)'
    <2> DEFINE as == <<Delete(n), Notify(n)>>
    <2>0. as \in Seq(Actions) /\ ToSet(as) = {Delete(n), Notify(n)}
      BY ActionTypes DEF ToSet
    <2>1. Push(as) /\ UNCHANGED <<todo, doing, tried, dropped>> /\ given' = given \cup {n} /\ n \notin given
      BY <1>3 DEF Screen, Judged
    <2>2. CASE d = n
      <3>1. ~ Somewhere(d)
        BY <2>1, <2>2 DEF OnceInv
      <3>2. Single(Delete(d), as) /\ Delete(d) \in ToSet(as)
        BY <2>0, <2>2, ActionKinds DEF Single
      <3> HIDE DEF as
      <3>3. InQueue(d)' /\ Single(Delete(d), queue')
        BY <1>1, <2>0, <2>1, <3>1, <3>2, DeletionPushed DEF Somewhere
      <3>4. ~ InTodo(d)' /\ ~ InDoing(d)' /\ ~ InTried(d)'
        BY <2>1, <3>1 DEF Somewhere, InTodo, InDoing, InTried
      <3>5. d \in given'
        BY <2>1, <2>2
      <3>6. QED
        BY <3>3, <3>4, <3>5 DEF OnceInv, Once, Somewhere, InTodo, InDoing, Single
    <2>3. CASE d # n
      <3>1. Delete(d) \notin ToSet(as)
        BY <2>0, <2>3, ActionKinds
      <3> HIDE DEF as
      <3>2. (InQueue(d)' <=> InQueue(d)) /\ Single(Delete(d), queue')
        BY <1>1, <2>0, <2>1, <3>1, DeletionPushed
      <3>3. QED
        BY <2>1, <2>3, <3>2, Untouched DEF InTried
    <2>4. QED
      BY <2>2, <2>3
  <1>4. ASSUME NEW verdicts \in SUBSET Verdicts, Analyse(t, verdicts) PROVE OnceInv(d)'
    <2>1. /\ UNCHANGED <<queue, doing, tried, dropped>> /\ given' = given \cup verdicts
          /\ (\A n \in verdicts : n \notin given) /\ todo[t] = {}
          /\ \A q \in Tasks : todo'[q] = IF q = t THEN verdicts ELSE todo[q]
      BY <1>0, <1>4 DEF Analyse, Judged, Phases, PhaseOf
    <2>2. CASE d \in verdicts
      <3>1. ~ Somewhere(d)
        BY <2>1, <2>2 DEF OnceInv
      <3>2. ~ InQueue(d)' /\ ~ InDoing(d)' /\ ~ InTried(d)'
        BY <2>1, <3>1 DEF Somewhere, InQueue, InDoing, InTried
      <3>3. \A q \in Tasks : d \in todo'[q] <=> q = t
        BY <2>1, <2>2, <3>1 DEF Somewhere, InTodo
      <3>4. InTodo(d)' /\ d \in given' /\ Single(Delete(d), queue)'
        BY <1>1, <2>1, <2>2, <3>3 DEF InTodo
      <3>5. \A q \in Tasks : doing'[q] # Delete(d)
        BY <3>2 DEF InDoing
      <3>6. QED
        BY <3>2, <3>3, <3>4, <3>5 DEF OnceInv, Once, Somewhere
    <2>3. CASE d \notin verdicts
      BY <1>1, <2>1, <2>3, Untouched DEF InQueue, InTried
    <2>4. QED
      BY <2>2, <2>3
  <1>5. ASSUME NEW n \in Verdicts, QueueDelete(t, n) PROVE OnceInv(d)'
    <2> DEFINE as == <<Delete(n)>>
    <2>0. as \in Seq(Actions) /\ ToSet(as) = {Delete(n)}
      BY ActionTypes DEF ToSet
    <2>1. /\ Push(as) /\ UNCHANGED <<doing, tried, dropped, given>> /\ n \in todo[t]
          /\ \A q \in Tasks : todo'[q] = IF q = t THEN todo[t] \ {n} ELSE todo[q]
      BY <1>0, <1>5 DEF QueueDelete
    <2>2. CASE d = n
      <3>1. InTodo(d) /\ ~ InQueue(d) /\ ~ InDoing(d) /\ ~ InTried(d) /\ d \in given
        BY <2>1, <2>2 DEF OnceInv, Once, Somewhere, InTodo
      <3>2. Single(Delete(d), as) /\ Delete(d) \in ToSet(as)
        BY <2>0, <2>2 DEF Single
      <3> HIDE DEF as
      <3>3. InQueue(d)' /\ Single(Delete(d), queue')
        BY <1>1, <2>0, <2>1, <3>1, <3>2, DeletionPushed
      <3>4. ~ InDoing(d)' /\ ~ InTried(d)' /\ d \in given'
        BY <2>1, <3>1 DEF InDoing, InTried
      <3>5. \A q \in Tasks : d \notin todo'[q]
        BY <2>1, <2>2 DEF OnceInv, Once
      <3>6. QED
        BY <3>3, <3>4, <3>5 DEF OnceInv, Once, Somewhere, InTodo, InDoing, Single
    <2>3. CASE d # n
      <3>1. Delete(d) \notin ToSet(as)
        BY <2>0, <2>3, ActionKinds
      <3> HIDE DEF as
      <3>2. (InQueue(d)' <=> InQueue(d)) /\ Single(Delete(d), queue')
        BY <1>1, <2>0, <2>1, <3>1, DeletionPushed
      <3>3. QED
        BY <2>1, <2>3, <3>2, Untouched DEF InTried
    <2>4. QED
      BY <2>2, <2>3
  <1>6. CASE Abort(t)
    <2>1. /\ UNCHANGED <<queue, doing, tried, given>> /\ dropped \subseteq dropped'
          /\ \A q \in Tasks : todo'[q] = IF q = t THEN {} ELSE todo[q]
          /\ d \in todo[t] => Offender(d) \in dropped'
      BY <1>0, <1>6 DEF Abort
    <2>2. CASE d \in todo[t]
      <3>1. ~ InQueue(d)' /\ ~ InDoing(d)' /\ ~ InTried(d)' /\ d \in given'
        BY <2>1, <2>2 DEF OnceInv, Once, Somewhere, InTodo, InQueue, InDoing, InTried
      <3>2. \A q \in Tasks : d \notin todo'[q]
        BY <2>1, <2>2 DEF OnceInv, Once
      <3>3. Single(Delete(d), queue)'
        BY <1>1, <2>1
      <3>4. QED
        BY <2>1, <2>2, <3>1, <3>2, <3>3 DEF OnceInv, Once, InDoing, InTodo
    <2>3. CASE d \notin todo[t]
      BY <1>1, <2>1, <2>3, Untouched DEF InQueue, InTried
    <2>4. QED
      BY <2>2, <2>3
  <1>7. CASE PushNext(t)
    <2>1. plan[t] \in Seq(Actions) /\ plan[t] # <<>>
      BY <1>0, <1>7 DEF PushNext
    <2>2. Head(plan[t]) \in Actions /\ Head(plan[t]) \in ToSet(plan[t])
      BY <2>1, TakenSet
    <2> DEFINE as == <<Head(plan[t])>>
    <2>3. as \in Seq(Actions) /\ ToSet(as) = {Head(plan[t])}
      BY <2>2 DEF ToSet
    <2>4. Delete(d) \notin ToSet(as)
      BY <2>2, <2>3, NoDeletion DEF PlansInv
    <2>5. Push(as) /\ UNCHANGED <<todo, doing, given, tried, dropped>>
      BY <1>7 DEF PushNext
    <2> HIDE DEF as
    <2>6. (InQueue(d)' <=> InQueue(d)) /\ Single(Delete(d), queue')
      BY <1>1, <2>3, <2>4, <2>5, DeletionPushed
    <2>7. QED
      BY <2>5, <2>6, Untouched DEF InTried
  <1>8. CASE Pop(t)
    <2>1. /\ queue # <<>> /\ queue' = Tail(queue) /\ doing[t] = Nothing
          /\ UNCHANGED <<todo, given, tried, dropped>>
          /\ \A q \in Tasks : doing'[q] = IF q = t THEN Head(queue) ELSE doing[q]
      BY <1>0, <1>8 DEF Pop, Draining, local
    <2>2. ToSet(queue) = {Head(queue)} \cup ToSet(queue')
      BY <1>0, <2>1, TakenSet
    <2>3. /\ Single(Delete(d), queue')
          /\ Head(queue) = Delete(d) => Delete(d) \notin ToSet(queue')
      BY <1>0, <1>1, <2>1, SingleTail
    <2>4. CASE Head(queue) = Delete(d)
      <3>1. InQueue(d)
        BY <2>2, <2>4 DEF InQueue
      <3>2. ~ InTodo(d) /\ ~ InDoing(d) /\ ~ InTried(d) /\ d \in given
        BY <3>1 DEF OnceInv, Once, Somewhere
      <3>3. ~ InTodo(d)' /\ ~ InQueue(d)' /\ ~ InTried(d)' /\ d \in given'
        BY <2>1, <2>3, <2>4, <3>2 DEF InTodo, InQueue, InTried
      <3>4. \A q \in Tasks : doing'[q] = Delete(d) <=> q = t
        BY <2>1, <2>4, <3>2 DEF InDoing
      <3>5. InDoing(d)' /\ \A q \in Tasks : d \notin todo'[q]
        BY <3>3, <3>4 DEF InDoing, InTodo
      <3>6. QED
        BY <2>3, <3>3, <3>4, <3>5 DEF OnceInv, Once, Somewhere, Single
    <2>5. CASE Head(queue) # Delete(d)
      <3>1. InQueue(d)' <=> InQueue(d)
        BY <2>2, <2>5 DEF InQueue
      <3>2. \A q \in Tasks : doing'[q] = Delete(d) <=> doing[q] = Delete(d)
        BY <2>1, <2>5, ActionKinds
      <3>3. QED
        BY <2>1, <2>3, <3>1, <3>2, Untouched DEF InTried
    <2>6. QED
      BY <2>4, <2>5
  <1>9. CASE Execute(t)
    <2>1. /\ UNCHANGED <<queue, todo, given, dropped>> /\ tried' = tried \cup {doing[t]}
          /\ \A q \in Tasks : doing'[q] = IF q = t THEN Nothing ELSE doing[q]
      BY <1>0, <1>9 DEF Execute, local
    <2>2. CASE doing[t] = Delete(d)
      <3>1. ~ InTodo(d) /\ ~ InQueue(d) /\ d \in given
        BY <2>2 DEF OnceInv, Once, Somewhere, InDoing
      <3>2. ~ InTodo(d)' /\ ~ InQueue(d)' /\ InTried(d)' /\ d \in given'
        BY <2>1, <2>2, <3>1 DEF InTodo, InQueue, InTried
      <3>3. \A q \in Tasks : doing'[q] # Delete(d)
        BY <2>1, <2>2, ActionKinds DEF OnceInv, Once
      <3>4. Single(Delete(d), queue)' /\ \A q \in Tasks : d \notin todo'[q]
        BY <1>1, <2>1, <3>2 DEF InTodo
      <3>5. QED
        BY <3>2, <3>3, <3>4 DEF OnceInv, Once, Somewhere, InDoing
    <2>3. CASE doing[t] # Delete(d)
      <3>1. \A q \in Tasks : doing'[q] = Delete(d) <=> doing[q] = Delete(d)
        BY <2>1, <2>3, ActionKinds
      <3>2. InTried(d)' <=> InTried(d)
        BY <2>1, <2>3 DEF InTried
      <3>3. QED
        BY <1>1, <2>1, <3>1, <3>2, Untouched DEF InQueue
    <2>4. QED
      BY <2>2, <2>3
  <1>10. ASSUME \/ Record1(t) \/ Record2(t) \/ Mark(t) \/ Finish(t)
                \/ \E u \in Users : Tell(t, u)
         PROVE  OnceInv(d)'
    BY <1>2, <1>10 DEF Record1, Record2, Mark, Finish, Tell, local
  <1>11. QED
    BY <1>3, <1>4, <1>5, <1>6, <1>7, <1>8, <1>9, <1>10 DEF Moves, Act

LEMMA DeletedStep ==
  ETypeOK /\ Phases /\ DeletedInv /\ [ENext]_evars => DeletedInv'
  <1> SUFFICES ASSUME ETypeOK, Phases, DeletedInv, [ENext]_evars PROVE DeletedInv'
    OBVIOUS
  <1>1. PlansInv /\ PlansInv'
    BY PlansStep DEF DeletedInv
  <1>2. ASSUME NEW d \in Verdicts PROVE OnceInv(d)'
    <2>1. OnceInv(d)
      BY DEF DeletedInv
    <2>2. ASSUME NEW t \in Tasks, Moves(t) PROVE OnceInv(d)'
      BY <1>1, <2>1, <2>2, OnceMoves
    <2>3. CASE UNCHANGED evars
      <3>1. UNCHANGED <<queue, todo, doing, given, tried, dropped>>
        BY <2>3 DEF evars, local
      <3>2. Single(Delete(d), queue)'
        BY <2>1, <3>1 DEF OnceInv, Once
      <3>3. QED
        BY <2>1, <3>1, <3>2, Untouched DEF InQueue, InTried
    <2>4. QED
      BY <2>2, <2>3 DEF ENext, Moves
  <1>3. QED
    BY <1>1, <1>2 DEF DeletedInv

\* However handlers and flushes share the queue, the deletion a verdict calls for
\* is in one place at a time - still to be queued, queued, being executed, over -
\* and, once the verdict is given, in some place unless an error struck its
\* author's batch.  Nothing is assumed of how many verdicts name one message.
THEOREM DeletedOnceEver == ESpec => []DeletedOnce
  <1>1. DeletedInv => DeletedOnce
    <2> SUFFICES ASSUME DeletedInv, NEW d \in Verdicts
                 PROVE  /\ \A p, q \in Places(d) : p = q
                        /\ d \in given => Offender(d) \in dropped \/ Places(d) # {}
      BY DEF DeletedOnce
    <2>1. OnceInv(d)
      BY DEF DeletedInv
    <2> DEFINE T == {t \in Tasks : d \in todo[t]}
               Q == {i \in DOMAIN queue : queue[i] = Delete(d)}
               D == {t \in Tasks : doing[t] = Delete(d)}
               X == {Delete(d)} \cap tried
    <2>2. /\ InTodo(d) <=> T # {}
          /\ InQueue(d) <=> Q # {}
          /\ InDoing(d) <=> D # {}
          /\ InTried(d) <=> X # {}
      BY DEF InTodo, InQueue, InDoing, InTried, ToSet
    <2>3. /\ \A a, b \in T : a = b
          /\ \A a, b \in Q : a = b
          /\ \A a, b \in D : a = b
          /\ \A a, b \in X : a = b
      BY <2>1 DEF OnceInv, Once, Single
    <2>4. /\ T # {} => Q = {} /\ D = {} /\ X = {}
          /\ Q # {} => D = {} /\ X = {}
          /\ D # {} => X = {}
      BY <2>1, <2>2 DEF OnceInv, Once
    <2>5. T # {} \/ Q # {} \/ D # {} \/ X # {} \/ d \notin given \/ Offender(d) \in dropped
      BY <2>1, <2>2 DEF OnceInv, Somewhere
    <2>6. Places(d) = {<<"todo", t>> : t \in T} \cup {<<"queue", i>> : i \in Q}
                      \cup {<<"doing", t>> : t \in D} \cup {<<"tried", a>> : a \in X}
      BY DEF Places
    <2> HIDE DEF T, Q, D, X
    <2>7. QED
      BY <2>3, <2>4, <2>5, <2>6
  <1>2. QED
    BY <1>1, ETypeInit, ETypeStep, PhasesInit, PhasesStep, OnceInit, DeletedStep, PTL DEF ESpec

=============================================================================
