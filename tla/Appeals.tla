------------------------------ MODULE Appeals -------------------------------
(***************************************************************************)
(* Appeals against moderation (src/src/appeals.rs).  Every operation is a  *)
(* chain of statements that other handlers' statements slip between, and   *)
(* any of them may fail and end the operation.                             *)
(***************************************************************************)
EXTENDS Integers, Sequences, FiniteSets

CONSTANTS
    Handlers,    \* callers at the same time
    Appellants,  \* users
    MaxAppeals   \* bound: appeals, and resolutions begun

\* Assumed by the module that instantiates this one.
ConstantsFit == MaxAppeals \in Nat

VARIABLES
    appeals,      \* the table, in order of insertion
    desk,         \* per handler: its step
    warned,       \* users that have a row in user_warnings
    resolutions,  \* resolutions begun
    overlapped    \* users for whom two create_appeal ran at once (for properties)

vars == <<appeals, desk, warned, resolutions, overlapped>>

Idle == [pc |-> "idle"]
Statuses == {"pending", "approved", "denied"}

(* reopened: its status was set to pending again; cleared: the warnings    *)
(* were cleared since it was last resolved; failed: a statement of that    *)
(* failed since (all for properties).                                      *)
AppealRow == [user : Appellants, status : Statuses, reopened : BOOLEAN, cleared : BOOLEAN, failed : BOOLEAN]

TypeOK ==
    /\ appeals \in Seq(AppealRow)
    /\ desk \in [Handlers -> {Idle} \cup [pc : {"insert"}, user : Appellants]
                                    \cup [pc : {"fetch", "clear"}, appeal : DOMAIN appeals]]
    /\ warned \subseteq Appellants /\ overlapped \subseteq Appellants
    /\ resolutions \in Nat

Init ==
    /\ appeals = <<>> /\ warned = {}
    /\ desk = [h \in Handlers |-> Idle]
    /\ resolutions = 0 /\ overlapped = {}

Goto(h, step) == desk' = [desk EXCEPT ![h] = step]
Fail(h) == Goto(h, Idle)

(* has_active_appeal                                                       *)
HasActiveAppeal(u) == \E i \in DOMAIN appeals : appeals[i].user = u /\ appeals[i].status = "pending"

(* create_appeal: the check ...                                            *)
CreateAppeal(h, u) ==
    /\ desk[h] = Idle /\ ~HasActiveAppeal(u)
    /\ Goto(h, [pc |-> "insert", user |-> u])
    /\ overlapped' = IF \E g \in Handlers : desk[g] = [pc |-> "insert", user |-> u]
                     THEN overlapped \cup {u} ELSE overlapped
    /\ UNCHANGED <<appeals, warned, resolutions>>

(* ... and the insert, which nothing makes depend on it.                   *)
InsertAppeal(h) ==
    /\ desk[h].pc = "insert"
    /\ \/ /\ Len(appeals) < MaxAppeals
          /\ appeals' = Append(appeals, [user |-> desk[h].user, status |-> "pending",
                                      reopened |-> FALSE, cleared |-> FALSE, failed |-> FALSE])
       \/ UNCHANGED appeals
    /\ Fail(h)
    /\ UNCHANGED <<warned, resolutions, overlapped>>

Resolved(a, status) ==
    [a EXCEPT !.status = status, !.reopened = (status = "pending"), !.cleared = FALSE, !.failed = FALSE]

(* Mutant: only an appeal that is pending is acted upon.                   *)
FaultyResolveAppeal(h, i, status) ==
    /\ desk[h] = Idle /\ resolutions < MaxAppeals
    /\ resolutions' = resolutions + 1
    /\ appeals' = [appeals EXCEPT ![i] = Resolved(@, status)]
    /\ Goto(h, IF status = "approved" /\ appeals[i].status = "pending"
               THEN [pc |-> "fetch", appeal |-> i] ELSE Idle)
    /\ UNCHANGED <<warned, overlapped>>

(* resolve_appeal: the status is set whatever it was, so an appeal that    *)
(* was denied can be approved after all, and to whatever is asked, so one  *)
(* that was resolved can be pending again.                                 *)
ResolveAppeal(h, i, status) ==
    /\ desk[h] = Idle /\ resolutions < MaxAppeals
    /\ resolutions' = resolutions + 1
    /\ appeals' = [appeals EXCEPT ![i] = Resolved(@, status)]
    /\ Goto(h, IF status = "approved" THEN [pc |-> "fetch", appeal |-> i] ELSE Idle)
    /\ UNCHANGED <<warned, overlapped>>

(* get_appeal, for the user it is about.                                   *)
GetAppeal(h) ==
    /\ desk[h].pc = "fetch"
    /\ \/ Goto(h, [desk[h] EXCEPT !.pc = "clear"]) /\ UNCHANGED appeals
       \/ Fail(h) /\ appeals' = [appeals EXCEPT ![desk[h].appeal].failed = TRUE]
    /\ UNCHANGED <<warned, resolutions, overlapped>>

(* clear_warnings; its error leaves the appeal approved and the warnings   *)
(* as they were.                                                           *)
ClearWarnings(h) ==
    /\ desk[h].pc = "clear"
    /\ \/ /\ warned' = warned \ {appeals[desk[h].appeal].user}
          /\ appeals' = [appeals EXCEPT ![desk[h].appeal].cleared = TRUE]
       \/ appeals' = [appeals EXCEPT ![desk[h].appeal].failed = TRUE] /\ UNCHANGED warned
    /\ Fail(h)
    /\ UNCHANGED <<resolutions, overlapped>>

(* A violation is recorded, by module Warnings' operations.                *)
Warn(u) ==
    /\ warned' = warned \cup {u}
    /\ UNCHANGED <<appeals, desk, resolutions, overlapped>>

Next ==
    \/ \E h \in Handlers :
          \/ \E u \in Appellants : CreateAppeal(h, u)
          \/ \E i \in DOMAIN appeals, status \in Statuses : ResolveAppeal(h, i, status)
          \/ InsertAppeal(h) \/ GetAppeal(h) \/ ClearWarnings(h)
    \/ \E u \in Appellants : Warn(u)

Spec == Init /\ [][Next]_vars

(* get_pending_appeals                                                     *)
PendingAppeals == {i \in DOMAIN appeals : appeals[i].status = "pending"}

(* A user has one active appeal at most, unless two calls ran at once or   *)
(* a resolution made one pending again; and an approved appeal has cleared *)
(* its user's warnings, or is about to, however often and by whomever it   *)
(* was resolved, unless a statement for it failed (create_appeal,          *)
(* resolve_appeal).                                                        *)
AppealsSettle ==
    /\ \A i, j \in PendingAppeals : i # j /\ appeals[i].user = appeals[j].user =>
          appeals[i].reopened \/ appeals[j].reopened \/ appeals[i].user \in overlapped
    /\ \A i \in DOMAIN appeals : appeals[i].status = "approved" =>
          \/ appeals[i].cleared \/ appeals[i].failed
          \/ \E h \in Handlers : desk[h].pc \in {"fetch", "clear"} /\ desk[h].appeal = i
=============================================================================
