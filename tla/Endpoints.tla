----------------------------- MODULE Endpoints -----------------------------
(***************************************************************************)
(* Who works on the settings: the dashboard's handlers (src/src/web.rs)    *)
(* and the slash commands (src/src/commands.rs).  Both check what they are *)
(* asked for, and the commands accept less.  A handler of the dashboard    *)
(* that has changed something writes an entry into the audit log, ignores  *)
(* the error of that statement, tells the dashboards that are open and     *)
(* answers; a command does neither.                                        *)
(*                                                                         *)
(* The entry is a statement of its own after the change, and its timestamp *)
(* is taken before the statement is run.  The log is listed by timestamp,  *)
(* so that the order of entries is not the order of changes, nor that of   *)
(* their insertion.                                                        *)
(***************************************************************************)
EXTENDS Settings

CONSTANTS Accepted,         \* values of a field that update_config accepts
          CommandAccepted   \* values of a field that handle_config accepts

ASSUME EndpointsAssumption ==
    /\ Accepted \subseteq Values /\ CommandAccepted \subseteq Accepted
    /\ DefaultValue \in Accepted
    /\ None \notin Tasks

Entries == {"rules_updated", "rules_cleared", "config_updated"}
AboutRules == {"rules_updated", "rules_cleared"}

VARIABLES
    due,       \* the entry each task inserts after its change, None for readers and commands
    newest,    \* the newest entry about the rules in the audit log
    stamped,   \* tasks that have taken the timestamp of their entry
    earlier,   \* per task those of them that took theirs before it did
    overtaken, \* those whose timestamp is before that of newest
    writer,    \* history: who changed the rules last, if yet to log it
    blurred    \* history: whether the log may not explain the rules, see Blurs

stampVars == <<stamped, earlier, overtaken>>
avars == <<due, newest, stampVars, writer, blurred>>
allvars == <<vars, avars>>

(* Tasks that have changed the rules and have yet to log it.               *)
Logging == {t \in Tasks : due[t] \in AboutRules /\ step[t] \in {"publish", "idle"}}

EndpointsInit ==
    /\ Init
    /\ due = [t \in Tasks |-> None]
    /\ newest = None /\ writer = None /\ blurred = FALSE
    /\ stamped = {} /\ overtaken = {} /\ earlier = [t \in Tasks |-> {}]

(***************************************************************************)
(* Handlers and commands                                                   *)
(***************************************************************************)

Starts(t, entry) ==
    /\ due[t] = None
    /\ due' = [due EXCEPT ![t] = entry]
    /\ UNCHANGED <<newest, stampVars, writer, blurred>>

(* The commands that show them and the pipeline read in the same way, and  *)
(* so does a command whose value is refused after it has read.             *)
GetRules(t, c) == c # "config" /\ LookUp(t, c, ReadOnly) /\ Starts(t, None)
GetConfig(t) == LookUp(t, "config", ReadOnly) /\ Starts(t, None)

UpdateRules(t, text) == Upload(t, text) /\ Starts(t, "rules_updated")
DeleteRules(t) == Clear(t) /\ Starts(t, "rules_cleared")

(* Mutant: one value that passes lets the others through.                  *)
FaultyUpdateConfig(t, ch) ==
    /\ ch # ReadOnly /\ (DOMAIN ch = {} \/ \E f \in DOMAIN ch : ch[f] \in Accepted)
    /\ LookUp(t, "config", ch) /\ Starts(t, "config_updated")

UpdateConfig(t, ch) ==
    /\ ch # ReadOnly /\ \A f \in DOMAIN ch : ch[f] \in Accepted
    /\ LookUp(t, "config", ch) /\ Starts(t, "config_updated")

HandleConfig(t, field, value) ==
    /\ value \in CommandAccepted
    /\ LookUp(t, "config", [f \in {field} |-> value]) /\ Starts(t, None)

HandleRules(t) == (Clear(t) \/ \E text \in Texts : Upload(t, text)) /\ Starts(t, None)

(***************************************************************************)
(* Their steps                                                             *)
(***************************************************************************)

(* A change the log will not explain: a command's, or one that others      *)
(* overlap, who may log in another order.                                  *)
Blurs(t) == due[t] = None \/ Logging # {}

WriteConfig(t) == at[t] = "config" /\ Write(t) /\ UNCHANGED avars

WriteRules(t) ==
    /\ at[t] = "dashboard" /\ Write(t)
    /\ writer' = IF due[t] = None THEN None ELSE t
    /\ blurred' = (blurred \/ Blurs(t))
    /\ UNCHANGED <<due, newest, stampVars>>

(* The timestamp of a task is no longer waiting for its row.               *)
Forget(t) ==
    /\ stamped' = stamped \ {t}
    /\ earlier' = [u \in Tasks |-> IF u = t THEN {} ELSE earlier[u] \ {t}]

(* A task that stops early, and what it leaves unlogged.                   *)
Stops(t) ==
    /\ due' = [due EXCEPT ![t] = None]
    /\ blurred' = (blurred \/ t \in Logging)
    /\ writer' = IF writer = t THEN None ELSE writer
    /\ Forget(t) /\ overtaken' = overtaken \ {t}
    /\ UNCHANGED newest

(* Mutant: logged although the statement has failed.                       *)
FaultyFailed(t) == StatementError(t) /\ UNCHANGED avars

Failed(t) == StatementError(t) /\ Stops(t)

(* Commands are spawned by serenity and run to their end; a read may be    *)
(* the dashboard's.                                                        *)
Gone(t) ==
    /\ due[t] = None => step[t] \in {"query", "fill"} /\ change[t] = ReadOnly
    /\ Dropped(t) /\ Stops(t)

(* create_audit_log takes the timestamp, which matters among the entries   *)
(* about the rules, ...                                                    *)
StampEntry(t) ==
    /\ step[t] = "idle" /\ due[t] \in AboutRules /\ t \notin stamped
    /\ stamped' = stamped \cup {t}
    /\ earlier' = [earlier EXCEPT ![t] = stamped]
    /\ UNCHANGED <<vars, due, newest, overtaken, writer, blurred>>

(* ... and inserts the row; the broadcast and the answer follow without an *)
(* await.  Among the entries about the rules it is the newest, unless one  *)
(* with a later timestamp was inserted before.                             *)
CreateAuditLog(t) ==
    /\ step[t] = "idle" /\ due[t] # None /\ (due[t] \in AboutRules => t \in stamped)
    /\ due' = [due EXCEPT ![t] = None]
    /\ Forget(t)
    /\ IF due[t] \in AboutRules /\ t \notin overtaken
       THEN newest' = due[t] /\ overtaken' = overtaken \cup earlier[t]
       ELSE overtaken' = overtaken \ {t} /\ UNCHANGED newest
    /\ writer' = IF writer = t THEN None ELSE writer
    /\ blurred' = (blurred /\ ~(writer = t /\ Logging = {t} /\ t \notin overtaken))
    /\ UNCHANGED vars

(* The error of the statement is ignored, or the client has gone.          *)
AuditLost(t) ==
    /\ step[t] = "idle" /\ due[t] # None
    /\ Stops(t) /\ UNCHANGED vars

RestartAll ==
    /\ Restart
    /\ due' = [t \in Tasks |-> None]
    /\ blurred' = (blurred \/ Logging # {})
    /\ writer' = None /\ UNCHANGED newest
    /\ stamped' = {} /\ overtaken' = {} /\ earlier' = [t \in Tasks |-> {}]

(* A task that is free takes on another request.                           *)
Ask(t) ==
    /\ step[t] = "idle" /\ due[t] = None
    /\ \/ \E c \in Caches : GetRules(t, c)
       \/ GetConfig(t)
       \/ \E text \in Texts : UpdateRules(t, text)
       \/ DeleteRules(t)
       \/ \E ch \in Changes : UpdateConfig(t, ch)
       \/ \E f \in Fields, v \in Values : HandleConfig(t, f, v)
       \/ HandleRules(t)

Work(t) ==
    \/ (Query(t) \/ Fill(t) \/ Publish(t)) /\ UNCHANGED avars
    \/ WriteConfig(t) \/ WriteRules(t) \/ StampEntry(t) \/ CreateAuditLog(t)

EndpointsNext ==
    \/ RestartAll
    \/ \E c \in Caches : Invalidate(c) /\ UNCHANGED avars
    \/ \E t \in Tasks : Ask(t) \/ Work(t) \/ Failed(t) \/ Gone(t) \/ AuditLost(t)

EndpointsSpec == EndpointsInit /\ [][EndpointsNext]_allvars

(***************************************************************************)
(* Properties                                                              *)
(***************************************************************************)

(* No value that the checks refuse is ever stored, cached or on its way to *)
(* be, whichever stale copy an update has started from (update_config,     *)
(* handle_config).                                                         *)
SettingsInRange ==
    \A f \in Fields :
        /\ row["config"] # Absent => row["config"][f] \in Accepted
        /\ cache["config"] # Absent => cache["config"][f] \in Accepted
        /\ \A t \in Tasks : step[t] # "idle" /\ at[t] = "config" /\ val[t] # Absent => val[t][f] \in Accepted

(* The newest entry about the rules says whether there are any, unless a   *)
(* change is still to be logged, or one never was, or two overlapped and   *)
(* no undisturbed one came since (create_audit_log after each change).     *)
LogExplains ==
    ~blurred /\ Logging = {} => ((row["rules"] # Absent) <=> (newest = "rules_updated"))
=============================================================================
