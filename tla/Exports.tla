------------------------------ MODULE Exports -------------------------------
(***************************************************************************)
(* Data exports (src/src/export.rs): a file is written first and recorded  *)
(* in export_history afterwards; a clean-up deletes the files of expired   *)
(* records first and the records afterwards.                               *)
(***************************************************************************)
EXTENDS Integers, FiniteSets

CONSTANTS
    Jobs,         \* exports, each with a file of its own
    Expiry,       \* 30 days
    MaxTime       \* bound: the clock

\* Assumed by the module that instantiates this one.
ConstantsFit == Expiry \in Nat /\ MaxTime \in Nat

VARIABLES
    clock,
    job,       \* per export: its step
    files,     \* files in exports/
    history,   \* records: [file, expires]
    sweep,     \* the clean-up: its step, the time it read and the files left to delete
    broken     \* something failed or was cut off between the two stores (for properties)

vars == <<clock, job, files, history, sweep, broken>>

Steps == {"new", "gathered", "written", "done"}
Rest == [pc |-> "rest"]

TypeOK ==
    /\ clock \in Nat
    /\ job \in [Jobs -> Steps]
    /\ files \subseteq Jobs
    /\ history \subseteq [file : Jobs, expires : Nat]
    /\ sweep \in {Rest} \cup [pc : {"files"}, at : Nat, todo : SUBSET Jobs]
    /\ broken \in BOOLEAN

Init ==
    /\ clock = 0
    /\ job = [x \in Jobs |-> "new"]
    /\ files = {} /\ history = {}
    /\ sweep = Rest /\ broken = FALSE

Goto(x, step) == job' = [job EXCEPT ![x] = step]

(* export: one of the export_* functions selects the data and they are     *)
(* formatted; an error ends the export.                                    *)
Gather(x) ==
    /\ job[x] = "new"
    /\ \/ Goto(x, "gathered") \/ Goto(x, "done")
    /\ UNCHANGED <<clock, files, history, sweep, broken>>

(* tokio::fs::write, under a name of the export's own.  An error ends the  *)
(* export and leaves no file, or the part that was written already.        *)
WriteFile(x) ==
    /\ job[x] = "gathered"
    /\ \/ Goto(x, "written") /\ files' = files \cup {x} /\ UNCHANGED broken
       \/ Goto(x, "done") /\ UNCHANGED <<files, broken>>
       \/ Goto(x, "done") /\ files' = files \cup {x} /\ broken' = TRUE
    /\ UNCHANGED <<clock, history, sweep>>

(* record_export; if it fails, or the request is dropped, the file stays   *)
(* and nothing knows of it.                                                *)
RecordExport(x) ==
    /\ job[x] = "written"
    /\ \/ history' = history \cup {[file |-> x, expires |-> clock + Expiry]} /\ UNCHANGED broken
       \/ broken' = TRUE /\ UNCHANGED history
    /\ Goto(x, "done")
    /\ UNCHANGED <<clock, files, sweep>>

Expired(at) == {r \in history : r.expires < at}

(* cleanup_expired_exports reads the clock once ...                        *)
SelectExpired ==
    /\ sweep = Rest
    /\ sweep' = [pc |-> "files", at |-> clock, todo |-> {r.file : r \in Expired(clock)}]
    /\ UNCHANGED <<clock, job, files, history, broken>>

(* ... deletes the files, going on after an error ...                      *)
RemoveFile(x) ==
    /\ sweep.pc = "files" /\ x \in sweep.todo
    /\ sweep' = [sweep EXCEPT !.todo = @ \ {x}]
    /\ \/ files' = files \ {x} /\ UNCHANGED broken
       \/ broken' = TRUE /\ UNCHANGED files
    /\ UNCHANGED <<clock, job, history>>

(* Mutant: compares with a clock read anew.                                *)
FaultyDeleteRecords ==
    /\ sweep.pc = "files" /\ sweep.todo = {}
    /\ history' = history \ Expired(clock)
    /\ sweep' = Rest
    /\ UNCHANGED <<clock, job, files, broken>>

(* ... and then the records, by the time it read before; this may fail.    *)
DeleteRecords ==
    /\ sweep.pc = "files" /\ sweep.todo = {}
    /\ \/ history' = history \ Expired(sweep.at)
       \/ UNCHANGED history
    /\ sweep' = Rest
    /\ UNCHANGED <<clock, job, files, broken>>

(* get_export_history: the newest records, whether or not they expired.    *)
GetExportHistory(limit) ==
    {top \in SUBSET history :
        /\ Cardinality(top) <= limit
        /\ \A r \in top, s \in history \ top : r.expires >= s.expires}

Tick ==
    /\ clock < MaxTime
    /\ clock' = clock + 1
    /\ UNCHANGED <<job, files, history, sweep, broken>>

Next ==
    \/ \E x \in Jobs : Gather(x) \/ WriteFile(x) \/ RecordExport(x) \/ RemoveFile(x)
    \/ SelectExpired \/ DeleteRecords \/ Tick

Spec == Init /\ [][Next]_vars

(* A record that has not expired has its file; and a file is known to the  *)
(* history, so that a clean-up will find it, unless an export was cut off  *)
(* in its write or before its record, or a file could not be deleted       *)
(* (export, cleanup_expired_exports).                                      *)
FilesAreListed ==
    /\ \A r \in history : r.expires >= clock => r.file \in files
    /\ \A x \in files : job[x] = "written" \/ broken \/ \E r \in history : r.file = x
=============================================================================
