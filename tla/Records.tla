------------------------------ MODULE Records -------------------------------
(***************************************************************************)
(* Everything that is kept in tables beside the moderation itself: the     *)
(* violations and their pages, metrics and reports, appeals, exports and   *)
(* notifications.                                                          *)
(*                                                                         *)
(* The parts meet in few places: the reports read the violations, the      *)
(* counters and the users with warnings, and an approved appeal clears     *)
(* such a user.  What shares no variable cannot disturb each other, so a   *)
(* behaviour is in one scene from its beginning to its end, and a scene    *)
(* has the actions of the parts that meet in it.                           *)
(***************************************************************************)
EXTENDS Reports, Sequences

CONSTANTS Handlers, MaxAppeals,
          Jobs, Expiry,
          Sends, Events, DefaultEvents, MaxAttempts,
          MaxPageTime,    \* bound: the clock while pages are read
          MaxReported,    \* bounds: rows recorded while reports are asked for, per scene
          MaxReportTime   \* bounds: the clock meanwhile

VARIABLES
    scene,
    appeals, desk, resolutions, overlapped,
    job, files, history, sweep, exportsBroken,
    prefs, send, notices, read, delivered

appealVars == <<appeals, desk, resolutions, overlapped>>
exportVars == <<job, files, history, sweep, exportsBroken>>
noticeVars == <<prefs, send, notices, read, delivered>>
recordVars == <<reportVars, scene, appealVars, exportVars, noticeVars>>

Appeal == INSTANCE Appeals WITH Appellants <- Users
Export == INSTANCE Exports WITH broken <- exportsBroken
Notice == INSTANCE Notices

ASSUME RecordsAssumption ==
    /\ MaxPageTime \in Nat
    /\ {MaxReported, MaxReportTime} \subseteq [{"reports", "metrics"} -> Nat]
    /\ Appeal!ConstantsFit /\ Export!ConstantsFit /\ Notice!ConstantsFit

Scenes == {"pages", "reports", "metrics", "appeals", "exports", "notices"}

RecordsInit ==
    /\ scene \in Scenes
    /\ ReportsInit
    /\ Appeal!Init /\ Export!Init /\ Notice!Init

(* The page is read while rows are recorded.                               *)
Pages == scene = "pages" /\ LogNext /\ clock' <= MaxPageTime /\ UNCHANGED <<metricVars, warned, answer>>

(* Rows come in and time goes on, whatever else happens.                   *)
Meanwhile ==
    \/ \E entry \in Entries : Cardinality(rows) < MaxReported[scene] /\ Record(entry)
    \/ Tick /\ clock' <= MaxReportTime[scene]

(* Reports are put together of the tables as the program fills them: it    *)
(* counts messages and flushes nothing.                                    *)
Tables ==
    /\ scene = "reports"
    /\ \/ Meanwhile /\ UNCHANGED <<metricVars, warned, answer>>
       \/ RecordMessage /\ UNCHANGED <<logVars, warned, answer>>
       \/ \E u \in Users : WarningsChange(u)
       \/ GetTopOffenders \/ GetHealth \/ (\E name \in Periods : GetMetrics(name))
       \/ AnswerStep

(* And with a collector that counts violations and is flushed.             *)
Collector ==
    /\ scene = "metrics"
    /\ \/ Meanwhile /\ UNCHANGED <<metricVars, warned, answer>>
       \/ MetricsStep
       \/ \E name \in Periods : GetMetrics(name) \/ HandleDashboard(name)
       \/ AnswerStep

RecordsNext ==
    \/ (Pages \/ Tables \/ Collector) /\ UNCHANGED <<scene, appealVars, exportVars, noticeVars>>
    \/ scene = "appeals" /\ Appeal!Next
       /\ UNCHANGED <<logVars, metricVars, answer, scene, exportVars, noticeVars>>
    \/ scene = "exports" /\ Export!Next
       /\ UNCHANGED <<rows, walk, metricVars, warned, answer, scene, appealVars, noticeVars>>
    \/ scene = "notices" /\ Notice!Next
       /\ UNCHANGED <<rows, walk, metricVars, warned, answer, scene, appealVars, exportVars>>

RecordsSpec == RecordsInit /\ [][RecordsNext]_recordVars

RecordsTypeOK == ReportsTypeOK /\ Appeal!TypeOK /\ Export!TypeOK /\ Notice!TypeOK

(* Appeals!AppealsSettle: one active appeal of a user, and warnings        *)
(* cleared for every approved one (src/src/appeals.rs).                    *)
AppealsSettle == Appeal!AppealsSettle

(* Exports!FilesAreListed and Notices!NoticesAreStored: where one          *)
(* operation writes two stores one after the other, files and their        *)
(* records, notices and their webhook, the two agree (src/src/export.rs,   *)
(* src/src/notification.rs).                                               *)
StoresAgree == Export!FilesAreListed /\ Notice!NoticesAreStored
=============================================================================
