------------------------------ MODULE Reports -------------------------------
(***************************************************************************)
(* What the dashboard (src/src/web.rs) and its slash command               *)
(* (src/src/commands.rs) make of the tables: metrics, health, top          *)
(* offenders and temporal analytics.                                       *)
(*                                                                         *)
(* A handler that runs several statements puts its answer together from    *)
(* several states of the database: rows, counters, hours and the clock     *)
(* change between them.  Such an answer is a record that goes through its  *)
(* statements one by one.  Handlers only read, so one at a time is enough. *)
(* An answer made by one statement is an operator.                         *)
(***************************************************************************)
EXTENDS Metrics, Sequences

CONSTANTS
    Day, Week, Month,     \* periods beside the Hour
    Periods,              \* names of periods asked for, known or not
    TopUsers,             \* LIMIT 10
    TopTimes,             \* peak_times.truncate(5)
    EventWindow,          \* five minutes
    EventSize             \* ten violations

ASSUME ReportsAssumption ==
    /\ {Day, Week, Month, TopUsers, TopTimes} \subseteq Nat /\ Day % Hour = 0
    /\ EventWindow \in Nat /\ EventSize \in Nat \ {0}

VARIABLES
    warned,    \* users that have a row in user_warnings
    answer     \* the answer that is being put together

reportVars == <<logVars, metricVars, warned, answer>>

Users == {e.user : e \in Entries}
UserOf(r) == r.entry.user
Of(u) == {r \in rows : UserOf(r) = u}
CountOf(u) == Cardinality(Of(u))
SumOver(set, f(_)) == MapThenSumSet(f, set)
AtMost(n, x) == IF x > n THEN n ELSE x

Length(name, default) ==
    CASE name = "hour" -> Hour [] name = "day" -> Day [] name = "week" -> Week [] name = "month" -> Month
      [] OTHER -> default

(***************************************************************************)
(* Answers and their statements                                            *)
(***************************************************************************)

(* Mutant: the chart is selected before the list, the bars of the metrics  *)
(* before their total, and the command reads the counters after the table. *)
FaultyStatements(kind) ==
    CASE kind = "offenders" -> <<"chart", "list", "moderated", "seen">>
      [] kind = "health"    -> <<"counters", "hours", "rows", "previous", "hours", "rows", "actions">>
      [] kind = "metrics"   -> <<"series", "bars", "counters", "hours", "rows">>
      [] kind = "dashboard" -> <<"hours", "rows", "counters">>

(* In the order the handlers run them: get_top_offenders, get_health,      *)
(* get_metrics and handle_dashboard; "rows" and "bars" are what the        *)
(* statement before falls back on.                                         *)
Statements(kind) ==
    CASE kind = "offenders" -> <<"list", "chart", "moderated", "seen">>
      [] kind = "health"    -> <<"counters", "hours", "rows", "previous", "hours", "rows", "actions">>
      [] kind = "metrics"   -> <<"counters", "hours", "rows", "series", "bars">>
      [] kind = "dashboard" -> <<"counters", "hours", "rows">>

StatementNames ==
    {"list", "chart", "moderated", "seen", "counters", "hours", "rows", "previous", "series", "bars", "actions"}

Actions == {"warning", "timeout", "kick", "ban"}
NoAnswer == [kind |-> "none"]

(* failed: the error of a statement was read as no rows; it is for         *)
(* properties, as are counted, the rows in the total; owed, the messages   *)
(* in memory or in the table when the counters were read; left, those in   *)
(* hours before the period; flushed, that a flush was under way since.     *)
Offending ==
    [kind : {"offenders"}, todo : Seq(StatementNames), failed : BOOLEAN,
     list : SUBSET [user : Users, count : Nat],   \* top_users
     chart : SUBSET (Nat \X Nat),                 \* violation_distribution: <<violations, users>>
     moderated : Nat, seen : Nat]                 \* moderated_users and total_users_seen

Measuring ==
    [kind : {"health", "metrics", "dashboard"}, todo : Seq(StatementNames), failed : BOOLEAN,
     period : Periods \cup {"day"},
     cutoff : Int,                                \* where the period begins
     to : {"snapshot", "before"},                 \* what is being counted
     snapshot : Counts, before : Counts,          \* current and previous counters
     series : SUBSET (Nat \X Nat), since : Int,   \* time_series: <<hour, violations>>, and its begin
     acted : [Actions -> Nat], total : Nat,       \* action_counts and total_actions
     counted : SUBSET Row, owed : Nat, left : Nat, flushed : BOOLEAN]

At(statement) == answer # NoAnswer /\ answer.todo # <<>> /\ Head(answer.todo) = statement
Answered(kind) == answer.kind = kind /\ answer.todo = <<>>

(* A step of an answer leaves everything else alone.                       *)
Read(next) == answer' = next /\ UNCHANGED <<logVars, metricVars, warned>>
Rest == Tail(answer.todo)

GetTopOffenders ==
    /\ answer = NoAnswer
    /\ Read([kind |-> "offenders", todo |-> Statements("offenders"), failed |-> FALSE,
             list |-> {}, chart |-> {}, moderated |-> 0, seen |-> 0])

Measure(kind, name) ==
    /\ answer = NoAnswer
    /\ Read([kind |-> kind, todo |-> Statements(kind), failed |-> FALSE, period |-> name,
             cutoff |-> 0, to |-> "snapshot", snapshot |-> Zero, before |-> Zero,
             series |-> {}, since |-> 0, acted |-> [a \in Actions |-> 0], total |-> 0,
             counted |-> {}, owed |-> 0, left |-> 0, flushed |-> FALSE])

GetHealth == Measure("health", "day")
GetMetrics(name) == Measure("metrics", name)
HandleDashboard(name) == Measure("dashboard", name)

(* It is sent.                                                             *)
CloseAnswer ==
    /\ answer # NoAnswer /\ answer.todo = <<>>
    /\ Read(NoAnswer)

(***************************************************************************)
(* get_top_offenders                                                       *)
(***************************************************************************)

Offenders == {u \in Users : Of(u) # {}}

(* The ones with the most; which of equals is cut off is open.             *)
TopOf(set, limit, weight(_)) ==
    {top \in SUBSET set :
        /\ Cardinality(top) = AtMost(limit, Cardinality(set))
        /\ \A a \in top, b \in set \ top : weight(a) >= weight(b)}

(* Names and warning levels are looked up for the users of the list.       *)
SelectList ==
    /\ At("list")
    /\ \/ \E top \in TopOf(Offenders, TopUsers, CountOf) :
             Read([answer EXCEPT !.todo = Rest, !.list = {[user |-> u, count |-> CountOf(u)] : u \in top}])
       \/ Read([answer EXCEPT !.todo = Rest, !.failed = TRUE])

Distribution ==
    {<<n, Cardinality({u \in Offenders : CountOf(u) = n})>> : n \in {CountOf(u) : u \in Offenders}}

SelectChart ==
    /\ At("chart")
    /\ \/ Read([answer EXCEPT !.todo = Rest, !.chart = Distribution])
       \/ Read([answer EXCEPT !.todo = Rest, !.failed = TRUE])

CountModerated ==
    /\ At("moderated")
    /\ \/ Read([answer EXCEPT !.todo = Rest, !.moderated = Cardinality(Offenders)])
       \/ Read([answer EXCEPT !.todo = Rest, !.failed = TRUE])

(* UNION keeps the counts of users with violations and of users with       *)
(* warnings, sorted; the first one, the smaller, is taken for all users.   *)
TotalUsersSeen ==
    LET counts == {Cardinality(Offenders), Cardinality(warned)}
    IN  CHOOSE n \in counts : \A m \in counts : n <= m

CountSeen ==
    /\ At("seen")
    /\ \/ Read([answer EXCEPT !.todo = Rest, !.seen = TotalUsersSeen])
       \/ Read([answer EXCEPT !.todo = Rest, !.seen = answer.moderated])

(***************************************************************************)
(* get_snapshot and query_historical                                       *)
(***************************************************************************)

(* get_counters; then the clock is read.                                   *)
ReadCounters ==
    /\ At("counters")
    /\ Read([answer EXCEPT !.todo = Rest, !.snapshot = Plus(@, counters),
                           !.cutoff = clock - Length(answer.period, Hour),
                           !.owed = counters.messages + Total(DOMAIN hourly).messages,
                           !.flushed = \E f \in Flushers : flushing[f] # NoFlush])

(* Rows of metrics_hourly; only if there are none, those of violations are *)
(* counted.  An error makes the dashboard's handlers go on with zeros, and *)
(* ends the command.                                                       *)
ReadHours ==
    /\ At("hours")
    /\ \/ /\ HoursSince(answer.cutoff) # {}
          /\ Read([answer EXCEPT !.todo = Tail(Rest), ![answer.to] = Plus(@, Total(HoursSince(answer.cutoff))),
                                 !.left = Total(DOMAIN hourly \ HoursSince(answer.cutoff)).messages])
       \/ /\ HoursSince(answer.cutoff) = {}
          /\ Read([answer EXCEPT !.todo = Rest, !.left = Total(DOMAIN hourly).messages])
       \/ /\ answer.kind # "dashboard"
          /\ Read([answer EXCEPT !.todo = Tail(Rest), ![answer.to] = Zero, !.failed = TRUE])
       \/ answer.kind = "dashboard" /\ Read(NoAnswer)

ReadRows ==
    /\ At("rows")
    /\ \/ LET some == Since(answer.cutoff)
          IN  Read([answer EXCEPT !.todo = Rest, ![answer.to] = Plus(@, CountedIn(some)),
                                  !.counted = IF answer.to = "snapshot" THEN some ELSE @])
       \/ Read([answer EXCEPT !.todo = Rest, !.failed = TRUE])

(***************************************************************************)
(* get_metrics                                                             *)
(***************************************************************************)

(* Per hour the violations, from metrics_hourly if it has hours that began *)
(* in the period.                                                          *)
SelectSeries ==
    /\ At("series")
    /\ LET since == clock - Length(answer.period, Day)
           kept == {h \in DOMAIN hourly : h * Hour >= since}
       IN  \/ /\ kept # {}
              /\ Read([answer EXCEPT !.todo = Tail(Rest), !.since = since,
                                     !.series = {<<h, Violations(hourly[h])>> : h \in kept}])
           \/ Read([answer EXCEPT !.todo = Rest, !.since = since, !.failed = (kept # {})])

Bars(some) ==
    {<<h, Cardinality({r \in some : r.at \div Hour = h})>> : h \in {r.at \div Hour : r \in some}}

SelectBars ==
    /\ At("bars")
    /\ LET since == clock - Length(answer.period, Day)
       IN  \/ Read([answer EXCEPT !.todo = Rest, !.since = since, !.series = Bars(Since(since))])
           \/ Read([answer EXCEPT !.todo = Rest, !.failed = TRUE])

(***************************************************************************)
(* get_health                                                              *)
(***************************************************************************)

(* The previous counters are those of two days.                            *)
StartPrevious ==
    /\ At("previous")
    /\ Read([answer EXCEPT !.todo = Rest, !.to = "before", !.cutoff = clock - 2 * Day])

CountActions ==
    /\ At("actions")
    /\ LET some == Since(clock - Day)
       IN  \/ Read([answer EXCEPT !.todo = Rest, !.total = Cardinality(some),
                                  !.acted = [a \in Actions |-> Cardinality({r \in some : r.entry.action = a})]])
           \/ Read([answer EXCEPT !.todo = Rest, !.failed = TRUE])

(* Penalties in points, as pairs <<numerator, denominator>>: up to 30 for  *)
(* more than 5 violations per 1000 messages, up to 50 for more than a      *)
(* tenth of kicks and bans.  Response times are never recorded, so their   *)
(* penalty is 0.  Quotients are compared by cross-multiplication.          *)
RatePenalty(violations, messages) ==
    IF 1000 * violations <= 5 * messages THEN <<0, 1>>
    ELSE <<AtMost(30 * messages, 2 * (1000 * violations - 5 * messages)), messages>>

EscalationPenalty(escalated, total) ==
    IF 10 * escalated <= total THEN <<0, 1>>
    ELSE <<AtMost(500 * total, 125 * (10 * escalated - total)), 10 * total>>

CalculateHealthScore(violations, messages, escalated, total) ==
    LET a == RatePenalty(violations, messages)
        b == EscalationPenalty(escalated, total)
    IN  (100 * a[2] * b[2] - a[1] * b[2] - b[1] * a[2]) \div (a[2] * b[2])

(* Mutant: the table's violations of the day are not looked at.            *)
FaultyActualViolations == Violations(answer.snapshot)

(* The larger of the snapshot's violations and the table's.                *)
ActualViolations ==
    IF Violations(answer.snapshot) > answer.total THEN Violations(answer.snapshot) ELSE answer.total

Escalated == answer.acted["kick"] + answer.acted["ban"]

(* Without a count of messages a hundred are assumed.                      *)
HealthScore ==
    IF ActualViolations = 0 THEN 100
    ELSE IF answer.snapshot.messages > 0
    THEN CalculateHealthScore(ActualViolations, answer.snapshot.messages, Escalated, answer.total)
    ELSE CalculateHealthScore(ActualViolations, 100, Escalated, answer.total)

HealthMetrics ==
    LET earlier == IF Violations(answer.before) = 0 \/ answer.before.messages = 0 THEN 100
                   ELSE CalculateHealthScore(Violations(answer.before), answer.before.messages, 0, 1)
    IN  [score |-> HealthScore, warning |-> HealthScore < 70, limited |-> answer.snapshot.messages < 10,
         change |-> HealthScore - earlier]

(***************************************************************************)
(* get_temporal_analytics: one statement                                   *)
(***************************************************************************)

(* The text the column's default gives a row has no offset from UTC, and   *)
(* parse_from_rfc3339 refuses it.                                          *)
Timestamp(r) == [second |-> r.at, offset |-> FALSE]
Parsed(some) == {r \in some : Timestamp(r).offset}

Cell(r) == <<(r.at \div Day) % 7, (r.at % Day) \div Hour>>
Heatmap(some) == [c \in {Cell(r) : r \in some} |-> Cardinality({r \in some : Cell(r) = c})]
PeakTimes(heatmap) == TopOf(DOMAIN heatmap, TopTimes, LAMBDA c : heatmap[c])

Within(some, start) == {r \in some : r.at >= start /\ r.at <= start + EventWindow}
Burst(some, t) == Cardinality(Within(some, t)) >= EventSize /\ \E r \in some : r.at = t
Event(some, t) == [start |-> t, size |-> Cardinality(Within(some, t)), users |-> {UserOf(r) : r \in Within(some, t)}]

(* A scan over the rows by time: where a window of five minutes that       *)
(* starts at a row holds enough, it is an event, and the scan goes on      *)
(* after its last row.                                                     *)
MajorEvents(some) ==
    LET last(t) == Max({r.at : r \in Within(some, t)})
        events[t \in 0..clock + 1] ==
            IF t > clock THEN {}
            ELSE IF Burst(some, t) THEN {Event(some, t)} \cup events[last(t) + 1] ELSE events[t + 1]
    IN  events[0]

(* Violations per whole hour between the first row and the last, as a pair *)
(* <<violations, hours>>.                                                  *)
Average(some) ==
    LET times == {r.at : r \in some}
    IN  IF some = {} THEN <<0, 1>>
        ELSE <<Cardinality(some), Max({1, (Max(times) - Min(times)) \div Hour})>>

(* The answer, of the rows whose timestamps it can parse.                  *)
TemporalAnalytics ==
    LET some == Parsed(rows)
    IN  [heatmap |-> Heatmap(some), peaks |-> PeakTimes(Heatmap(some)),
         events |-> MajorEvents(some), average |-> Average(some)]

(***************************************************************************)
(* The state the reports are made of                                       *)
(***************************************************************************)

ReportsTypeOK ==
    /\ LogTypeOK /\ MetricsTypeOK /\ warned \subseteq Users
    /\ answer = NoAnswer \/ answer \in Offending \/ answer \in Measuring

ReportsInit == LogInit /\ MetricsInit /\ warned = {} /\ answer = NoAnswer

(* Warnings are written and cleared by module Warnings' operations.        *)
WarningsChange(u) ==
    /\ warned' = IF u \in warned THEN warned \ {u} ELSE warned \cup {u}
    /\ UNCHANGED <<logVars, metricVars, answer>>

AnswerStep ==
    \/ SelectList \/ SelectChart \/ CountModerated \/ CountSeen
    \/ ReadCounters \/ ReadHours \/ ReadRows
    \/ SelectSeries \/ SelectBars \/ StartPrevious \/ CountActions
    \/ CloseAnswer

(* A flush under way is noted.                                             *)
MetricsStep ==
    /\ MetricsNext
    /\ answer' = IF answer.kind \in {"health", "metrics", "dashboard"} /\ flushing' # flushing
                 THEN [answer EXCEPT !.flushed = TRUE] ELSE answer
    /\ UNCHANGED <<logVars, warned>>

(***************************************************************************)
(* Properties                                                              *)
(***************************************************************************)

UsersWith(chart, n) == SumOver({p \in chart : p[1] >= n}, LAMBDA p : p[2])

(* Whatever is recorded between its statements, the parts of the list of   *)
(* offenders fit each other: the chart has as many users with n violations *)
(* or more as the list, and the number behind the percentage counts all    *)
(* that are in the chart, unless a statement failed (get_top_offenders).   *)
OffendersAreCharted ==
    Answered("offenders") /\ ~answer.failed =>
        /\ \A e \in answer.list :
              Cardinality({f \in answer.list : f.count >= e.count}) <= UsersWith(answer.chart, e.count)
        /\ UsersWith(answer.chart, 0) <= answer.moderated

(* A day of which half the violations ended in kicks and bans is never     *)
(* shown as healthy, even if all of them came in after the snapshot was    *)
(* taken or the snapshot failed (get_health, calculate_health_score).      *)
KicksLowerHealth ==
    Answered("health") /\ answer.total > 0 /\ 2 * Escalated >= answer.total =>
        HealthMetrics.score \in 0..50 /\ HealthMetrics.warning

(* A violation that is in the total of the metrics is in the bar of its    *)
(* hour, unless it left the period between the statements, one of them     *)
(* failed, a flush was under way, or the period has a name that the two    *)
(* take for different lengths (get_metrics, query_historical).             *)
TotalIsCharted ==
    Answered("metrics") /\ ~answer.failed /\ ~answer.flushed /\ Length(answer.period, 0) # 0 =>
        \A r \in answer.counted : r.at >= answer.since =>
            \E p \in answer.series :
                /\ p[1] = r.at \div Hour
                /\ p[2] >= Cardinality({s \in answer.counted : s.at >= answer.since /\ s.at \div Hour = p[1]})

(* What one answer of several statements says of the same rows fits        *)
(* together (get_top_offenders, get_metrics).                              *)
ChartsFit == OffendersAreCharted /\ TotalIsCharted

(* The command misses no message: it is counted, in memory or in the       *)
(* table, or its hour is before the period, unless a flush had taken it    *)
(* out and not inserted it when the counters were read.  And it counts     *)
(* none twice, unless a flush was under way (get_snapshot,                 *)
(* handle_dashboard, flush).                                               *)
SnapshotsMissNothing ==
    Answered("dashboard") =>
        LET found == answer.snapshot.messages + answer.left
        IN  found >= answer.owed /\ (~answer.flushed => found = answer.owed)

(* What design.md promises of get_temporal_analytics: the heatmap counts   *)
(* every violation.                                                        *)
HeatmapCountsAll ==
    LET heatmap == TemporalAnalytics.heatmap
    IN  SumOver(DOMAIN heatmap, LAMBDA c : heatmap[c]) = Cardinality(rows)
=============================================================================
