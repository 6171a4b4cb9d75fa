------------------------------ MODULE Metrics -------------------------------
(***************************************************************************)
(* The metrics collector (src/src/metrics.rs) of one guild: counters in    *)
(* memory, flushed into a table with one row per hour, and snapshots that  *)
(* put both together with the table of violations.                         *)
(*                                                                         *)
(* In the program only messages are counted and nothing is flushed; the    *)
(* collector is modelled with all of its operations.                       *)
(***************************************************************************)
EXTENDS ViolationLog, FiniteSetsExt

CONSTANTS
    Flushers,     \* callers of flush
    Kinds,        \* of violations counted: pairs of a type and a severity
    Hour,         \* its length in seconds
    MaxCounted,   \* bound: messages and violations counted
    MaxFlushes    \* bound: flushes

Severities == {"high", "medium", "low"}
Types == {"regex", "ai"}

ASSUME MetricsAssumption ==
    /\ IsFiniteSet(Flushers) /\ Kinds \subseteq Types \X Severities
    /\ {Hour, MaxCounted, MaxFlushes} \subseteq Nat \ {0}

VARIABLES
    counters,   \* in memory: messages, and violations by type and severity
    hourly,     \* metrics_hourly: per hour the same, or no row
    flushing,   \* per caller the counters it has taken out and not inserted yet
    flushes,    \* flushes begun
    received,   \* everything counted so far (for properties)
    lost        \* what a failed flush lost (for properties)

metricVars == <<counters, hourly, flushing, flushes, received, lost>>

Counts == [messages : Nat, type : [Types -> Nat], severity : [Severities -> Nat]]
Zero == [messages |-> 0, type |-> [t \in Types |-> 0], severity |-> [s \in Severities |-> 0]]

Plus(a, b) ==
    [messages |-> a.messages + b.messages,
     type |-> [t \in Types |-> a.type[t] + b.type[t]],
     severity |-> [s \in Severities |-> a.severity[s] + b.severity[s]]]

Violations(c) == c.type["regex"] + c.type["ai"]
Empty(c) == c.messages = 0 /\ Violations(c) = 0

(* A caller that holds no counters; otherwise it has noted their hour.     *)
NoFlush == [hour |-> 0, counts |-> Zero]

(* The domain of hourly are the hours that have a row.                     *)
MetricsTypeOK ==
    /\ counters \in Counts /\ received \in Counts /\ lost \in Counts
    /\ \A hour \in DOMAIN hourly : hour \in Nat /\ hourly[hour] \in Counts
    /\ flushing \in [Flushers -> [hour : Nat, counts : Counts]] /\ flushes \in Nat

MetricsInit ==
    /\ counters = Zero /\ hourly = <<>> /\ flushing = [f \in Flushers |-> NoFlush]
    /\ flushes = 0 /\ received = Zero /\ lost = Zero

Count(what) ==
    /\ received.messages + Violations(received) < MaxCounted
    /\ counters' = Plus(counters, what)
    /\ received' = Plus(received, what)
    /\ UNCHANGED <<hourly, flushing, flushes, lost>>

RecordMessage == Count([Zero EXCEPT !.messages = 1])

RecordViolation(type, severity) == Count([Zero EXCEPT !.type[type] = 1, !.severity[severity] = 1])

(* Several flushes may be under way.  Each removes the counters under the  *)
(* lock and notes the hour; without counters it is done ...                *)
TakeCounters(f) ==
    /\ flushing[f] = NoFlush /\ flushes < MaxFlushes
    /\ flushing' = [flushing EXCEPT ![f] =
                      IF Empty(counters) THEN NoFlush
                      ELSE [hour |-> clock \div Hour, counts |-> counters]]
    /\ counters' = Zero
    /\ flushes' = flushes + 1
    /\ UNCHANGED <<hourly, received, lost>>

(* Mutant: an hour's row is replaced, not added to.                        *)
FaultyUpsertHour(hour, counts) ==
    hourly' = [h \in DOMAIN hourly \cup {hour} |-> IF h = hour THEN counts ELSE hourly[h]]

UpsertHour(hour, counts) ==
    hourly' = [h \in DOMAIN hourly \cup {hour} |->
                  IF h # hour THEN hourly[h]
                  ELSE IF h \in DOMAIN hourly THEN Plus(hourly[h], counts) ELSE counts]

(* ... and adds them to that hour's row outside the lock; an error loses   *)
(* them.                                                                   *)
FlushCounters(f) ==
    /\ flushing[f] # NoFlush
    /\ flushing' = [flushing EXCEPT ![f] = NoFlush]
    /\ \/ UpsertHour(flushing[f].hour, flushing[f].counts) /\ UNCHANGED lost
       \/ lost' = Plus(lost, flushing[f].counts) /\ UNCHANGED hourly
    /\ UNCHANGED <<counters, flushes, received>>

MetricsNext ==
    \/ RecordMessage
    \/ \E kind \in Kinds : RecordViolation(kind[1], kind[2])
    \/ \E f \in Flushers : TakeCounters(f) \/ FlushCounters(f)

(***************************************************************************)
(* The tables as query_historical finds them                               *)
(***************************************************************************)

(* The cutoff is bound in the form the column's default has.               *)
Since(cutoff) == {r \in rows : r.at >= cutoff}

TypeOf(r) == IF r.entry.type = "regex" THEN "regex" ELSE "ai"
SeverityOf(r) == IF r.entry.severity \in Severities THEN r.entry.severity ELSE "low"

CountedIn(some) ==
    [messages |-> 0,
     type |-> [t \in Types |-> Cardinality({r \in some : TypeOf(r) = t})],
     severity |-> [s \in Severities |-> Cardinality({r \in some : SeverityOf(r) = s})]]

(* Rows of metrics_hourly; the cutoff is cut to its hour.                  *)
HoursSince(cutoff) == {h \in DOMAIN hourly : h >= cutoff \div Hour}

PlusAll(table, keys) == FoldSet(LAMBDA k, sum : Plus(sum, table[k]), Zero, keys)

Total(hours) == PlusAll(hourly, hours)
InFlight == PlusAll([f \in Flushers |-> flushing[f].counts], Flushers)

(* However flushes and counting overlap, everything counted is in memory,  *)
(* on its way or in the table, exactly once; only a failed statement loses *)
(* some (record_message, record_violation, flush).                         *)
CountsAreKept ==
    received = Plus(Plus(counters, InFlight), Plus(lost, Total(DOMAIN hourly)))
=============================================================================
