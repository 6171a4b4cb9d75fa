----------------------------- MODULE RecordsMC ------------------------------
(* Instance: rows of two users with two reasons; four rows.               *)
EXTENDS Records, TLC

Kick == [user |-> "ann", severity |-> "high", type |-> "regex", reason |-> "spam", action |-> "kick"]
Warning == [user |-> "bob", severity |-> "low", type |-> "ai", reason |-> "slur", action |-> "warning"]
SomeEntries == {Kick, Warning}
SomeFilters == {{Kick, Warning}, {Kick}}
SomeKinds == {<<"regex", "high">>}
SomeReported == [reports |-> 2, metrics |-> 1]
SomeReportTimes == [reports |-> 2, metrics |-> 2]

\* Handlers, jobs and sends are interchangeable too, but their scenes are small,
\* and each set of permutations makes every state of every scene dearer.
Symmetry == Permutations(Flushers)
=============================================================================
