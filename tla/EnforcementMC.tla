---------------------------- MODULE EnforcementMC ----------------------------
(* Small instances of Enforcement for TLC.                                  *)
EXTENDS Enforcement, TLC

CONSTANTS u1, u2, m1, m2, m3, v1, v2, v3, v4

\* Two messages of one user, one of another.
Authors == m1 :> u1 @@ m2 :> u1 @@ m3 :> u2

\* Gemini may name the first message twice.
Subjects == [v \in Verdicts |-> (v1 :> m1 @@ v2 :> m1 @@ v3 :> m2 @@ v4 :> m3)[v]]

\* A row of an earlier run of the process.
Earlier(l, k) == [level |-> l, kicked |-> k, since |-> 0, midnight |-> FALSE]

\* From these, three violations lead from none to the long timeout, and from
\* there over a kick to a ban.
Rows == {NoRow, Earlier(LongTimeout, FALSE)}

\* Tasks, and the two verdicts on one message, are interchangeable.
Symmetry == Permutations(Tasks) \cup Permutations({v1, v2})
=============================================================================
