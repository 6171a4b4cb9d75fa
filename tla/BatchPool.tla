----------------------------- MODULE BatchPool -----------------------------
(***************************************************************************)
(* What a message buffer promises its callers: every message accepted is   *)
(* waiting in the pool, in exactly one task's batch, or done.  A task takes*)
(* some of the waiting messages as its batch, and either puts all of them  *)
(* back or finishes all of them.  Nothing is lost and nothing comes twice, *)
(* as long as its callers keep to its discipline; once they have not, what *)
(* waits in the pool may vanish, and still nothing comes twice, and what a *)
(* task holds stays its own.                                               *)
(***************************************************************************)
CONSTANTS Threads, Messages

VARIABLES pool, held, done, abused

poolvars == <<pool, held, done, abused>>

Known == pool \cup done \cup UNION {held[t] : t \in Threads}

Init ==
    /\ pool = {}
    /\ held = [t \in Threads |-> {}]
    /\ done = {}
    /\ abused = FALSE

Accept(m) ==
    /\ m \notin Known
    /\ pool' = pool \cup {m}
    /\ UNCHANGED <<held, done>>

TakeBatch(t, b) ==
    /\ held[t] = {}
    /\ held' = [held EXCEPT ![t] = b]
    /\ pool' = pool \ b
    /\ UNCHANGED done

PutBack(t) ==
    /\ pool' = pool \cup held[t]
    /\ held' = [held EXCEPT ![t] = {}]
    /\ UNCHANGED done

Finish(t) ==
    /\ done' = done \cup held[t]
    /\ held' = [held EXCEPT ![t] = {}]
    /\ UNCHANGED pool

Vanish(b) ==
    /\ abused
    /\ pool' = pool \ b
    /\ UNCHANGED <<held, done>>

Step ==
    \/ \E m \in Messages : Accept(m)
    \/ \E t \in Threads :
         \/ \E b \in SUBSET pool : TakeBatch(t, b)
         \/ PutBack(t)
         \/ Finish(t)
    \/ \E b \in SUBSET pool : Vanish(b)
    \/ UNCHANGED <<pool, held, done>>

Next == Step /\ abused' \in {abused, TRUE}

Spec == Init /\ [][Next]_poolvars
=============================================================================
