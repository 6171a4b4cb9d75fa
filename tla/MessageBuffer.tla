--------------------------- MODULE MessageBuffer ---------------------------
(***************************************************************************)
(* The double buffer of src/src/buffer.rs that sits between the regex      *)
(* filter and the Gemini analyser.  Every field has a mutex of its own, so *)
(* an operation is a sequence of critical sections: one action each.       *)
(*                                                                         *)
(*   add             ReadFlushing ; Push                                   *)
(*   should_flush    ReadLastFlush ; CheckTimeout                          *)
(*   flush           BeginFlush ; Take ; Touch ; SwapBack                  *)
(*   return_messages ReturnMessages                                        *)
(*                                                                         *)
(* Threads are the tokio tasks that share the buffer.  A thread that has   *)
(* flushed owns the batch until it gives it back (ReturnMessages) or is    *)
(* done with it (Consume).                                                 *)
(*                                                                         *)
(* A definition named Faulty... is the one after it with a bug put in, kept*)
(* to show that the properties notice; no specification uses it.           *)
(***************************************************************************)
EXTENDS Naturals, Sequences, Functions

CONSTANTS Threads,         \* tasks calling the buffer
          Messages,        \* messages, each offered to add at most once
          FlushThreshold,  \* flush_threshold: messages that trigger a flush
          TimeoutSecs      \* timeout_secs: age that triggers a flush

ASSUME BufferAssumption == /\ FlushThreshold \in Nat \ {0}
                           /\ TimeoutSecs \in Nat \ {0}

VARIABLES
    primary,     \* Vec of buffered messages
    secondary,   \* Vec used by adds that saw a flush in progress
    flushing,    \* the flag add reads
    age,         \* time since last_flush, saturating at TimeoutSecs
    pc,          \* which critical section each thread executes next
    arg,         \* the message a thread's add is about to push
    route,       \* the buffer that add chose when it read the flag
    seen,        \* age of the last_flush value should_flush has read
    trigger,     \* FlushTrigger the thread's last add or should_flush gave
    batch,       \* messages the thread's flush returned and it still owns
    offered,     \* history: messages passed to add
    consumed,    \* history: messages whose batch was consumed
    overlap      \* history: TRUE once an operation overlapped a flush in one
                 \* of the ways DirtyTake, DirtyBegin or DirtyReturn describe

store  == <<primary, secondary, flushing>>
locals == <<arg, route, seen, trigger, batch>>
hist   == <<offered, consumed, overlap>>
vars   == <<store, age, pc, locals, hist>>

None == "None"
CountThreshold == "CountThreshold"
Timeout == "Timeout"

Steps == {"idle", "push", "check", "take", "touch", "swap", "own"}

Goto(t, from, to) == pc[t] = from /\ pc' = [pc EXCEPT ![t] = to]

-----------------------------------------------------------------------------
(* Where a message can be.                                                 *)

Flushers == {t \in Threads : pc[t] \in {"take", "touch", "swap"}}
PastTake == {t \in Threads : pc[t] \in {"touch", "swap"}}
Pushing  == {t \in Threads : pc[t] = "push"}
InBatch  == UNION {Range(batch[t]) : t \in Threads}

Accepted == offered \ {arg[t] : t \in Pushing}
Located  == Range(primary) \cup Range(secondary) \cup InBatch \cup consumed
Lost     == Accepted \ Located

-----------------------------------------------------------------------------
(* The three ways an operation can leave something in primary between a    *)
(* flush's Take and its SwapBack, which overwrites primary.                *)

\* An add read flushing = false before this flush and has yet to push.
DirtyTake == \E u \in Pushing : route[u] = "primary"

\* Two flushes at once: the first to finish clears the flag for both.
DirtyBegin == Flushers # {}

\* A failed batch is put back while another flush is past its Take.
DirtyReturn == PastTake # {}

-----------------------------------------------------------------------------
Init ==
    /\ primary = <<>> /\ secondary = <<>> /\ flushing = FALSE
    /\ age = 0
    /\ pc = [t \in Threads |-> "idle"]
    /\ arg = [t \in Threads |-> None]
    /\ route = [t \in Threads |-> "primary"]
    /\ seen = [t \in Threads |-> 0]
    /\ trigger = [t \in Threads |-> None]
    /\ batch = [t \in Threads |-> <<>>]
    /\ offered = {} /\ consumed = {} /\ overlap = FALSE

(* add, first critical section: choose the buffer by the flag.             *)
ReadFlushing(t, m) ==
    /\ Goto(t, "idle", "push")
    /\ m \notin offered
    /\ offered' = offered \cup {m}
    /\ arg' = [arg EXCEPT ![t] = m]
    /\ route' = [route EXCEPT ![t] = IF flushing THEN "secondary" ELSE "primary"]
    /\ UNCHANGED <<store, age, seen, trigger, batch, consumed, overlap>>

AddTrigger(buf) == IF Len(buf) >= FlushThreshold THEN CountThreshold ELSE None

(* add, second critical section: push under the chosen buffer's lock.      *)
Push(t) ==
    /\ Goto(t, "push", "idle")
    /\ \/ /\ route[t] = "primary"
          /\ primary' = Append(primary, arg[t])
          /\ trigger' = [trigger EXCEPT ![t] = AddTrigger(primary')]
          /\ UNCHANGED secondary
       \/ /\ route[t] = "secondary"
          /\ secondary' = Append(secondary, arg[t])
          /\ trigger' = [trigger EXCEPT ![t] = AddTrigger(secondary')]
          /\ UNCHANGED primary
    /\ arg' = [arg EXCEPT ![t] = None]
    /\ route' = [route EXCEPT ![t] = "primary"]
    /\ UNCHANGED <<flushing, age, seen, batch, hist>>

(* should_flush: read last_flush, then look at primary; the elapsed time   *)
(* is that of the value read, however long ago it was read.                *)
ReadLastFlush(t) ==
    /\ Goto(t, "idle", "check")
    /\ seen' = [seen EXCEPT ![t] = age]
    /\ UNCHANGED <<store, age, arg, route, trigger, batch, hist>>

CheckTimeout(t) ==
    /\ Goto(t, "check", "idle")
    /\ trigger' = [trigger EXCEPT ![t] =
                     IF primary # <<>> /\ seen[t] >= TimeoutSecs THEN Timeout ELSE None]
    /\ seen' = [seen EXCEPT ![t] = 0]
    /\ UNCHANGED <<store, age, arg, route, batch, hist>>

(* flush: four critical sections, nothing held between them.               *)
BeginFlush(t) ==
    /\ Goto(t, "idle", "take")
    /\ flushing' = TRUE
    /\ trigger' = [trigger EXCEPT ![t] = None]
    /\ overlap' = (overlap \/ DirtyBegin)
    /\ UNCHANGED <<primary, secondary, age, arg, route, seen, batch, offered, consumed>>

\* Bug: the batch is a clone, primary keeps its messages.
FaultyTake(t) ==
    /\ Goto(t, "take", "touch")
    /\ batch' = [batch EXCEPT ![t] = primary]
    /\ overlap' = (overlap \/ DirtyTake)
    /\ UNCHANGED <<store, age, arg, route, seen, trigger, offered, consumed>>

Take(t) ==
    /\ Goto(t, "take", "touch")
    /\ batch' = [batch EXCEPT ![t] = primary]
    /\ primary' = <<>>
    /\ overlap' = (overlap \/ DirtyTake)
    /\ UNCHANGED <<secondary, flushing, age, arg, route, seen, trigger, offered, consumed>>

Touch(t) ==
    /\ Goto(t, "touch", "swap")
    /\ age' = 0
    /\ UNCHANGED <<store, locals, hist>>

\* Bug: primary is emptied and secondary thrown away.
FaultySwapBack(t) ==
    /\ Goto(t, "swap", "own")
    /\ primary' = <<>>
    /\ secondary' = <<>>
    /\ flushing' = FALSE
    /\ UNCHANGED <<age, locals, hist>>

\* *primary = take(secondary): what primary held is dropped.
SwapBack(t) ==
    /\ Goto(t, "swap", "own")
    /\ primary' = secondary
    /\ secondary' = <<>>
    /\ flushing' = FALSE
    /\ UNCHANGED <<age, locals, hist>>

\* Bug: the returned batch replaces what has been buffered since.
FaultyReturnMessages(t) ==
    /\ Goto(t, "own", "idle")
    /\ primary' = batch[t]
    /\ batch' = [batch EXCEPT ![t] = <<>>]
    /\ overlap' = (overlap \/ DirtyReturn)
    /\ UNCHANGED <<secondary, flushing, age, arg, route, seen, trigger, offered, consumed>>

\* Bug: a copy is returned, the caller goes on with the batch.
FaultyReturnCopy(t) ==
    /\ Goto(t, "own", "idle")
    /\ primary' = batch[t] \o primary
    /\ overlap' = (overlap \/ DirtyReturn)
    /\ UNCHANGED <<secondary, flushing, age, locals, offered, consumed>>

(* The owner of a batch returns it for a retry, or is done with it.        *)
ReturnMessages(t) ==
    /\ Goto(t, "own", "idle")
    /\ primary' = batch[t] \o primary
    /\ batch' = [batch EXCEPT ![t] = <<>>]
    /\ overlap' = (overlap \/ DirtyReturn)
    /\ UNCHANGED <<secondary, flushing, age, arg, route, seen, trigger, offered, consumed>>

Consume(t) ==
    /\ Goto(t, "own", "idle")
    /\ consumed' = consumed \cup Range(batch[t])
    /\ batch' = [batch EXCEPT ![t] = <<>>]
    /\ UNCHANGED <<store, age, arg, route, seen, trigger, offered, overlap>>

(* Time passes, for last_flush and for every copy of it being compared.    *)
Older(a) == IF a < TimeoutSecs THEN a + 1 ELSE a
Checking == {t \in Threads : pc[t] = "check"}

Tick ==
    /\ age' = Older(age)
    /\ seen' = [t \in Threads |-> IF t \in Checking THEN Older(seen[t]) ELSE seen[t]]
    /\ UNCHANGED <<store, pc, arg, route, trigger, batch, hist>>

Add(t) == Push(t) \/ \E m \in Messages : ReadFlushing(t, m)
ShouldFlush(t) == ReadLastFlush(t) \/ CheckTimeout(t)
Flush(t) == BeginFlush(t) \/ Take(t) \/ Touch(t) \/ SwapBack(t)
Settle(t) == ReturnMessages(t) \/ Consume(t)

Next == Tick \/ \E t \in Threads : Add(t) \/ ShouldFlush(t) \/ Flush(t) \/ Settle(t)

Spec == Init /\ [][Next]_vars

-----------------------------------------------------------------------------
(* Properties.                                                             *)

\* Types of the state: buffers hold messages, locals are meaningful per step.
TypeOK ==
    /\ primary \in Seq(Messages) /\ secondary \in Seq(Messages)
    /\ flushing \in BOOLEAN
    /\ age \in 0..TimeoutSecs
    /\ pc \in [Threads -> Steps]
    /\ arg \in [Threads -> Messages \cup {None}]
    /\ \A t \in Pushing : arg[t] \in offered
    /\ route \in [Threads -> {"primary", "secondary"}]
    /\ seen \in [Threads -> 0..TimeoutSecs]
    /\ trigger \in [Threads -> {None, CountThreshold, Timeout}]
    /\ batch \in [Threads -> Seq(Messages)]
    /\ \A t \in Threads : batch[t] # <<>> => pc[t] \in {"touch", "swap", "own"}
    /\ offered \subseteq Messages /\ consumed \subseteq Messages
    /\ overlap \in BOOLEAN

\* However adds, flushes and returns interleave, a message is in one place at
\* most and there once: it is never analysed in two batches, and never again
\* after its batch was consumed (flush takes, return_messages appends).
NoDuplicates ==
    /\ IsInjective(primary) /\ IsInjective(secondary)
    /\ Range(primary) \cap Range(secondary) = {}
    /\ \A t \in Threads :
         /\ IsInjective(batch[t])
         /\ Range(batch[t]) \cap (Range(primary) \cup Range(secondary) \cup consumed) = {}
         /\ \A u \in Threads \ {t} : Range(batch[t]) \cap Range(batch[u]) = {}
    /\ consumed \cap (Range(primary) \cup Range(secondary)) = {}
    /\ \A t \in Pushing : arg[t] \notin Located
    /\ \A t, u \in Pushing : arg[t] = arg[u] => t = u

\* An accepted message disappears only in a run where some operation has
\* overlapped a flush in one of the three named ways: flush itself, add during
\* flush (double buffering) and return after flush lose nothing.
LossNeedsOverlap == Lost # {} => overlap

\* Why: as long as nothing has overlapped, the flag tells truly whether a flush
\* is under way, flushes exclude one another, and from Take to SwapBack primary
\* stays empty because every add under way was sent to secondary.
QuietWindow ==
    ~overlap =>
      /\ flushing = (Flushers # {})
      /\ \A t, u \in Flushers : t = u
      /\ PastTake # {} => primary = <<>> /\ \A u \in Pushing : route[u] = "secondary"

\* What the module doc and the tests say of flush: messages arriving during a
\* flush are accepted without data loss.  Does not hold of the code.
NoLoss == Lost = {}

\* In any step, messages vanish only from primary, and only when a flush
\* overwrites it; what was set aside in secondary or is owned by a task that
\* may still return it is never dropped.
SetAsideIsSafe ==
    [][ \A m \in Accepted \ Lost : m \in Lost' =>
          m \in Range(primary) /\ \E t \in Threads : pc[t] = "swap" /\ pc'[t] = "own" ]_vars

\* The abstraction: both buffers are the pool, a task's batch is what it holds.
Pool == INSTANCE BatchPool WITH
            pool <- Range(primary) \cup Range(secondary),
            held <- [t \in Threads |-> Range(batch[t])],
            done <- consumed,
            abused <- overlap

\* The double buffer implements the pool: adds during a flush are accepted, a
\* failed batch returns whole, nothing is lost while nothing overlaps a flush;
\* and after that losses are all that can happen, and to waiting messages only.
ImplementsPool == Pool!Spec
=============================================================================
