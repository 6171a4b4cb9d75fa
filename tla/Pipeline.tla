------------------------------ MODULE Pipeline ------------------------------
(***************************************************************************)
(* The moderation pipeline of src/src/pipeline.rs around the message       *)
(* buffer: message handlers screen a message with the regex filter, gate it*)
(* on gemini_available and add it to the buffer; a handler whose add       *)
(* reached the threshold, or the five-second timer task, flushes the buffer*)
(* and has Gemini analyse the batch.  A failed analysis turns the gate off *)
(* and puts the batch back; the next success turns it on again.            *)
(*                                                                         *)
(* What enforcement does with a verdict is the subject of other modules.   *)
(***************************************************************************)
EXTENDS MessageBuffer

CONSTANTS Timer,         \* the task spawned by spawn_flush_task
          Quota,         \* of the analyser: permits
          MaxAttempts    \* and attempts

Handlers == Threads \ {Timer}

VARIABLES
    available,   \* gemini_available
    stage,       \* where each task is in process_message / flush_buffer
    todo,        \* the message a handler was called with
    screened,    \* history: messages the regex filter acted on
    skipped,     \* history: messages passed unanalysed (Gemini unavailable)
    permits,     \* the analyser's limiter
    call         \* where in its call of the analyser each task is

gemini == <<permits, call>>
gate   == <<available, stage, todo, screened, skipped>>
pipe   == <<gate, gemini>>
pvars  == <<vars, pipe>>

Gemini == INSTANCE Analyzer WITH Callers <- Threads

ASSUME PipelineAssumption == Timer \in Threads /\ Gemini!ConstantsFit

Stages == {"ready", "adding", "polling", "flushing", "analyzing", "failed"}

Arrived == {todo[t] : t \in Threads} \cup screened \cup skipped \cup offered

Enter(t, from, to) == stage[t] = from /\ stage' = [stage EXCEPT ![t] = to]

PInit ==
    /\ Init
    /\ available = TRUE
    /\ stage = [t \in Threads |-> "ready"]
    /\ todo = [t \in Threads |-> None]
    /\ screened = {} /\ skipped = {}
    /\ Gemini!Init

-----------------------------------------------------------------------------
(* process_message                                                         *)

\* The regex filter matches: the handler enforces at once, nothing is buffered.
RegexViolation(h, m) ==
    /\ stage[h] = "ready" /\ m \notin Arrived
    /\ screened' = screened \cup {m}
    /\ UNCHANGED <<vars, available, stage, todo, skipped, gemini>>

\* The filter passes it and Gemini is thought to be up: on to the buffer.
PassFilter(h, m) ==
    /\ Enter(h, "ready", "adding") /\ m \notin Arrived
    /\ available
    /\ todo' = [todo EXCEPT ![h] = m]
    /\ UNCHANGED <<vars, available, screened, skipped, gemini>>

\* The filter passes it and Gemini is thought to be down: not analysed at all.
Degrade(h, m) ==
    /\ stage[h] = "ready" /\ m \notin Arrived
    /\ ~available
    /\ skipped' = skipped \cup {m}
    /\ UNCHANGED <<vars, available, stage, todo, screened, gemini>>

AddRead(h) ==
    /\ stage[h] = "adding"
    /\ ReadFlushing(h, todo[h])
    /\ UNCHANGED pipe

AddPush(h) ==
    /\ Push(h)
    /\ Enter(h, "adding", IF trigger'[h] = CountThreshold THEN "flushing" ELSE "ready")
    /\ todo' = [todo EXCEPT ![h] = None]
    /\ UNCHANGED <<available, screened, skipped, gemini>>

-----------------------------------------------------------------------------
(* spawn_flush_task                                                        *)

PollRead ==
    /\ Enter(Timer, "ready", "polling")
    /\ ReadLastFlush(Timer)
    /\ UNCHANGED <<available, todo, screened, skipped, gemini>>

\* Bug: the task looks whether a flush is due and does not flush.
FaultyPollCheck ==
    /\ CheckTimeout(Timer)
    /\ Enter(Timer, "polling", "ready")
    /\ UNCHANGED <<available, todo, screened, skipped, gemini>>

PollCheck ==
    /\ CheckTimeout(Timer)
    /\ Enter(Timer, "polling", IF trigger'[Timer] = Timeout THEN "flushing" ELSE "ready")
    /\ UNCHANGED <<available, todo, screened, skipped, gemini>>

-----------------------------------------------------------------------------
(* flush_buffer                                                            *)

FlushStep(t) ==
    /\ stage[t] = "flushing"
    /\ BeginFlush(t) \/ Take(t) \/ Touch(t)
    /\ UNCHANGED pipe

FlushDone(t) ==
    /\ SwapBack(t)
    /\ Enter(t, "flushing", "analyzing")
    /\ UNCHANGED <<available, todo, screened, skipped, gemini>>

\* Nothing was taken: return without calling Gemini.
EmptyBatch(t) ==
    /\ batch[t] = <<>>
    /\ Enter(t, "analyzing", "ready")
    /\ Consume(t)
    /\ UNCHANGED <<available, todo, screened, skipped, gemini>>

\* analyze_with_context until it has an answer or an error.
Analyzing(t) ==
    /\ stage[t] = "analyzing" /\ batch[t] # <<>>
    /\ Gemini!UntilReady(t) \/ Gemini!Retry(t)
    /\ UNCHANGED <<vars, gate>>

AnalyzeOk(t) ==
    /\ Gemini!Succeed(t)
    /\ Enter(t, "analyzing", "ready")
    /\ Consume(t)
    /\ available' = TRUE
    /\ UNCHANGED <<todo, screened, skipped>>

AnalyzeErr(t) ==
    /\ Gemini!Fail(t)
    /\ Enter(t, "analyzing", "failed")
    /\ available' = FALSE
    /\ UNCHANGED <<vars, todo, screened, skipped>>

\* Bug: the batch that failed is dropped.
FaultyGiveBack(t) ==
    /\ Enter(t, "failed", "ready")
    /\ Consume(t)
    /\ UNCHANGED <<available, todo, screened, skipped, gemini>>

GiveBack(t) ==
    /\ Enter(t, "failed", "ready")
    /\ ReturnMessages(t)
    /\ UNCHANGED <<available, todo, screened, skipped, gemini>>

Time == Tick /\ UNCHANGED pipe
Permits == Gemini!Replenish /\ UNCHANGED <<vars, gate>>

HandlerStep(h) ==
    \/ \E m \in Messages : RegexViolation(h, m) \/ PassFilter(h, m) \/ Degrade(h, m)
    \/ AddRead(h) \/ AddPush(h)

FlushBuffer(t) ==
    \/ FlushStep(t) \/ FlushDone(t) \/ EmptyBatch(t)
    \/ Analyzing(t) \/ AnalyzeOk(t) \/ AnalyzeErr(t) \/ GiveBack(t)

PNext ==
    \/ \E h \in Handlers : HandlerStep(h)
    \/ PollRead \/ PollCheck
    \/ \E t \in Threads : FlushBuffer(t)
    \/ Time \/ Permits

\* Tokio keeps running every task that has something to do, the interval keeps
\* ticking, time passes and brings permits.  Messages need not arrive.  A task
\* that waits while permits come and go gets one in the end: a batch takes far
\* longer than the second in which a permit comes.  Gemini may fail any number
\* of times in a row but not for ever: a task that keeps calling it gets an
\* answer in the end.
Fairness ==
    /\ WF_pvars(Time) /\ WF_pvars(Permits)
    /\ WF_pvars(PollRead) /\ WF_pvars(PollCheck)
    /\ \A t \in Threads :
         /\ WF_pvars(AddRead(t) \/ AddPush(t))
         /\ WF_pvars(FlushBuffer(t))
         /\ SF_pvars(Analyzing(t))
         /\ SF_pvars(AnalyzeOk(t))

PSpec == PInit /\ [][PNext]_pvars
FairPSpec == PSpec /\ Fairness

-----------------------------------------------------------------------------
(* Properties.                                                             *)

\* The gate is off only while some batch that failed, or its remains, can still
\* come to a retry; a retry is the only thing that turns it on again.  Unless a
\* flush was overlapped, gemini_available = false cannot become permanent.
RetryRemains ==
    ~available => \/ overlap
                  \/ primary # <<>>
                  \/ \E t \in Threads : batch[t] # <<>>

\* Every message that arrives is in the end acted on by the filter, passed
\* unanalysed while Gemini is down, analysed, or else lost by a flush or left
\* in secondary: nothing else can keep a message from being analysed.
EventuallySettled ==
    <>[](Arrived \ {None} \subseteq
            screened \cup skipped \cup consumed \cup Lost \cup Range(secondary))

\* A flush that has begun comes to its end, its batch analysed or back in the
\* buffer: nobody waits for a permit of the analyser, or tries again, for ever.
FlushesEnd ==
    \A t \in Threads : stage[t] \in {"flushing", "analyzing", "failed"} ~> stage[t] = "ready"
=============================================================================
