----------------------------- MODULE Enforcement -----------------------------
(***************************************************************************)
(* What follows a verdict: the regex branch of process_message and the     *)
(* success branch of flush_buffer (src/src/pipeline.rs), which record each *)
(* violation in the warning system and push actions on the queue that all  *)
(* tasks share, and process_queue (src/src/discord.rs), in which the same  *)
(* tasks then pop and execute whatever the queue holds.                    *)
(*                                                                         *)
(*   process_message   Screen ; Record ; Push ; Mark ; process_queue       *)
(*   flush_buffer      Analyse ; (QueueDelete ; Record ; Mark) for each    *)
(*                     verdict ; Tell for each user ; process_queue        *)
(*   process_queue     Pop ; Execute, until Pop finds nothing              *)
(*                                                                         *)
(* A task that meets an error returns at once (the ? operator).  The       *)
(* statements are those of Warnings; the hourly job and moderators, which  *)
(* no code of this module waits for, are left to that module.              *)
(*                                                                         *)
(* A definition named Faulty... is the one after it with a bug put in.     *)
(***************************************************************************)
EXTENDS Warnings, SequencesExt

CONSTANTS Messages,     \* messages that violate the rules
          Verdicts,     \* items of Gemini's answers, findings of the regex filter
          About,        \* the message each names; nothing keeps two from naming one
          Author,       \* the user who wrote each message
          Direct,       \* those outside any guild: no warning is recorded
          StartRows     \* rows the table may hold when the process starts

ASSUME EnforcementAssumption ==
    /\ About \in [Verdicts -> Messages]
    /\ Author \in [Messages -> Users]
    /\ Direct \subseteq Messages
    /\ IsFiniteSet(Verdicts)
    /\ Cardinality(Verdicts) <= MaxOffences
    /\ StartRows \subseteq {w \in Row : w.level = NoWarning => w = NoRow}

VARIABLES
    queue,      \* action_queue
    stage,      \* where each task is
    flushing,   \* whether it runs flush_buffer (or process_message)
    cur,        \* the verdict it acts on
    todo,       \* verdicts it has still to act on
    top,        \* user_warning_levels, for the users of user_violations
    plan,       \* actions it is about to push, one lock each
    doing,      \* the action it has popped and is executing
    given,      \* verdicts given so far
    tried,      \* history: actions executed; Discord's refusals are only logged
    dropped     \* history: users whose handling an error cut short

local == <<stage, flushing, cur, todo, top, plan>>
evars == <<vars, queue, local, doing, given, tried, dropped>>

\* The request names the message; it is labelled here by the verdict it is for.
Delete(v)      == [kind |-> "delete", of |-> v]
Notify(v)      == [kind |-> "notify", of |-> v]
Summary(u)     == [kind |-> "summary", of |-> u]
Sanction(u, l) == [kind |-> "sanction", of |-> u, level |-> l]
Nothing        == [kind |-> "none"]

Sanctions == {Sanction(u, l) : u \in Users, l \in ShortTimeout..Ban}
Actions   == {Delete(v) : v \in Verdicts} \cup {Notify(v) : v \in Verdicts}
             \cup {Summary(u) : u \in Users} \cup Sanctions

NoVerdict == "no verdict"
NoUsers   == [u \in {} |-> NoWarning]

Offender(v) == Author[About[v]]

\* A message leaves the buffer, or never enters it, before it is judged.
Judged(m) == \E v \in given : About[v] = m

\* queue_warning_action: a mere warning needs no action on Discord.
WarningAction(u, l) == IF l >= ShortTimeout THEN <<Sanction(u, l)>> ELSE <<>>

\* Bug: the user's first level is kept.
FaultyHigher(levels, u, l) ==
    [v \in DOMAIN levels \cup {u} |-> IF v \in DOMAIN levels THEN levels[v] ELSE l]

\* Keep highest warning level for this user.
Higher(levels, u, l) ==
    [v \in DOMAIN levels \cup {u} |->
        IF v # u THEN levels[v]
        ELSE IF u \in DOMAIN levels /\ levels[u] > l THEN levels[u] ELSE l]

-----------------------------------------------------------------------------
EInit ==
    /\ row \in [Users -> StartRows]
    /\ marked = {u \in Users : row[u].kicked}
    /\ Started
    /\ queue = <<>>
    /\ stage = [t \in Tasks |-> "idle"]
    /\ flushing = [t \in Tasks |-> FALSE]
    /\ cur = [t \in Tasks |-> NoVerdict]
    /\ todo = [t \in Tasks |-> {}]
    /\ top = [t \in Tasks |-> NoUsers]
    /\ plan = [t \in Tasks |-> <<>>]
    /\ doing = [t \in Tasks |-> Nothing]
    /\ given = {}
    /\ tried = {Sanction(u, Kick) : u \in marked}
    /\ dropped = {}

Push(as) == queue' = queue \o as

(* The regex filter finds a violation: handle_violation.                   *)
Screen(t, v) ==
    /\ stage[t] = "idle" /\ v \in Verdicts /\ ~Judged(About[v])
    /\ given' = given \cup {v}
    /\ Push(<<Delete(v), Notify(v)>>)
    /\ stage' = [stage EXCEPT ![t] = IF About[v] \in Direct THEN "act" ELSE "record"]
    /\ flushing' = [flushing EXCEPT ![t] = FALSE]
    /\ cur' = [cur EXCEPT ![t] = v]
    /\ UNCHANGED <<vars, todo, top, plan, doing, tried, dropped>>

(* Gemini answers; verdicts are the violations at or above the threshold,  *)
(* several of which may name one message.                                  *)
Analyse(t, verdicts) ==
    /\ stage[t] = "idle" /\ verdicts \subseteq Verdicts
    /\ \A v \in verdicts : ~Judged(About[v])
    /\ given' = given \cup verdicts
    /\ stage' = [stage EXCEPT ![t] = "act"]
    /\ flushing' = [flushing EXCEPT ![t] = TRUE]
    /\ todo' = [todo EXCEPT ![t] = verdicts]
    /\ UNCHANGED <<vars, queue, cur, top, plan, doing, tried, dropped>>

(* Next verdict: queue_delete_message.                                     *)
QueueDelete(t, v) ==
    /\ stage[t] = "act" /\ v \in todo[t]
    /\ Push(<<Delete(v)>>)
    /\ todo' = [todo EXCEPT ![t] = @ \ {v}]
    /\ cur' = [cur EXCEPT ![t] = v]
    /\ IF About[v] \in Direct
       THEN top' = [top EXCEPT ![t] = Higher(@, Offender(v), NoWarning)] /\ UNCHANGED stage
       ELSE stage' = [stage EXCEPT ![t] = "record"] /\ UNCHANGED top
    /\ UNCHANGED <<vars, flushing, plan, doing, given, tried, dropped>>

(* record_violation up to its last statement.                              *)
Record1(t) ==
    /\ stage[t] = "record"
    /\ ReadWarning(t, Offender(cur[t])) \/ Upsert(t)
    /\ UNCHANGED <<queue, local, doing, given, tried, dropped>>

\* What a recorded level is for: in a flush, the user's highest; for the regex
\* filter, the action to push.
Recorded(t) ==
    /\ stage' = [stage EXCEPT ![t] = "act"]
    /\ IF flushing[t]
       THEN top' = [top EXCEPT ![t] = Higher(@, who[t], new[t])] /\ UNCHANGED plan
       ELSE plan' = [plan EXCEPT ![t] = WarningAction(who[t], new[t])] /\ UNCHANGED top

(* Its last statement.  A flush marks a kicked user before it goes on.     *)
Record2(t) ==
    /\ stage[t] = "record"
    /\ InsertViolation(t)
    /\ IF flushing[t] /\ new[t] = Kick THEN UNCHANGED <<stage, top, plan>> ELSE Recorded(t)
    /\ UNCHANGED <<queue, flushing, cur, todo, doing, given, tried, dropped>>

(* mark_kicked: in process_message once the action is pushed.              *)
Mark(t) ==
    /\ MarkKicked(t)
    /\ IF flushing[t] THEN Recorded(t) ELSE plan[t] = <<>> /\ UNCHANGED <<stage, top, plan>>
    /\ UNCHANGED <<queue, flushing, cur, todo, doing, given, tried, dropped>>

(* A statement fails, the SELECT included.                                 *)
Abort(t) ==
    /\ stage[t] = "record" \/ (step[t] = "mark" /\ plan[t] = <<>>)
    /\ IF step[t] = "idle" THEN UNCHANGED vars ELSE RecordError(t)
    /\ dropped' = dropped \cup {Offender(v) : v \in todo[t] \cup {cur[t]}} \cup DOMAIN top[t]
    /\ stage' = [stage EXCEPT ![t] = "idle"]
    /\ flushing' = [flushing EXCEPT ![t] = FALSE]
    /\ cur' = [cur EXCEPT ![t] = NoVerdict]
    /\ todo' = [todo EXCEPT ![t] = {}]
    /\ top' = [top EXCEPT ![t] = NoUsers]
    /\ UNCHANGED <<queue, plan, doing, given, tried>>

(* Next user of a flush: the warning action, if any, and the summary.      *)
Tell(t, u) ==
    /\ stage[t] = "act" /\ todo[t] = {} /\ plan[t] = <<>>
    /\ u \in DOMAIN top[t]
    /\ plan' = [plan EXCEPT ![t] = Append(WarningAction(u, top[t][u]), Summary(u))]
    /\ top' = [top EXCEPT ![t] = [v \in DOMAIN @ \ {u} |-> @[v]]]
    /\ UNCHANGED <<vars, queue, stage, flushing, cur, todo, doing, given, tried, dropped>>

PushNext(t) ==
    /\ plan[t] # <<>>
    /\ Push(<<Head(plan[t])>>)
    /\ plan' = [plan EXCEPT ![t] = Tail(@)]
    /\ UNCHANGED <<vars, stage, flushing, cur, todo, top, doing, given, tried, dropped>>

-----------------------------------------------------------------------------
(* process_queue: a task that has pushed all it had to push.               *)
Draining(t) == /\ stage[t] = "act" /\ step[t] = "idle"
               /\ todo[t] = {} /\ DOMAIN top[t] = {} /\ plan[t] = <<>>
               /\ doing[t] = Nothing

\* Bug: the front is read, and removed only once it has been executed.
FaultyPop(t) ==
    /\ Draining(t) /\ queue # <<>>
    /\ doing' = [doing EXCEPT ![t] = Head(queue)]
    /\ UNCHANGED <<vars, queue, local, given, tried, dropped>>

Pop(t) ==
    /\ Draining(t) /\ queue # <<>>
    /\ queue' = Tail(queue)
    /\ doing' = [doing EXCEPT ![t] = Head(queue)]
    /\ UNCHANGED <<vars, local, given, tried, dropped>>

(* The request to Discord; the queue is not locked meanwhile.  An error is *)
(* logged and the action is gone: execute_action never returns the         *)
(* RateLimited error for which process_queue would put it back.            *)
Execute(t) ==
    /\ doing[t] # Nothing
    /\ tried' = tried \cup {doing[t]}
    /\ doing' = [doing EXCEPT ![t] = Nothing]
    /\ UNCHANGED <<vars, queue, local, given, dropped>>

\* Bug: process_queue returns at the first action that fails.
FaultyFinish(t) ==
    /\ Draining(t)
    /\ stage' = [stage EXCEPT ![t] = "idle"]
    /\ flushing' = [flushing EXCEPT ![t] = FALSE]
    /\ cur' = [cur EXCEPT ![t] = NoVerdict]
    /\ UNCHANGED <<vars, queue, todo, top, plan, doing, given, tried, dropped>>

Finish(t) ==
    /\ Draining(t) /\ queue = <<>>
    /\ stage' = [stage EXCEPT ![t] = "idle"]
    /\ flushing' = [flushing EXCEPT ![t] = FALSE]
    /\ cur' = [cur EXCEPT ![t] = NoVerdict]
    /\ UNCHANGED <<vars, queue, todo, top, plan, doing, given, tried, dropped>>

-----------------------------------------------------------------------------
Act(t) ==
    \/ \E v \in Verdicts : QueueDelete(t, v)
    \/ Record1(t) \/ Record2(t) \/ Mark(t) \/ Abort(t)
    \/ \E u \in Users : Tell(t, u)
    \/ PushNext(t) \/ Pop(t) \/ Execute(t) \/ Finish(t)

ENext == \E t \in Tasks :
            \/ \E v \in Verdicts : Screen(t, v)
            \/ \E verdicts \in SUBSET Verdicts : Analyse(t, verdicts)
            \/ Act(t)

ESpec == EInit /\ [][ENext]_evars

-----------------------------------------------------------------------------
(* Properties.                                                             *)

ETypeOK ==
    /\ TypeOK
    /\ queue \in Seq(Actions)
    /\ stage \in [Tasks -> {"idle", "act", "record"}]
    /\ flushing \in [Tasks -> BOOLEAN]
    /\ cur \in [Tasks -> Verdicts \cup {NoVerdict}]
    /\ todo \in [Tasks -> SUBSET Verdicts]
    /\ \A t \in Tasks : stage[t] = "record" => cur[t] \in Verdicts
    /\ top \in [Tasks -> UNION {[us -> Levels] : us \in SUBSET Users}]
    /\ plan \in [Tasks -> Seq(Actions)]
    /\ doing \in [Tasks -> Actions \cup {Nothing}]
    /\ given \subseteq Verdicts
    /\ tried \subseteq Actions
    /\ dropped \subseteq Users

Resting == \A t \in Tasks : stage[t] = "idle"

Issued == ToSet(queue) \cup tried

\* Where the deletion a verdict calls for is: still to be queued, queued, being
\* executed, over.
Places(v) ==
    {<<"todo", t>> : t \in {t \in Tasks : v \in todo[t]}}
    \cup {<<"queue", i>> : i \in {i \in DOMAIN queue : queue[i] = Delete(v)}}
    \cup {<<"doing", t>> : t \in {t \in Tasks : doing[t] = Delete(v)}}
    \cup {<<"tried", a>> : a \in {Delete(v)} \cap tried}

\* However handlers and flushes share the queue, each verdict has its message
\* deleted once and never twice: nothing is executed again by another task, and
\* unless an error struck its author's batch the deletion is on its way.  A
\* message Gemini names twice in one answer is deleted once for each time.
DeletedOnce ==
    \A v \in Verdicts :
        /\ \A p, q \in Places(v) : p = q
        /\ v \in given => Offender(v) \in dropped \/ Places(v) # {}

\* No sanction the warning table records is forgotten: when all tasks rest, a
\* user whose level rose has had an action of that level or a higher one, unless
\* an error struck.
SanctionsFollow ==
    Resting => \A u \in Users :
        offences[u] > 0 /\ u \notin dropped /\ Level(u) >= ShortTimeout
        => \E l \in Level(u)..Ban : Sanction(u, l) \in Issued

\* A task leaves while others push, and pushes while others leave: actions stay
\* behind in the queue only if an error kept a task from draining it.
LeftoverNeedsError == queue # <<>> /\ Resting => dropped # {}

=============================================================================
