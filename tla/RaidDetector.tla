---------------------------- MODULE RaidDetector ----------------------------
(***************************************************************************)
(* The raid detector of one guild (src/src/raid.rs): mass joins and        *)
(* message floods switch raid mode on, a task switches it off again, and   *)
(* one user's spam is answered by a timeout of that user.                  *)
(*                                                                         *)
(* Every operation reads the clock BEFORE it waits for the lock of the     *)
(* queue it appends to, so the queues are not sorted by time, and the      *)
(* lock is released before raid mode is activated under another lock.      *)
(***************************************************************************)
EXTENDS Integers, Sequences, FiniteSets

CONSTANTS
    Tasks,             \* event handlers that may run at the same time
    Users, Contents,   \* authors, and message texts up to hash_content
    JoinWindow, JoinThreshold,
    NewPerTen,         \* new_account_ratio, in tenths
    FloodWindow, FloodThreshold,
    SimilarPerTen,     \* similarity_threshold, in tenths
    SpamWindow, SpamThreshold,
    RaidExpiry,
    SweepEvery,        \* period of the expiry task
    MaxWait,           \* bound: longest wait between reading the clock and the lock
    MaxEvents,         \* bound: events received
    MaxTime            \* bound: the clock

ASSUME DetectorAssumption ==
    /\ {JoinWindow, FloodWindow, SpamWindow, MaxWait} \subseteq Nat
    /\ {JoinThreshold, FloodThreshold, SpamThreshold, RaidExpiry, SweepEvery} \subseteq Nat \ {0}
    /\ {NewPerTen, SimilarPerTen} \subseteq 0..10
    /\ {MaxEvents, MaxTime} \subseteq Nat

VARIABLES
    clock,
    joins,     \* recent_joins: queue of [at, new]
    floods,    \* recent_messages: queue of [at, user, content]
    stamps,    \* user_messages: per user a queue of [at]
    raid,      \* raid_mode: [active, at]; its last trigger (for properties)
    task,      \* per handler: its step, and the time it read last
    sweep,     \* the expiry task: its step, the time it read, its next tick
    events,    \* events received so far
    sent,      \* per user, messages that passed check_user_spam's lock (for properties)
    hits       \* per user, timeouts for spam (for properties)

queues == <<joins, floods, stamps>>
ledger == <<sent, hits>>
vars == <<clock, queues, raid, task, sweep, events, ledger>>

Idle == [pc |-> "idle"]
Off == [active |-> FALSE, at |-> 0, last |-> 0]

(* A join or a message in the hands of a handler, with the time it read.   *)
Busy == [pc : {"join"}, new : BOOLEAN, at : Nat]
        \cup [pc : {"spam", "flood"}, user : Users, content : Contents, at : Nat]
        \cup [pc : {"raid", "checked"}, user : Users]
        \cup [pc : {"mass"}]

TypeOK ==
    /\ clock \in Nat /\ events \in Nat
    /\ joins \in Seq([at : Nat, new : BOOLEAN])
    /\ floods \in Seq([at : Nat, user : Users, content : Contents])
    /\ stamps \in [Users -> Seq([at : Nat])]
    /\ raid \in [active : BOOLEAN, at : Nat, last : Nat]
    /\ task \in [Tasks -> {Idle} \cup Busy]
    /\ sweep \in [pc : {"wait", "lock"}, at : Nat, next : Nat]
    /\ sent \in [Users -> Nat] /\ hits \in [Users -> Nat]

Init ==
    /\ clock = 0 /\ events = 0
    /\ joins = <<>> /\ floods = <<>>
    /\ stamps = [u \in Users |-> <<>>]
    /\ raid = Off
    /\ task = [h \in Tasks |-> Idle]
    /\ sweep = [pc |-> "wait", at |-> 0, next |-> 0]
    /\ sent = [u \in Users |-> 0] /\ hits = [u \in Users |-> 0]

(***************************************************************************)
(* Sliding windows                                                         *)
(***************************************************************************)

(* Mutant: looks at the newest entry instead of the oldest.                *)
FaultyPruned(queue, cutoff) ==
    IF queue # <<>> /\ queue[Len(queue)].at < cutoff THEN <<>> ELSE queue

(* pop_front while the FRONT is older than the cutoff: what is old but     *)
(* stands behind a younger entry stays.                                    *)
Pruned(queue, cutoff) ==
    LET kept == {i \in 1..Len(queue) : \E j \in 1..i : queue[j].at >= cutoff}
    IN  IF kept = {} THEN <<>>
        ELSE SubSeq(queue, CHOOSE i \in kept : \A j \in kept : i <= j, Len(queue))

MassJoin(queue) ==
    LET new == {i \in 1..Len(queue) : queue[i].new}
    IN  /\ Len(queue) >= JoinThreshold
        /\ 10 * Cardinality(new) >= NewPerTen * Len(queue)

(* Similar messages by enough different users, and most of the window.     *)
Flood(queue, content) ==
    LET similar == {i \in 1..Len(queue) : queue[i].content = content}
    IN  /\ Cardinality({queue[i].user : i \in similar}) >= FloodThreshold
        /\ 10 * Cardinality(similar) >= SimilarPerTen * Len(queue)

Goto(h, step) == task' = [task EXCEPT ![h] = step]

(***************************************************************************)
(* record_join                                                             *)
(***************************************************************************)

Join(h, new) ==
    /\ task[h] = Idle /\ events < MaxEvents
    /\ Goto(h, [pc |-> "join", new |-> new, at |-> clock])
    /\ events' = events + 1
    /\ UNCHANGED <<clock, queues, raid, sweep, ledger>>

(* Push, prune and count under the lock of recent_joins.                   *)
RecordJoin(h) ==
    /\ task[h].pc = "join"
    /\ joins' = Pruned(Append(joins, [at |-> task[h].at, new |-> task[h].new]),
                       task[h].at - JoinWindow)
    /\ Goto(h, IF MassJoin(joins') THEN [pc |-> "mass"] ELSE Idle)
    /\ UNCHANGED <<clock, floods, stamps, raid, sweep, events, ledger>>

(***************************************************************************)
(* check_user_spam, then record_message                                    *)
(***************************************************************************)

Message(h, u, c) ==
    /\ task[h] = Idle /\ events < MaxEvents
    /\ Goto(h, [pc |-> "spam", user |-> u, content |-> c, at |-> clock])
    /\ events' = events + 1
    /\ UNCHANGED <<clock, queues, raid, sweep, ledger>>

(* Mutant: the queue that triggered is not cleared.                        *)
FaultyCheckUserSpam(h) ==
    LET u == task[h].user
        recent == Pruned(Append(stamps[u], [at |-> task[h].at]), task[h].at - SpamWindow)
        spam == Len(recent) >= SpamThreshold
    IN  /\ task[h].pc = "spam"
        /\ stamps' = [stamps EXCEPT ![u] = recent]
        /\ hits' = [hits EXCEPT ![u] = @ + IF spam THEN 1 ELSE 0]
        /\ sent' = [sent EXCEPT ![u] = @ + 1]
        /\ Goto(h, IF spam THEN Idle ELSE [task[h] EXCEPT !.pc = "flood", !.at = clock])
        /\ UNCHANGED <<clock, joins, floods, raid, sweep, events>>

(* A spammer is timed out and the message goes no further; otherwise the   *)
(* handler reads the clock again and waits for the next lock.              *)
CheckUserSpam(h) ==
    LET u == task[h].user
        recent == Pruned(Append(stamps[u], [at |-> task[h].at]), task[h].at - SpamWindow)
        spam == Len(recent) >= SpamThreshold
    IN  /\ task[h].pc = "spam"
        /\ stamps' = [stamps EXCEPT ![u] = IF spam THEN <<>> ELSE recent]
        /\ hits' = [hits EXCEPT ![u] = @ + IF spam THEN 1 ELSE 0]
        /\ sent' = [sent EXCEPT ![u] = @ + 1]
        /\ Goto(h, IF spam THEN Idle ELSE [task[h] EXCEPT !.pc = "flood", !.at = clock])
        /\ UNCHANGED <<clock, joins, floods, raid, sweep, events>>

(* Push, prune and count under the lock of recent_messages.                *)
RecordMessage(h) ==
    LET m == [at |-> task[h].at, user |-> task[h].user, content |-> task[h].content]
    IN  /\ task[h].pc = "flood"
        /\ floods' = Pruned(Append(floods, m), m.at - FloodWindow)
        /\ Goto(h, [pc |-> IF Flood(floods', m.content) THEN "raid" ELSE "checked", user |-> m.user])
        /\ UNCHANGED <<clock, joins, stamps, raid, sweep, events, ledger>>

(* The pipeline takes the message; raid mode changes nothing there.        *)
Leave(h) ==
    /\ task[h].pc = "checked"
    /\ Goto(h, Idle)
    /\ UNCHANGED <<clock, queues, raid, sweep, events, ledger>>

(***************************************************************************)
(* Raid mode                                                               *)
(***************************************************************************)

(* The clock is read under the lock; an active raid mode is not renewed.   *)
Activated ==
    [active |-> TRUE, at |-> IF raid.active THEN raid.at ELSE clock, last |-> clock]

ActivateRaidMode(h) ==
    /\ task[h].pc \in {"mass", "raid"}
    /\ raid' = Activated
    /\ Goto(h, IF task[h].pc = "mass" THEN Idle ELSE [task[h] EXCEPT !.pc = "checked"])
    /\ UNCHANGED <<clock, queues, sweep, events, ledger>>

(* Mutant: the clock is read before the loop and not in it.                *)
FaultyCheckExpiry ==
    /\ sweep.pc = "wait" /\ clock >= sweep.next
    /\ sweep' = [pc |-> "lock", at |-> sweep.at, next |-> sweep.next + SweepEvery]
    /\ UNCHANGED <<clock, queues, raid, task, events, ledger>>

(* Tick of the expiry task: it reads the clock ...                         *)
CheckExpiry ==
    /\ sweep.pc = "wait" /\ clock >= sweep.next
    /\ sweep' = [pc |-> "lock", at |-> clock, next |-> sweep.next + SweepEvery]
    /\ UNCHANGED <<clock, queues, raid, task, events, ledger>>

(* ... and compares under the lock; a raid activated in between has a      *)
(* triggered_at after that time, and duration_since saturates at zero.     *)
Expires == raid.active /\ sweep.at - raid.at >= RaidExpiry

Expire ==
    /\ sweep.pc = "lock"
    /\ sweep' = [sweep EXCEPT !.pc = "wait"]
    /\ raid' = IF Expires THEN Off ELSE raid
    /\ UNCHANGED <<clock, queues, task, events, ledger>>

DisableRaidMode ==
    /\ raid.active
    /\ raid' = Off
    /\ UNCHANGED <<clock, queues, task, sweep, events, ledger>>

(* user_messages is not cleared.                                           *)
ClearGuild ==
    /\ joins' = <<>> /\ floods' = <<>> /\ raid' = Off
    /\ UNCHANGED <<clock, stamps, task, sweep, events, ledger>>

(***************************************************************************)
(* Time passes, but nobody waits for a lock longer than MaxWait, and the   *)
(* expiry task starts at most MaxWait after its tick.                      *)
(***************************************************************************)

Waiting(h) == task[h].pc \in {"join", "spam", "flood"}

Tick ==
    /\ clock < MaxTime
    /\ \A h \in Tasks : Waiting(h) => clock < task[h].at + MaxWait
    /\ IF sweep.pc = "wait" THEN clock < sweep.next + MaxWait ELSE clock < sweep.at + MaxWait
    /\ clock' = clock + 1
    /\ UNCHANGED <<queues, raid, task, sweep, events, ledger>>

HandlerStep(h) ==
    \/ \E new \in BOOLEAN : Join(h, new)
    \/ RecordJoin(h)
    \/ \E u \in Users, c \in Contents : Message(h, u, c)
    \/ CheckUserSpam(h) \/ RecordMessage(h) \/ ActivateRaidMode(h)

Surroundings == CheckExpiry \/ Expire \/ DisableRaidMode \/ ClearGuild \/ Tick

Next == (\E h \in Tasks : HandlerStep(h) \/ Leave(h)) \/ Surroundings

Spec == Init /\ [][Next]_vars

(***************************************************************************)
(* Properties                                                              *)
(***************************************************************************)

Close(queue, width) ==
    \A i, j \in 1..Len(queue) : queue[i].at - queue[j].at <= width

(* However the handlers overtake each other between clock and lock, what a *)
(* window holds lies within the window's length and one wait: what a mass  *)
(* join or a flood counts came close together.  Two waits would be the     *)
(* naive bound, one window would be wrong (record_join, record_message,    *)
(* check_user_spam).                                                       *)
WindowsAreShort ==
    /\ Close(joins, JoinWindow + MaxWait)
    /\ Close(floods, FloodWindow + MaxWait)
    /\ \A u \in Users : Close(stamps[u], SpamWindow + MaxWait)

(* A message of a user counts towards at most one timeout for spam, and no *)
(* handler that overtakes another makes it count twice (check_user_spam).  *)
EachMessageCountsOnce ==
    \A u \in Users : SpamThreshold * hits[u] + Len(stamps[u]) <= sent[u]

(* Raid mode that is not triggered any more ends: no later than its        *)
(* expiry, one period of the expiry task and the delays of that task after *)
(* its last trigger, wherever between clock and lock of that task raid     *)
(* mode was switched on, off and on again.  It may end sooner: a trigger   *)
(* while it is active does not renew it (activate_raid_mode,               *)
(* check_expiry).                                                          *)
RaidEnds == raid.active => clock - raid.last < RaidExpiry + SweepEvery + 2 * MaxWait
=============================================================================
