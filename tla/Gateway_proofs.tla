--------------------------- MODULE Gateway_proofs ---------------------------
(***************************************************************************)
(* Proofs about the raid detector and the gateway's handlers around it, for*)
(* any handlers, users and texts, and any windows, thresholds and periods. *)
(***************************************************************************)
EXTENDS Gateway, SequenceTheorems, FiniteSetTheorems, WellFoundedInduction, TLAPS

-----------------------------------------------------------------------------
(* Sliding windows.                                                        *)

\* A non-empty set of naturals has a least element.
LEMMA LeastNatural ==
  ASSUME NEW T \in SUBSET Nat, T # {}
  PROVE  \E i \in T : \A j \in T : i <= j
  <1> DEFINE R == StrictSubsetOrdering(Nat)
             F == {0..i : i \in T}
  <1>1. F \subseteq FiniteSubsetsOf(Nat) /\ F # {}
    <2>1. \A i \in T : 0..i \subseteq Nat /\ IsFiniteSet(0..i)
      BY FS_Interval
    <2>2. QED
      BY <2>1 DEF FiniteSubsetsOf
  <1>2. \E X \in F : \A Y \in F : ~ (<<Y, X>> \in R)
    <2>1. IsWellFoundedOn(R, FiniteSubsetsOf(Nat))
      BY FS_StrictSubsetOrderingWellFounded
    <2> HIDE DEF R, F
    <2>2. QED
      BY <1>1, <2>1, WFMin
  <1>3. PICK i \in T : \A j \in T : ~ (<<0..j, 0..i>> \in R)
    BY <1>2
  <1>4. \A j \in T : j < i => <<0..j, 0..i>> \in R
    <2> SUFFICES ASSUME NEW j \in T, j < i PROVE <<0..j, 0..i>> \in R
      OBVIOUS
    <2>1. 0..j \subseteq 0..i /\ i \in 0..i /\ i \notin 0..j
      OBVIOUS
    <2>2. 0..j \in SUBSET Nat /\ 0..i \in SUBSET Nat
      OBVIOUS
    <2>3. QED
      BY <2>1, <2>2 DEF StrictSubsetOrdering
  <1> HIDE DEF R, F
  <1>5. \A j \in T : i <= j
    <2> SUFFICES ASSUME NEW j \in T PROVE i <= j
      OBVIOUS
    <2>1. i \in Nat /\ j \in Nat /\ ~ (j < i)
      BY <1>3, <1>4
    <2>2. QED
      BY <2>1
  <1>6. QED
    BY <1>5

\* Pruning drops a prefix, and what stands in front then is not too old.
LEMMA PrunedIsSuffix ==
  ASSUME NEW S, NEW queue \in Seq(S), NEW cutoff \in Int,
         \A x \in S : x.at \in Nat
  PROVE  /\ Pruned(queue, cutoff) \in Seq(S)
         /\ \E k \in 0..Len(queue) :
              /\ Len(Pruned(queue, cutoff)) = Len(queue) - k
              /\ \A i \in 1..Len(queue) - k : Pruned(queue, cutoff)[i] = queue[k + i]
              /\ k < Len(queue) => queue[k + 1].at >= cutoff
  <1> DEFINE kept == {i \in 1..Len(queue) : \E j \in 1..i : queue[j].at >= cutoff}
             first == CHOOSE i \in kept : \A j \in kept : i <= j
  <1>1. Len(queue) \in Nat
    BY LenProperties
  <1>2. CASE kept = {}
    <2>1. Pruned(queue, cutoff) = <<>>
      BY <1>2 DEF Pruned
    <2>2. QED
      BY <1>1, <2>1, EmptySeq
  <1>3. CASE kept # {}
    <2>1. kept \subseteq Nat
      BY <1>1
    <2>2. first \in kept /\ \A j \in kept : first <= j
      <3> HIDE DEF kept
      <3>1. \E i \in kept : \A j \in kept : i <= j
        BY <1>3, <2>1, LeastNatural
      <3>2. QED
        BY <3>1
    <2>3. Pruned(queue, cutoff) = SubSeq(queue, first, Len(queue))
      BY <1>3 DEF Pruned
    <2> HIDE DEF first
    <2>4. first \in 1..Len(queue) /\ queue[first].at >= cutoff
      <3>1. PICK j \in 1..first : queue[j].at >= cutoff
        BY <2>2
      <3>2. j \in kept
        BY <1>1, <2>2, <3>1
      <3>3. j = first
        BY <1>1, <2>1, <2>2, <3>1, <3>2
      <3>4. QED
        BY <2>2, <3>1, <3>3
    <2>5. \A i \in first..Len(queue) : queue[i] \in S
      BY <1>1, <2>4, ElementOfSeq
    <2>6. /\ SubSeq(queue, first, Len(queue)) \in Seq(S)
          /\ Len(SubSeq(queue, first, Len(queue))) = Len(queue) - first + 1
          /\ \A i \in 1..Len(queue) - first + 1 :
               SubSeq(queue, first, Len(queue))[i] = queue[first + i - 1]
      BY <1>1, <2>4, <2>5, SubSeqProperties
    <2> HIDE DEF kept
    <2>7. /\ first - 1 \in 0..Len(queue)
          /\ Len(queue) - first + 1 = Len(queue) - (first - 1)
          /\ \A i \in Nat : first + i - 1 = (first - 1) + i
          /\ (first - 1) + 1 = first
      BY <1>1, <2>4
    <2>8. \A i \in 1..Len(queue) - (first - 1) :
            Pruned(queue, cutoff)[i] = queue[(first - 1) + i]
      <3> SUFFICES ASSUME NEW i \in 1..Len(queue) - (first - 1)
                   PROVE  Pruned(queue, cutoff)[i] = queue[(first - 1) + i]
        OBVIOUS
      <3>1. i \in 1..Len(queue) - first + 1 /\ first + i - 1 = (first - 1) + i
        BY <1>1, <2>4
      <3>2. QED
        BY <2>3, <2>6, <3>1
    <2>9. QED
      BY <2>3, <2>4, <2>6, <2>7, <2>8
  <1>4. QED
    BY <1>2, <1>3

\* The numbers of the configuration.
LEMMA Bounds ==
  /\ JoinWindow \in Nat /\ FloodWindow \in Nat /\ SpamWindow \in Nat /\ MaxWait \in Nat
  /\ SpamThreshold \in Nat \ {0} /\ RaidExpiry \in Nat \ {0} /\ SweepEvery \in Nat \ {0}
  /\ MaxContext \in Nat \ {0}
  BY DetectorAssumption, ContextAssumption DEF DetectorAssumption, ContextAssumption

\* What pushing an entry and pruning the queue gives: a queue of the same kind,
\* one longer at most.
LEMMA PushTypes ==
  ASSUME NEW S, NEW queue \in Seq(S), NEW m \in S, NEW cutoff \in Int,
         \A x \in S : x.at \in Nat
  PROVE  /\ Pruned(Append(queue, m), cutoff) \in Seq(S)
         /\ Len(Pruned(Append(queue, m), cutoff)) \in 0..Len(queue) + 1
  <1> DEFINE all == Append(queue, m)
  <1>1. all \in Seq(S) /\ Len(all) = Len(queue) + 1 /\ Len(queue) \in Nat
    BY AppendProperties, LenProperties
  <1> HIDE DEF all
  <1>2. /\ Pruned(all, cutoff) \in Seq(S)
        /\ \E k \in 0..Len(all) : Len(Pruned(all, cutoff)) = Len(all) - k
    BY <1>1, PrunedIsSuffix
  <1>3. QED
    BY <1>1, <1>2 DEF all

\* A queue as the handlers leave it at time now: no entry is from the future,
\* none is younger than a later one by more than a wait, and all lie close.
Steady(queue, width, now) ==
    /\ \A i \in 1..Len(queue) : queue[i].at <= now
    /\ \A i, j \in 1..Len(queue) : i < j => queue[i].at - queue[j].at <= MaxWait
    /\ Close(queue, width + MaxWait)

\* A push by a handler that read the clock at most one wait ago leaves it so.
LEMMA PushIsSteady ==
  ASSUME NEW S, NEW queue \in Seq(S), NEW m \in S, NEW width \in Nat, NEW now \in Nat,
         \A x \in S : x.at \in Nat,
         m.at <= now, now <= m.at + MaxWait,
         Steady(queue, width, now)
  PROVE  Steady(Pruned(Append(queue, m), m.at - width), width, now)
  <1> DEFINE all == Append(queue, m)
             n == Len(queue)
             q == Pruned(all, m.at - width)
  <1>1. /\ all \in Seq(S) /\ Len(all) = n + 1 /\ n \in Nat
        /\ \A i \in 1..n : all[i] = queue[i]
        /\ all[n + 1] = m
    BY AppendProperties, LenProperties
  <1>2. m.at \in Nat /\ \A i \in 1..n + 1 : all[i].at \in Nat
    BY <1>1, ElementOfSeq
  <1>3. PICK k \in 0..n + 1 : /\ Len(q) = n + 1 - k
                              /\ \A i \in 1..n + 1 - k : q[i] = all[k + i]
                              /\ k < n + 1 => all[k + 1].at >= m.at - width
    <2>1. m.at - width \in Int
      BY <1>2
    <2> HIDE DEF all
    <2>2. \E k \in 0..Len(all) :
              /\ Len(q) = Len(all) - k
              /\ \A i \in 1..Len(all) - k : q[i] = all[k + i]
              /\ k < Len(all) => all[k + 1].at >= m.at - width
      BY <1>1, <2>1, PrunedIsSuffix
    <2> HIDE DEF q
    <2>3. QED
      BY <1>1, <2>2
  <1>4. \A i \in 1..n + 1 : all[i].at <= now
    BY <1>1, <1>2 DEF Steady
  <1>5. \A i, j \in 1..n + 1 : i < j => all[i].at - all[j].at <= MaxWait
    <2> SUFFICES ASSUME NEW i \in 1..n + 1, NEW j \in 1..n + 1, i < j
                 PROVE  all[i].at - all[j].at <= MaxWait
      OBVIOUS
    <2>1. CASE j = n + 1
      BY <1>1, <1>2, <1>4, <2>1, Bounds
    <2>2. CASE j # n + 1
      <3>1. i \in 1..n /\ j \in 1..n
        BY <1>1, <2>2
      <3>2. QED
        BY <1>1, <3>1 DEF Steady
    <2>3. QED
      BY <2>1, <2>2
  <1>6. \A i, j \in k + 1..n + 1 : all[i].at - all[j].at <= width + MaxWait
    <2> SUFFICES ASSUME NEW i \in k + 1..n + 1, NEW j \in k + 1..n + 1
                 PROVE  all[i].at - all[j].at <= width + MaxWait
      OBVIOUS
    <2>0. i \in 1..n + 1 /\ j \in 1..n + 1 /\ k + 1 \in 1..n + 1
      <3>1. n \in Nat /\ k \in 0..n + 1
        BY <1>1
      <3> HIDE DEF all, q, n
      <3>2. QED
        BY <3>1
    <2>1. CASE i = n + 1
      \* the new entry, against what is younger than the front less a wait
      <3>1. all[k + 1].at - all[j].at <= MaxWait
        <4>1. all[k + 1].at \in Nat /\ all[j].at \in Nat
          BY <1>2, <2>0
        <4>2. k + 1 < j \/ j = k + 1
          BY <1>1, <2>0
        <4> HIDE DEF all, n
        <4>3. CASE k + 1 < j
          BY <1>5, <2>0, <4>3
        <4>4. CASE j = k + 1
          <5>1. all[j].at - all[j].at = 0
            BY <4>1
          <5>2. QED
            BY <4>4, <5>1, Bounds
        <4>5. QED
          BY <4>2, <4>3, <4>4
      <3>2. all[k + 1].at >= m.at - width /\ all[i].at = m.at
        BY <1>1, <1>3, <2>0, <2>1
      <3>3. all[k + 1].at \in Nat /\ all[j].at \in Nat /\ m.at \in Nat
        BY <1>2, <2>0
      <3>4. \A a, b, f \in Nat : f - b <= MaxWait /\ f >= a - width => a - b <= width + MaxWait
        BY Bounds
      <3> HIDE DEF all, n
      <3>5. m.at - all[j].at <= width + MaxWait
        BY <3>1, <3>2, <3>3, <3>4
      <3>6. QED
        BY <3>2, <3>5
    <2>2. CASE j = n + 1
      BY <1>1, <1>2, <1>4, <2>0, <2>2, Bounds
    <2>3. CASE i # n + 1 /\ j # n + 1
      <3>1. i \in 1..n /\ j \in 1..n
        BY <1>1, <2>0, <2>3
      <3>2. QED
        BY <1>1, <3>1 DEF Steady, Close
    <2>4. QED
      BY <2>1, <2>2, <2>3
  <1> HIDE DEF all, q, n
  <1>7. \A i \in 1..Len(q) : k + i \in k + 1..n + 1 /\ k + i \in 1..n + 1 /\ q[i] = all[k + i]
    BY <1>1, <1>3
  <1>8. \A i \in 1..Len(q) : q[i].at <= now
    BY <1>4, <1>7
  <1>9. \A i, j \in 1..Len(q) : i < j => q[i].at - q[j].at <= MaxWait
    <2> SUFFICES ASSUME NEW i \in 1..Len(q), NEW j \in 1..Len(q), i < j
                 PROVE  q[i].at - q[j].at <= MaxWait
      OBVIOUS
    <2>1. k + i < k + j
      BY <1>1, <1>3
    <2>2. QED
      BY <1>5, <1>7, <2>1
  <1>10. \A i, j \in 1..Len(q) : q[i].at - q[j].at <= width + MaxWait
    BY <1>6, <1>7
  <1>11. QED
    BY <1>8, <1>9, <1>10 DEF Steady, Close, q, all

-----------------------------------------------------------------------------
(* Type correctness.                                                       *)

\* What a handler holds at each of its steps.
LEMMA HeldAt ==
  ASSUME TypeOK, NEW h \in Tasks
  PROVE  /\ task[h].pc = "join" => task[h].new \in BOOLEAN /\ task[h].at \in Nat
         /\ task[h].pc \in {"spam", "flood"} =>
              task[h].user \in Users /\ task[h].content \in Contents /\ task[h].at \in Nat
         /\ task[h].pc \in {"raid", "checked"} => task[h].user \in Users
  <1>1. task[h] \in {Idle} \cup Busy
    BY DEF TypeOK
  <1>2. QED
    BY <1>1 DEF Idle, Busy

LEMMA HeldIn ==
  ASSUME TypeOK, NEW h \in Tasks
  PROVE  /\ task[h].pc = "spam" =>
              task[h] \in [pc : {"spam", "flood"}, user : Users, content : Contents, at : Nat]
         /\ task[h].pc = "raid" => task[h] \in [pc : {"raid", "checked"}, user : Users]
  <1>1. \/ task[h] = Idle
        \/ task[h] \in [pc : {"join"}, new : BOOLEAN, at : Nat]
        \/ task[h] \in [pc : {"spam", "flood"}, user : Users, content : Contents, at : Nat]
        \/ task[h] \in [pc : {"raid", "checked"}, user : Users]
        \/ task[h] \in [pc : {"mass"}]
    BY DEF TypeOK, Busy
  <1>2. \/ task[h].pc \in {"idle", "join", "mass"}
        \/ /\ task[h].pc \in {"spam", "flood"}
           /\ task[h] \in [pc : {"spam", "flood"}, user : Users, content : Contents, at : Nat]
        \/ /\ task[h].pc \in {"raid", "checked"}
           /\ task[h] \in [pc : {"raid", "checked"}, user : Users]
    <2>1. Idle.pc = "idle"
      BY DEF Idle
    <2>2. QED
      BY <1>1, <2>1
  <1>3. QED
    BY <1>2

\* What a handler goes on with is again a step, and nobody else moves.
LEMMA GotoTypes ==
  ASSUME TypeOK, NEW h \in Tasks, NEW next \in {Idle} \cup Busy, Goto(h, next)
  PROVE  /\ task' \in [Tasks -> {Idle} \cup Busy]
         /\ task'[h] = next
         /\ \A g \in Tasks : g # h => task'[g] = task[g]
  BY DEF Goto, TypeOK

LEMMA DetectorTypeInit == Init => TypeOK
  <1>1. Idle \in {Idle} \cup Busy
    OBVIOUS
  <1>2. QED
    BY <1>1 DEF Init, TypeOK, Off

LEMMA DetectorTypeStep == TypeOK /\ [Next]_vars => TypeOK'
  <1> SUFFICES ASSUME TypeOK, [Next]_vars PROVE TypeOK'
    OBVIOUS
  <1>1. ASSUME NEW h \in Tasks, NEW new \in BOOLEAN, Join(h, new) PROVE TypeOK'
    <2>1. [pc |-> "join", new |-> new, at |-> clock] \in Busy
      BY DEF Busy, TypeOK
    <2>2. task' \in [Tasks -> {Idle} \cup Busy]
      BY <1>1, <2>1, GotoTypes DEF Join
    <2>3. QED
      BY <1>1, <2>2 DEF Join, TypeOK, queues, ledger
  <1>2. ASSUME NEW h \in Tasks, RecordJoin(h) PROVE TypeOK'
    <2> DEFINE S == [at : Nat, new : BOOLEAN]
               m == [at |-> task[h].at, new |-> task[h].new]
               next == IF MassJoin(joins') THEN [pc |-> "mass"] ELSE Idle
    <2>1. m \in S /\ task[h].at - JoinWindow \in Int
      BY <1>2, HeldAt, Bounds DEF RecordJoin
    <2>2. \A x \in S : x.at \in Nat
      OBVIOUS
    <2>3. joins' = Pruned(Append(joins, m), task[h].at - JoinWindow)
      BY <1>2 DEF RecordJoin
    <2>4. joins \in Seq(S)
      BY DEF TypeOK
    <2>5. joins' \in Seq(S)
      <3> HIDE DEF S, m
      <3> QED BY <2>1, <2>2, <2>3, <2>4, PushTypes
    <2>6. next \in {Idle} \cup Busy
      BY DEF Busy
    <2>7. task' \in [Tasks -> {Idle} \cup Busy]
      <3>1. Goto(h, next)
        BY <1>2 DEF RecordJoin
      <3> HIDE DEF next
      <3>2. QED
        BY <2>6, <3>1, GotoTypes
    <2>8. QED
      BY <1>2, <2>5, <2>7 DEF RecordJoin, TypeOK, ledger
  <1>3. ASSUME NEW h \in Tasks, NEW u \in Users, NEW c \in Contents, Message(h, u, c)
        PROVE  TypeOK'
    <2>1. [pc |-> "spam", user |-> u, content |-> c, at |-> clock] \in Busy
      BY DEF Busy, TypeOK
    <2>2. task' \in [Tasks -> {Idle} \cup Busy]
      BY <1>3, <2>1, GotoTypes DEF Message
    <2>3. QED
      BY <1>3, <2>2 DEF Message, TypeOK, queues, ledger
  <1>4. ASSUME NEW h \in Tasks, CheckUserSpam(h) PROVE TypeOK'
    <2> DEFINE S == [at : Nat]
               u == task[h].user
               m == [at |-> task[h].at]
               recent == Pruned(Append(stamps[u], m), task[h].at - SpamWindow)
               spam == Len(recent) >= SpamThreshold
               next == IF spam THEN Idle ELSE [task[h] EXCEPT !.pc = "flood", !.at = clock]
    <2>1. /\ task[h].pc = "spam" /\ u \in Users /\ task[h].content \in Contents
          /\ m \in S /\ task[h].at - SpamWindow \in Int
      BY <1>4, HeldAt, Bounds DEF CheckUserSpam
    <2>2. \A x \in S : x.at \in Nat
      OBVIOUS
    <2>3. stamps[u] \in Seq(S)
      BY <2>1 DEF TypeOK
    <2>4. recent \in Seq(S)
      <3> HIDE DEF S, m, u
      <3> QED BY <2>1, <2>2, <2>3, PushTypes
    <2>5. next \in {Idle} \cup Busy
      <3>1. task[h] \in [pc : {"spam", "flood"}, user : Users, content : Contents, at : Nat]
        BY <2>1, HeldIn
      <3>2. clock \in Nat
        BY DEF TypeOK
      <3>3. [task[h] EXCEPT !.pc = "flood", !.at = clock]
              \in [pc : {"spam", "flood"}, user : Users, content : Contents, at : Nat]
        BY <3>1, <3>2
      <3>4. QED
        BY <3>3 DEF Busy
    <2>6. task' \in [Tasks -> {Idle} \cup Busy]
      <3>1. Goto(h, next)
        BY <1>4 DEF CheckUserSpam
      <3> HIDE DEF next
      <3>2. QED
        BY <2>5, <3>1, GotoTypes
    <2>7. stamps' \in [Users -> Seq(S)]
      <3>1. stamps' = [stamps EXCEPT ![u] = IF spam THEN <<>> ELSE recent]
        BY <1>4 DEF CheckUserSpam
      <3>2. (IF spam THEN <<>> ELSE recent) \in Seq(S)
        BY <2>4
      <3>3. stamps \in [Users -> Seq(S)]
        BY DEF TypeOK
      <3> HIDE DEF S, recent, spam, u
      <3>4. QED
        BY <2>1, <3>1, <3>2, <3>3
    <2>8. sent' \in [Users -> Nat] /\ hits' \in [Users -> Nat]
      <3>1. hits' = [hits EXCEPT ![u] = @ + IF spam THEN 1 ELSE 0]
            /\ sent' = [sent EXCEPT ![u] = @ + 1]
        BY <1>4 DEF CheckUserSpam
      <3>2. sent \in [Users -> Nat] /\ hits \in [Users -> Nat]
        BY DEF TypeOK
      <3> HIDE DEF spam, u
      <3>3. QED
        BY <2>1, <3>1, <3>2
    <2>9. UNCHANGED <<clock, joins, floods, raid, sweep, events>>
      BY <1>4 DEF CheckUserSpam
    <2>10. QED
      BY <2>6, <2>7, <2>8, <2>9 DEF TypeOK
  <1>5. ASSUME NEW h \in Tasks, RecordMessage(h) PROVE TypeOK'
    <2> DEFINE S == [at : Nat, user : Users, content : Contents]
               m == [at |-> task[h].at, user |-> task[h].user, content |-> task[h].content]
               next == [pc |-> IF Flood(floods', m.content) THEN "raid" ELSE "checked",
                        user |-> m.user]
    <2>1. m \in S /\ m.at - FloodWindow \in Int
      BY <1>5, HeldAt, Bounds DEF RecordMessage
    <2>2. \A x \in S : x.at \in Nat
      OBVIOUS
    <2>3. floods' = Pruned(Append(floods, m), m.at - FloodWindow) /\ Goto(h, next)
      BY <1>5 DEF RecordMessage
    <2>4. floods \in Seq(S)
      BY DEF TypeOK
    <2>5. floods' \in Seq(S)
      <3> HIDE DEF S, m
      <3> QED BY <2>1, <2>2, <2>3, <2>4, PushTypes
    <2>6. next \in {Idle} \cup Busy
      BY <2>1 DEF Busy
    <2>7. task' \in [Tasks -> {Idle} \cup Busy]
      <3> HIDE DEF next
      <3> QED BY <2>3, <2>6, GotoTypes
    <2>8. QED
      BY <1>5, <2>5, <2>7 DEF RecordMessage, TypeOK, ledger
  <1>6. ASSUME NEW h \in Tasks, Leave(h) PROVE TypeOK'
    BY <1>6, GotoTypes DEF Leave, TypeOK, queues, ledger
  <1>7. ASSUME NEW h \in Tasks, ActivateRaidMode(h) PROVE TypeOK'
    <2> DEFINE next == IF task[h].pc = "mass" THEN Idle ELSE [task[h] EXCEPT !.pc = "checked"]
    <2>1. next \in {Idle} \cup Busy
      <3>1. CASE task[h].pc = "mass"
        BY <3>1
      <3>2. CASE task[h].pc # "mass"
        <4>1. task[h] \in [pc : {"raid", "checked"}, user : Users]
          BY <1>7, <3>2, HeldIn DEF ActivateRaidMode
        <4>2. [task[h] EXCEPT !.pc = "checked"] \in [pc : {"raid", "checked"}, user : Users]
          BY <4>1
        <4>3. QED
          BY <3>2, <4>2 DEF Busy
      <3>3. QED
        BY <3>1, <3>2
    <2>2. task' \in [Tasks -> {Idle} \cup Busy]
      <3>1. Goto(h, next)
        BY <1>7 DEF ActivateRaidMode
      <3> HIDE DEF next
      <3>2. QED
        BY <2>1, <3>1, GotoTypes
    <2>3. raid' \in [active : BOOLEAN, at : Nat, last : Nat]
      BY <1>7 DEF ActivateRaidMode, Activated, TypeOK
    <2>4. QED
      BY <1>7, <2>2, <2>3 DEF ActivateRaidMode, TypeOK, queues, ledger
  <1>8. CASE CheckExpiry
    BY <1>8, Bounds DEF CheckExpiry, TypeOK, queues, ledger
  <1>9. CASE Expire
    <2>1. raid' \in [active : BOOLEAN, at : Nat, last : Nat]
      BY <1>9 DEF Expire, TypeOK, Off
    <2>2. sweep' \in [pc : {"wait", "lock"}, at : Nat, next : Nat]
      BY <1>9 DEF Expire, TypeOK
    <2>3. QED
      BY <1>9, <2>1, <2>2 DEF Expire, TypeOK, queues, ledger
  <1>10. CASE DisableRaidMode
    BY <1>10 DEF DisableRaidMode, Off, TypeOK, queues, ledger
  <1>11. CASE ClearGuild
    BY <1>11 DEF ClearGuild, Off, TypeOK, ledger
  <1>12. CASE Tick
    BY <1>12 DEF Tick, TypeOK, queues, ledger
  <1>13. CASE UNCHANGED vars
    BY <1>13 DEF vars, TypeOK, queues, ledger
  <1>14. QED
    BY <1>1, <1>2, <1>3, <1>4, <1>5, <1>6, <1>7, <1>8, <1>9, <1>10, <1>11, <1>12, <1>13
       DEF Next, HandlerStep, Surroundings

\* Every step of the gateway is a step of the detector, or none at all.
LEMMA GatewayStep == [GNext]_gvars => [Next]_vars
  <1> SUFFICES ASSUME [GNext]_gvars PROVE [Next]_vars
    OBVIOUS
  <1>1. ASSUME NEW h \in Tasks, Detect(h) PROVE Next
    BY <1>1 DEF Detect, Next, HandlerStep
  <1>2. ASSUME NEW h \in Tasks, ProcessMessage(h) PROVE Next
    BY <1>2 DEF ProcessMessage, Next
  <1>3. ASSUME NEW h \in Tasks, NEW u \in Users, NEW c \in Contents, Receive(h, u, c) PROVE Next
    BY <1>3 DEF Receive, Next, HandlerStep
  <1>4. CASE Surroundings
    BY <1>4 DEF Next
  <1>5. CASE ClearChannel
    BY <1>5 DEF ClearChannel
  <1>6. CASE UNCHANGED gvars
    BY <1>6 DEF gvars
  <1>7. QED
    BY <1>1, <1>2, <1>3, <1>4, <1>5, <1>6 DEF GNext

\* The handlers of main.rs, with their counter and the channel's context, do
\* with the raid detector nothing that the detector alone would not do.
THEOREM GatewayImplementsDetector == GSpec => Spec
  <1>1. GInit => Init
    BY DEF GInit
  <1>2. QED
    BY <1>1, GatewayStep, PTL DEF GSpec, Spec

LEMMA GatewayTypeStep == GTypeOK /\ [GNext]_gvars => GTypeOK'
  <1> SUFFICES ASSUME GTypeOK, [GNext]_gvars PROVE GTypeOK'
    OBVIOUS
  <1>1. TypeOK'
    BY GatewayStep, DetectorTypeStep DEF GTypeOK
  <1>2. ASSUME UNCHANGED <<counted, context>> PROVE GTypeOK'
    BY <1>1, <1>2 DEF GTypeOK
  <1>3. ASSUME NEW h \in Tasks, NEW u \in Users, NEW c \in Contents, Receive(h, u, c)
        PROVE  GTypeOK'
    BY <1>1, <1>3 DEF Receive, GTypeOK
  <1>4. ASSUME NEW h \in Tasks, ProcessMessage(h) PROVE GTypeOK'
    <2> DEFINE all == Append(context, task[h].user)
    <2>1. task[h].user \in Users
      BY <1>4, HeldAt DEF ProcessMessage, Leave, GTypeOK
    <2>2. all \in Seq(Users) /\ all # <<>> /\ Len(all) = Len(context) + 1 /\ Len(context) \in Nat
      BY <2>1, AppendProperties, LenProperties DEF GTypeOK
    <2>3. context' = IF Len(all) > MaxContext THEN Tail(all) ELSE all
      BY <1>4 DEF ProcessMessage, AddMessage
    <2> HIDE DEF all
    <2>4. Tail(all) \in Seq(Users) /\ Len(Tail(all)) = Len(all) - 1
      BY <2>2, HeadTailProperties
    <2>5. context' \in Seq(Users) /\ Len(context') <= MaxContext
      BY <2>2, <2>3, <2>4, Bounds DEF GTypeOK
    <2>6. QED
      BY <1>1, <1>4, <2>5 DEF ProcessMessage, GTypeOK
  <1>5. CASE ClearChannel
    <2>1. context' \in Seq(Users) /\ Len(context') = 0
      BY <1>5, EmptySeq DEF ClearChannel
    <2>2. QED
      BY <1>1, <1>5, <2>1, Bounds DEF ClearChannel, GTypeOK
  <1>6. QED
    BY <1>2, <1>3, <1>4, <1>5 DEF GNext, Detect, gvars

\* Handlers, windows, raid mode and the context keep their types; the context
\* never outgrows its limit.
THEOREM TypeCorrect == GSpec => []GTypeOK
  <1>1. GInit => GTypeOK
    <2>1. <<>> \in Seq(Users) /\ Len(<<>>) = 0
      BY EmptySeq
    <2>2. QED
      BY <2>1, DetectorTypeInit, Bounds DEF GInit, GTypeOK
  <1>2. QED
    BY <1>1, GatewayTypeStep, PTL DEF GSpec

-----------------------------------------------------------------------------
(* Spam.                                                                   *)

\* Only check_user_spam touches what the property counts.
LEMMA OthersLeaveSpam ==
  ASSUME [Next]_vars, \A h \in Tasks : ~ CheckUserSpam(h)
  PROVE  UNCHANGED <<stamps, sent, hits>>
  BY DEF Next, HandlerStep, Surroundings, Join, RecordJoin, Message, RecordMessage, Leave,
         ActivateRaidMode, CheckExpiry, Expire, DisableRaidMode, ClearGuild, Tick, vars, queues, ledger

LEMMA SpamStep ==
  TypeOK /\ EachMessageCountsOnce /\ [Next]_vars => EachMessageCountsOnce'
  <1> SUFFICES ASSUME TypeOK, EachMessageCountsOnce, [Next]_vars
               PROVE  EachMessageCountsOnce'
    OBVIOUS
  <1>1. ASSUME NEW h \in Tasks, CheckUserSpam(h) PROVE EachMessageCountsOnce'
    <2> DEFINE S == [at : Nat]
               u == task[h].user
               m == [at |-> task[h].at]
               recent == Pruned(Append(stamps[u], m), task[h].at - SpamWindow)
               spam == Len(recent) >= SpamThreshold
    <2>1. u \in Users /\ m \in S /\ task[h].at - SpamWindow \in Int
      BY <1>1, HeldAt, Bounds DEF CheckUserSpam
    <2>2. stamps[u] \in Seq(S) /\ Len(stamps[u]) \in Nat
      BY <2>1, LenProperties DEF TypeOK
    <2>3. \A x \in S : x.at \in Nat
      OBVIOUS
    <2>4. Len(recent) \in 0..Len(stamps[u]) + 1
      <3> HIDE DEF S, m, u
      <3> QED BY <2>1, <2>2, <2>3, PushTypes
    <2>5. /\ stamps' = [stamps EXCEPT ![u] = IF spam THEN <<>> ELSE recent]
          /\ hits' = [hits EXCEPT ![u] = @ + IF spam THEN 1 ELSE 0]
          /\ sent' = [sent EXCEPT ![u] = @ + 1]
      BY <1>1 DEF CheckUserSpam
    <2>6. \A v \in Users : hits[v] \in Nat /\ sent[v] \in Nat
      BY DEF TypeOK
    <2>7. SpamThreshold * hits[u] + Len(stamps[u]) <= sent[u]
      BY <2>1 DEF EachMessageCountsOnce
    <2>8. /\ stamps'[u] = IF spam THEN <<>> ELSE recent
          /\ hits'[u] = IF spam THEN hits[u] + 1 ELSE hits[u]
          /\ sent'[u] = sent[u] + 1
          /\ \A v \in Users : v # u => /\ stamps'[v] = stamps[v]
                                       /\ hits'[v] = hits[v] /\ sent'[v] = sent[v]
      <3> HIDE DEF recent, spam, u
      <3> QED BY <2>1, <2>5, <2>6 DEF TypeOK
    <2> HIDE DEF recent, u, m, S
    <2>9. SpamThreshold * hits'[u] + Len(stamps'[u]) <= sent'[u]
      <3>1. CASE spam
        <4>1. Len(stamps'[u]) = 0 /\ hits'[u] = hits[u] + 1
          BY <2>8, <3>1, EmptySeq
        <4>2. SpamThreshold * (hits[u] + 1) = SpamThreshold * hits[u] + SpamThreshold
          BY <2>1, <2>6, Bounds
        <4>3. SpamThreshold * hits[u] \in Nat
          BY <2>1, <2>6, Bounds
        <4>4. SpamThreshold <= Len(stamps[u]) + 1
          BY <2>2, <2>4, <3>1, Bounds
        <4>5. SpamThreshold * hits'[u] = SpamThreshold * hits[u] + SpamThreshold
          BY <4>1, <4>2
        <4>6. \A p, w, l, x \in Nat : p + l <= x /\ w <= l + 1 => (p + w) + 0 <= x + 1
          OBVIOUS
        <4>7. SpamThreshold \in Nat /\ Len(stamps[u]) \in Nat /\ sent[u] \in Nat
          BY <2>1, <2>2, <2>6, Bounds
        <4>8. (SpamThreshold * hits[u] + SpamThreshold) + 0 <= sent[u] + 1
          BY <2>7, <4>3, <4>4, <4>6, <4>7
        <4>9. QED
          BY <2>8, <4>1, <4>5, <4>8
      <3>2. CASE ~ spam
        <4>1. SpamThreshold * hits[u] \in Nat
          BY <2>1, <2>6, Bounds
        <4>2. Len(stamps'[u]) = Len(recent) /\ hits'[u] = hits[u]
          BY <2>8, <3>2
        <4>3. QED
          BY <2>1, <2>2, <2>4, <2>6, <2>7, <2>8, <4>1, <4>2
      <3>3. QED
        BY <3>1, <3>2
    <2>10. QED
      BY <2>8, <2>9 DEF EachMessageCountsOnce
  <1>2. CASE \A h \in Tasks : ~ CheckUserSpam(h)
    BY <1>2, OthersLeaveSpam DEF EachMessageCountsOnce
  <1>3. QED
    BY <1>1, <1>2

\* However handlers overtake each other at the lock of user_messages, a message
\* counts towards at most one timeout for spam.
THEOREM EachMessageCountsOnceEver == GSpec => []EachMessageCountsOnce
  <1>1. GInit => EachMessageCountsOnce
    <2>1. Len(<<>>) = 0 /\ SpamThreshold * 0 = 0
      BY EmptySeq, Bounds
    <2>2. QED
      BY <2>1 DEF GInit, Init, EachMessageCountsOnce
  <1>2. GTypeOK => TypeOK
    BY DEF GTypeOK
  <1>3. QED
    BY <1>1, <1>2, TypeCorrect, GatewayStep, SpamStep, PTL DEF GSpec

-----------------------------------------------------------------------------
(* Windows.                                                                *)

\* WindowsAreShort strengthened to what is inductive: a handler in front of a
\* lock read the clock at most one wait ago, and the queues are steady.
WindowsInv ==
    /\ \A h \in Tasks : Waiting(h) => task[h].at <= clock /\ clock <= task[h].at + MaxWait
    /\ Steady(joins, JoinWindow, clock)
    /\ Steady(floods, FloodWindow, clock)
    /\ \A u \in Users : Steady(stamps[u], SpamWindow, clock)

\* An empty queue is steady.
LEMMA EmptyIsSteady == \A width, now \in Nat : Steady(<<>>, width, now)
  <1>1. Len(<<>>) = 0 /\ 1..0 = {}
    BY EmptySeq
  <1>2. QED
    BY <1>1 DEF Steady, Close

\* A steady queue stays so while time passes.
LEMMA SteadyLater ==
  ASSUME NEW S, NEW queue \in Seq(S), NEW width \in Nat, NEW now \in Nat,
         \A x \in S : x.at \in Nat,
         Steady(queue, width, now)
  PROVE  Steady(queue, width, now + 1)
  <1>1. \A i \in 1..Len(queue) : queue[i].at \in Nat
    BY ElementOfSeq
  <1>2. QED
    BY <1>1 DEF Steady

LEMMA WindowsInit == Init => WindowsInv
  <1> SUFFICES ASSUME Init PROVE WindowsInv
    OBVIOUS
  <1>1. \A h \in Tasks : ~ Waiting(h)
    BY DEF Init, Waiting, Idle
  <1>2. /\ Steady(<<>>, JoinWindow, 0) /\ Steady(<<>>, FloodWindow, 0)
        /\ Steady(<<>>, SpamWindow, 0)
    BY EmptyIsSteady, Bounds
  <1>3. QED
    BY <1>1, <1>2 DEF Init, WindowsInv

\* A handler that does not wait after its step, or has just read the clock.
LEMMA WaitsFromNow ==
  ASSUME TypeOK, WindowsInv, clock' = clock, NEW h \in Tasks, NEW next \in {Idle} \cup Busy,
         Goto(h, next),
         next.pc \in {"join", "spam", "flood"} => next.at = clock
  PROVE  (\A g \in Tasks : Waiting(g) => task[g].at <= clock /\ clock <= task[g].at + MaxWait)'
  <1>1. task'[h] = next /\ \A g \in Tasks : g # h => task'[g] = task[g]
    BY GotoTypes
  <1>2. clock \in Nat
    BY DEF TypeOK
  <1>3. QED
    BY <1>1, <1>2, Bounds DEF WindowsInv, Waiting

LEMMA WindowsStep == TypeOK /\ WindowsInv /\ [Next]_vars => WindowsInv'
  <1> SUFFICES ASSUME TypeOK, WindowsInv, [Next]_vars PROVE WindowsInv'
    OBVIOUS
  <1> DEFINE Prompt == \A h \in Tasks :
               Waiting(h) => task[h].at <= clock /\ clock <= task[h].at + MaxWait
  <1>0. clock \in Nat
    BY DEF TypeOK
  <1>1. ASSUME NEW h \in Tasks, NEW new \in BOOLEAN, Join(h, new) PROVE WindowsInv'
    <2>1. [pc |-> "join", new |-> new, at |-> clock] \in Busy
      BY DEF Busy, TypeOK
    <2>2. Prompt'
      BY <1>1, <2>1, WaitsFromNow DEF Join
    <2>3. QED
      BY <1>1, <2>2 DEF Join, WindowsInv, queues
  <1>2. ASSUME NEW h \in Tasks, RecordJoin(h) PROVE WindowsInv'
    <2> DEFINE S == [at : Nat, new : BOOLEAN]
               m == [at |-> task[h].at, new |-> task[h].new]
               next == IF MassJoin(joins') THEN [pc |-> "mass"] ELSE Idle
    <2>1. m \in S /\ m.at = task[h].at
      BY <1>2, HeldAt DEF RecordJoin
    <2>2. m.at <= clock /\ clock <= m.at + MaxWait
      BY <1>2, <2>1 DEF RecordJoin, WindowsInv, Waiting
    <2>3. joins' = Pruned(Append(joins, m), m.at - JoinWindow)
      BY <1>2 DEF RecordJoin
    <2>4. joins \in Seq(S) /\ Steady(joins, JoinWindow, clock) /\ \A x \in S : x.at \in Nat
      BY DEF TypeOK, WindowsInv
    <2>5. Steady(joins', JoinWindow, clock)
      <3> HIDE DEF S, m
      <3> QED BY <1>0, <2>1, <2>2, <2>3, <2>4, PushIsSteady, Bounds
    <2>6. Prompt'
      <3>1. next \in {Idle} \cup Busy /\ next.pc \notin {"join", "spam", "flood"}
        BY DEF Busy, Idle
      <3>2. Goto(h, next) /\ clock' = clock
        BY <1>2 DEF RecordJoin
      <3> HIDE DEF next
      <3>3. QED
        BY <3>1, <3>2, WaitsFromNow
    <2>7. QED
      BY <1>2, <2>5, <2>6 DEF RecordJoin, WindowsInv
  <1>3. ASSUME NEW h \in Tasks, NEW u \in Users, NEW c \in Contents, Message(h, u, c)
        PROVE  WindowsInv'
    <2>1. [pc |-> "spam", user |-> u, content |-> c, at |-> clock] \in Busy
      BY DEF Busy, TypeOK
    <2>2. Prompt'
      BY <1>3, <2>1, WaitsFromNow DEF Message
    <2>3. QED
      BY <1>3, <2>2 DEF Message, WindowsInv, queues
  <1>4. ASSUME NEW h \in Tasks, CheckUserSpam(h) PROVE WindowsInv'
    <2> DEFINE S == [at : Nat]
               u == task[h].user
               m == [at |-> task[h].at]
               recent == Pruned(Append(stamps[u], m), m.at - SpamWindow)
               spam == Len(recent) >= SpamThreshold
               next == IF spam THEN Idle ELSE [task[h] EXCEPT !.pc = "flood", !.at = clock]
    <2>1. u \in Users /\ m \in S /\ m.at = task[h].at
      BY <1>4, HeldAt DEF CheckUserSpam
    <2>2. m.at <= clock /\ clock <= m.at + MaxWait
      BY <1>4, <2>1 DEF CheckUserSpam, WindowsInv, Waiting
    <2>3. /\ stamps[u] \in Seq(S) /\ Steady(stamps[u], SpamWindow, clock)
          /\ \A x \in S : x.at \in Nat
      BY <2>1 DEF TypeOK, WindowsInv
    <2>4. Steady(recent, SpamWindow, clock) /\ Steady(<<>>, SpamWindow, clock)
      <3> HIDE DEF S, m, u
      <3> QED BY <1>0, <2>1, <2>2, <2>3, PushIsSteady, EmptyIsSteady, Bounds
    <2>5. \A v \in Users : Steady(stamps'[v], SpamWindow, clock)
      <3>1. stamps' = [stamps EXCEPT ![u] = IF spam THEN <<>> ELSE recent]
        BY <1>4 DEF CheckUserSpam
      <3>2. DOMAIN stamps = Users /\ \A v \in Users : Steady(stamps[v], SpamWindow, clock)
        BY DEF TypeOK, WindowsInv
      <3> HIDE DEF recent, spam, u
      <3>3. \A v \in Users : stamps'[v] \in {stamps[v], <<>>, recent}
        BY <3>1, <3>2
      <3>4. QED
        BY <2>4, <3>2, <3>3
    <2>6. Prompt'
      <3>1. task[h] \in [pc : {"spam", "flood"}, user : Users, content : Contents, at : Nat]
        BY <1>4, HeldIn DEF CheckUserSpam
      <3>2. [task[h] EXCEPT !.pc = "flood", !.at = clock] \in Busy
        BY <1>0, <3>1 DEF Busy
      <3>3. [task[h] EXCEPT !.pc = "flood", !.at = clock].at = clock /\ Idle.pc = "idle"
        BY <3>1 DEF Idle
      <3>4. next \in {Idle} \cup Busy /\ (next.pc \in {"join", "spam", "flood"} => next.at = clock)
        BY <3>2, <3>3
      <3>5. Goto(h, next) /\ clock' = clock
        BY <1>4 DEF CheckUserSpam
      <3> HIDE DEF next
      <3>6. QED
        BY <3>4, <3>5, WaitsFromNow
    <2>7. QED
      BY <1>4, <2>5, <2>6 DEF CheckUserSpam, WindowsInv
  <1>5. ASSUME NEW h \in Tasks, RecordMessage(h) PROVE WindowsInv'
    <2> DEFINE S == [at : Nat, user : Users, content : Contents]
               m == [at |-> task[h].at, user |-> task[h].user, content |-> task[h].content]
               next == [pc |-> IF Flood(floods', m.content) THEN "raid" ELSE "checked",
                        user |-> m.user]
    <2>1. m \in S /\ m.at = task[h].at
      BY <1>5, HeldAt DEF RecordMessage
    <2>2. m.at <= clock /\ clock <= m.at + MaxWait
      BY <1>5, <2>1 DEF RecordMessage, WindowsInv, Waiting
    <2>3. floods' = Pruned(Append(floods, m), m.at - FloodWindow) /\ Goto(h, next)
          /\ clock' = clock
      BY <1>5 DEF RecordMessage
    <2>4. floods \in Seq(S) /\ Steady(floods, FloodWindow, clock) /\ \A x \in S : x.at \in Nat
      BY DEF TypeOK, WindowsInv
    <2>5. Steady(floods', FloodWindow, clock)
      <3> HIDE DEF S, m
      <3> QED BY <1>0, <2>1, <2>2, <2>3, <2>4, PushIsSteady, Bounds
    <2>6. Prompt'
      <3>1. next \in {Idle} \cup Busy /\ next.pc \notin {"join", "spam", "flood"}
        BY <2>1 DEF Busy
      <3> HIDE DEF next
      <3>2. QED
        BY <2>3, <3>1, WaitsFromNow
    <2>7. QED
      BY <1>5, <2>5, <2>6 DEF RecordMessage, WindowsInv
  <1>6. ASSUME NEW h \in Tasks, Leave(h) PROVE WindowsInv'
    <2>1. Prompt'
      BY <1>6, WaitsFromNow DEF Leave, Idle
    <2>2. QED
      BY <1>6, <2>1 DEF Leave, WindowsInv, queues
  <1>7. ASSUME NEW h \in Tasks, ActivateRaidMode(h) PROVE WindowsInv'
    <2> DEFINE next == IF task[h].pc = "mass" THEN Idle ELSE [task[h] EXCEPT !.pc = "checked"]
    <2>1. next \in {Idle} \cup Busy /\ next.pc \in {"idle", "checked"}
      <3>1. CASE task[h].pc = "mass"
        BY <3>1 DEF Idle
      <3>2. CASE task[h].pc # "mass"
        <4>1. task[h] \in [pc : {"raid", "checked"}, user : Users]
          BY <1>7, <3>2, HeldIn DEF ActivateRaidMode
        <4>2. /\ [task[h] EXCEPT !.pc = "checked"] \in [pc : {"raid", "checked"}, user : Users]
              /\ [task[h] EXCEPT !.pc = "checked"].pc = "checked"
          BY <4>1
        <4>3. QED
          BY <3>2, <4>2 DEF Busy
      <3>3. QED
        BY <3>1, <3>2
    <2>2. Prompt'
      <3>1. Goto(h, next) /\ clock' = clock
        BY <1>7 DEF ActivateRaidMode
      <3> HIDE DEF next
      <3>2. QED
        BY <2>1, <3>1, WaitsFromNow
    <2>3. QED
      BY <1>7, <2>2 DEF ActivateRaidMode, WindowsInv, queues
  <1>8. ASSUME UNCHANGED <<clock, queues, task>> PROVE WindowsInv'
    BY <1>8 DEF WindowsInv, Waiting, queues
  <1>9. CASE ClearGuild
    BY <1>0, <1>9, EmptyIsSteady, Bounds DEF ClearGuild, WindowsInv, Waiting
  <1>10. CASE Tick
    <2>1. clock' = clock + 1 /\ UNCHANGED <<joins, floods, stamps, task>>
      BY <1>10 DEF Tick, queues
    <2>2. Prompt'
      <3>1. \A h \in Tasks : Waiting(h) => task[h].at \in Nat /\ clock < task[h].at + MaxWait
        BY <1>10, HeldAt DEF Tick, Waiting
      <3>2. QED
        BY <1>0, <2>1, <3>1, Bounds DEF WindowsInv, Waiting
    <2>3. Steady(joins, JoinWindow, clock + 1)
      <3>1. /\ joins \in Seq([at : Nat, new : BOOLEAN]) /\ Steady(joins, JoinWindow, clock)
            /\ \A x \in [at : Nat, new : BOOLEAN] : x.at \in Nat
        BY DEF TypeOK, WindowsInv
      <3>2. QED
        BY <1>0, <3>1, SteadyLater, Bounds
    <2>4. Steady(floods, FloodWindow, clock + 1)
      <3>1. /\ floods \in Seq([at : Nat, user : Users, content : Contents])
            /\ Steady(floods, FloodWindow, clock)
            /\ \A x \in [at : Nat, user : Users, content : Contents] : x.at \in Nat
        BY DEF TypeOK, WindowsInv
      <3>2. QED
        BY <1>0, <3>1, SteadyLater, Bounds
    <2>5. ASSUME NEW u \in Users PROVE Steady(stamps[u], SpamWindow, clock + 1)
      <3>1. /\ stamps[u] \in Seq([at : Nat]) /\ Steady(stamps[u], SpamWindow, clock)
            /\ \A x \in [at : Nat] : x.at \in Nat
        BY DEF TypeOK, WindowsInv
      <3>2. QED
        BY <1>0, <3>1, SteadyLater, Bounds
    <2>6. QED
      BY <2>1, <2>2, <2>3, <2>4, <2>5 DEF WindowsInv
  <1>11. QED
    BY <1>1, <1>2, <1>3, <1>4, <1>5, <1>6, <1>7, <1>8, <1>9, <1>10
       DEF Next, HandlerStep, Surroundings, CheckExpiry, Expire, DisableRaidMode, vars

\* However the handlers overtake each other between clock and lock, what a
\* window holds lies within the window's length and one wait.
THEOREM WindowsAreShortEver == GSpec => []WindowsAreShort
  <1>1. GInit => WindowsInv
    BY WindowsInit DEF GInit
  <1>2. GTypeOK => TypeOK
    BY DEF GTypeOK
  <1>3. WindowsInv => WindowsAreShort
    BY DEF WindowsInv, WindowsAreShort, Steady
  <1>4. QED
    BY <1>1, <1>2, <1>3, TypeCorrect, GatewayStep, WindowsStep, PTL DEF GSpec

-----------------------------------------------------------------------------
(* Raid mode.                                                              *)

\* RaidEnds strengthened to what is inductive.  The expiry task reads the clock
\* at most a period and a delay after it last did; the reading that ended
\* without expiring a raid came too early for it, by which the next one cannot
\* be more than that period and delay too late.
ExpiryInv ==
    /\ raid.active => raid.at <= raid.last /\ raid.last <= clock
    /\ sweep.at <= clock /\ sweep.next <= sweep.at + SweepEvery
    /\ sweep.pc = "lock" => /\ clock <= sweep.at + MaxWait
                            /\ raid.active =>
                                 sweep.at - raid.at < RaidExpiry + SweepEvery + MaxWait
    /\ sweep.pc = "wait" => /\ clock <= sweep.at + SweepEvery + MaxWait
                            /\ raid.active => sweep.at - raid.at < RaidExpiry

LEMMA ExpiryInit == Init => ExpiryInv
  BY Bounds DEF Init, Off, ExpiryInv

LEMMA ExpiryStep == TypeOK /\ ExpiryInv /\ [Next]_vars => ExpiryInv'
  <1> SUFFICES ASSUME TypeOK, ExpiryInv, [Next]_vars PROVE ExpiryInv'
    OBVIOUS
  <1>0. /\ clock \in Nat /\ sweep.at \in Nat /\ sweep.next \in Nat
        /\ raid.at \in Nat /\ raid.last \in Nat /\ raid.active \in BOOLEAN
        /\ sweep.pc \in {"wait", "lock"}
        /\ sweep \in [pc : {"wait", "lock"}, at : Nat, next : Nat]
    BY DEF TypeOK
  <1>1. ASSUME UNCHANGED <<clock, raid, sweep>> PROVE ExpiryInv'
    BY <1>1 DEF ExpiryInv
  <1>2. ASSUME NEW h \in Tasks, HandlerStep(h) \/ Leave(h), ~ ActivateRaidMode(h) PROVE ExpiryInv'
    <2>1. UNCHANGED <<clock, raid, sweep>>
      BY <1>2 DEF HandlerStep, Join, RecordJoin, Message, CheckUserSpam, RecordMessage, Leave
    <2>2. QED
      BY <1>1, <2>1
  <1>3. ASSUME NEW h \in Tasks, ActivateRaidMode(h) PROVE ExpiryInv'
    <2>1. UNCHANGED <<clock, sweep>> /\ raid' = Activated
      BY <1>3 DEF ActivateRaidMode
    <2>2. /\ raid'.active /\ raid'.last = clock
          /\ raid'.at = IF raid.active THEN raid.at ELSE clock
      BY <2>1 DEF Activated
    <2>3. QED
      BY <1>0, <2>1, <2>2, Bounds DEF ExpiryInv
  <1>4. CASE CheckExpiry
    <2>1. /\ sweep.pc = "wait" /\ clock >= sweep.next /\ UNCHANGED <<clock, raid>>
          /\ sweep'.pc = "lock" /\ sweep'.at = clock /\ sweep'.next = sweep.next + SweepEvery
      BY <1>4 DEF CheckExpiry
    <2>2. QED
      BY <1>0, <2>1, Bounds DEF ExpiryInv
  <1>5. CASE Expire
    <2>1. /\ sweep.pc = "lock" /\ UNCHANGED clock
          /\ sweep'.pc = "wait" /\ sweep'.at = sweep.at /\ sweep'.next = sweep.next
          /\ raid' = IF raid.active /\ sweep.at - raid.at >= RaidExpiry THEN Off ELSE raid
      BY <1>0, <1>5 DEF Expire, Expires
    <2>2. raid'.active => raid' = raid /\ sweep.at - raid.at < RaidExpiry
      BY <1>0, <2>1, Bounds DEF Off
    <2>3. QED
      BY <1>0, <2>1, <2>2, Bounds DEF ExpiryInv
  <1>6. ASSUME raid' = Off, UNCHANGED <<clock, sweep>> PROVE ExpiryInv'
    BY <1>0, <1>6 DEF Off, ExpiryInv
  <1>7. CASE Tick
    <2>1. /\ clock' = clock + 1 /\ UNCHANGED <<raid, sweep>>
          /\ IF sweep.pc = "wait" THEN clock < sweep.next + MaxWait ELSE clock < sweep.at + MaxWait
      BY <1>7 DEF Tick
    <2>2. QED
      BY <1>0, <2>1, Bounds DEF ExpiryInv
  <1>8. QED
    BY <1>1, <1>2, <1>3, <1>4, <1>5, <1>6, <1>7
       DEF Next, Surroundings, DisableRaidMode, ClearGuild, vars

\* Raid mode that is not triggered any more ends in time.
THEOREM RaidEndsEver == GSpec => []RaidEnds
  <1>1. GInit => ExpiryInv
    BY ExpiryInit DEF GInit
  <1>2. TypeOK /\ ExpiryInv => RaidEnds
    <2> SUFFICES ASSUME TypeOK, ExpiryInv, raid.active
                 PROVE  clock - raid.last < RaidExpiry + SweepEvery + 2 * MaxWait
      BY DEF RaidEnds
    <2>1. /\ clock \in Nat /\ sweep.at \in Nat /\ raid.at \in Nat /\ raid.last \in Nat
          /\ sweep.pc \in {"wait", "lock"} /\ raid.at <= raid.last
      BY DEF TypeOK, ExpiryInv
    <2>2. QED
      BY <2>1, Bounds DEF ExpiryInv
  <1>3. GTypeOK => TypeOK
    BY DEF GTypeOK
  <1>4. QED
    BY <1>1, <1>2, <1>3, TypeCorrect, GatewayStep, ExpiryStep, PTL DEF GSpec

=============================================================================
