-------------------------- MODULE Dashboard_proofs --------------------------
(***************************************************************************)
(* Proofs about two parts the dashboard's requests go through.             *)
(*                                                                         *)
(* Deduplication, for any requests, keys, shards and number of workers:    *)
(* the channel a follower waits on stays the one in the map, and the only  *)
(* followers without an answer whose leader is past answering are those    *)
(* Hung names.                                                             *)
(*                                                                         *)
(* The look-up of users, for any number of lookups, any names and any      *)
(* lives of rows and cache entries: how old an answer can be.              *)
(***************************************************************************)
EXTENDS Dedup, UserLookup, TLAPS

-----------------------------------------------------------------------------
(* Deduplication.                                                          *)

(* An entry's leader executes, is about to remove it, or has gone; in      *)
(* particular no entry outlives the removal of its leader.                 *)
EntryLed ==
    \A k \in Keys : entry[k] # None =>
        key[entry[k]] = k /\ step[entry[k]] \in {"call", "remove", "gone"}

IInv == TypeOK /\ EntryLed /\ GuardKeepsEntry /\ WaitsForALeader

LEMMA GoesTyped ==
    ASSUME TypeOK, NEW r \in Requests, NEW s \in Steps, Goes(r, s)
    PROVE  /\ step' \in [Requests -> Steps]
           /\ step'[r] = s
           /\ \A q \in Requests \ {r} : step'[q] = step[q]
  BY DEF TypeOK, Goes

LEMMA TypeStep == TypeOK /\ [Next]_vars => TypeOK'
  <1> SUFFICES ASSUME TypeOK, [Next]_vars PROVE TypeOK'
    OBVIOUS
  <1> USE DedupAssumption
  <1>1. ASSUME NEW r \in Requests, Arrive(r) PROVE TypeOK'
    BY <1>1, GoesTyped DEF Arrive, TypeOK, Steps
  <1>2. ASSUME NEW r \in Requests, LookUp(r) PROVE TypeOK'
    <2>1. CASE entry[key[r]] = None
      BY <1>2, <2>1, GoesTyped DEF LookUp, TypeOK, Steps
    <2>2. CASE entry[key[r]] # None
      BY <1>2, <2>2, GoesTyped DEF LookUp, TypeOK, Steps
    <2>3. QED
      BY <2>1, <2>2
  <1>3. ASSUME NEW r \in Requests, Insert(r) PROVE TypeOK'
    BY <1>3, GoesTyped DEF Insert, TypeOK, Steps
  <1>4. ASSUME NEW r \in Requests, Respond(r) PROVE TypeOK'
    BY <1>4, GoesTyped DEF Respond, TypeOK, Steps
  <1>5. ASSUME NEW r \in Requests, Remove(r) PROVE TypeOK'
    BY <1>5, GoesTyped DEF Remove, TypeOK, Steps
  <1>6. ASSUME NEW r \in Requests, Receive(r) \/ Drop(r) PROVE TypeOK'
    <2>1. PICK s \in {"done", "gone"} : Leave(r, s)
      BY <1>6 DEF Receive, Drop
    <2>2. s \in Steps /\ Goes(r, s)
      BY <2>1 DEF Leave, Steps
    <2>3. QED
      BY <2>1, <2>2, GoesTyped DEF Leave, TypeOK
  <1>7. CASE UNCHANGED vars
    BY <1>7 DEF vars, TypeOK
  <1>8. QED
    BY <1>1, <1>2, <1>3, <1>4, <1>5, <1>6, <1>7 DEF Next, Proceeds

(* The types and the conjuncts of IInv hold throughout: the guard of a     *)
(* follower and the entry of its leader protect each other.                *)
LEMMA InvStep == IInv /\ [Next]_vars => IInv'
  <1> SUFFICES ASSUME IInv, [Next]_vars PROVE IInv'
    OBVIOUS
  <1> USE DedupAssumption
  <1>0. TypeOK /\ TypeOK' /\ EntryLed /\ GuardKeepsEntry /\ WaitsForALeader
    BY TypeStep DEF IInv
  <1>1. ASSUME NEW r \in Requests, Arrive(r) PROVE IInv'
    <2>1. /\ step'[r] = "look" /\ step[r] = "idle"
          /\ \A q \in Requests \ {r} : step'[q] = step[q]
      BY <1>0, <1>1, GoesTyped DEF Arrive, Steps
    <2>2. EntryLed'
      BY <1>0, <1>1, <2>1 DEF Arrive, EntryLed, TypeOK
    <2>3. GuardKeepsEntry'
      BY <1>0, <1>1, <2>1 DEF Arrive, GuardKeepsEntry
    <2>4. WaitsForALeader'
      BY <1>0, <1>1, <2>1 DEF Arrive, WaitsForALeader, Hung, TypeOK
    <2>5. QED
      BY <1>0, <2>2, <2>3, <2>4 DEF IInv
  <1>2. ASSUME NEW r \in Requests, LookUp(r) PROVE IInv'
    <2>1. /\ step'[r] \in {"insert", "wait"} /\ step[r] = "look"
          /\ \A q \in Requests \ {r} : step'[q] = step[q]
      BY <1>0, <1>2, GoesTyped DEF LookUp, Steps
    <2>2. EntryLed'
      BY <1>0, <1>2, <2>1 DEF LookUp, EntryLed, TypeOK
    <2>3. CASE entry[key[r]] = None
      <3>1. step'[r] = "insert" /\ UNCHANGED <<key, entry, chan, ready, late>>
        BY <1>0, <1>2, <2>3, GoesTyped DEF LookUp, Steps
      <3>2. GuardKeepsEntry'
        BY <1>0, <2>1, <3>1 DEF GuardKeepsEntry
      <3>3. WaitsForALeader'
        BY <1>0, <2>1, <3>1 DEF WaitsForALeader, Hung, TypeOK
      <3>4. QED
        BY <1>0, <2>2, <3>2, <3>3 DEF IInv
    <2>4. CASE entry[key[r]] # None
      <3> DEFINE lead == entry[key[r]]
      <3>1. /\ step'[r] = "wait" /\ UNCHANGED <<key, entry, ready>>
            /\ chan'[r] = lead
            /\ \A q \in Requests \ {r} : chan'[q] = chan[q]
            /\ late' = IF step[lead] = "remove" THEN late \cup {r} ELSE late
        BY <1>0, <1>2, <2>4, GoesTyped DEF LookUp, Steps, TypeOK
      <3>2. lead \in Requests /\ step[lead] \in {"call", "remove", "gone"} /\ lead # r
        BY <1>0, <2>1, <2>4 DEF EntryLed, TypeOK
      <3>3. GuardKeepsEntry'
        BY <1>0, <2>1, <3>1 DEF GuardKeepsEntry
      <3>4. ASSUME NEW q \in Requests, step'[q] = "wait", q \notin ready', ~Hung(q)'
            PROVE  step'[chan'[q]] = "call"
        <4>1. CASE q = r
          BY <2>1, <3>1, <3>2, <3>4, <4>1 DEF Hung
        <4>2. CASE q # r
          <5>1. step[q] = "wait" /\ chan'[q] = chan[q] /\ chan[q] \in Requests /\ chan[q] # r
            BY <1>0, <2>1, <3>1, <3>4, <4>2 DEF TypeOK, GuardKeepsEntry, EntryLed
          <5>2. ~Hung(q)
            BY <2>1, <3>1, <3>4, <5>1 DEF Hung
          <5>3. QED
            BY <1>0, <2>1, <3>1, <3>4, <5>1, <5>2 DEF WaitsForALeader
        <4>3. QED
          BY <4>1, <4>2
      <3>5. QED
        BY <1>0, <2>2, <3>3, <3>4 DEF IInv, WaitsForALeader
    <2>5. QED
      BY <2>3, <2>4
  <1>3. ASSUME NEW r \in Requests, Insert(r) PROVE IInv'
    <2>1. /\ step'[r] = "call" /\ step[r] = "insert"
          /\ \A q \in Requests \ {r} : step'[q] = step[q]
          /\ entry'[key[r]] = r
          /\ \A k \in Keys \ {key[r]} : entry'[k] = entry[k]
          /\ UNCHANGED <<key, chan, ready, late>>
      BY <1>0, <1>3, GoesTyped DEF Insert, Steps, TypeOK
    <2>2. \A q \in Requests : step[q] = "wait" => key[q] # key[r]
      BY <1>3 DEF Insert, Writable
    <2>3. EntryLed'
      BY <1>0, <2>1 DEF EntryLed, TypeOK
    <2>4. GuardKeepsEntry'
      BY <1>0, <2>1, <2>2 DEF GuardKeepsEntry, TypeOK
    <2>5. \A q \in Requests : step[q] = "wait" => chan[q] # r
      BY <1>0, <2>1 DEF GuardKeepsEntry, EntryLed, TypeOK
    <2>6. WaitsForALeader'
      BY <1>0, <2>1, <2>5 DEF WaitsForALeader, Hung, TypeOK
    <2>7. QED
      BY <1>0, <2>3, <2>4, <2>6 DEF IInv
  <1>4. ASSUME NEW r \in Requests, Respond(r) PROVE IInv'
    <2>1. /\ step'[r] = "remove" /\ step[r] = "call"
          /\ \A q \in Requests \ {r} : step'[q] = step[q]
          /\ UNCHANGED <<key, entry, chan, late>>
          /\ ready' = ready \cup {f \in Requests : chan[f] = r}
      BY <1>0, <1>4, GoesTyped DEF Respond, Steps
    <2>2. EntryLed'
      BY <1>0, <2>1 DEF EntryLed, TypeOK
    <2>3. GuardKeepsEntry'
      BY <1>0, <2>1 DEF GuardKeepsEntry
    <2>4. WaitsForALeader'
      BY <1>0, <2>1 DEF WaitsForALeader, Hung, TypeOK
    <2>5. QED
      BY <1>0, <2>2, <2>3, <2>4 DEF IInv
  <1>5. ASSUME NEW r \in Requests, Remove(r) PROVE IInv'
    <2>1. /\ step'[r] = "done" /\ step[r] = "remove"
          /\ \A q \in Requests \ {r} : step'[q] = step[q]
          /\ entry'[key[r]] = None
          /\ \A k \in Keys \ {key[r]} : entry'[k] = entry[k]
          /\ UNCHANGED <<key, chan, ready, late>>
      BY <1>0, <1>5, GoesTyped DEF Remove, Steps, TypeOK
    <2>2. \A q \in Requests : step[q] = "wait" => key[q] # key[r]
      BY <1>5 DEF Remove, Writable
    <2>3. EntryLed'
      BY <1>0, <2>1 DEF EntryLed, TypeOK
    <2>4. GuardKeepsEntry'
      BY <1>0, <2>1, <2>2 DEF GuardKeepsEntry, TypeOK
    <2>5. \A q \in Requests : step[q] = "wait" => chan[q] # r
      BY <1>0, <2>2 DEF GuardKeepsEntry, EntryLed, TypeOK
    <2>6. WaitsForALeader'
      BY <1>0, <2>1, <2>5 DEF WaitsForALeader, Hung, TypeOK
    <2>7. QED
      BY <1>0, <2>3, <2>4, <2>6 DEF IInv
  <1>6. ASSUME NEW r \in Requests, Receive(r) \/ Drop(r) PROVE IInv'
    <2>1. PICK s \in {"done", "gone"} : Leave(r, s) /\ (s = "done" => step[r] = "wait")
      BY <1>6 DEF Receive, Drop
    <2>2. /\ step'[r] = s /\ step[r] \in {"call", "wait"}
          /\ \A q \in Requests \ {r} : step'[q] = step[q]
          /\ \A q \in Requests \ {r} : chan'[q] = chan[q]
          /\ ready' = ready \ {r}
          /\ UNCHANGED <<key, entry, late>>
      BY <1>0, <1>6, <2>1, GoesTyped DEF Receive, Drop, Leave, Steps, TypeOK
    <2>3. EntryLed'
      BY <1>0, <2>1, <2>2 DEF EntryLed, TypeOK
    <2>4. GuardKeepsEntry'
      BY <1>0, <2>1, <2>2 DEF GuardKeepsEntry
    <2>5. ASSUME NEW q \in Requests, step'[q] = "wait", q \notin ready', ~Hung(q)'
          PROVE  step'[chan'[q]] = "call"
      <3>1. q # r /\ step[q] = "wait" /\ chan'[q] = chan[q] /\ q \notin ready
        BY <2>1, <2>2, <2>5
      <3>2. /\ chan[q] \in Requests
            /\ step[chan[q]] \in {"call", "remove", "gone"}
        BY <1>0, <3>1 DEF GuardKeepsEntry, EntryLed, TypeOK
      <3>3. CASE chan[q] = r
        <4>1. step'[r] = "gone"
          BY <2>1, <2>2, <3>2, <3>3
        <4>2. QED
          BY <2>5, <3>1, <3>3, <4>1 DEF Hung
      <3>4. CASE chan[q] # r
        <4>1. ~Hung(q)
          BY <2>2, <2>5, <3>1, <3>2, <3>4 DEF Hung
        <4>2. QED
          BY <1>0, <2>2, <3>1, <3>2, <3>4, <4>1 DEF WaitsForALeader
      <3>5. QED
        BY <3>3, <3>4
    <2>6. QED
      BY <1>0, <2>3, <2>4, <2>5 DEF IInv, WaitsForALeader
  <1>7. CASE UNCHANGED vars
    BY <1>0, <1>7 DEF vars, IInv, TypeOK, EntryLed, GuardKeepsEntry, WaitsForALeader, Hung
  <1>8. QED
    BY <1>1, <1>2, <1>3, <1>4, <1>5, <1>6, <1>7 DEF Next, Proceeds

LEMMA InitInv == Init => IInv
  <1> SUFFICES ASSUME Init PROVE IInv
    OBVIOUS
  <1>1. TypeOK
    BY DedupAssumption DEF Init, TypeOK, Steps
  <1>2. QED
    BY <1>1 DEF Init, IInv, EntryLed, GuardKeepsEntry, WaitsForALeader

\* Types are kept whatever the sets of requests and keys.
THEOREM TypeCorrect == Spec => []TypeOK
  <1>1. Init => TypeOK
    BY InitInv DEF IInv
  <1>2. QED
    BY <1>1, TypeStep, PTL DEF Spec

\* A follower's guard keeps its leader's entry in the map (GuardKeepsEntry).
THEOREM GuardKeepsEntryEver == Spec => []GuardKeepsEntry
  <1>1. IInv => GuardKeepsEntry
    BY DEF IInv
  <1>2. QED
    BY <1>1, InitInv, InvStep, PTL DEF Spec

\* A follower without an answer has a leader at work or hangs for one of the
\* two reasons of Hung (WaitsForALeader).
THEOREM WaitsForALeaderEver == Spec => []WaitsForALeader
  <1>1. IInv => WaitsForALeader
    BY DEF IInv
  <1>2. QED
    BY <1>1, InitInv, InvStep, PTL DEF Spec

-----------------------------------------------------------------------------
(* Lookups of a user: their steps and what they carry.                     *)

LookupSteps == {Idle} \cup Task

\* The step a lookup is at says what it holds.
LEMMA StepShape ==
  ASSUME NEW s \in LookupSteps
  PROVE  /\ s.pc \in {"memory", "database"} => s \in [pc : {"memory", "database"}, batch : BOOLEAN]
         /\ s.pc = "discord" => s \in [pc : {"discord"}, tries : 0..MaxRetries]
         /\ s.pc = "backoff" => s \in [pc : {"backoff"}, tries : 1..MaxRetries]
         /\ s.pc = "store" => s \in [pc : {"store"}, val : Values, at : Nat]
         /\ s.pc = "remember" => s \in [pc : {"remember"}, val : Values, at : Nat, old : BOOLEAN]
         /\ s.pc = "answered" => s \in [pc : {"answered"}, val : Values, old : BOOLEAN]
  BY DEF LookupSteps, Idle, Task

LEMMA GotoStep ==
  ASSUME task \in [Lookups -> LookupSteps], NEW k \in Lookups, NEW s \in LookupSteps, Goto(k, s)
  PROVE  /\ task' \in [Lookups -> LookupSteps]
         /\ task'[k] = s
         /\ \A j \in Lookups \ {k} : task'[j] = task[j]
  BY DEF Goto

\* The steps the code goes to.
LEMMA StepsThere ==
  ASSUME clock \in Nat
  PROVE  /\ Idle \in LookupSteps
         /\ \A b \in BOOLEAN : [pc |-> "memory", batch |-> b] \in LookupSteps
         /\ \A b \in BOOLEAN : [pc |-> "database", batch |-> b] \in LookupSteps
         /\ \A n \in 0..MaxRetries : [pc |-> "discord", tries |-> n] \in LookupSteps
         /\ \A n \in 1..MaxRetries : [pc |-> "backoff", tries |-> n] \in LookupSteps
         /\ [pc |-> "fallback"] \in LookupSteps
         /\ \A v \in Values, t \in Nat : [pc |-> "store", val |-> v, at |-> t] \in LookupSteps
         /\ \A v \in Values, t \in Nat, o \in BOOLEAN :
               [pc |-> "remember", val |-> v, at |-> t, old |-> o] \in LookupSteps
         /\ \A v \in Values, o \in BOOLEAN : Answered(v, o) \in LookupSteps
  BY DEF LookupSteps, Idle, Task, Answered

\* What is in memory, in the table, and known of the truth.
Places ==
    /\ clock \in Nat
    /\ truth \in Values /\ lastTrue \in [Values -> Nat \cup {-1}]
    /\ mem \in [val : Values, at : Nat, old : BOOLEAN] \cup {NoEntry}
    /\ row \in [val : Values, at : Nat, old : {FALSE}] \cup {NoEntry}

LEMMA LookupTypeParts ==
  /\ LookupTypeOK <=> Places /\ task \in [Lookups -> LookupSteps]
  /\ LookupTypeOK' <=> Places' /\ task' \in [Lookups -> LookupSteps]
  BY DEF LookupTypeOK, Places, LookupSteps

LEMMA EntryTypes ==
  ASSUME Places
  PROVE  /\ mem # NoEntry => mem.val \in Values /\ mem.at \in Nat /\ mem.old \in BOOLEAN
         /\ row # NoEntry => row.val \in Values /\ row.at \in Nat
         /\ \A v \in Values : lastTrue[v] \in Int
  <1>1. mem # NoEntry => mem \in [val : Values, at : Nat, old : BOOLEAN]
    BY DEF Places
  <1>2. row # NoEntry => row \in [val : Values, at : Nat, old : {FALSE}]
    BY DEF Places
  <1>3. lastTrue \in [Values -> Nat \cup {-1}]
    BY DEF Places
  <1>4. \A v \in Values : lastTrue[v] \in Int
    BY <1>3
  <1>5. QED
    BY <1>1, <1>2, <1>4

-----------------------------------------------------------------------------
(* How old the values are.                                                 *)

\* AnswersAreRecent is not inductive: an answer is as old as where it came
\* from.  A value was true when it was read, and MaxDelay later at the latest
\* it is in its place; a row that is overwritten keeps its time, but by then
\* the value is MaxDelay old at most; a row is trusted for RowTtl after that
\* time, and an entry in memory for MemTtl after it was put there.
TruthKnown == lastTrue[truth] = clock /\ \A v \in Values : lastTrue[v] <= clock

RowRecent == row # NoEntry => row.at <= clock /\ row.at - lastTrue[row.val] <= MaxDelay

MemRecent ==
    mem # NoEntry /\ ~mem.old => mem.at - lastTrue[mem.val] < RowTtl + 2 * MaxDelay

Recent(s) ==
    /\ s.pc = "store" => /\ s.at <= clock /\ clock <= s.at + MaxDelay
                         /\ s.at <= lastTrue[s.val]
    /\ s.pc = "remember" =>
          /\ clock <= s.at + MaxDelay
          /\ ~s.old => s.at - lastTrue[s.val] < RowTtl + MaxDelay
    /\ s.pc = "answered" /\ ~s.old =>
          clock - lastTrue[s.val] < RowTtl + MemTtl + 2 * MaxDelay

RecentInv ==
    LookupTypeOK /\ TruthKnown /\ RowRecent /\ MemRecent /\ \A k \in Lookups : Recent(task[k])

LEMMA Durations ==
  MemTtl \in Nat /\ RowTtl \in Nat /\ RowTtl > 0 /\ MaxDelay \in Nat /\ MaxRetries \in Nat
  BY LookupAssumption DEF LookupAssumption

\* A lookup goes on, and nothing else changes.
LEMMA LookupOnly ==
  ASSUME RecentInv, NEW k \in Lookups, NEW s \in LookupSteps, Recent(s), Goto(k, s),
         UNCHANGED <<clock, discord, mem, row>>
  PROVE  RecentInv'
  <1>1. /\ task' \in [Lookups -> LookupSteps]
        /\ task'[k] = s
        /\ \A j \in Lookups \ {k} : task'[j] = task[j]
    BY GotoStep, LookupTypeParts DEF RecentInv
  <1>2. UNCHANGED <<clock, truth, lastTrue, mem, row>>
    BY DEF discord
  <1>3. LookupTypeOK'
    BY <1>1, <1>2, LookupTypeParts DEF RecentInv, Places
  <1>4. TruthKnown' /\ RowRecent' /\ MemRecent'
    BY <1>2 DEF RecentInv, TruthKnown, RowRecent, MemRecent
  <1>5. ASSUME NEW j \in Lookups PROVE Recent(task[j])'
    <2>1. Recent(task[j])
      BY DEF RecentInv
    <2>2. task'[j] \in {task[j], s}
      BY <1>1
    <2>3. CASE task'[j] = task[j]
      BY <1>2, <2>1, <2>3 DEF Recent
    <2>4. CASE task'[j] = s
      BY <1>2, <2>4 DEF Recent
    <2>5. QED
      BY <2>2, <2>3, <2>4
  <1>6. QED
    BY <1>3, <1>4, <1>5 DEF RecentInv

\* Steps that carry no value, and rows whose age is not looked at.
LEMMA RecentAnyway ==
  ASSUME NEW s
  PROVE  /\ s.pc \notin {"store", "remember", "answered"} => Recent(s)
         /\ s.pc = "answered" /\ s.old => Recent(s)
  BY DEF Recent

LEMMA RememberRow ==
  ASSUME RecentInv, NEW k \in Lookups, NEW o \in BOOLEAN, row # NoEntry, o \/ ~Stale,
         Remember(k, row.val, o), UNCHANGED <<clock, discord, mem, row>>
  PROVE  RecentInv'
  <1> DEFINE s == [pc |-> "remember", val |-> row.val, at |-> clock, old |-> o]
  <1>1. /\ clock \in Nat /\ row.val \in Values /\ row.at \in Nat /\ lastTrue[row.val] \in Int
        /\ row.at - lastTrue[row.val] <= MaxDelay
    BY LookupTypeParts, EntryTypes DEF RecentInv, Places, RowRecent
  <1>2. s \in LookupSteps
    BY <1>1, StepsThere
  <1>3. Recent(s)
    <2>1. s.pc = "remember" /\ s.val = row.val /\ s.at = clock /\ s.old = o
      OBVIOUS
    <2>2. clock <= clock + MaxDelay
      BY <1>1, Durations
    <2>3. ~o => clock - lastTrue[row.val] < RowTtl + MaxDelay
      BY <1>1, Durations DEF Stale
    <2> HIDE DEF s
    <2>4. QED
      BY <2>1, <2>2, <2>3 DEF Recent
  <1>4. Goto(k, s)
    BY DEF Remember
  <1> HIDE DEF s
  <1>5. QED
    BY <1>2, <1>3, <1>4, LookupOnly

LEMMA LookupStepRecent ==
  ASSUME RecentInv, NEW k \in Lookups,
         LookupStep(k) \/ \E batch \in BOOLEAN : Begin(k, batch)
  PROVE  RecentInv'
  <1>0. /\ Places /\ clock \in Nat /\ task[k] \in LookupSteps
        /\ task \in [Lookups -> LookupSteps] /\ Recent(task[k])
    BY LookupTypeParts DEF RecentInv, Places
  <1>1. ASSUME Fail(k), UNCHANGED <<clock, discord, mem, row>> PROVE RecentInv'
    <2>1. Idle.pc = "idle" /\ Idle \in LookupSteps
      BY <1>0, StepsThere DEF Idle
    <2>2. Recent(Idle)
      BY <2>1, RecentAnyway
    <2>3. QED
      BY <1>1, <2>1, <2>2, LookupOnly DEF Fail
  <1>2. ASSUME NEW batch \in BOOLEAN, Begin(k, batch) PROVE RecentInv'
    <2> DEFINE s == [pc |-> "memory", batch |-> batch]
    <2>1. s \in LookupSteps /\ s.pc = "memory"
      BY <1>0, StepsThere
    <2>2. Goto(k, s) /\ UNCHANGED <<clock, discord, mem, row>>
      BY <1>2 DEF Begin
    <2> HIDE DEF s
    <2>3. QED
      BY <2>1, <2>2, RecentAnyway, LookupOnly
  <1>3. ASSUME NEW n \in 0..MaxRetries, AskDiscord(k, n), UNCHANGED <<clock, discord, mem, row>>
        PROVE  RecentInv'
    <2> DEFINE s == [pc |-> "discord", tries |-> n]
    <2>1. s \in LookupSteps /\ s.pc = "discord"
      BY <1>0, StepsThere
    <2>2. Goto(k, s)
      BY <1>3 DEF AskDiscord
    <2> HIDE DEF s
    <2>3. QED
      BY <1>3, <2>1, <2>2, RecentAnyway, LookupOnly
  <1>4. CASE LookInMemory(k)
    <2>1. task[k] \in [pc : {"memory", "database"}, batch : BOOLEAN]
      BY <1>0, <1>4, StepShape DEF LookInMemory, At
    <2>2. CASE Goto(k, Answered(mem.val, mem.old)) /\ Cached
      <3> DEFINE s == Answered(mem.val, mem.old)
      <3>1. /\ mem # NoEntry /\ clock - mem.at < MemTtl
            /\ mem.val \in Values /\ mem.at \in Nat /\ mem.old \in BOOLEAN
            /\ lastTrue[mem.val] \in Int
        BY <1>0, <2>2, EntryTypes DEF Cached
      <3>2. s \in LookupSteps
        BY <1>0, <3>1, StepsThere
      <3>3. s.pc = "answered" /\ s.val = mem.val /\ s.old = mem.old
        BY DEF Answered
      <3>4. ~mem.old => clock - lastTrue[mem.val] < RowTtl + MemTtl + 2 * MaxDelay
        <4>1. ~mem.old => mem.at - lastTrue[mem.val] < RowTtl + 2 * MaxDelay
          BY <3>1 DEF RecentInv, MemRecent
        <4>2. QED
          BY <1>0, <3>1, <4>1, Durations
      <3>5. Goto(k, s) /\ UNCHANGED <<clock, discord, mem, row>>
        BY <1>4, <2>2 DEF LookInMemory
      <3> HIDE DEF s
      <3>6. Recent(s)
        BY <3>3, <3>4 DEF Recent
      <3>7. QED
        BY <3>2, <3>5, <3>6, LookupOnly
    <2>3. CASE Goto(k, [task[k] EXCEPT !.pc = "database"])
      <3> DEFINE s == [task[k] EXCEPT !.pc = "database"]
      <3>1. s = [pc |-> "database", batch |-> task[k].batch] /\ task[k].batch \in BOOLEAN
        BY <2>1
      <3>2. s \in LookupSteps /\ s.pc = "database"
        BY <1>0, <3>1, StepsThere
      <3>3. Goto(k, s) /\ UNCHANGED <<clock, discord, mem, row>>
        BY <1>4, <2>3 DEF LookInMemory
      <3> HIDE DEF s
      <3>4. QED
        BY <3>2, <3>3, RecentAnyway, LookupOnly
    <2>4. QED
      BY <1>4, <2>2, <2>3 DEF LookInMemory
  <1>5. CASE LookInDatabase(k)
    <2>1. UNCHANGED <<clock, discord, mem, row>>
      BY <1>5 DEF LookInDatabase
    <2>f. CASE Fail(k)
      BY <1>1, <2>1, <2>f
    <2>2. CASE ~Fail(k) /\ row # NoEntry /\ ~Stale
      BY <1>5, <2>1, <2>2, RememberRow DEF LookInDatabase
    <2>3. CASE ~Fail(k) /\ ~(row # NoEntry /\ ~Stale)
      <3>1. 0 \in 0..MaxRetries
        BY Durations
      <3>2. AskDiscord(k, 0)
        BY <1>5, <2>3 DEF LookInDatabase
      <3>3. QED
        BY <1>3, <2>1, <3>1, <3>2
    <2>4. QED
      BY <2>f, <2>2, <2>3
  <1>6. CASE BatchDatabase(k)
    <2>1. UNCHANGED <<clock, discord, mem, row>>
      BY <1>6 DEF BatchDatabase
    <2>2. CASE Fail(k)
      BY <1>1, <2>1, <2>2
    <2>3. CASE AskDiscord(k, 0)
      BY <1>3, <2>1, <2>3, Durations
    <2>4. CASE row # NoEntry /\ ~Stale /\ Remember(k, row.val, FALSE)
      BY <2>1, <2>4, RememberRow
    <2>5. CASE row # NoEntry /\ Goto(k, Answered(row.val, TRUE))
      <3> DEFINE s == Answered(row.val, TRUE)
      <3>1. s \in LookupSteps
        BY <1>0, <2>5, EntryTypes, StepsThere
      <3>2. s.pc = "answered" /\ s.old
        BY DEF Answered
      <3>3. Goto(k, s)
        BY <2>5
      <3> HIDE DEF s
      <3>4. QED
        BY <2>1, <3>1, <3>2, <3>3, RecentAnyway, LookupOnly
    <2>6. QED
      BY <1>6, <2>2, <2>3, <2>4, <2>5 DEF BatchDatabase
  <1>7. CASE FetchFromDiscord(k)
    <2>1. UNCHANGED <<clock, discord, mem, row>>
      BY <1>7 DEF FetchFromDiscord
    <2>2. CASE Goto(k, [pc |-> "store", val |-> truth, at |-> clock])
      <3> DEFINE s == [pc |-> "store", val |-> truth, at |-> clock]
      <3>1. truth \in Values /\ lastTrue[truth] = clock
        BY <1>0 DEF Places, RecentInv, TruthKnown
      <3>2. s \in LookupSteps
        BY <1>0, <3>1, StepsThere
      <3>3. s.pc = "store" /\ s.val = truth /\ s.at = clock
        OBVIOUS
      <3>4. Goto(k, s)
        BY <2>2
      <3> HIDE DEF s
      <3>5. Recent(s)
        BY <1>0, <3>1, <3>3, Durations DEF Recent
      <3>6. QED
        BY <2>1, <3>2, <3>4, <3>5, LookupOnly
    <2>3. QED
      BY <1>1, <1>7, <2>1, <2>2 DEF FetchFromDiscord
  <1>8. CASE RateLimited(k)
    <2>1. UNCHANGED <<clock, discord, mem, row>>
      BY <1>8 DEF RateLimited
    <2>2. task[k] \in [pc : {"discord"}, tries : 0..MaxRetries]
      BY <1>0, <1>8, StepShape DEF RateLimited, At
    <2>3. CASE task[k].tries + 1 > MaxRetries
      <3> DEFINE s == [pc |-> "fallback"]
      <3>1. s \in LookupSteps /\ s.pc = "fallback"
        BY <1>0, StepsThere
      <3>2. Goto(k, s)
        BY <1>8, <2>3 DEF RateLimited
      <3> HIDE DEF s
      <3>3. QED
        BY <2>1, <3>1, <3>2, RecentAnyway, LookupOnly
    <2>4. CASE ~(task[k].tries + 1 > MaxRetries)
      <3> DEFINE s == [pc |-> "backoff", tries |-> task[k].tries + 1]
      <3>1. task[k].tries + 1 \in 1..MaxRetries
        BY <2>2, <2>4, Durations
      <3>2. s \in LookupSteps /\ s.pc = "backoff"
        BY <1>0, <3>1, StepsThere
      <3>3. Goto(k, s)
        BY <1>8, <2>4 DEF RateLimited
      <3> HIDE DEF s
      <3>4. QED
        BY <2>1, <3>2, <3>3, RecentAnyway, LookupOnly
    <2>5. QED
      BY <2>3, <2>4
  <1>9. CASE Backoff(k)
    <2>1. task[k] \in [pc : {"backoff"}, tries : 1..MaxRetries]
      BY <1>0, <1>9, StepShape DEF Backoff, At
    <2>2. task[k].tries \in 0..MaxRetries
      BY <2>1, Durations
    <2>3. QED
      BY <1>3, <1>9, <2>2 DEF Backoff
  <1>10. CASE Fallback(k)
    <2>1. UNCHANGED <<clock, discord, mem, row>>
      BY <1>10 DEF Fallback
    <2>2. CASE row # NoEntry /\ Remember(k, row.val, TRUE)
      BY <2>1, <2>2, RememberRow
    <2>3. CASE Fail(k)
      BY <1>1, <2>1, <2>3
    <2>4. QED
      BY <1>10, <2>2, <2>3 DEF Fallback
  <1>11. CASE StoreInDatabase(k)
    <2>1. UNCHANGED <<clock, truth, lastTrue, mem>>
      BY <1>11 DEF StoreInDatabase, discord
    <2>2. CASE Fail(k) /\ UNCHANGED row
      BY <1>1, <1>11, <2>2 DEF StoreInDatabase
    <2>3. CASE ~(Fail(k) /\ UNCHANGED row)
      <3> DEFINE v == task[k].val
                 t == task[k].at
                 s == [pc |-> "remember", val |-> task[k].val, at |-> task[k].at, old |-> FALSE]
      <3>1. /\ row' = IF row = NoEntry THEN [val |-> v, at |-> t, old |-> FALSE]
                                       ELSE [row EXCEPT !.val = v]
            /\ Goto(k, s)
            /\ task[k].pc = "store"
        BY <1>11, <2>3 DEF StoreInDatabase, At
      <3>2. task[k] \in [pc : {"store"}, val : Values, at : Nat]
        BY <1>0, <3>1, StepShape
      <3>3. /\ v \in Values /\ t \in Nat /\ lastTrue[v] \in Int
            /\ t <= clock /\ clock <= t + MaxDelay /\ t <= lastTrue[v]
        BY <1>0, <3>1, <3>2, EntryTypes DEF Recent
      <3>4. s \in LookupSteps
        BY <1>0, <3>3, StepsThere
      <3>5. s.pc = "remember" /\ s.val = v /\ s.at = t /\ ~s.old
        OBVIOUS
      <3>6. row = NoEntry => /\ row' \in [val : Values, at : Nat, old : {FALSE}]
                             /\ row'.val = v /\ row'.at = t
        BY <3>1, <3>3
      <3>7. row # NoEntry => /\ row' \in [val : Values, at : Nat, old : {FALSE}]
                             /\ row'.val = v /\ row'.at = row.at
                             /\ row.at \in Nat /\ row.at <= clock
        <4>1. row # NoEntry => row \in [val : Values, at : Nat, old : {FALSE}] /\ row.at <= clock
          BY <1>0 DEF Places, RecentInv, RowRecent
        <4>2. QED
          BY <3>1, <3>3, <4>1
      <3> HIDE DEF s, v, t
      <3>8. Recent(s)
        <4>1. t - lastTrue[v] < RowTtl + MaxDelay
          BY <3>3, Durations
        <4>2. QED
          BY <3>3, <3>5, <4>1 DEF Recent
      <3>9. /\ task' \in [Lookups -> LookupSteps]
            /\ task'[k] = s
            /\ \A j \in Lookups \ {k} : task'[j] = task[j]
        BY <1>0, <3>1, <3>4, GotoStep
      <3>10. LookupTypeOK'
        <4>1. row' \in [val : Values, at : Nat, old : {FALSE}]
          BY <3>6, <3>7
        <4>2. Places'
          BY <1>0, <2>1, <4>1 DEF Places
        <4>3. QED
          BY <3>9, <4>2, LookupTypeParts
      <3>11. RowRecent'
        <4>1. row'.val = v /\ row'.at \in Nat /\ row'.at <= clock /\ row'.at - lastTrue[v] <= MaxDelay
          <5>1. t - lastTrue[v] <= MaxDelay /\ clock - lastTrue[v] <= MaxDelay
            BY <1>0, <3>3, Durations
          <5>2. CASE row = NoEntry
            BY <3>3, <3>6, <5>1, <5>2
          <5>3. CASE row # NoEntry
            <6>1. row.at - lastTrue[v] <= MaxDelay
              BY <1>0, <3>3, <3>7, <5>1, <5>3, Durations
            <6>2. QED
              BY <3>7, <5>3, <6>1
          <5>4. QED
            BY <5>2, <5>3
        <4>2. QED
          BY <2>1, <4>1 DEF RowRecent
      <3>12. TruthKnown' /\ MemRecent'
        BY <2>1 DEF RecentInv, TruthKnown, MemRecent
      <3>13. ASSUME NEW j \in Lookups PROVE Recent(task[j])'
        <4>1. Recent(task[j]) /\ task'[j] \in {task[j], s}
          BY <3>9 DEF RecentInv
        <4>2. CASE task'[j] = task[j]
          BY <2>1, <4>1, <4>2 DEF Recent
        <4>3. CASE task'[j] = s
          BY <2>1, <3>8, <4>3 DEF Recent
        <4>4. QED
          BY <4>1, <4>2, <4>3
      <3>14. QED
        BY <3>10, <3>11, <3>12, <3>13 DEF RecentInv
    <2>4. QED
      BY <2>2, <2>3
  <1>12. CASE InsertInMemory(k)
    <2>1. UNCHANGED <<clock, truth, lastTrue, row>>
      BY <1>12 DEF InsertInMemory, discord
    <2> DEFINE v == task[k].val
               t == task[k].at
               o == task[k].old
               s == Answered(task[k].val, task[k].old)
    <2>2. mem' = [val |-> v, at |-> clock, old |-> o] /\ Goto(k, s) /\ task[k].pc = "remember"
      BY <1>12 DEF InsertInMemory, At
    <2>3. task[k] \in [pc : {"remember"}, val : Values, at : Nat, old : BOOLEAN]
      BY <1>0, <2>2, StepShape
    <2>4. /\ v \in Values /\ t \in Nat /\ o \in BOOLEAN /\ lastTrue[v] \in Int
          /\ clock <= t + MaxDelay
          /\ ~o => t - lastTrue[v] < RowTtl + MaxDelay
      BY <1>0, <2>2, <2>3, EntryTypes DEF Recent
    <2>5. s \in LookupSteps
      BY <1>0, <2>4, StepsThere
    <2>6. s.pc = "answered" /\ s.val = v /\ s.old = o
      BY DEF Answered
    <2>7. /\ mem' \in [val : Values, at : Nat, old : BOOLEAN]
          /\ mem'.val = v /\ mem'.at = clock /\ mem'.old = o
      BY <1>0, <2>2, <2>4
    <2> HIDE DEF s, v, t, o
    <2>8. /\ ~o => clock - lastTrue[v] < RowTtl + 2 * MaxDelay
          /\ ~o => clock - lastTrue[v] < RowTtl + MemTtl + 2 * MaxDelay
      BY <1>0, <2>4, Durations
    <2>9. Recent(s)
      BY <2>6, <2>8 DEF Recent
    <2>10. /\ task' \in [Lookups -> LookupSteps]
           /\ task'[k] = s
           /\ \A j \in Lookups \ {k} : task'[j] = task[j]
      BY <1>0, <2>2, <2>5, GotoStep
    <2>11. LookupTypeOK'
      <3>1. Places'
        BY <1>0, <2>1, <2>7 DEF Places
      <3>2. QED
        BY <2>10, <3>1, LookupTypeParts
    <2>12. MemRecent'
      BY <2>1, <2>7, <2>8 DEF MemRecent
    <2>13. TruthKnown' /\ RowRecent'
      BY <2>1 DEF RecentInv, TruthKnown, RowRecent
    <2>14. ASSUME NEW j \in Lookups PROVE Recent(task[j])'
      <3>1. Recent(task[j]) /\ task'[j] \in {task[j], s}
        BY <2>10 DEF RecentInv
      <3>2. CASE task'[j] = task[j]
        BY <2>1, <3>1, <3>2 DEF Recent
      <3>3. CASE task'[j] = s
        BY <2>1, <2>9, <3>3 DEF Recent
      <3>4. QED
        BY <3>1, <3>2, <3>3
    <2>15. QED
      BY <2>11, <2>12, <2>13, <2>14 DEF RecentInv
  <1>13. CASE Return(k)
    BY <1>1, <1>13 DEF Return
  <1>14. QED
    BY <1>2, <1>4, <1>5, <1>6, <1>7, <1>8, <1>9, <1>10, <1>11, <1>12, <1>13 DEF LookupStep

\* A value that was true stays as recently so when the user is renamed.
LEMMA RenamedRecent ==
  ASSUME RecentInv, NEW v \in Values, Renamed(v)
  PROVE  RecentInv'
  <1>0. /\ Places /\ clock \in Nat /\ lastTrue \in [Values -> Nat \cup {-1}]
        /\ task \in [Lookups -> LookupSteps]
    BY LookupTypeParts DEF RecentInv, Places
  <1>1. /\ truth' = v /\ lastTrue' = [lastTrue EXCEPT ![v] = clock]
        /\ UNCHANGED <<clock, mem, row, task>>
    BY DEF Renamed
  <1>2. /\ lastTrue' \in [Values -> Nat \cup {-1}]
        /\ lastTrue'[v] = clock
        /\ \A w \in Values : /\ lastTrue[w] \in Int /\ lastTrue'[w] \in Int
                             /\ lastTrue[w] <= lastTrue'[w] /\ lastTrue'[w] <= clock
    BY <1>0, <1>1 DEF RecentInv, TruthKnown
  <1>3. LookupTypeOK'
    <2>1. Places'
      BY <1>0, <1>1, <1>2 DEF Places
    <2>2. QED
      BY <1>0, <1>1, <2>1, LookupTypeParts
  <1>4. TruthKnown'
    BY <1>1, <1>2 DEF TruthKnown
  <1>5. RowRecent'
    BY <1>0, <1>1, <1>2, EntryTypes, Durations DEF RecentInv, RowRecent
  <1>6. MemRecent'
    BY <1>0, <1>1, <1>2, EntryTypes, Durations DEF RecentInv, MemRecent
  <1>7. ASSUME NEW k \in Lookups PROVE Recent(task[k])'
    <2>1. Recent(task[k]) /\ task'[k] = task[k] /\ task[k] \in LookupSteps
      BY <1>0, <1>1 DEF RecentInv
    <2>2. task[k].pc \in {"store", "remember", "answered"} => task[k].val \in Values
      BY <2>1, StepShape
    <2>3. task[k].pc \in {"store", "remember"} => task[k].at \in Nat
      BY <2>1, StepShape
    <2>4. QED
      BY <1>0, <1>1, <1>2, <2>1, <2>2, <2>3, Durations DEF Recent
  <1>8. QED
    BY <1>3, <1>4, <1>5, <1>6, <1>7 DEF RecentInv

\* Time passes only while nobody is answered or overdue.
LEMMA TickRecent ==
  ASSUME RecentInv, Tick
  PROVE  RecentInv'
  <1>0. /\ Places /\ clock \in Nat /\ truth \in Values /\ lastTrue \in [Values -> Nat \cup {-1}]
        /\ task \in [Lookups -> LookupSteps]
    BY LookupTypeParts DEF RecentInv, Places
  <1>1. /\ clock' = clock + 1 /\ lastTrue' = [lastTrue EXCEPT ![truth] = clock + 1]
        /\ UNCHANGED <<truth, mem, row, task>>
    BY DEF Tick
  <1>2. /\ lastTrue' \in [Values -> Nat \cup {-1}]
        /\ lastTrue'[truth] = clock + 1
        /\ \A w \in Values : /\ lastTrue[w] \in Int /\ lastTrue'[w] \in Int
                             /\ lastTrue[w] <= lastTrue'[w] /\ lastTrue'[w] <= clock + 1
    BY <1>0, <1>1 DEF RecentInv, TruthKnown
  <1>3. LookupTypeOK'
    <2>1. Places'
      <3>1. clock' \in Nat
        BY <1>0, <1>1
      <3>2. QED
        BY <1>0, <1>1, <1>2, <3>1 DEF Places
    <2>2. QED
      BY <1>0, <1>1, <2>1, LookupTypeParts
  <1>4. TruthKnown'
    BY <1>1, <1>2 DEF TruthKnown
  <1>5. RowRecent'
    BY <1>0, <1>1, <1>2, EntryTypes, Durations DEF RecentInv, RowRecent
  <1>6. MemRecent'
    BY <1>0, <1>1, <1>2, EntryTypes, Durations DEF RecentInv, MemRecent
  <1>7. ASSUME NEW k \in Lookups PROVE Recent(task[k])'
    <2>1. Recent(task[k]) /\ task'[k] = task[k] /\ task[k] \in LookupSteps
      BY <1>0, <1>1 DEF RecentInv
    <2>2. task[k].pc \in {"store", "remember"} => task[k].val \in Values /\ task[k].at \in Nat
      BY <2>1, StepShape
    <2>3. /\ task[k].pc \in {"store", "remember"} => clock < task[k].at + MaxDelay
          /\ task[k].pc # "answered"
      BY DEF Tick, At
    <2>4. QED
      BY <1>0, <1>1, <1>2, <2>1, <2>2, <2>3, Durations DEF Recent
  <1>8. QED
    BY <1>3, <1>4, <1>5, <1>6, <1>7 DEF RecentInv

LEMMA InvalidateRecent ==
  ASSUME RecentInv, InvalidateUser
  PROVE  RecentInv'
  <1>1. mem' = NoEntry /\ UNCHANGED <<clock, truth, lastTrue, row, task>>
    BY DEF InvalidateUser, discord
  <1>2. LookupTypeOK'
    <2>1. Places /\ task \in [Lookups -> LookupSteps]
      BY LookupTypeParts DEF RecentInv
    <2>2. Places'
      BY <1>1, <2>1 DEF Places, NoEntry
    <2>3. QED
      BY <1>1, <2>1, <2>2, LookupTypeParts
  <1>3. MemRecent'
    <2>1. NoEntry' = NoEntry
      BY DEF NoEntry
    <2>2. QED
      BY <1>1, <2>1 DEF MemRecent
  <1>4. QED
    BY <1>1, <1>2, <1>3 DEF RecentInv, TruthKnown, RowRecent, Recent

LEMMA RecentStep == RecentInv /\ [LookupNext]_lookupVars => RecentInv'
  <1> SUFFICES ASSUME RecentInv, [LookupNext]_lookupVars PROVE RecentInv'
    OBVIOUS
  <1>1. CASE UNCHANGED lookupVars
    <2>1. UNCHANGED <<clock, truth, lastTrue, mem, row, task>>
      BY <1>1 DEF lookupVars, discord
    <2>2. QED
      BY <2>1 DEF RecentInv, LookupTypeOK, TruthKnown, RowRecent, MemRecent, Recent
  <1>2. QED
    BY <1>1, LookupStepRecent, RenamedRecent, TickRecent, InvalidateRecent DEF LookupNext

LEMMA RecentInit == LookupInit => RecentInv
  <1> SUFFICES ASSUME LookupInit PROVE RecentInv
    OBVIOUS
  <1>1. /\ clock = 0 /\ truth \in Values
        /\ lastTrue = [v \in Values |-> IF v = truth THEN 0 ELSE -1]
        /\ mem = NoEntry /\ row = NoEntry
        /\ task = [k \in Lookups |-> Idle]
    BY DEF LookupInit
  <1>2. TruthKnown
    BY <1>1 DEF TruthKnown
  <1>3. LookupTypeOK
    <2>1. lastTrue \in [Values -> Nat \cup {-1}]
      BY <1>1
    <2>2. task \in [Lookups -> {Idle} \cup Task]
      BY <1>1
    <2>3. QED
      BY <1>1, <2>1, <2>2 DEF LookupTypeOK
  <1>4. \A k \in Lookups : Recent(task[k])
    <2>1. Idle.pc = "idle"
      BY DEF Idle
    <2>2. QED
      BY <1>1, <2>1, RecentAnyway
  <1>5. QED
    BY <1>1, <1>2, <1>3, <1>4 DEF RecentInv, RowRecent, MemRecent

\* What the tiers hold and what a lookup carries from one to the next is what
\* the code takes it for, and the retries stay within their number.
THEOREM LookupTypeCorrect == LookupSpec => []LookupTypeOK
  <1>1. RecentInv => LookupTypeOK
    BY DEF RecentInv
  <1>2. QED
    BY <1>1, RecentInit, RecentStep, PTL DEF LookupSpec

\* Whatever the lives of rows and entries and the delay of a lookup are, and
\* however lookups overtake each other, renames and invalidations intervene and
\* Discord refuses: an answer that is not one of the two exceptions was true no
\* longer ago than both lives and two delays.
THEOREM AnswersAreRecentEver == LookupSpec => []AnswersAreRecent
  <1>1. RecentInv => AnswersAreRecent
    BY DEF RecentInv, Recent, AnswersAreRecent, At
  <1>2. QED
    BY <1>1, RecentInit, RecentStep, PTL DEF LookupSpec
=============================================================================
