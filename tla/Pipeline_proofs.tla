--------------------------- MODULE Pipeline_proofs ---------------------------
(***************************************************************************)
(* Proofs about the double buffer, for any number of threads, any set of   *)
(* messages and any thresholds, and about the pipeline around it, for any  *)
(* quota of the analyser: the pipeline takes the buffer's steps only, so   *)
(* what is proved of the buffer holds in it.                               *)
(***************************************************************************)
EXTENDS Pipeline, SequenceTheorems, TLAPS

-----------------------------------------------------------------------------
(* Facts about sequences as buffers.                                       *)

\* A sequence's range, by its indices.
LEMMA RangeByIndex ==
  ASSUME NEW S, NEW s \in Seq(S)
  PROVE  Range(s) = {s[i] : i \in 1..Len(s)} /\ Range(s) \subseteq S
  BY DEF Range

\* Vec::push adds exactly the pushed message.
LEMMA PushRange ==
  ASSUME NEW S, NEW s \in Seq(S), NEW e \in S
  PROVE  Append(s, e) \in Seq(S) /\ Range(Append(s, e)) = Range(s) \cup {e}
  <1>1. /\ Append(s, e) \in Seq(S)
        /\ Len(s) \in Nat /\ Len(Append(s, e)) = Len(s) + 1
        /\ \A i \in 1..Len(s) : Append(s, e)[i] = s[i]
        /\ Append(s, e)[Len(s) + 1] = e
    OBVIOUS
  <1>2. /\ Range(s) = {s[i] : i \in 1..Len(s)}
        /\ Range(Append(s, e)) = {Append(s, e)[i] : i \in 1..Len(s) + 1}
    BY <1>1, RangeByIndex
  <1>3. 1..Len(s) + 1 = 1..Len(s) \cup {Len(s) + 1}
    BY <1>1
  <1>4. QED
    BY <1>1, <1>2, <1>3

\* Pushing a message that is not there keeps a buffer free of repetitions.
LEMMA PushInjective ==
  ASSUME NEW S, NEW s \in Seq(S), NEW e \in S, IsInjective(s), e \notin Range(s)
  PROVE  IsInjective(Append(s, e))
  BY DEF Range, IsInjective

\* Vec::append, as return_messages uses it.
LEMMA ConcatRange ==
  ASSUME NEW S, NEW s \in Seq(S), NEW r \in Seq(S)
  PROVE  s \o r \in Seq(S) /\ Range(s \o r) = Range(s) \cup Range(r)
  BY RangeConcatenation

\* Appending disjoint buffers keeps the result free of repetitions.
LEMMA ConcatInjective ==
  ASSUME NEW S, NEW s \in Seq(S), NEW r \in Seq(S),
         IsInjective(s), IsInjective(r), Range(s) \cap Range(r) = {}
  PROVE  IsInjective(s \o r)
  <1> SUFFICES ASSUME NEW i \in 1..Len(s) + Len(r), NEW j \in 1..Len(s) + Len(r),
                      (s \o r)[i] = (s \o r)[j]
               PROVE  i = j
    BY DEF IsInjective
  <1>1. \A k \in 1..Len(s) : (s \o r)[k] = s[k] /\ s[k] \in Range(s)
    BY DEF Range
  <1>2. \A k \in 1..Len(s) + Len(r) :
          k > Len(s) => /\ k - Len(s) \in 1..Len(r)
                        /\ (s \o r)[k] = r[k - Len(s)]
                        /\ r[k - Len(s)] \in Range(r)
    BY DEF Range
  <1>3. CASE i <= Len(s) /\ j <= Len(s)
    BY <1>3, <1>1 DEF IsInjective
  <1>4. CASE i > Len(s) /\ j > Len(s)
    <2>1. r[i - Len(s)] = r[j - Len(s)]
      BY <1>2, <1>4
    <2>2. i - Len(s) = j - Len(s)
      BY <2>1, <1>2, <1>4 DEF IsInjective
    <2>3. QED
      BY <2>2
  <1>5. CASE (i <= Len(s) /\ j > Len(s)) \/ (i > Len(s) /\ j <= Len(s))
    BY <1>5, <1>1, <1>2
  <1>6. QED
    BY <1>3, <1>4, <1>5
-----------------------------------------------------------------------------
(* Type correctness.                                                       *)

\* Every step keeps the types; one step of the proof per critical section.
LEMMA TypeStep == TypeOK /\ [Next]_vars => TypeOK'
  <1> SUFFICES ASSUME TypeOK, [Next]_vars PROVE TypeOK'
    OBVIOUS
  <1> USE DEF TypeOK, Steps, None, CountThreshold, Timeout
  <1>1. ASSUME NEW t \in Threads, NEW m \in Messages, ReadFlushing(t, m) PROVE TypeOK'
    BY <1>1 DEF ReadFlushing, Goto, Pushing, store
  <1>2. ASSUME NEW t \in Threads, Push(t) PROVE TypeOK'
    <2>1. arg[t] \in Messages
      BY <1>2 DEF Push, Goto, Pushing
    <2>2. primary' \in Seq(Messages) /\ secondary' \in Seq(Messages)
      <3>1. \/ primary' = Append(primary, arg[t]) /\ secondary' = secondary
            \/ primary' = primary /\ secondary' = Append(secondary, arg[t])
        BY <1>2 DEF Push
      <3>2. /\ Append(primary, arg[t]) \in Seq(Messages)
            /\ Append(secondary, arg[t]) \in Seq(Messages)
        BY <2>1, PushRange
      <3>3. QED
        BY <3>1, <3>2
    <2>3. QED
      BY <1>2, <2>2 DEF Push, Goto, Pushing, AddTrigger, hist
  <1>3. ASSUME NEW t \in Threads, ReadLastFlush(t) PROVE TypeOK'
    BY <1>3 DEF ReadLastFlush, Goto, Pushing, store, hist
  <1>4. ASSUME NEW t \in Threads, CheckTimeout(t) PROVE TypeOK'
    BY <1>4, BufferAssumption DEF CheckTimeout, Goto, Pushing, store, hist, BufferAssumption
  <1>5. ASSUME NEW t \in Threads, BeginFlush(t) PROVE TypeOK'
    BY <1>5 DEF BeginFlush, Goto, Pushing, DirtyBegin
  <1>6. ASSUME NEW t \in Threads, Take(t) PROVE TypeOK'
    BY <1>6 DEF Take, Goto, Pushing, DirtyTake
  <1>7. ASSUME NEW t \in Threads, Touch(t) PROVE TypeOK'
    BY <1>7, BufferAssumption DEF Touch, Goto, Pushing, BufferAssumption, store, locals, hist
  <1>8. ASSUME NEW t \in Threads, SwapBack(t) PROVE TypeOK'
    <2>1. primary' \in Seq(Messages) /\ secondary' \in Seq(Messages)
      BY <1>8, EmptySeq DEF SwapBack
    <2>2. QED
      BY <1>8, <2>1 DEF SwapBack, Goto, Pushing, locals, hist
  <1>9. ASSUME NEW t \in Threads, ReturnMessages(t) PROVE TypeOK'
    <2>1. primary' \in Seq(Messages)
      BY <1>9, ConcatRange DEF ReturnMessages
    <2>2. QED
      BY <1>9, <2>1 DEF ReturnMessages, Goto, Pushing, DirtyReturn
  <1>10. ASSUME NEW t \in Threads, Consume(t) PROVE TypeOK'
    <2>1. Range(batch[t]) \subseteq Messages
      BY RangeByIndex
    <2>2. QED
      BY <1>10, <2>1, EmptySeq DEF Consume, Goto, Pushing, store
  <1>11. CASE Tick
    BY <1>11, BufferAssumption
       DEF Tick, Older, Pushing, Checking, BufferAssumption, store, hist
  <1>12. CASE UNCHANGED vars
    BY <1>12 DEF vars, store, locals, hist, Pushing
  <1>13. QED
    BY <1>1, <1>2, <1>3, <1>4, <1>5, <1>6, <1>7, <1>8, <1>9, <1>10, <1>11, <1>12
       DEF Next, Add, ShouldFlush, Flush, Settle

LEMMA TypeInit == Init => TypeOK
  <1> SUFFICES ASSUME Init PROVE TypeOK
    OBVIOUS
  <1>1. <<>> \in Seq(Messages) /\ 0 \in 0..TimeoutSecs /\ Pushing = {}
    BY BufferAssumption, EmptySeq DEF Init, Pushing, BufferAssumption
  <1>2. QED
    BY <1>1 DEF Init, TypeOK, Steps, None

\* The state of the buffer and its callers stays within its types.
THEOREM TypeCorrect == Spec => []TypeOK
  BY TypeInit, TypeStep, PTL DEF Spec
-----------------------------------------------------------------------------
(* No message is in two places.                                            *)

\* Nothing is in the buffer, in a batch or consumed that was never offered:
\* this is what makes a newly offered message new everywhere.
OnlyOffered == Located \subseteq offered

PlacesInv == TypeOK /\ OnlyOffered /\ NoDuplicates

\* A step that moves no message and starts or ends no add preserves it.
LEMMA PlacesFrame ==
  ASSUME PlacesInv,
         UNCHANGED <<primary, secondary, batch, consumed, arg, offered>>,
         Pushing' = Pushing
  PROVE  OnlyOffered' /\ NoDuplicates'
  BY DEF PlacesInv, OnlyOffered, NoDuplicates, Located, InBatch

\* Every step keeps messages in one place.
LEMMA PlacesStep == PlacesInv /\ [Next]_vars => PlacesInv'
  <1> SUFFICES ASSUME PlacesInv, [Next]_vars PROVE OnlyOffered' /\ NoDuplicates'
    BY TypeStep DEF PlacesInv
  <1>0. TypeOK /\ TypeOK' /\ OnlyOffered /\ NoDuplicates
    BY TypeStep DEF PlacesInv
  <1>b. ASSUME NEW t \in Threads PROVE batch[t] \in Seq(Messages)
    BY <1>0, <1>b DEF TypeOK
  <1>1. ASSUME NEW t \in Threads, NEW m \in Messages, ReadFlushing(t, m)
        PROVE OnlyOffered' /\ NoDuplicates'
    <2>1. /\ m \notin offered /\ offered' = offered \cup {m}
          /\ arg' = [arg EXCEPT ![t] = m]
          /\ UNCHANGED <<primary, secondary, batch, consumed>>
      BY <1>1 DEF ReadFlushing, store
    <2>2. Pushing' = Pushing \cup {t} /\ t \notin Pushing
      BY <1>0, <1>1 DEF ReadFlushing, Goto, Pushing, TypeOK
    <2>3. Located' = Located /\ OnlyOffered'
      BY <1>0, <2>1 DEF Located, InBatch, OnlyOffered
    <2>4. arg'[t] = m /\ \A u \in Pushing : arg'[u] = arg[u] /\ arg[u] \in offered
      BY <1>0, <2>1, <2>2 DEF TypeOK
    <2>5. \A u \in Pushing' : arg'[u] \notin Located'
      BY <1>0, <2>1, <2>2, <2>3, <2>4 DEF NoDuplicates, OnlyOffered
    <2>6. \A u, v \in Pushing' : arg'[u] = arg'[v] => u = v
      BY <1>0, <2>1, <2>2, <2>4 DEF NoDuplicates
    <2>7. QED
      BY <1>0, <2>1, <2>3, <2>5, <2>6 DEF NoDuplicates
  <1>2. ASSUME NEW t \in Threads, Push(t) PROVE OnlyOffered' /\ NoDuplicates'
    <2> DEFINE m == arg[t]
    <2>1. /\ Pushing' = Pushing \ {t} /\ t \in Pushing
          /\ m \in Messages /\ m \in offered /\ m \notin Located
      BY <1>0, <1>2 DEF Push, Goto, Pushing, TypeOK, NoDuplicates
    <2>2. /\ UNCHANGED <<batch, consumed, offered>>
          /\ \A u \in Pushing' : arg'[u] = arg[u]
      BY <1>0, <1>2, <2>1 DEF Push, hist, TypeOK, Pushing
    <2>3. /\ primary \in Seq(Messages) /\ secondary \in Seq(Messages)
          /\ m \notin Range(primary) /\ m \notin Range(secondary)
          /\ m \notin consumed /\ \A u \in Threads : m \notin Range(batch[u])
      BY <1>0, <2>1 DEF TypeOK, Located, InBatch
    <2>a. \A u, v \in Pushing' : arg'[u] = arg'[v] => u = v
      BY <1>0, <2>1, <2>2 DEF NoDuplicates
    <2>4. CASE primary' = Append(primary, m) /\ secondary' = secondary
      <3>1. Range(primary') = Range(primary) \cup {m}
        BY <2>1, <2>3, <2>4, PushRange
      <3>2. IsInjective(primary')
        BY <1>0, <2>1, <2>3, <2>4, PushInjective DEF NoDuplicates
      <3>3. Located' = Located \cup {m}
        BY <2>2, <2>4, <3>1 DEF Located, InBatch
      <3>4. OnlyOffered'
        BY <1>0, <2>1, <2>2, <3>3 DEF OnlyOffered
      <3>5. \A u \in Pushing' : arg'[u] \notin Located'
        BY <1>0, <2>1, <2>2, <3>3 DEF NoDuplicates
      <3>6. secondary' = secondary /\ UNCHANGED <<batch, consumed>>
        BY <2>2, <2>4
      <3>7. /\ Range(primary') \cap Range(secondary') = {}
            /\ consumed' \cap (Range(primary') \cup Range(secondary')) = {}
        BY <1>0, <2>3, <3>1, <3>6 DEF NoDuplicates
      <3>8. \A u \in Threads :
              Range(batch'[u]) \cap (Range(primary') \cup Range(secondary') \cup consumed') = {}
        BY <1>0, <2>3, <3>1, <3>6 DEF NoDuplicates
      <3>9. QED
        BY <1>0, <2>a, <3>2, <3>4, <3>5, <3>6, <3>7, <3>8 DEF NoDuplicates
    <2>5. CASE primary' = primary /\ secondary' = Append(secondary, m)
      <3>1. Range(secondary') = Range(secondary) \cup {m}
        BY <2>1, <2>3, <2>5, PushRange
      <3>2. IsInjective(secondary')
        BY <1>0, <2>1, <2>3, <2>5, PushInjective DEF NoDuplicates
      <3>3. Located' = Located \cup {m}
        BY <2>2, <2>5, <3>1 DEF Located, InBatch
      <3>4. OnlyOffered'
        BY <1>0, <2>1, <2>2, <3>3 DEF OnlyOffered
      <3>5. \A u \in Pushing' : arg'[u] \notin Located'
        BY <1>0, <2>1, <2>2, <3>3 DEF NoDuplicates
      <3>6. primary' = primary /\ UNCHANGED <<batch, consumed>>
        BY <2>2, <2>5
      <3>7. /\ Range(primary') \cap Range(secondary') = {}
            /\ consumed' \cap (Range(primary') \cup Range(secondary')) = {}
        BY <1>0, <2>3, <3>1, <3>6 DEF NoDuplicates
      <3>8. \A u \in Threads :
              Range(batch'[u]) \cap (Range(primary') \cup Range(secondary') \cup consumed') = {}
        BY <1>0, <2>3, <3>1, <3>6 DEF NoDuplicates
      <3>9. QED
        BY <1>0, <2>a, <3>2, <3>4, <3>5, <3>6, <3>7, <3>8 DEF NoDuplicates
    <2>6. QED
      BY <1>2, <2>4, <2>5 DEF Push
  <1>3. ASSUME NEW t \in Threads, ReadLastFlush(t) PROVE OnlyOffered' /\ NoDuplicates'
    <2>1. Pushing' = Pushing
      BY <1>0, <1>3 DEF ReadLastFlush, Goto, Pushing, TypeOK
    <2>2. QED
      BY <1>3, <2>1, PlacesFrame DEF ReadLastFlush, store, hist
  <1>4. ASSUME NEW t \in Threads, CheckTimeout(t) PROVE OnlyOffered' /\ NoDuplicates'
    <2>1. Pushing' = Pushing
      BY <1>0, <1>4 DEF CheckTimeout, Goto, Pushing, TypeOK
    <2>2. QED
      BY <1>4, <2>1, PlacesFrame DEF CheckTimeout, store, hist
  <1>5. ASSUME NEW t \in Threads, BeginFlush(t) PROVE OnlyOffered' /\ NoDuplicates'
    <2>1. Pushing' = Pushing
      BY <1>0, <1>5 DEF BeginFlush, Goto, Pushing, TypeOK
    <2>2. QED
      BY <1>5, <2>1, PlacesFrame DEF BeginFlush
  <1>6. ASSUME NEW t \in Threads, Take(t) PROVE OnlyOffered' /\ NoDuplicates'
    <2>1. Pushing' = Pushing
      BY <1>0, <1>6 DEF Take, Goto, Pushing, TypeOK
    <2>2. batch[t] = <<>>
      BY <1>0, <1>6 DEF Take, Goto, TypeOK
    <2>3. /\ UNCHANGED <<secondary, consumed, offered, arg>>
          /\ primary' = <<>> /\ Range(primary') = {} /\ IsInjective(primary')
          /\ batch'[t] = primary
          /\ \A u \in Threads \ {t} : batch'[u] = batch[u]
      BY <1>0, <1>6 DEF Take, TypeOK, Range, IsInjective
    <2>4. Located' = Located
      <3>1. InBatch' = InBatch \cup Range(primary)
        <4>1. Range(batch[t]) = {}
          BY <2>2 DEF Range
        <4>2. QED
          BY <2>3, <4>1 DEF InBatch
      <3>2. QED
        BY <2>3, <3>1 DEF Located
    <2>5. QED
      BY <1>0, <2>1, <2>3, <2>4 DEF NoDuplicates, OnlyOffered
  <1>7. ASSUME NEW t \in Threads, Touch(t) PROVE OnlyOffered' /\ NoDuplicates'
    <2>1. Pushing' = Pushing
      BY <1>0, <1>7 DEF Touch, Goto, Pushing, TypeOK
    <2>2. QED
      BY <1>7, <2>1, PlacesFrame DEF Touch, store, locals, hist
  <1>8. ASSUME NEW t \in Threads, SwapBack(t) PROVE OnlyOffered' /\ NoDuplicates'
    <2>1. Pushing' = Pushing
      BY <1>0, <1>8 DEF SwapBack, Goto, Pushing, TypeOK
    <2>2. /\ UNCHANGED <<batch, consumed, offered, arg>>
          /\ primary' = secondary
          /\ secondary' = <<>> /\ Range(secondary') = {} /\ IsInjective(secondary')
      BY <1>8 DEF SwapBack, locals, hist, Range, IsInjective
    <2>3. Located' \subseteq Located
      BY <2>2 DEF Located, InBatch
    <2>4. QED
      BY <1>0, <2>1, <2>2, <2>3 DEF NoDuplicates, OnlyOffered
  <1>9. ASSUME NEW t \in Threads, ReturnMessages(t) PROVE OnlyOffered' /\ NoDuplicates'
    <2>1. Pushing' = Pushing
      BY <1>0, <1>9 DEF ReturnMessages, Goto, Pushing, TypeOK
    <2>2. /\ UNCHANGED <<secondary, consumed, offered, arg>>
          /\ primary' = batch[t] \o primary
          /\ Range(batch'[t]) = {} /\ IsInjective(batch'[t])
          /\ \A u \in Threads \ {t} : batch'[u] = batch[u]
      BY <1>0, <1>9 DEF ReturnMessages, TypeOK, Range, IsInjective
    <2>3. Range(primary') = Range(batch[t]) \cup Range(primary)
      BY <1>0, <1>b, <2>2, ConcatRange DEF TypeOK
    <2>4. IsInjective(primary')
      <3>1. primary \in Seq(Messages) /\ batch[t] \in Seq(Messages)
        BY <1>0, <1>b DEF TypeOK
      <3>2. /\ IsInjective(primary) /\ IsInjective(batch[t])
            /\ Range(batch[t]) \cap Range(primary) = {}
        BY <1>0 DEF NoDuplicates
      <3>3. QED
        BY <2>2, <3>1, <3>2, ConcatInjective
    <2>5. Located' = Located
      <3>1. InBatch = InBatch' \cup Range(batch[t])
        BY <2>2 DEF InBatch
      <3>2. QED
        BY <2>2, <2>3, <3>1 DEF Located
    <2>6. QED
      BY <1>0, <2>1, <2>2, <2>3, <2>4, <2>5 DEF NoDuplicates, OnlyOffered
  <1>10. ASSUME NEW t \in Threads, Consume(t) PROVE OnlyOffered' /\ NoDuplicates'
    <2>1. Pushing' = Pushing
      BY <1>0, <1>10 DEF Consume, Goto, Pushing, TypeOK
    <2>2. /\ UNCHANGED <<primary, secondary, offered, arg>>
          /\ consumed' = consumed \cup Range(batch[t])
          /\ Range(batch'[t]) = {} /\ IsInjective(batch'[t])
          /\ \A u \in Threads \ {t} : batch'[u] = batch[u]
      BY <1>0, <1>10 DEF Consume, store, TypeOK, Range, IsInjective
    <2>3. Located' = Located
      <3>1. InBatch = InBatch' \cup Range(batch[t])
        BY <2>2 DEF InBatch
      <3>2. QED
        BY <2>2, <3>1 DEF Located
    <2>4. QED
      BY <1>0, <2>1, <2>2, <2>3 DEF NoDuplicates, OnlyOffered
  <1>11. CASE Tick
    BY <1>11, PlacesFrame DEF Tick, store, hist, Pushing
  <1>12. CASE UNCHANGED vars
    BY <1>12, PlacesFrame DEF vars, store, locals, hist, Pushing
  <1>13. QED
    BY <1>1, <1>2, <1>3, <1>4, <1>5, <1>6, <1>7, <1>8, <1>9, <1>10, <1>11, <1>12
       DEF Next, Add, ShouldFlush, Flush, Settle

LEMMA PlacesInit == Init => PlacesInv
  <1> SUFFICES ASSUME Init PROVE OnlyOffered /\ NoDuplicates
    BY TypeInit DEF PlacesInv
  <1>1. Range(<<>>) = {} /\ IsInjective(<<>>)
    BY DEF Range, IsInjective
  <1>2. Pushing = {} /\ \A t \in Threads : batch[t] = <<>>
    BY DEF Init, Pushing
  <1>3. QED
    BY <1>1, <1>2 DEF Init, OnlyOffered, NoDuplicates, Located, InBatch

\* Whatever the interleaving, no message is in two places or twice in one.
THEOREM NoDuplicatesEver == Spec => []NoDuplicates
  <1>1. PlacesInv => NoDuplicates
    BY DEF PlacesInv
  <1>2. QED
    BY PlacesInit, PlacesStep, <1>1, PTL DEF Spec
-----------------------------------------------------------------------------
(* Losing a message takes an overlap.                                      *)

QuietInv == PlacesInv /\ QuietWindow /\ LossNeedsOverlap

\* The window invariant is inductive: every step that could open a second
\* flush, or leave a message in primary inside a flush, records an overlap.
LEMMA WindowStep == TypeOK /\ QuietWindow /\ [Next]_vars => QuietWindow'
  <1> SUFFICES ASSUME TypeOK, QuietWindow, [Next]_vars, ~overlap' PROVE QuietWindow'
    BY DEF QuietWindow
  <1> DEFINE Window == /\ flushing = (Flushers # {})
                       /\ \A t, u \in Flushers : t = u
                       /\ PastTake # {} => /\ primary = <<>>
                                           /\ \A u \in Pushing : route[u] = "secondary"
  <1>0. pc \in [Threads -> Steps] /\ route \in [Threads -> {"primary", "secondary"}]
    BY DEF TypeOK
  <1>w. ~overlap => Window
    BY DEF QuietWindow
  <1>s. SUFFICES Window'
    BY DEF QuietWindow
  <1> HIDE DEF Window
  <1>1. ASSUME NEW t \in Threads, NEW m \in Messages, ReadFlushing(t, m) PROVE Window'
    <2>1. Flushers' = Flushers /\ PastTake' = PastTake /\ Pushing' = Pushing \cup {t}
      BY <1>0, <1>1 DEF ReadFlushing, Goto, Flushers, PastTake, Pushing
    <2>2. ~overlap /\ UNCHANGED <<primary, flushing>> /\ PastTake \subseteq Flushers
      BY <1>1 DEF ReadFlushing, store, PastTake, Flushers
    <2>3. /\ route'[t] = IF flushing THEN "secondary" ELSE "primary"
          /\ \A u \in Threads \ {t} : route'[u] = route[u]
      BY <1>0, <1>1 DEF ReadFlushing
    <2>4. QED
      BY <1>w, <2>1, <2>2, <2>3 DEF Window, Pushing
  <1>2. ASSUME NEW t \in Threads, Push(t) PROVE Window'
    <2>1. /\ Flushers' = Flushers /\ PastTake' = PastTake
          /\ t \in Pushing /\ Pushing' = Pushing \ {t}
      BY <1>0, <1>2 DEF Push, Goto, Flushers, PastTake, Pushing
    <2>2. ~overlap /\ flushing' = flushing /\ \A u \in Pushing' : route'[u] = route[u]
      BY <1>0, <1>2, <2>1 DEF Push, hist, Pushing
    <2>3. PastTake # {} => primary' = primary
      BY <1>2, <1>w, <2>1, <2>2 DEF Push, Window
    <2>4. QED
      BY <1>w, <2>1, <2>2, <2>3 DEF Window
  <1>3. ASSUME NEW t \in Threads, ReadLastFlush(t) \/ CheckTimeout(t) PROVE Window'
    <2>1. Flushers' = Flushers /\ PastTake' = PastTake /\ Pushing' = Pushing
      BY <1>0, <1>3 DEF ReadLastFlush, CheckTimeout, Goto, Flushers, PastTake, Pushing
    <2>2. ~overlap /\ UNCHANGED <<primary, flushing, route>>
      BY <1>3 DEF ReadLastFlush, CheckTimeout, store, hist
    <2>3. QED
      BY <1>w, <2>1, <2>2 DEF Window
  <1>4. ASSUME NEW t \in Threads, BeginFlush(t) PROVE Window'
    <2>1. ~overlap /\ Flushers = {} /\ flushing' = TRUE
      BY <1>4 DEF BeginFlush, DirtyBegin
    <2>2. Flushers' = {t} /\ PastTake' = {}
      BY <1>0, <1>4, <2>1 DEF BeginFlush, Goto, Flushers, PastTake
    <2>3. QED
      BY <2>1, <2>2 DEF Window
  <1>5. ASSUME NEW t \in Threads, Take(t) PROVE Window'
    <2>1. /\ ~overlap /\ primary' = <<>> /\ UNCHANGED <<flushing, route>>
          /\ \A u \in Pushing : route[u] # "primary"
      BY <1>5 DEF Take, DirtyTake
    <2>2. Flushers' = Flushers /\ Pushing' = Pushing
      BY <1>0, <1>5 DEF Take, Goto, Flushers, Pushing
    <2>3. QED
      BY <1>0, <1>w, <2>1, <2>2 DEF Window, Pushing
  <1>6. ASSUME NEW t \in Threads, Touch(t) PROVE Window'
    <2>1. Flushers' = Flushers /\ PastTake' = PastTake /\ Pushing' = Pushing
      BY <1>0, <1>6 DEF Touch, Goto, Flushers, PastTake, Pushing
    <2>2. ~overlap /\ UNCHANGED <<primary, flushing, route>>
      BY <1>6 DEF Touch, store, locals, hist
    <2>3. QED
      BY <1>w, <2>1, <2>2 DEF Window
  <1>7. ASSUME NEW t \in Threads, SwapBack(t) PROVE Window'
    <2>1. ~overlap /\ flushing' = FALSE /\ t \in Flushers
      BY <1>7 DEF SwapBack, Goto, Flushers, hist
    <2>2. Flushers' = Flushers \ {t} /\ PastTake' \subseteq Flushers'
      BY <1>0, <1>7 DEF SwapBack, Goto, Flushers, PastTake
    <2>3. Flushers' = {} /\ PastTake' = {}
      BY <1>w, <2>1, <2>2 DEF Window
    <2>4. QED
      BY <2>1, <2>3 DEF Window
  <1>8. ASSUME NEW t \in Threads, ReturnMessages(t) PROVE Window'
    <2>1. ~overlap /\ PastTake = {} /\ UNCHANGED flushing
      BY <1>8 DEF ReturnMessages, DirtyReturn
    <2>2. Flushers' = Flushers /\ PastTake' = PastTake
      BY <1>0, <1>8 DEF ReturnMessages, Goto, Flushers, PastTake
    <2>3. QED
      BY <1>w, <2>1, <2>2 DEF Window
  <1>9. ASSUME NEW t \in Threads, Consume(t) PROVE Window'
    <2>1. Flushers' = Flushers /\ PastTake' = PastTake /\ Pushing' = Pushing
      BY <1>0, <1>9 DEF Consume, Goto, Flushers, PastTake, Pushing
    <2>2. ~overlap /\ UNCHANGED <<primary, flushing, route>>
      BY <1>9 DEF Consume, store
    <2>3. QED
      BY <1>w, <2>1, <2>2 DEF Window
  <1>10. ASSUME Tick \/ UNCHANGED vars PROVE Window'
    <2>1. ~overlap /\ UNCHANGED <<primary, flushing, route, pc>>
      BY <1>10 DEF Tick, vars, store, locals, hist
    <2>2. QED
      BY <1>w, <2>1 DEF Window, Flushers, PastTake, Pushing
  <1>11. QED
    BY <1>1, <1>2, <1>3, <1>4, <1>5, <1>6, <1>7, <1>8, <1>9, <1>10
       DEF Next, Add, ShouldFlush, Flush, Settle

\* The other steps, which move no message and start or end no add.
LEMMA LossFrame ==
  ASSUME UNCHANGED <<primary, secondary, batch, consumed, arg, offered>>,
         Pushing' = Pushing
  PROVE  Lost' = Lost
  BY DEF Lost, Accepted, Located, InBatch

\* The history variable records an overlap for good.
LEMMA OverlapStays == [Next]_vars /\ overlap => overlap'
  <1> SUFFICES ASSUME [Next]_vars, overlap PROVE overlap'
    OBVIOUS
  <1>1. ASSUME NEW t \in Threads, Add(t) \/ ShouldFlush(t) PROVE overlap'
    BY <1>1 DEF Add, ShouldFlush, ReadFlushing, Push, ReadLastFlush, CheckTimeout, hist
  <1>2. ASSUME NEW t \in Threads, Flush(t) PROVE overlap'
    BY <1>2 DEF Flush, BeginFlush, Take, Touch, SwapBack, hist
  <1>3. ASSUME NEW t \in Threads, Settle(t) PROVE overlap'
    BY <1>3 DEF Settle, ReturnMessages, Consume
  <1>4. ASSUME Tick \/ UNCHANGED vars PROVE overlap'
    BY <1>4 DEF Tick, vars, hist
  <1>5. QED
    BY <1>1, <1>2, <1>3, <1>4 DEF Next

\* Outside an overlap a step loses nothing.
LEMMA LossStep ==
  PlacesInv /\ QuietWindow /\ LossNeedsOverlap /\ [Next]_vars => LossNeedsOverlap'
  <1> SUFFICES ASSUME PlacesInv, QuietWindow, LossNeedsOverlap, [Next]_vars, ~overlap'
               PROVE  Lost' \subseteq Lost
    <2>1. [Next]_vars => (overlap => overlap')
      BY OverlapStays
    <2>2. QED
      BY <2>1 DEF LossNeedsOverlap
  <1>0. TypeOK /\ OnlyOffered /\ NoDuplicates
    BY DEF PlacesInv
  <1>1. ASSUME NEW t \in Threads, NEW m \in Messages, ReadFlushing(t, m)
        PROVE  Lost' \subseteq Lost
    <2>1. /\ offered' = offered \cup {m} /\ arg'[t] = m
          /\ \A u \in Threads \ {t} : arg'[u] = arg[u]
          /\ UNCHANGED <<primary, secondary, batch, consumed>>
      BY <1>0, <1>1 DEF ReadFlushing, store, TypeOK
    <2>2. Pushing' = Pushing \cup {t} /\ t \notin Pushing /\ Pushing \subseteq Threads
      BY <1>0, <1>1 DEF ReadFlushing, Goto, Pushing, TypeOK
    <2>3. Accepted' \subseteq Accepted
      BY <2>1, <2>2 DEF Accepted
    <2>4. QED
      BY <2>1, <2>3 DEF Lost, Located, InBatch
  <1>2. ASSUME NEW t \in Threads, Push(t) PROVE Lost' \subseteq Lost
    <2>1. Pushing' = Pushing \ {t} /\ t \in Pushing /\ Pushing \subseteq Threads
      BY <1>0, <1>2 DEF Push, Goto, Pushing, TypeOK
    <2>2. /\ UNCHANGED <<batch, consumed, offered>>
          /\ \A u \in Threads \ {t} : arg'[u] = arg[u]
      BY <1>0, <1>2 DEF Push, hist, TypeOK
    <2>3. Accepted' \subseteq Accepted \cup {arg[t]}
      BY <2>1, <2>2 DEF Accepted
    <2>4. /\ primary \in Seq(Messages) /\ secondary \in Seq(Messages)
          /\ arg[t] \in Messages
      BY <1>0, <2>1 DEF TypeOK
    <2>5. Range(primary') \cup Range(secondary') =
            Range(primary) \cup Range(secondary) \cup {arg[t]}
      <3>1. /\ Range(Append(primary, arg[t])) = Range(primary) \cup {arg[t]}
            /\ Range(Append(secondary, arg[t])) = Range(secondary) \cup {arg[t]}
        BY <2>4, PushRange
      <3>2. \/ primary' = Append(primary, arg[t]) /\ secondary' = secondary
            \/ primary' = primary /\ secondary' = Append(secondary, arg[t])
        BY <1>2 DEF Push
      <3>3. QED
        BY <3>1, <3>2
    <2>6. QED
      BY <2>2, <2>3, <2>5 DEF Lost, Located, InBatch
  <1>3. ASSUME NEW t \in Threads, ReadLastFlush(t) \/ CheckTimeout(t)
        PROVE  Lost' \subseteq Lost
    <2>1. Pushing' = Pushing
      BY <1>0, <1>3 DEF ReadLastFlush, CheckTimeout, Goto, Pushing, TypeOK
    <2>2. QED
      BY <1>3, <2>1, LossFrame DEF ReadLastFlush, CheckTimeout, store, hist
  <1>4. ASSUME NEW t \in Threads, BeginFlush(t) \/ Touch(t) PROVE Lost' \subseteq Lost
    <2>1. Pushing' = Pushing
      BY <1>0, <1>4 DEF BeginFlush, Touch, Goto, Pushing, TypeOK
    <2>2. QED
      BY <1>4, <2>1, LossFrame DEF BeginFlush, Touch, store, locals, hist
  <1>5. ASSUME NEW t \in Threads, Take(t) PROVE Lost' \subseteq Lost
    <2>1. Pushing' = Pushing
      BY <1>0, <1>5 DEF Take, Goto, Pushing, TypeOK
    <2>2. /\ UNCHANGED <<secondary, consumed, offered, arg>>
          /\ batch'[t] = primary /\ batch[t] = <<>>
          /\ \A u \in Threads \ {t} : batch'[u] = batch[u]
      BY <1>0, <1>5 DEF Take, Goto, TypeOK
    <2>3. InBatch \cup Range(primary) \subseteq InBatch'
      BY <2>2 DEF InBatch, Range
    <2>4. QED
      BY <2>1, <2>2, <2>3 DEF Lost, Accepted, Located
  <1>6. ASSUME NEW t \in Threads, SwapBack(t) PROVE Lost' \subseteq Lost
    <2>1. Pushing' = Pushing
      BY <1>0, <1>6 DEF SwapBack, Goto, Pushing, TypeOK
    <2>2. ~overlap /\ UNCHANGED <<batch, consumed, offered, arg>> /\ primary' = secondary
      BY <1>6 DEF SwapBack, locals, hist
    <2>3. primary = <<>> /\ t \in PastTake
      BY <1>6, <2>2 DEF QuietWindow, SwapBack, Goto, PastTake
    <2>4. Range(primary) = {}
      BY <2>3 DEF Range
    <2>5. QED
      BY <2>1, <2>2, <2>4 DEF Lost, Accepted, Located, InBatch
  <1>7. ASSUME NEW t \in Threads, ReturnMessages(t) PROVE Lost' \subseteq Lost
    <2>1. Pushing' = Pushing
      BY <1>0, <1>7 DEF ReturnMessages, Goto, Pushing, TypeOK
    <2>2. /\ UNCHANGED <<secondary, consumed, offered, arg>>
          /\ primary' = batch[t] \o primary
          /\ \A u \in Threads \ {t} : batch'[u] = batch[u]
      BY <1>0, <1>7 DEF ReturnMessages, TypeOK
    <2>3. Range(primary') = Range(batch[t]) \cup Range(primary)
      BY <1>0, <2>2, ConcatRange DEF TypeOK
    <2>4. InBatch \subseteq InBatch' \cup Range(batch[t])
      BY <2>2 DEF InBatch
    <2>5. QED
      BY <2>1, <2>2, <2>3, <2>4 DEF Lost, Accepted, Located
  <1>8. ASSUME NEW t \in Threads, Consume(t) PROVE Lost' \subseteq Lost
    <2>1. Pushing' = Pushing
      BY <1>0, <1>8 DEF Consume, Goto, Pushing, TypeOK
    <2>2. /\ UNCHANGED <<primary, secondary, offered, arg>>
          /\ consumed' = consumed \cup Range(batch[t])
          /\ \A u \in Threads \ {t} : batch'[u] = batch[u]
      BY <1>0, <1>8 DEF Consume, store, TypeOK
    <2>3. InBatch \subseteq InBatch' \cup Range(batch[t])
      BY <2>2 DEF InBatch
    <2>4. QED
      BY <2>1, <2>2, <2>3 DEF Lost, Accepted, Located
  <1>9. CASE Tick
    BY <1>9, LossFrame DEF Tick, store, hist, Pushing
  <1>10. CASE UNCHANGED vars
    BY <1>10, LossFrame DEF vars, store, locals, hist, Pushing
  <1>11. QED
    BY <1>1, <1>2, <1>3, <1>4, <1>5, <1>6, <1>7, <1>8, <1>9, <1>10
       DEF Next, Add, ShouldFlush, Flush, Settle

LEMMA QuietInit == Init => QuietWindow /\ LossNeedsOverlap
  BY DEF Init, QuietWindow, LossNeedsOverlap, Flushers, PastTake, Lost, Accepted

\* A message is lost only in a run in which something has overlapped a flush.
THEOREM LossNeedsOverlapEver == Spec => [](QuietWindow /\ LossNeedsOverlap)
  <1>1. Init => QuietInv
    BY PlacesInit, QuietInit DEF QuietInv
  <1>2. QuietInv /\ [Next]_vars => QuietInv'
    BY PlacesStep, WindowStep, LossStep DEF QuietInv, PlacesInv
  <1>3. QuietInv => QuietWindow /\ LossNeedsOverlap
    BY DEF QuietInv
  <1>4. QED
    BY <1>1, <1>2, <1>3, PTL DEF Spec
-----------------------------------------------------------------------------
(* The double buffer implements the pool.                                  *)

waiting == Range(primary) \cup Range(secondary)
holding == [t \in Threads |-> Range(batch[t])]

\* A step that moves no message is a step of the pool.
LEMMA PoolFrame ==
  ASSUME UNCHANGED <<primary, secondary, batch, consumed>>
  PROVE  Pool!Step
  BY DEF Pool!Step

\* Every critical section is a step of the pool: an add accepts, a flush takes
\* a batch, and the swap leaves the pool alone unless a flush was overlapped.
LEMMA PoolStep ==
  ASSUME PlacesInv, QuietWindow, Next
  PROVE  Pool!Step
  <1>0. TypeOK /\ OnlyOffered /\ NoDuplicates
    BY DEF PlacesInv
  <1>1. ASSUME NEW t \in Threads, NEW m \in Messages, ReadFlushing(t, m) PROVE Pool!Step
    BY <1>1, PoolFrame DEF ReadFlushing, store
  <1>2. ASSUME NEW t \in Threads, Push(t) PROVE Pool!Step
    <2>1. t \in Pushing /\ arg[t] \in Messages /\ arg[t] \notin Located
      BY <1>0, <1>2 DEF Push, Goto, Pushing, TypeOK, NoDuplicates
    <2>2. waiting' = waiting \cup {arg[t]}
      <3>1. /\ Range(Append(primary, arg[t])) = Range(primary) \cup {arg[t]}
            /\ Range(Append(secondary, arg[t])) = Range(secondary) \cup {arg[t]}
        BY <1>0, <2>1, PushRange DEF TypeOK
      <3>2. \/ primary' = Append(primary, arg[t]) /\ secondary' = secondary
            \/ primary' = primary /\ secondary' = Append(secondary, arg[t])
        BY <1>2 DEF Push
      <3>3. QED
        BY <3>1, <3>2 DEF waiting
    <2>3. Pool!Known = Located
      BY DEF Pool!Known, Located, InBatch
    <2>4. UNCHANGED <<batch, consumed>>
      BY <1>2 DEF Push, hist
    <2>5. Pool!Accept(arg[t])
      BY <2>1, <2>2, <2>3, <2>4 DEF Pool!Accept, waiting
    <2>6. QED
      BY <2>1, <2>5 DEF Pool!Step
  <1>3. ASSUME NEW t \in Threads, ReadLastFlush(t) \/ CheckTimeout(t) PROVE Pool!Step
    BY <1>3, PoolFrame DEF ReadLastFlush, CheckTimeout, store, hist
  <1>4. ASSUME NEW t \in Threads, BeginFlush(t) \/ Touch(t) PROVE Pool!Step
    BY <1>4, PoolFrame DEF BeginFlush, Touch, store, locals, hist
  <1>5. ASSUME NEW t \in Threads, Take(t) PROVE Pool!Step
    <2>1. batch[t] = <<>> /\ Range(<<>>) = {}
      <3>1. Range(<<>>) = {}
        BY DEF Range
      <3>2. QED
        BY <1>0, <1>5, <3>1 DEF Take, Goto, TypeOK
    <2>2. /\ batch' = [batch EXCEPT ![t] = primary]
          /\ primary' = <<>> /\ UNCHANGED <<secondary, consumed>>
      BY <1>5 DEF Take
    <2>3. Range(primary) \cap Range(secondary) = {}
      BY <1>0 DEF NoDuplicates
    <2>4. waiting' = waiting \ Range(primary)
      BY <2>1, <2>2, <2>3 DEF waiting
    <2>5. holding' = [holding EXCEPT ![t] = Range(primary)]
      BY <1>0, <2>2 DEF holding, TypeOK
    <2>6. Pool!TakeBatch(t, Range(primary))
      BY <2>1, <2>2, <2>4, <2>5 DEF Pool!TakeBatch, waiting, holding
    <2>7. Range(primary) \in SUBSET waiting
      BY DEF waiting
    <2>8. QED
      BY <2>6, <2>7 DEF Pool!Step, waiting
  <1>6. ASSUME NEW t \in Threads, SwapBack(t) PROVE Pool!Step
    <2>1. /\ primary' = secondary /\ secondary' = <<>> /\ Range(<<>>) = {}
          /\ UNCHANGED <<batch, consumed, overlap>>
      BY <1>6 DEF SwapBack, locals, hist, Range
    <2>2. waiting' = waiting \ Range(primary)
      BY <1>0, <2>1 DEF waiting, NoDuplicates
    <2>3. CASE overlap
      <3>1. Pool!Vanish(Range(primary))
        BY <2>1, <2>2, <2>3 DEF Pool!Vanish, waiting
      <3>2. Range(primary) \in SUBSET waiting
        BY DEF waiting
      <3>3. QED
        BY <3>1, <3>2 DEF Pool!Step, waiting
    <2>4. CASE ~overlap
      <3>1. primary = <<>>
        BY <1>6, <2>4 DEF QuietWindow, SwapBack, Goto, PastTake
      <3>2. waiting' = waiting
        BY <2>1, <2>2, <3>1
      <3>3. QED
        BY <2>1, <3>2 DEF Pool!Step, waiting
    <2>5. QED
      BY <2>3, <2>4
  <1>7. ASSUME NEW t \in Threads, ReturnMessages(t) PROVE Pool!Step
    <2>1. /\ batch' = [batch EXCEPT ![t] = <<>>] /\ Range(<<>>) = {}
          /\ primary' = batch[t] \o primary /\ UNCHANGED <<secondary, consumed>>
      BY <1>7 DEF ReturnMessages, Range
    <2>2. batch[t] \in Seq(Messages) /\ primary \in Seq(Messages)
      BY <1>0 DEF TypeOK
    <2>3. Range(primary') = Range(batch[t]) \cup Range(primary)
      BY <2>1, <2>2, ConcatRange
    <2>4. waiting' = waiting \cup holding[t]
      BY <2>1, <2>3 DEF waiting, holding
    <2>5. holding' = [holding EXCEPT ![t] = {}]
      BY <1>0, <2>1 DEF holding, TypeOK
    <2>6. Pool!PutBack(t)
      BY <2>1, <2>4, <2>5 DEF Pool!PutBack, waiting, holding
    <2>7. QED
      BY <2>6 DEF Pool!Step
  <1>8. ASSUME NEW t \in Threads, Consume(t) PROVE Pool!Step
    <2>1. /\ batch' = [batch EXCEPT ![t] = <<>>] /\ Range(<<>>) = {}
          /\ consumed' = consumed \cup Range(batch[t])
          /\ UNCHANGED <<primary, secondary>>
      BY <1>8 DEF Consume, store, Range
    <2>2. holding' = [holding EXCEPT ![t] = {}]
      BY <1>0, <2>1 DEF holding, TypeOK
    <2>3. Pool!Finish(t)
      BY <2>1, <2>2 DEF Pool!Finish, holding
    <2>4. QED
      BY <2>3 DEF Pool!Step
  <1>9. CASE Tick
    BY <1>9, PoolFrame DEF Tick, store, hist
  <1>10. QED
    BY <1>1, <1>2, <1>3, <1>4, <1>5, <1>6, <1>7, <1>8, <1>9
       DEF Next, Add, ShouldFlush, Flush, Settle

LEMMA PoolInit == Init => Pool!Init
  BY DEF Init, Pool!Init, Range

\* The buffer implements the pool: what is accepted waits, is held by one task
\* or done, and only waiting messages can vanish, only once a flush has been
\* overlapped.
THEOREM PoolImplemented == Spec => ImplementsPool
  <1>1. ASSUME QuietInv, [Next]_vars PROVE [Pool!Next]_(Pool!poolvars)
    <2>1. CASE Next
      <3>1. Pool!Step
        BY <1>1, <2>1, PoolStep DEF QuietInv
      <3>2. overlap' \in {overlap, TRUE}
        <4>1. TypeOK /\ TypeOK'
          BY <1>1, TypeStep DEF QuietInv, PlacesInv
        <4>2. overlap => overlap'
          BY <1>1, OverlapStays
        <4>3. overlap \in BOOLEAN /\ overlap' \in BOOLEAN
          BY <4>1 DEF TypeOK
        <4>4. QED
          BY <4>2, <4>3
      <3>3. QED
        BY <3>1, <3>2 DEF Pool!Next
    <2>2. CASE UNCHANGED vars
      BY <2>2 DEF vars, store, locals, hist, Pool!poolvars
    <2>3. QED
      BY <1>1, <2>1, <2>2
  <1>2. Init => QuietInv
    BY PlacesInit, QuietInit DEF QuietInv
  <1>3. QuietInv /\ [Next]_vars => QuietInv'
    BY PlacesStep, WindowStep, LossStep DEF QuietInv, PlacesInv
  <1>4. QED
    BY <1>1, <1>2, <1>3, PoolInit, PTL DEF Spec, ImplementsPool, Pool!Spec

-----------------------------------------------------------------------------
(* What was set aside is safe.                                             *)

\* Only the end of a flush drops messages, and only those still in primary:
\* neither what was set aside in secondary nor what a task holds is ever lost.
THEOREM SetAsideIsSafeEver == Spec => SetAsideIsSafe
  <1> DEFINE Kept == \A m \in Accepted \ Lost : m \in Lost' =>
                       m \in Range(primary) /\ \E t \in Threads : pc[t] = "swap" /\ pc'[t] = "own"
  <1>1. PlacesInv /\ [Next]_vars => [Kept]_vars
    <2> SUFFICES ASSUME PlacesInv, Next,
                        NEW m \in Accepted \ Lost, m \in Lost'
                 PROVE  /\ m \in Range(primary)
                        /\ \E t \in Threads : pc[t] = "swap" /\ pc'[t] = "own"
      OBVIOUS
    <2>0. TypeOK /\ m \in Located /\ m \notin Located'
      BY DEF PlacesInv, Lost
    <2>1. ASSUME UNCHANGED <<primary, secondary, batch, consumed>> PROVE FALSE
      BY <2>0, <2>1 DEF Located, InBatch
    <2>2. ASSUME NEW t \in Threads, Push(t) PROVE FALSE
      <3>1. arg[t] \in Messages
        BY <2>0, <2>2 DEF Push, Goto, Pushing, TypeOK
      <3>2. Range(primary) \subseteq Range(primary') /\ Range(secondary) \subseteq Range(secondary')
        <4>1. /\ Range(Append(primary, arg[t])) = Range(primary) \cup {arg[t]}
              /\ Range(Append(secondary, arg[t])) = Range(secondary) \cup {arg[t]}
          BY <2>0, <3>1, PushRange DEF TypeOK
        <4>2. QED
          BY <2>2, <4>1 DEF Push
      <3>3. UNCHANGED <<batch, consumed>>
        BY <2>2 DEF Push, hist
      <3>4. QED
        BY <2>0, <3>2, <3>3 DEF Located, InBatch
    <2>3. ASSUME NEW t \in Threads, Take(t) PROVE FALSE
      <3>1. batch[t] = <<>>
        BY <2>0, <2>3 DEF Take, Goto, TypeOK
      <3>2. /\ UNCHANGED <<secondary, consumed>>
            /\ \A q \in Threads : batch'[q] = IF q = t THEN primary ELSE batch[q]
        BY <2>0, <2>3 DEF Take, TypeOK
      <3>3. Range(<<>>) = {}
        BY DEF Range
      <3>4. InBatch \cup Range(primary) \subseteq InBatch'
        BY <3>1, <3>2, <3>3 DEF InBatch
      <3>5. QED
        BY <2>0, <3>2, <3>4 DEF Located
    <2>4. ASSUME NEW t \in Threads, ReturnMessages(t) PROVE FALSE
      <3>1. Range(primary') = Range(batch[t]) \cup Range(primary)
        BY <2>0, <2>4, ConcatRange DEF ReturnMessages, TypeOK
      <3>2. /\ UNCHANGED <<secondary, consumed>>
            /\ \A q \in Threads : q # t => batch'[q] = batch[q]
        BY <2>0, <2>4 DEF ReturnMessages, TypeOK
      <3>3. InBatch \subseteq InBatch' \cup Range(batch[t])
        BY <3>2 DEF InBatch
      <3>4. QED
        BY <2>0, <3>1, <3>2, <3>3 DEF Located
    <2>5. ASSUME NEW t \in Threads, Consume(t) PROVE FALSE
      <3>1. /\ UNCHANGED <<primary, secondary>> /\ consumed' = consumed \cup Range(batch[t])
            /\ \A q \in Threads : q # t => batch'[q] = batch[q]
        BY <2>0, <2>5 DEF Consume, TypeOK, store
      <3>2. InBatch \subseteq InBatch' \cup Range(batch[t])
        BY <3>1 DEF InBatch
      <3>3. QED
        BY <2>0, <3>1, <3>2 DEF Located
    <2>6. ASSUME NEW t \in Threads, SwapBack(t)
          PROVE  m \in Range(primary) /\ pc[t] = "swap" /\ pc'[t] = "own"
      <3>1. pc[t] = "swap" /\ pc'[t] = "own"
        BY <2>0, <2>6 DEF SwapBack, Goto, TypeOK
      <3>2. primary' = secondary /\ UNCHANGED <<batch, consumed>>
        BY <2>6 DEF SwapBack, locals, hist
      <3>3. QED
        BY <2>0, <3>1, <3>2 DEF Located, InBatch
    <2>7. ASSUME NEW t \in Threads,
                 (\E n \in Messages : ReadFlushing(t, n)) \/ ShouldFlush(t) \/ BeginFlush(t) \/ Touch(t)
          PROVE  FALSE
      BY <2>1, <2>7 DEF ReadFlushing, ShouldFlush, ReadLastFlush, CheckTimeout, BeginFlush, Touch,
                        store, locals, hist
    <2>8. CASE Tick
      BY <2>1, <2>8 DEF Tick, store, hist
    <2>9. QED
      BY <2>2, <2>3, <2>4, <2>5, <2>6, <2>7, <2>8 DEF Next, Add, Flush, Settle
  <1>2. Init => PlacesInv
    BY PlacesInit
  <1>3. QED
    BY <1>1, <1>2, PlacesStep, PTL DEF Spec, SetAsideIsSafe

-----------------------------------------------------------------------------
(* The pipeline works on the buffer by its operations only.                *)

\* A handler that is adding has a message to add, and a call of the analyser
\* under way has a batch: flush_buffer returns early on an empty one.
Stations ==
    /\ stage \in [Threads -> Stages]
    /\ todo \in [Threads -> Messages \cup {None}]
    /\ \A t \in Threads : stage[t] = "adding" => todo[t] \in Messages
    /\ call \in [Threads -> 0..MaxAttempts]

Calls == \A t \in Threads : call[t] # 0 => stage[t] = "analyzing" /\ batch[t] # <<>>

\* Every step of the pipeline is a step of the buffer, or leaves it alone.
LEMMA StepOfBuffer == Stations /\ [PNext]_pvars => [Next]_vars
  <1> SUFFICES ASSUME Stations, [PNext]_pvars PROVE [Next]_vars
    OBVIOUS
  <1>0. Handlers \subseteq Threads /\ Timer \in Threads
    BY PipelineAssumption DEF PipelineAssumption, Handlers
  <1>1. ASSUME NEW h \in Handlers, HandlerStep(h) PROVE [Next]_vars
    <2>1. ASSUME AddRead(h) PROVE Add(h)
      <3>1. todo[h] \in Messages
        BY <1>0, <2>1 DEF AddRead, Stations
      <3>2. ReadFlushing(h, todo[h])
        BY <2>1 DEF AddRead
      <3>3. QED
        BY <3>1, <3>2 DEF Add
    <2>2. ASSUME AddPush(h) PROVE Add(h)
      BY <2>2 DEF AddPush, Add
    <2>3. QED
      BY <1>0, <1>1, <2>1, <2>2 DEF HandlerStep, RegexViolation, PassFilter, Degrade, Next
  <1>2. ASSUME PollRead \/ PollCheck PROVE Next
    BY <1>0, <1>2 DEF PollRead, PollCheck, Next, ShouldFlush
  <1>3. ASSUME NEW t \in Threads, FlushBuffer(t) PROVE [Next]_vars
    BY <1>3 DEF FlushBuffer, FlushStep, FlushDone, EmptyBatch, Analyzing, AnalyzeOk, AnalyzeErr,
                GiveBack, Next, Flush, Settle
  <1>4. ASSUME Time \/ Permits PROVE [Next]_vars
    BY <1>4 DEF Time, Permits, Next
  <1>5. CASE UNCHANGED pvars
    BY <1>5 DEF pvars
  <1>6. QED
    BY <1>1, <1>2, <1>3, <1>4, <1>5 DEF PNext

\* One task moves between stages, from the one it is at.
LEMMA StageStep ==
  ASSUME stage \in [Threads -> Stages], NEW t \in Threads, NEW from \in Stages, NEW to \in Stages,
         Enter(t, from, to)
  PROVE  /\ stage' \in [Threads -> Stages]
         /\ stage[t] = from /\ stage'[t] = to
         /\ \A u \in Threads \ {t} : stage'[u] = stage[u]
  BY DEF Enter

\* What a task does to the call it is at.
LEMMA CallStep ==
  ASSUME Stations, NEW t \in Threads
  PROVE  /\ Gemini!UntilReady(t) \/ Gemini!Retry(t) =>
              /\ call' \in [Threads -> 0..MaxAttempts]
              /\ \A u \in Threads \ {t} : call'[u] = call[u]
         /\ Gemini!Succeed(t) \/ Gemini!Fail(t) =>
              /\ call[t] # 0 /\ call' = [call EXCEPT ![t] = 0]
              /\ call' \in [Threads -> 0..MaxAttempts]
              /\ call'[t] = 0
              /\ \A u \in Threads \ {t} : call'[u] = call[u]
  <1>0. MaxAttempts \in Nat \ {0} /\ call \in [Threads -> 0..MaxAttempts]
    BY PipelineAssumption DEF PipelineAssumption, Gemini!ConstantsFit, Stations
  <1>1. ASSUME Gemini!UntilReady(t) \/ Gemini!Retry(t)
        PROVE  /\ call' \in [Threads -> 0..MaxAttempts]
               /\ \A u \in Threads \ {t} : call'[u] = call[u]
    <2>1. CASE Gemini!UntilReady(t)
      BY <1>0, <2>1 DEF Gemini!UntilReady
    <2>2. CASE Gemini!Retry(t)
      <3>1. call[t] + 1 \in 0..MaxAttempts
        BY <1>0, <2>2 DEF Gemini!Retry
      <3>2. call' = [call EXCEPT ![t] = call[t] + 1]
        BY <2>2 DEF Gemini!Retry
      <3>3. QED
        BY <1>0, <3>1, <3>2
    <2>3. QED
      BY <1>1, <2>1, <2>2
  <1>2. ASSUME Gemini!Succeed(t) \/ Gemini!Fail(t)
        PROVE  call[t] # 0 /\ call' = [call EXCEPT ![t] = 0]
    BY <1>0, <1>2 DEF Gemini!Succeed, Gemini!Fail, Gemini!Reply, Gemini!GiveUp
  <1>3. ASSUME Gemini!Succeed(t) \/ Gemini!Fail(t)
        PROVE  /\ call' \in [Threads -> 0..MaxAttempts]
               /\ call'[t] = 0
               /\ \A u \in Threads \ {t} : call'[u] = call[u]
    BY <1>0, <1>2, <1>3
  <1>4. QED
    BY <1>1, <1>2, <1>3

LEMMA StationsStep == Stations /\ [PNext]_pvars => Stations'
  <1> SUFFICES ASSUME Stations, [PNext]_pvars PROVE Stations'
    OBVIOUS
  <1>0. /\ Handlers \subseteq Threads /\ Timer \in Threads
        /\ stage \in [Threads -> Stages]
        /\ {"ready", "adding", "polling", "flushing", "analyzing", "failed"} \subseteq Stages
    BY PipelineAssumption DEF PipelineAssumption, Handlers, Stations, Stages
  <1>1. ASSUME NEW t \in Threads, NEW from \in Stages, NEW to \in Stages \ {"adding"},
               Enter(t, from, to), UNCHANGED todo,
               call' \in [Threads -> 0..MaxAttempts]
        PROVE  Stations'
    BY <1>0, <1>1, StageStep DEF Stations
  <1>2. ASSUME NEW h \in Handlers, HandlerStep(h) PROVE Stations'
    <2>1. ASSUME NEW m \in Messages, RegexViolation(h, m) \/ Degrade(h, m) PROVE Stations'
      BY <2>1 DEF RegexViolation, Degrade, Stations, gemini
    <2>2. ASSUME NEW m \in Messages, PassFilter(h, m) PROVE Stations'
      <3>1. Enter(h, "ready", "adding") /\ todo' = [todo EXCEPT ![h] = m] /\ UNCHANGED call
        BY <2>2 DEF PassFilter, gemini
      <3>2. /\ stage' \in [Threads -> Stages]
            /\ \A u \in Threads \ {h} : stage'[u] = stage[u]
        BY <1>0, <3>1, StageStep
      <3>3. QED
        BY <1>0, <3>1, <3>2 DEF Stations
    <2>3. CASE AddRead(h)
      BY <2>3 DEF AddRead, pipe, gate, gemini, Stations
    <2>4. CASE AddPush(h)
      <3>1. PICK to \in {"flushing", "ready"} : Enter(h, "adding", to)
        BY <2>4 DEF AddPush
      <3>2. todo' = [todo EXCEPT ![h] = None] /\ UNCHANGED call
        BY <2>4 DEF AddPush, gemini
      <3>3. /\ stage' \in [Threads -> Stages]
            /\ stage'[h] = to
            /\ \A u \in Threads \ {h} : stage'[u] = stage[u]
        BY <1>0, <3>1, StageStep
      <3>4. QED
        BY <1>0, <3>1, <3>2, <3>3 DEF Stations
    <2>5. QED
      BY <1>2, <2>1, <2>2, <2>3, <2>4 DEF HandlerStep
  <1>3. CASE PollRead
    <2>1. Enter(Timer, "ready", "polling") /\ UNCHANGED <<todo, call>>
      BY <1>3 DEF PollRead, gemini
    <2>2. QED
      BY <1>0, <1>1, <2>1 DEF Stations
  <1>4. CASE PollCheck
    <2>1. UNCHANGED <<todo, call>>
      BY <1>4 DEF PollCheck, gemini
    <2>2. PICK to \in {"flushing", "ready"} : Enter(Timer, "polling", to)
      BY <1>4 DEF PollCheck
    <2>3. QED
      BY <1>0, <1>1, <2>1, <2>2 DEF Stations
  <1>5. ASSUME NEW t \in Threads, FlushBuffer(t) PROVE Stations'
    <2>1. CASE FlushStep(t)
      BY <2>1 DEF FlushStep, pipe, gate, gemini, Stations
    <2>2. CASE FlushDone(t) \/ EmptyBatch(t) \/ GiveBack(t)
      <3>1. UNCHANGED <<todo, call>>
        BY <2>2 DEF FlushDone, EmptyBatch, GiveBack, gemini
      <3>2. \/ Enter(t, "flushing", "analyzing")
            \/ Enter(t, "analyzing", "ready")
            \/ Enter(t, "failed", "ready")
        BY <2>2 DEF FlushDone, EmptyBatch, GiveBack
      <3>3. QED
        BY <1>0, <1>1, <3>1, <3>2 DEF Stations
    <2>3. CASE Analyzing(t)
      <3>1. call' \in [Threads -> 0..MaxAttempts]
        BY <2>3, CallStep DEF Analyzing
      <3>2. QED
        BY <2>3, <3>1 DEF Analyzing, gate, Stations
    <2>4. CASE AnalyzeOk(t) \/ AnalyzeErr(t)
      <3>1. Gemini!Succeed(t) \/ Gemini!Fail(t)
        BY <2>4 DEF AnalyzeOk, AnalyzeErr
      <3>2. call' \in [Threads -> 0..MaxAttempts]
        BY <3>1, CallStep
      <3>3. /\ UNCHANGED todo
            /\ Enter(t, "analyzing", "ready") \/ Enter(t, "analyzing", "failed")
        BY <2>4 DEF AnalyzeOk, AnalyzeErr
      <3>4. QED
        BY <1>0, <1>1, <3>2, <3>3
    <2>5. QED
      BY <1>5, <2>1, <2>2, <2>3, <2>4 DEF FlushBuffer
  <1>6. CASE Time \/ Permits \/ UNCHANGED pvars
    BY <1>6 DEF Time, Permits, Gemini!Replenish, pvars, pipe, gate, gemini, Stations
  <1>7. QED
    BY <1>2, <1>3, <1>4, <1>5, <1>6 DEF PNext

LEMMA StationsInit == PInit => Stations
  BY PipelineAssumption DEF PInit, Stations, Stages, Gemini!Init, PipelineAssumption,
                            Gemini!ConstantsFit

\* The pipeline uses the buffer as its specification says, so everything proved
\* of the buffer above holds of the buffer in the pipeline.
THEOREM BufferImplemented == PSpec => Spec
  <1>1. PInit => Init
    BY DEF PInit
  <1>2. QED
    BY <1>1, StationsInit, StationsStep, StepOfBuffer, PTL DEF PSpec, Spec

\* In the pipeline, as around the buffer alone, messages are never doubled, are
\* lost only after an overlap and out of primary only, and the buffer is a pool.
THEOREM BufferInPipeline ==
    PSpec => [](TypeOK /\ NoDuplicates /\ LossNeedsOverlap) /\ SetAsideIsSafe /\ ImplementsPool
  BY BufferImplemented, TypeCorrect, NoDuplicatesEver, LossNeedsOverlapEver, SetAsideIsSafeEver,
     PoolImplemented, PTL

-----------------------------------------------------------------------------
(* The gate: gemini_available is not left off for ever.                    *)

\* RetryRemains is not inductive.  It needs to know that a flush finds primary
\* as it left it unless something overlapped (QuietWindow), that a call which
\* can still fail has a batch to give back (Calls), and that a task which is
\* about to take a batch has none yet (TypeOK).
RetryInv == TypeOK /\ QuietWindow /\ Stations /\ Calls /\ RetryRemains

LEMMA CallsStep == TypeOK /\ Stations /\ Calls /\ [PNext]_pvars => Calls'
  <1> SUFFICES ASSUME TypeOK, Stations, Calls, [PNext]_pvars PROVE Calls'
    OBVIOUS
  <1>0. /\ Handlers \subseteq Threads /\ Timer \in Threads
        /\ stage \in [Threads -> Stages]
        /\ {"ready", "adding", "polling", "flushing", "analyzing", "failed"} \subseteq Stages
        /\ batch \in [Threads -> Seq(Messages)]
    BY PipelineAssumption DEF PipelineAssumption, Handlers, Stations, Stages, TypeOK
  <1>1. ASSUME NEW t \in Threads, call'[t] = 0,
               \A u \in Threads \ {t} : /\ call'[u] = call[u] /\ stage'[u] = stage[u]
                                        /\ batch'[u] = batch[u]
        PROVE  Calls'
    BY <1>1 DEF Calls
  <1>2. ASSUME NEW t \in Threads, NEW from \in Stages \ {"analyzing"}, NEW to \in Stages,
               Enter(t, from, to), UNCHANGED <<call, batch>>
        PROVE  Calls'
    BY <1>0, <1>1, <1>2, StageStep DEF Calls
  <1>3. ASSUME NEW h \in Handlers, HandlerStep(h) PROVE Calls'
    <2>1. ASSUME NEW m \in Messages, RegexViolation(h, m) \/ Degrade(h, m) PROVE Calls'
      BY <2>1 DEF RegexViolation, Degrade, Calls, gemini, vars, locals
    <2>2. ASSUME NEW m \in Messages, PassFilter(h, m) PROVE Calls'
      <3>1. Enter(h, "ready", "adding") /\ UNCHANGED <<call, batch>>
        BY <2>2 DEF PassFilter, gemini, vars, locals
      <3>2. QED
        BY <1>0, <1>2, <3>1
    <2>3. CASE AddRead(h)
      BY <2>3 DEF AddRead, ReadFlushing, pipe, gate, gemini, Calls
    <2>4. CASE AddPush(h)
      <3>1. PICK to \in {"flushing", "ready"} : Enter(h, "adding", to)
        BY <2>4 DEF AddPush
      <3>2. UNCHANGED <<call, batch>>
        BY <2>4 DEF AddPush, Push, gemini
      <3>3. QED
        BY <1>0, <1>2, <3>1, <3>2
    <2>5. QED
      BY <1>3, <2>1, <2>2, <2>3, <2>4 DEF HandlerStep
  <1>4. CASE PollRead
    <2>1. Enter(Timer, "ready", "polling") /\ UNCHANGED <<call, batch>>
      BY <1>4 DEF PollRead, ReadLastFlush, gemini
    <2>2. QED
      BY <1>0, <1>2, <2>1
  <1>5. CASE PollCheck
    <2>1. UNCHANGED <<call, batch>>
      BY <1>5 DEF PollCheck, CheckTimeout, gemini
    <2>2. PICK to \in {"flushing", "ready"} : Enter(Timer, "polling", to)
      BY <1>5 DEF PollCheck
    <2>3. QED
      BY <1>0, <1>2, <2>1, <2>2
  <1>6. ASSUME NEW t \in Threads, FlushBuffer(t) PROVE Calls'
    <2>1. CASE FlushStep(t)
      <3>1. stage[t] = "flushing" /\ UNCHANGED <<stage, call>>
        BY <2>1 DEF FlushStep, pipe, gate, gemini
      <3>2. \A u \in Threads \ {t} : batch'[u] = batch[u]
        BY <1>0, <2>1 DEF FlushStep, BeginFlush, Take, Touch, locals
      <3>3. call[t] = 0
        BY <3>1 DEF Calls
      <3>4. QED
        BY <1>1, <3>1, <3>2, <3>3
    <2>2. CASE FlushDone(t)
      <3>1. Enter(t, "flushing", "analyzing") /\ UNCHANGED <<call, batch>>
        BY <2>2 DEF FlushDone, SwapBack, gemini, locals
      <3>2. QED
        BY <1>0, <1>2, <3>1
    <2>3. CASE EmptyBatch(t) \/ GiveBack(t)
      <3>1. /\ Enter(t, "analyzing", "ready") \/ Enter(t, "failed", "ready")
            /\ UNCHANGED call /\ batch' = [batch EXCEPT ![t] = <<>>]
        BY <2>3 DEF EmptyBatch, GiveBack, Consume, ReturnMessages, gemini
      <3>2. call[t] = 0
        BY <2>3 DEF EmptyBatch, GiveBack, Enter, Calls
      <3>3. \A u \in Threads \ {t} : stage'[u] = stage[u]
        BY <1>0, <3>1, StageStep
      <3>4. QED
        BY <1>0, <1>1, <3>1, <3>2, <3>3
    <2>4. CASE Analyzing(t)
      <3>1. stage[t] = "analyzing" /\ batch[t] # <<>> /\ UNCHANGED <<stage, batch>>
        BY <2>4 DEF Analyzing, vars, locals, gate
      <3>2. \A u \in Threads \ {t} : call'[u] = call[u]
        BY <2>4, CallStep DEF Analyzing
      <3>3. QED
        BY <3>1, <3>2 DEF Calls
    <2>5. CASE AnalyzeOk(t) \/ AnalyzeErr(t)
      <3>1. Gemini!Succeed(t) \/ Gemini!Fail(t)
        BY <2>5 DEF AnalyzeOk, AnalyzeErr
      <3>2. call'[t] = 0 /\ \A u \in Threads \ {t} : call'[u] = call[u]
        BY <3>1, CallStep
      <3>3. Enter(t, "analyzing", "ready") \/ Enter(t, "analyzing", "failed")
        BY <2>5 DEF AnalyzeOk, AnalyzeErr
      <3>4. \A u \in Threads \ {t} : stage'[u] = stage[u]
        BY <1>0, <3>3, StageStep
      <3>5. \A u \in Threads \ {t} : batch'[u] = batch[u]
        BY <1>0, <2>5 DEF AnalyzeOk, AnalyzeErr, Consume, vars, locals
      <3>6. QED
        BY <1>1, <3>2, <3>4, <3>5
    <2>6. QED
      BY <1>6, <2>1, <2>2, <2>3, <2>4, <2>5 DEF FlushBuffer
  <1>7. CASE Time \/ Permits \/ UNCHANGED pvars
    BY <1>7 DEF Time, Tick, Permits, Gemini!Replenish, pvars, vars, locals, pipe, gate, gemini, Calls
  <1>8. QED
    BY <1>3, <1>4, <1>5, <1>6, <1>7 DEF PNext

\* Where there was something to retry there still is, unless a success has
\* turned the gate on.
LEMMA RetryStep ==
  TypeOK /\ QuietWindow /\ Stations /\ Calls /\ RetryRemains /\ [PNext]_pvars => RetryRemains'
  <1> SUFFICES ASSUME TypeOK, QuietWindow, Stations, Calls, RetryRemains, [PNext]_pvars,
                      ~available', ~overlap'
               PROVE  primary' # <<>> \/ \E t \in Threads : batch'[t] # <<>>
    BY DEF RetryRemains
  <1> DEFINE Left == primary # <<>> \/ \E t \in Threads : batch[t] # <<>>
             LeftNext == primary' # <<>> \/ \E t \in Threads : batch'[t] # <<>>
  <1>0. /\ Handlers \subseteq Threads /\ Timer \in Threads
        /\ batch \in [Threads -> Seq(Messages)]
        /\ primary \in Seq(Messages)
    BY PipelineAssumption DEF PipelineAssumption, Handlers, TypeOK
  <1>1. ~overlap
    BY StepOfBuffer, OverlapStays
  <1>2. ~available => Left
    BY <1>1 DEF RetryRemains
  <1>3. ASSUME UNCHANGED <<primary, batch>>, UNCHANGED available PROVE LeftNext
    BY <1>2, <1>3
  <1>4. ASSUME NEW h \in Handlers, HandlerStep(h) PROVE LeftNext
    <2>1. UNCHANGED available
      BY <1>4 DEF HandlerStep, RegexViolation, PassFilter, Degrade, AddRead, AddPush, pipe, gate
    <2>2. CASE AddPush(h)
      <3>1. UNCHANGED batch
        BY <2>2 DEF AddPush, Push
      <3>2. arg[h] \in Messages
        BY <1>0, <2>2 DEF AddPush, Push, Goto, Pushing, TypeOK
      <3>3. UNCHANGED primary \/ primary' = Append(primary, arg[h])
        BY <2>2 DEF AddPush, Push
      <3>4. Append(primary, arg[h]) # <<>>
        BY <1>0, <3>2
      <3>5. QED
        BY <1>2, <2>1, <3>1, <3>3, <3>4
    <2>3. CASE ~AddPush(h)
      <3>1. UNCHANGED <<primary, batch>>
        BY <1>4, <2>3 DEF HandlerStep, RegexViolation, PassFilter, Degrade, AddRead, ReadFlushing,
                          vars, store, locals
      <3>2. QED
        BY <1>3, <2>1, <3>1
    <2>4. QED
      BY <2>2, <2>3
  <1>5. CASE PollRead \/ PollCheck
    BY <1>3, <1>5 DEF PollRead, PollCheck, ReadLastFlush, CheckTimeout, store, locals
  <1>6. ASSUME NEW t \in Threads, FlushBuffer(t) PROVE LeftNext
    <2>1. CASE FlushStep(t)
      <3>1. UNCHANGED available
        BY <2>1 DEF FlushStep, pipe, gate
      <3>2. CASE Take(t)
        <4>1. pc[t] = "take" /\ batch' = [batch EXCEPT ![t] = primary]
          BY <3>2 DEF Take, Goto
        <4>2. batch[t] = <<>>
          BY <4>1 DEF TypeOK
        <4>3. batch'[t] = primary /\ \A u \in Threads \ {t} : batch'[u] = batch[u]
          BY <1>0, <4>1
        <4>4. QED
          BY <1>2, <3>1, <4>2, <4>3
      <3>3. CASE BeginFlush(t) \/ Touch(t)
        BY <1>3, <3>1, <3>3 DEF BeginFlush, Touch, store, locals
      <3>4. QED
        BY <2>1, <3>2, <3>3 DEF FlushStep
    <2>2. CASE FlushDone(t)
      <3>1. UNCHANGED <<available, batch>> /\ pc[t] = "swap"
        BY <2>2 DEF FlushDone, SwapBack, Goto, locals
      <3>2. primary = <<>>
        BY <1>1, <3>1 DEF QuietWindow, PastTake
      <3>3. QED
        BY <1>2, <3>1, <3>2
    <2>3. CASE EmptyBatch(t)
      <3>1. /\ UNCHANGED <<available, primary>>
            /\ batch[t] = <<>> /\ batch' = [batch EXCEPT ![t] = <<>>]
        BY <2>3 DEF EmptyBatch, Consume, store
      <3>2. \A u \in Threads : batch'[u] = batch[u]
        BY <1>0, <3>1
      <3>3. QED
        BY <1>2, <3>1, <3>2
    <2>4. CASE Analyzing(t)
      BY <1>3, <2>4 DEF Analyzing, gate, vars, store, locals
    <2>5. CASE AnalyzeOk(t)
      BY <2>5 DEF AnalyzeOk
    <2>6. CASE AnalyzeErr(t)
      <3>1. call[t] # 0 /\ UNCHANGED batch
        BY <2>6, CallStep DEF AnalyzeErr, vars, locals
      <3>2. QED
        BY <3>1 DEF Calls
    <2>7. CASE GiveBack(t)
      <3>1. /\ UNCHANGED available
            /\ primary' = batch[t] \o primary /\ batch' = [batch EXCEPT ![t] = <<>>]
        BY <2>7 DEF GiveBack, ReturnMessages
      <3>2. \A u \in Threads \ {t} : batch'[u] = batch[u]
        BY <1>0, <3>1
      <3>3. batch[t] # <<>> \/ primary # <<>> => primary' # <<>>
        <4>1. batch[t] \in Seq(Messages)
          BY <1>0
        <4>2. QED
          BY <1>0, <3>1, <4>1
      <3>4. QED
        BY <1>2, <3>1, <3>2, <3>3
    <2>8. QED
      BY <1>6, <2>1, <2>2, <2>3, <2>4, <2>5, <2>6, <2>7 DEF FlushBuffer
  <1>7. CASE Time \/ Permits \/ UNCHANGED pvars
    BY <1>3, <1>7 DEF Time, Tick, Permits, pvars, vars, store, locals, pipe, gate
  <1>8. QED
    BY <1>4, <1>5, <1>6, <1>7 DEF PNext

\* gemini_available = false, which only the success of a later batch ends, never
\* becomes permanent with nothing left to analyse, unless a flush was overlapped:
\* the batch whose analysis failed, or what became of it, is still to be tried.
THEOREM RetryRemainsEver == PSpec => []RetryRemains
  <1>1. PInit => RetryInv
    <2>1. PInit => TypeOK /\ QuietWindow
      BY TypeInit, QuietInit DEF PInit
    <2>2. PInit => Calls /\ RetryRemains
      BY DEF PInit, Calls, RetryRemains, Gemini!Init
    <2>3. QED
      BY <2>1, <2>2, StationsInit DEF RetryInv
  <1>2. RetryInv /\ [PNext]_pvars => RetryInv'
    BY StepOfBuffer, TypeStep, WindowStep, StationsStep, CallsStep, RetryStep DEF RetryInv
  <1>3. RetryInv => RetryRemains
    BY DEF RetryInv
  <1>4. QED
    BY <1>1, <1>2, <1>3, PTL DEF PSpec
=============================================================================
