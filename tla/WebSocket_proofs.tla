-------------------------- MODULE WebSocket_proofs --------------------------
(***************************************************************************)
(* Proofs about the subscriptions of a user's WebSocket connections and    *)
(* the map that counts them, for any number of connections, any guilds and *)
(* any limit.                                                              *)
(***************************************************************************)
EXTENDS WebSocket, FiniteSetTheorems, TLAPS

-----------------------------------------------------------------------------
(* Counting receivers.                                                     *)

Held(f) == {r \in Conns \X (1..MaxSubs) : r[2] <= f[r[1]]}
HeldBy(c, f) == {r \in Held(f) : r[1] = c}
HeldByOthers(c, f) == {r \in Held(f) : r[1] # c}

LEMMA HeldFinite ==
  ASSUME NEW f
  PROVE  IsFiniteSet(Conns \X (1..MaxSubs)) /\ IsFiniteSet(Held(f))
  <1>1. IsFiniteSet(Conns) /\ MaxSubs \in Nat
    BY WebSocketAssumption DEF WebSocketAssumption
  <1>2. IsFiniteSet(1..MaxSubs)
    BY <1>1, FS_Interval
  <1>3. IsFiniteSet(Conns \X (1..MaxSubs))
    BY <1>1, <1>2, FS_Product
  <1>4. Held(f) \in SUBSET (Conns \X (1..MaxSubs))
    BY DEF Held
  <1>5. QED
    BY <1>3, <1>4, FS_Subset

\* A connection has as many receivers as its entry says.
LEMMA HeldByOne ==
  ASSUME NEW f \in [Conns -> 0..MaxSubs], NEW c \in Conns
  PROVE  IsFiniteSet(HeldBy(c, f)) /\ Cardinality(HeldBy(c, f)) = f[c]
  <1>1. MaxSubs \in Nat /\ f[c] \in 0..MaxSubs
    BY WebSocketAssumption DEF WebSocketAssumption
  <1>2. HeldBy(c, f) = {c} \X (1..f[c])
    <2>1. ASSUME NEW r \in HeldBy(c, f) PROVE r \in {c} \X (1..f[c])
      <3>1. r \in Conns \X (1..MaxSubs) /\ r[2] <= f[r[1]] /\ r[1] = c
        BY <2>1 DEF HeldBy, Held
      <3>2. r = <<r[1], r[2]>> /\ r[2] \in 1..MaxSubs
        BY <3>1
      <3>3. r[2] \in 1..f[c]
        BY <1>1, <3>1, <3>2
      <3>4. QED
        BY <3>1, <3>2, <3>3
    <2>2. ASSUME NEW i \in 1..f[c] PROVE <<c, i>> \in HeldBy(c, f)
      <3>1. i \in 1..MaxSubs /\ i <= f[c]
        BY <1>1
      <3>2. QED
        BY <3>1 DEF HeldBy, Held
    <2>3. QED
      BY <2>1, <2>2
  <1>3. IsFiniteSet({c}) /\ Cardinality({c}) = 1
    BY FS_Singleton
  <1>4. IsFiniteSet(1..f[c]) /\ Cardinality(1..f[c]) = f[c]
    BY <1>1, FS_Interval
  <1>5. IsFiniteSet({c} \X (1..f[c])) /\ Cardinality({c} \X (1..f[c])) = 1 * f[c]
    <2> DEFINE One == {c}
               Its == 1..f[c]
    <2>1. IsFiniteSet(One) /\ IsFiniteSet(Its) /\ Cardinality(One) = 1 /\ Cardinality(Its) = f[c]
      BY <1>3, <1>4
    <2> HIDE DEF One, Its
    <2>2. IsFiniteSet(One \X Its) /\ Cardinality(One \X Its) = Cardinality(One) * Cardinality(Its)
      BY <2>1, FS_Product
    <2>3. QED
      BY <2>1, <2>2 DEF One, Its
  <1>6. QED
    BY <1>1, <1>2, <1>5

LEMMA HeldSplit ==
  ASSUME NEW f \in [Conns -> 0..MaxSubs], NEW c \in Conns
  PROVE  /\ Cardinality(HeldByOthers(c, f)) \in Nat
         /\ Cardinality(Held(f)) = Cardinality(HeldByOthers(c, f)) + f[c]
  <1>1. IsFiniteSet(Held(f))
    BY HeldFinite
  <1>2. IsFiniteSet(HeldBy(c, f)) /\ Cardinality(HeldBy(c, f)) = f[c] /\ f[c] \in Nat
    BY HeldByOne
  <1>3. HeldByOthers(c, f) \in SUBSET Held(f)
    BY DEF HeldByOthers
  <1>4. IsFiniteSet(HeldByOthers(c, f))
    BY <1>1, <1>3, FS_Subset
  <1>5. Cardinality(HeldByOthers(c, f)) \in Nat
    BY <1>4, FS_CardinalityType
  <1>6. /\ HeldByOthers(c, f) \cup HeldBy(c, f) = Held(f)
        /\ HeldByOthers(c, f) \cap HeldBy(c, f) = {}
    BY DEF HeldByOthers, HeldBy
  <1>7. Cardinality({}) = 0
    BY FS_EmptySet
  <1>8. Cardinality(HeldByOthers(c, f) \cup HeldBy(c, f)) =
          Cardinality(HeldByOthers(c, f)) + Cardinality(HeldBy(c, f))
            - Cardinality(HeldByOthers(c, f) \cap HeldBy(c, f))
    BY <1>2, <1>4, FS_Union
  <1>9. Cardinality(Held(f)) = Cardinality(HeldByOthers(c, f)) + f[c] - 0
    BY <1>2, <1>6, <1>7, <1>8
  <1> HIDE DEF HeldByOthers, Held
  <1>10. QED
    BY <1>2, <1>5, <1>9

\* The number of receivers changes by what one connection's entry does.
LEMMA HeldChange ==
  ASSUME NEW f \in [Conns -> 0..MaxSubs], NEW h \in [Conns -> 0..MaxSubs], NEW c \in Conns,
         \A d \in Conns \ {c} : h[d] = f[d]
  PROVE  \E o \in Nat : Cardinality(Held(f)) = o + f[c] /\ Cardinality(Held(h)) = o + h[c]
  <1>1. HeldByOthers(c, f) = HeldByOthers(c, h)
    BY DEF HeldByOthers, Held
  <1>2. QED
    BY <1>1, HeldSplit

Subs == [Conns -> [Guilds -> 0..MaxSubs]]

LEMMA TotalStep ==
  ASSUME subs \in Subs, subs' \in Subs, NEW g \in Guilds, NEW c \in Conns,
         \A d \in Conns \ {c} : subs'[d][g] = subs[d][g]
  PROVE  \E o \in Nat : Total(g) = o + subs[c][g] /\ Total(g)' = o + subs'[c][g]
  <1> DEFINE f == [d \in Conns |-> subs[d][g]]
             h == [d \in Conns |-> subs'[d][g]]
  <1>1. f \in [Conns -> 0..MaxSubs] /\ h \in [Conns -> 0..MaxSubs]
    BY DEF Subs
  <1>2. \A d \in Conns \ {c} : h[d] = f[d]
    OBVIOUS
  <1>3. Receivers(g) = Held(f) /\ Receivers(g)' = Held(h)
    BY DEF Receivers, Held
  <1>4. f[c] = subs[c][g] /\ h[c] = subs'[c][g]
    OBVIOUS
  <1> HIDE DEF f, h
  <1>5. \E o \in Nat : Cardinality(Held(f)) = o + f[c] /\ Cardinality(Held(h)) = o + h[c]
    BY <1>1, <1>2, HeldChange
  <1>6. QED
    BY <1>3, <1>4, <1>5 DEF Total

LEMMA TotalSame ==
  ASSUME NEW g \in Guilds, \A d \in Conns : subs'[d][g] = subs[d][g]
  PROVE  Total(g)' = Total(g)
  BY DEF Total, Receivers

LEMMA TotalType ==
  ASSUME NEW g \in Guilds
  PROVE  Total(g) \in Nat
  <1>1. Receivers(g) \in SUBSET (Conns \X (1..MaxSubs))
    BY DEF Receivers
  <1>2. IsFiniteSet(Receivers(g))
    BY <1>1, HeldFinite, FS_Subset
  <1>3. QED
    BY <1>2, FS_CardinalityType DEF Total

-----------------------------------------------------------------------------
(* Type correctness.                                                       *)

Places ==
    /\ step \in [Conns -> Steps]
    /\ at \in [Conns -> Guilds \cup {None}]
    /\ \A c \in Conns : at[c] # None <=> step[c] \in Removing

Sockets ==
    /\ subs \in Subs
    /\ \A c \in Conns, g \in Guilds : step[c] = "closed" => subs[c][g] = 0
    /\ awaiting \in [Conns -> BOOLEAN]
    /\ silent \in [Conns -> BOOLEAN]

Counts == count \in [Guilds -> 0..Limit \cup {None}]
Opened == {c \in Conns : step[c] # "closed"}
History == leaked \subseteq Guilds /\ forgotten \subseteq Guilds

LEMMA TypeParts ==
  TypeOK <=> Places /\ Sockets /\ Counts /\ connected = Cardinality(Opened) /\ History
  BY DEF TypeOK, Places, Sockets, Counts, Opened, History, Subs

LEMMA TypePartsNext ==
  TypeOK' <=> Places' /\ Sockets' /\ Counts' /\ connected' = Cardinality(Opened)' /\ History'
  BY DEF TypeOK, Places, Sockets, Counts, Opened, History, Subs

LEMMA StepNames ==
  /\ Steps = {"closed", "open", "remove", "cleanup", "cleanup_remove"}
  /\ Removing = {"remove", "cleanup_remove"}
  BY DEF Steps, Removing

LEMMA GoesStep ==
  ASSUME Places, NEW c \in Conns, NEW s \in Steps, Goes(c, s)
  PROVE  /\ step' \in [Conns -> Steps]
         /\ step'[c] = s
         /\ \A d \in Conns \ {c} : step'[d] = step[d]
  BY DEF Places, Goes

\* A connection that neither begins nor ends a removal.
LEMMA PlacesKept ==
  ASSUME Places, NEW c \in Conns, NEW s \in Steps \ Removing, Goes(c, s),
         step[c] \notin Removing, UNCHANGED at
  PROVE  Places'
  BY GoesStep DEF Places

LEMMA OpenedFinite == IsFiniteSet(Opened)
  <1>1. IsFiniteSet(Conns) /\ Opened \in SUBSET Conns
    BY WebSocketAssumption DEF WebSocketAssumption, Opened
  <1>2. QED
    BY <1>1, FS_Subset

\* What one handling of a message or a tick may do to the counts.
LEMMA CountType ==
  ASSUME Counts, NEW g \in Guilds
  PROVE  /\ Limit \in Nat /\ None \notin Nat
         /\ Count(g) \in 0..Limit
         /\ count[g] # None => count[g] \in 0..Limit /\ Count(g) = count[g]
         /\ count[g] = None => Count(g) = 0
  BY WebSocketAssumption DEF WebSocketAssumption, Counts, Count

LEMMA GiveBackStep ==
  ASSUME Places, Counts, NEW c \in Conns, NEW g \in Guilds,
         NEW removing \in Removing, NEW after \in Steps \ Removing,
         step[c] \notin Removing,
         GiveBack(c, g, removing, after)
  PROVE  /\ Places' /\ Counts'
         /\ step'[c] \in {removing, after}
         /\ \A d \in Conns \ {c} : step'[d] = step[d]
         /\ Count(g)' = IF Count(g) = 0 THEN 0 ELSE Count(g) - 1
         /\ \A h \in Guilds \ {g} : count'[h] = count[h]
  <1>0. /\ Limit \in Nat /\ None \notin Nat \cup Guilds
        /\ count \in [Guilds -> 0..Limit \cup {None}]
        /\ removing \in Steps
    BY WebSocketAssumption, StepNames DEF WebSocketAssumption, Counts
  <1>1. /\ Counts'
        /\ Count(g)' = IF Count(g) = 0 THEN 0 ELSE Count(g) - 1
        /\ \A h \in Guilds \ {g} : count'[h] = count[h]
    <2>1. CASE count[g] \in {None, 0}
      <3>1. count' = count
        BY <2>1 DEF GiveBack
      <3>2. QED
        BY <1>0, <2>1, <3>1 DEF Counts, Count
    <2>2. CASE count[g] \notin {None, 0}
      <3>1. count' = [count EXCEPT ![g] = count[g] - 1]
        BY <2>2 DEF GiveBack
      <3>2. count[g] \in 1..Limit
        BY <1>0, <2>2
      <3>3. count[g] - 1 \in 0..Limit /\ count[g] - 1 # None
        BY <1>0, <3>2
      <3>4. count'[g] = count[g] - 1 /\ \A h \in Guilds \ {g} : count'[h] = count[h]
        BY <1>0, <3>1
      <3>5. Counts'
        BY <1>0, <3>1, <3>3 DEF Counts
      <3>6. QED
        BY <1>0, <3>2, <3>3, <3>4, <3>5 DEF Count
    <2>3. QED
      BY <2>1, <2>2
  <1>2. /\ Places'
        /\ step'[c] \in {removing, after}
        /\ \A d \in Conns \ {c} : step'[d] = step[d]
    <2>1. CASE count[g] \in {0, 1}
      <3>1. Goes(c, removing) /\ at' = [at EXCEPT ![c] = g]
        BY <2>1 DEF GiveBack
      <3>2. at'[c] = g /\ g # None /\ \A d \in Conns \ {c} : at'[d] = at[d]
        BY <1>0, <3>1 DEF Places
      <3>3. at' \in [Conns -> Guilds \cup {None}]
        BY <3>1 DEF Places
      <3>4. QED
        BY <1>0, <3>1, <3>2, <3>3, GoesStep DEF Places
    <2>2. CASE count[g] \notin {0, 1}
      <3>1. Goes(c, after) /\ UNCHANGED at
        BY <2>2 DEF GiveBack
      <3>2. QED
        BY <3>1, PlacesKept, GoesStep
    <2>3. QED
      BY <2>1, <2>2
  <1>3. QED
    BY <1>1, <1>2

LEMMA RemoveKeyStep ==
  ASSUME Places, Counts, NEW c \in Conns, RemoveKey(c)
  PROVE  /\ Places' /\ Counts'
         /\ step[c] # "closed" /\ step'[c] # "closed"
         /\ \A d \in Conns \ {c} : step'[d] = step[d]
         /\ \E g \in Guilds : /\ g = at[c] /\ Count(g)' = 0
                             /\ \A h \in Guilds \ {g} : count'[h] = count[h]
  <1>0. None \notin Nat \cup Guilds /\ step[c] \in Removing
    BY WebSocketAssumption DEF WebSocketAssumption, RemoveKey
  <1>1. at[c] \in Guilds
    BY <1>0 DEF Places
  <1>2. PICK s \in {"open", "cleanup"} : Goes(c, s)
    BY DEF RemoveKey
  <1>3. at' = [at EXCEPT ![c] = None] /\ count' = [count EXCEPT ![at[c]] = None]
    BY DEF RemoveKey
  <1>4. s \in Steps \ Removing /\ step[c] # "closed"
    BY <1>0, <1>2, StepNames
  <1>5. /\ step' \in [Conns -> Steps]
        /\ step'[c] = s
        /\ \A d \in Conns \ {c} : step'[d] = step[d]
    BY <1>2, <1>4, GoesStep
  <1>6. Places'
    <2>1. at'[c] = None /\ \A d \in Conns \ {c} : at'[d] = at[d]
      BY <1>3 DEF Places
    <2>2. at' \in [Conns -> Guilds \cup {None}]
      BY <1>3 DEF Places
    <2>3. QED
      BY <1>4, <1>5, <2>1, <2>2 DEF Places
  <1>7. Counts'
    BY <1>1, <1>3 DEF Counts
  <1>8. count'[at[c]] = None /\ \A h \in Guilds \ {at[c]} : count'[h] = count[h]
    BY <1>1, <1>3 DEF Counts
  <1>9. ASSUME NEW g \in Guilds, g = at[c] PROVE Count(g)' = 0
    BY <1>8, <1>9 DEF Count
  <1>10. QED
    BY <1>1, <1>4, <1>5, <1>6, <1>7, <1>8, <1>9

\* A step that closes and opens nothing.
LEMMA ConnectedKept ==
  ASSUME connected = Cardinality(Opened), UNCHANGED connected,
         \A d \in Conns : step'[d] = "closed" <=> step[d] = "closed"
  PROVE  connected' = Cardinality(Opened)'
  <1>1. Opened' = Opened
    BY DEF Opened
  <1>2. QED
    BY <1>1

\* Histories forget a guild as soon as its count is right again.
LEMMA RememberStep ==
  ASSUME History, NEW l \in SUBSET Guilds, NEW f \in SUBSET Guilds, Remember(l, f)
  PROVE  /\ History'
         /\ \A g \in Guilds : /\ g \notin leaked' => g \notin leaked \cup l \/ Count(g)' = Total(g)'
                              /\ g \notin forgotten' => g \notin forgotten \cup f \/ Count(g)' = Total(g)'
  BY DEF History, Remember, Agrees

\* The loop is left by the connection that breaks off, and by that one only.
LEMMA BreakStep ==
  ASSUME TypeOK, NEW c \in Conns, step[c] = "open", Break(c)
  PROVE  TypeOK'
  <1>0. /\ Places /\ Sockets /\ Counts /\ connected = Cardinality(Opened) /\ History
        /\ "cleanup" \in Steps \ Removing /\ step[c] \notin Removing
    BY TypeParts, StepNames
  <1>1. /\ Goes(c, "cleanup")
        /\ UNCHANGED <<at, subs, awaiting, silent, count, connected, leaked, forgotten>>
    BY DEF Break
  <1>2. /\ step'[c] = "cleanup"
        /\ \A d \in Conns \ {c} : step'[d] = step[d]
    BY <1>0, <1>1, GoesStep
  <1>3. Places'
    BY <1>0, <1>1, PlacesKept
  <1>4. Sockets'
    BY <1>0, <1>1, <1>2 DEF Sockets
  <1>5. connected' = Cardinality(Opened)'
    BY <1>0, <1>1, <1>2, ConnectedKept
  <1>6. QED
    BY <1>0, <1>1, <1>3, <1>4, <1>5, TypePartsNext DEF Counts, History

LEMMA TypeStep == TypeOK /\ [Next]_vars => TypeOK'
  <1> SUFFICES ASSUME TypeOK, [Next]_vars PROVE TypeOK'
    OBVIOUS
  <1>0. Places /\ Sockets /\ Counts /\ connected = Cardinality(Opened) /\ History
    BY TypeParts
  <1>1. ASSUME NEW c \in Conns, Connect(c) PROVE TypeOK'
    <2>1. /\ step[c] = "closed" /\ Goes(c, "open")
          /\ awaiting' = [awaiting EXCEPT ![c] = FALSE]
          /\ silent' = [silent EXCEPT ![c] = FALSE]
          /\ connected' = connected + 1
          /\ UNCHANGED <<at, subs, count, leaked, forgotten>>
      BY <1>1 DEF Connect
    <2>2. "open" \in Steps \ Removing /\ "closed" \notin Removing
      BY StepNames
    <2>3. step'[c] = "open" /\ \A d \in Conns \ {c} : step'[d] = step[d]
      BY <1>0, <2>1, <2>2, GoesStep
    <2>4. Places'
      BY <1>0, <2>1, <2>2, PlacesKept
    <2>5. Sockets'
      BY <1>0, <2>1, <2>3 DEF Sockets
    <2>6. Opened' = Opened \cup {c} /\ c \notin Opened
      BY <2>1, <2>3 DEF Opened
    <2>7. connected' = Cardinality(Opened)'
      BY <1>0, <2>1, <2>6, OpenedFinite, FS_AddElement
    <2>8. QED
      BY <1>0, <2>1, <2>4, <2>5, <2>7, TypePartsNext DEF Counts, History
  <1>2. ASSUME NEW c \in Conns, Closed(c) PROVE TypeOK'
    <2>1. /\ step[c] = "cleanup" /\ Goes(c, "closed")
          /\ \A g \in Guilds : subs[c][g] = 0
          /\ connected' = connected - 1
          /\ UNCHANGED <<at, subs, awaiting, silent, count, leaked, forgotten>>
      BY <1>2 DEF Closed
    <2>2. "closed" \in Steps \ Removing /\ "cleanup" \notin Removing
      BY StepNames
    <2>3. step'[c] = "closed" /\ \A d \in Conns \ {c} : step'[d] = step[d]
      BY <1>0, <2>1, <2>2, GoesStep
    <2>4. Places'
      BY <1>0, <2>1, <2>2, PlacesKept
    <2>5. Sockets'
      BY <1>0, <2>1, <2>3 DEF Sockets
    <2>6. Opened' = Opened \ {c} /\ c \in Opened
      BY <2>1, <2>3 DEF Opened
    <2>7. connected' = Cardinality(Opened)'
      BY <1>0, <2>1, <2>6, OpenedFinite, FS_RemoveElement
    <2>8. QED
      BY <1>0, <2>1, <2>4, <2>5, <2>7, TypePartsNext DEF Counts, History
  <1>3. ASSUME NEW c \in Conns, Pong(c) \/ GoSilent(c) PROVE TypeOK'
    <2>1. /\ awaiting' \in [Conns -> BOOLEAN] /\ silent' \in [Conns -> BOOLEAN]
          /\ UNCHANGED <<step, at, subs, count, connected, leaked, forgotten>>
      BY <1>0, <1>3 DEF Pong, GoSilent, Sockets
    <2>2. Opened' = Opened
      BY <2>1 DEF Opened
    <2>3. QED
      BY <1>0, <2>1, <2>2, TypePartsNext DEF Places, Sockets, Counts, History
  <1>4. ASSUME NEW c \in Conns, Close(c) \/ Times(c) PROVE TypeOK'
    <2>1. CASE step[c] = "open" /\ Break(c)
      BY <2>1, BreakStep
    <2>2. CASE ~Break(c)
      <3>1. /\ awaiting' = [awaiting EXCEPT ![c] = TRUE]
            /\ UNCHANGED <<step, at, subs, silent, count, connected, leaked, forgotten>>
        BY <1>4, <2>2 DEF Close, Times, PingTick, PongTimeout
      <3>2. Opened' = Opened
        BY <3>1 DEF Opened
      <3>3. QED
        BY <1>0, <3>1, <3>2, TypePartsNext DEF Places, Sockets, Counts, History
    <2>3. QED
      BY <1>4, <2>1, <2>2 DEF Close, Times, PingTick, PongTimeout
  <1>5. ASSUME NEW c \in Conns, NEW g \in Guilds, Subscribe(c, g) PROVE TypeOK'
    <2>1. /\ step[c] = "open" /\ Count(g) < Limit /\ subs[c][g] < MaxSubs
          /\ count' = [count EXCEPT ![g] = Count(g) + 1]
          /\ subs' = [subs EXCEPT ![c][g] = subs[c][g] + 1]
          /\ UNCHANGED <<step, at, awaiting, silent, connected, leaked, forgotten>>
      BY <1>5 DEF Subscribe, Hears, BelowLimit
    <2>2. Count(g) + 1 \in 0..Limit
      BY <1>0, <2>1, CountType
    <2>3. Counts'
      BY <1>0, <2>1, <2>2 DEF Counts
    <2>4. subs[c][g] \in 0..MaxSubs /\ MaxSubs \in Nat
      BY <1>0, WebSocketAssumption DEF WebSocketAssumption, Sockets, Subs
    <2>5. subs[c][g] + 1 \in 0..MaxSubs
      BY <2>1, <2>4
    <2>6. subs' \in Subs /\ \A d \in Conns \ {c} : subs'[d] = subs[d]
      BY <1>0, <2>1, <2>5 DEF Sockets, Subs
    <2>7. Sockets'
      BY <1>0, <2>1, <2>6 DEF Sockets
    <2>8. Opened' = Opened
      BY <2>1 DEF Opened
    <2>9. QED
      BY <1>0, <2>1, <2>3, <2>7, <2>8, TypePartsNext DEF Places, History
  <1>6. ASSUME NEW c \in Conns, NEW g \in Guilds, Unsubscribe(c, g) PROVE TypeOK'
    <2>1. /\ step[c] = "open" /\ subs' = [subs EXCEPT ![c][g] = 0]
          /\ GiveBack(c, g, "remove", "open")
          /\ UNCHANGED <<awaiting, silent, connected>>
      BY <1>6 DEF Unsubscribe, Hears
    <2>2. "remove" \in Removing /\ "open" \in Steps \ Removing
      BY StepNames
    <2>3. /\ Places' /\ Counts' /\ step'[c] \in {"remove", "open"}
          /\ \A d \in Conns \ {c} : step'[d] = step[d]
      BY <1>0, <2>1, <2>2, GiveBackStep
    <2>4. MaxSubs \in Nat
      BY WebSocketAssumption DEF WebSocketAssumption
    <2>5. subs' \in Subs /\ \A d \in Conns \ {c} : subs'[d] = subs[d]
      BY <1>0, <2>1, <2>4 DEF Sockets, Subs
    <2>6. Sockets'
      BY <1>0, <2>1, <2>3, <2>5 DEF Sockets
    <2>7. connected' = Cardinality(Opened)'
      BY <1>0, <2>1, <2>3, ConnectedKept
    <2>8. History'
      <3>1. PICK l \in SUBSET Guilds, f \in SUBSET Guilds : Remember(l, f)
        BY <1>6 DEF Unsubscribe
      <3>2. QED
        BY <1>0, <3>1, RememberStep
    <2>9. QED
      BY <2>3, <2>6, <2>7, <2>8, TypePartsNext
  <1>7. ASSUME NEW c \in Conns, RemoveKey(c) PROVE TypeOK'
    <2>1. /\ Places' /\ Counts' /\ step[c] # "closed" /\ step'[c] # "closed"
          /\ \A d \in Conns \ {c} : step'[d] = step[d]
          /\ \E g \in Guilds : g = at[c]
      BY <1>0, <1>7, RemoveKeyStep
    <2>2. UNCHANGED <<subs, awaiting, silent, connected>>
      BY <1>7 DEF RemoveKey
    <2>3. Sockets'
      BY <1>0, <2>1, <2>2 DEF Sockets
    <2>4. connected' = Cardinality(Opened)'
      BY <1>0, <2>1, <2>2, ConnectedKept
    <2>5. History'
      <3>1. PICK f \in SUBSET Guilds : Remember({}, f)
        BY <1>7, <2>1 DEF RemoveKey
      <3>2. QED
        BY <1>0, <3>1, RememberStep
    <2>6. QED
      BY <2>1, <2>3, <2>4, <2>5, TypePartsNext
  <1>8. ASSUME NEW c \in Conns, NEW g \in Guilds, Release(c, g) PROVE TypeOK'
    <2>1. /\ step[c] = "cleanup" /\ subs[c][g] > 0
          /\ subs' = [subs EXCEPT ![c][g] = subs[c][g] - 1]
          /\ GiveBack(c, g, "cleanup_remove", "cleanup")
          /\ Remember({}, {})
          /\ UNCHANGED <<awaiting, silent, connected>>
      BY <1>8 DEF Release
    <2>2. /\ "cleanup_remove" \in Removing
          /\ "cleanup" \in Steps \ Removing
      BY StepNames
    <2>3. /\ Places' /\ Counts' /\ step'[c] \in {"cleanup_remove", "cleanup"}
          /\ \A d \in Conns \ {c} : step'[d] = step[d]
      BY <1>0, <2>1, <2>2, GiveBackStep
    <2>4. subs[c][g] \in 0..MaxSubs /\ MaxSubs \in Nat
      BY <1>0, WebSocketAssumption DEF WebSocketAssumption, Sockets, Subs
    <2>5. subs[c][g] - 1 \in 0..MaxSubs
      BY <2>1, <2>4
    <2>6. subs' \in Subs /\ \A d \in Conns \ {c} : subs'[d] = subs[d]
      BY <1>0, <2>1, <2>5 DEF Sockets, Subs
    <2>7. Sockets'
      BY <1>0, <2>1, <2>3, <2>6 DEF Sockets
    <2>8. connected' = Cardinality(Opened)'
      BY <1>0, <2>1, <2>3, ConnectedKept
    <2>9. History'
      BY <1>0, <2>1, RememberStep
    <2>10. QED
      BY <2>3, <2>7, <2>8, <2>9, TypePartsNext
  <1>9. CASE UNCHANGED vars
    BY <1>9 DEF vars, cvars, TypeOK
  <1>10. QED
    BY <1>1, <1>2, <1>3, <1>4, <1>5, <1>6, <1>7, <1>8, <1>9 DEF Next, CleansUp

LEMMA TypeInit == Init => TypeOK
  <1> SUFFICES ASSUME Init PROVE TypeOK
    OBVIOUS
  <1>1. Opened = {} /\ connected = 0
    BY DEF Init, Opened
  <1>2. connected = Cardinality(Opened)
    BY <1>1, FS_EmptySet
  <1>3. MaxSubs \in Nat
    BY WebSocketAssumption DEF WebSocketAssumption
  <1>4. Places /\ Sockets /\ Counts /\ History
    BY <1>3, StepNames DEF Init, Places, Sockets, Subs, Counts, History
  <1>5. QED
    BY <1>2, <1>4, TypeParts

\* Connections, their receivers and the map are what the code takes them for;
\* the map never exceeds the limit, and connection_count is the number of
\* connections there are.
THEOREM TypeCorrect == Spec => []TypeOK
  BY TypeInit, TypeStep, PTL DEF Spec

-----------------------------------------------------------------------------
(* The map against the receivers.                                          *)

\* LimitHolds is not inductive: the limit is checked against the map.  What is
\* preserved is that the map counts every receiver of a guild, unless it was
\* made to forget some, and no receiver that is gone, unless one leaked.
Balance ==
    \A g \in Guilds : /\ g \notin forgotten => Total(g) <= Count(g)
                      /\ g \notin leaked => Count(g) <= Total(g)

LEMMA BalanceStep == TypeOK /\ Balance /\ [Next]_vars => Balance'
  <1> SUFFICES ASSUME TypeOK, Balance, [Next]_vars, NEW g \in Guilds
               PROVE  /\ g \notin forgotten' => Total(g)' <= Count(g)'
                      /\ g \notin leaked' => Count(g)' <= Total(g)'
    BY DEF Balance
  <1>0. /\ Places /\ Sockets /\ Counts /\ History
        /\ Count(g) \in 0..Limit /\ Total(g) \in Nat /\ Limit \in Nat
        /\ g \notin forgotten => Total(g) <= Count(g)
        /\ g \notin leaked => Count(g) <= Total(g)
    BY TypeParts, CountType, TotalType DEF Balance
  <1>00. TypeOK' /\ Places' /\ Sockets' /\ Counts' /\ History'
    BY TypeStep, TypePartsNext
  <1>01. Count(g)' \in 0..Limit /\ Total(g)' \in Nat
    <2>1. Receivers(g)' \in SUBSET (Conns \X (1..MaxSubs))
      BY DEF Receivers
    <2>2. IsFiniteSet(Receivers(g)')
      BY <2>1, HeldFinite, FS_Subset
    <2>3. Total(g)' \in Nat
      BY <2>2, FS_CardinalityType DEF Total
    <2>4. Count(g)' \in 0..Limit
      BY <1>00, WebSocketAssumption DEF WebSocketAssumption, Counts, Count
    <2>5. QED
      BY <2>3, <2>4
  <1>1. ASSUME UNCHANGED <<subs, count, leaked, forgotten>>
        PROVE  /\ g \notin forgotten' => Total(g)' <= Count(g)'
               /\ g \notin leaked' => Count(g)' <= Total(g)'
    <2>1. Total(g)' = Total(g) /\ Count(g)' = Count(g)
      BY <1>1 DEF Total, Receivers, Count
    <2>2. QED
      BY <1>0, <1>1, <2>1
  <1>2. ASSUME NEW c \in Conns, Connect(c) \/ Pong(c) \/ GoSilent(c) \/ Close(c) \/ Times(c) \/ Closed(c)
        PROVE  UNCHANGED <<subs, count, leaked, forgotten>>
    BY <1>2 DEF Connect, Pong, GoSilent, Close, Times, PingTick, PongTimeout, Break, Closed
  <1>3. ASSUME NEW l \in SUBSET Guilds, NEW f \in SUBSET Guilds, Remember(l, f),
               g \notin forgotten \cup f => Total(g)' <= Count(g)',
               g \notin leaked \cup l => Count(g)' <= Total(g)'
        PROVE  /\ g \notin forgotten' => Total(g)' <= Count(g)'
               /\ g \notin leaked' => Count(g)' <= Total(g)'
    <2>1. /\ g \notin leaked' => g \notin leaked \cup l \/ Count(g)' = Total(g)'
          /\ g \notin forgotten' => g \notin forgotten \cup f \/ Count(g)' = Total(g)'
      BY <1>0, <1>3, RememberStep
    <2>2. QED
      BY <1>01, <1>3, <2>1
  <1>4. ASSUME NEW c \in Conns, NEW k \in Guilds, Subscribe(c, k)
        PROVE  /\ g \notin forgotten' => Total(g)' <= Count(g)'
               /\ g \notin leaked' => Count(g)' <= Total(g)'
    <2>1. /\ count' = [count EXCEPT ![k] = Count(k) + 1]
          /\ subs' = [subs EXCEPT ![c][k] = subs[c][k] + 1]
          /\ UNCHANGED <<leaked, forgotten>>
      BY <1>4 DEF Subscribe
    <2>2. /\ subs \in Subs /\ subs' \in Subs
          /\ \A d \in Conns \ {c} : subs'[d] = subs[d]
          /\ subs'[c][k] = subs[c][k] + 1
          /\ \A h \in Guilds \ {k} : subs'[c][h] = subs[c][h]
      BY <1>0, <1>00, <2>1 DEF Sockets, Subs
    <2>3. CASE g = k
      <3>1. \E o \in Nat : Total(g) = o + subs[c][g] /\ Total(g)' = o + subs'[c][g]
        BY <2>2, TotalStep
      <3>2. subs[c][g] \in Nat
        BY <2>2 DEF Subs
      <3>3. Total(g)' = Total(g) + 1
        BY <2>2, <2>3, <3>1, <3>2
      <3>4. count'[g] = Count(g) + 1 /\ None \notin Nat
        BY <1>0, <2>1, <2>3, WebSocketAssumption DEF Counts, WebSocketAssumption
      <3>5. Count(g)' = Count(g) + 1
        BY <1>0, <3>4 DEF Count
      <3>6. QED
        BY <1>0, <2>1, <3>3, <3>5
    <2>4. CASE g # k
      <3>1. Total(g)' = Total(g)
        BY <2>2, <2>4, TotalSame
      <3>2. count'[g] = count[g]
        BY <1>0, <2>1, <2>4 DEF Counts
      <3>3. QED
        BY <1>0, <2>1, <3>1, <3>2 DEF Count
    <2>5. QED
      BY <2>3, <2>4
  <1>5. ASSUME NEW c \in Conns, NEW k \in Guilds, Unsubscribe(c, k)
        PROVE  /\ g \notin forgotten' => Total(g)' <= Count(g)'
               /\ g \notin leaked' => Count(g)' <= Total(g)'
    <2> DEFINE l == IF subs[c][k] > 1 THEN {k} ELSE {}
               f == IF subs[c][k] = 0 THEN {k} ELSE {}
    <2>1. /\ step[c] = "open" /\ subs' = [subs EXCEPT ![c][k] = 0]
          /\ GiveBack(c, k, "remove", "open")
          /\ Remember(l, f)
      BY <1>5 DEF Unsubscribe, Hears
    <2>2. /\ Count(k)' = IF Count(k) = 0 THEN 0 ELSE Count(k) - 1
          /\ \A h \in Guilds \ {k} : count'[h] = count[h]
      BY <1>0, <2>1, GiveBackStep, StepNames
    <2>3. /\ subs \in Subs /\ subs' \in Subs
          /\ \A d \in Conns \ {c} : subs'[d] = subs[d]
          /\ subs'[c][k] = 0
          /\ \A h \in Guilds \ {k} : subs'[c][h] = subs[c][h]
      BY <1>0, <1>00, <2>1 DEF Sockets, Subs
    <2>4. CASE g = k
      <3>1. \E o \in Nat : Total(g) = o + subs[c][g] /\ Total(g)' = o + subs'[c][g]
        BY <2>3, TotalStep
      <3>2. subs[c][g] \in Nat /\ Total(g)' = Total(g) - subs[c][g]
        BY <2>3, <2>4, <3>1 DEF Subs
      <3>3. Count(g)' = IF Count(g) = 0 THEN 0 ELSE Count(g) - 1
        BY <2>2, <2>4
      <3>4. g \notin forgotten \cup f => Total(g)' <= Count(g)'
        BY <1>0, <1>01, <2>4, <3>2, <3>3
      <3>5. g \notin leaked \cup l => Count(g)' <= Total(g)'
        <4>1. ASSUME g \notin leaked \cup l PROVE Count(g)' <= Total(g)'
          <5>1. subs[c][g] \in {0, 1}
            BY <2>4, <3>2, <4>1
          <5>2. Count(g) <= Total(g)
            BY <1>0, <4>1
          <5>3. QED
            BY <1>0, <1>01, <3>2, <3>3, <5>1, <5>2
        <4>2. QED
          BY <4>1
      <3>6. l \in SUBSET Guilds /\ f \in SUBSET Guilds
        OBVIOUS
      <3> HIDE DEF l, f
      <3>7. QED
        BY <1>3, <2>1, <3>4, <3>5, <3>6
    <2>5. CASE g # k
      <3>1. Total(g)' = Total(g)
        BY <2>3, <2>5, TotalSame
      <3>2. Count(g)' = Count(g)
        BY <2>2, <2>5 DEF Count
      <3>3. l \in SUBSET Guilds /\ f \in SUBSET Guilds
        OBVIOUS
      <3>4. /\ g \notin forgotten \cup f => Total(g)' <= Count(g)'
            /\ g \notin leaked \cup l => Count(g)' <= Total(g)'
        BY <1>0, <3>1, <3>2
      <3> HIDE DEF l, f
      <3>5. QED
        BY <1>3, <2>1, <3>3, <3>4
    <2>6. QED
      BY <2>4, <2>5
  <1>6. ASSUME NEW c \in Conns, RemoveKey(c)
        PROVE  /\ g \notin forgotten' => Total(g)' <= Count(g)'
               /\ g \notin leaked' => Count(g)' <= Total(g)'
    <2>1. PICK k \in Guilds : /\ k = at[c] /\ Count(k)' = 0
                              /\ \A h \in Guilds \ {k} : count'[h] = count[h]
      BY <1>0, <1>6, RemoveKeyStep
    <2> DEFINE f == IF Count(k) > 0 THEN {k} ELSE {}
    <2>2. Remember({}, f) /\ UNCHANGED subs
      BY <1>6, <2>1 DEF RemoveKey
    <2>3. Total(g)' = Total(g)
      BY <2>2, TotalSame
    <2>4. /\ g \notin forgotten \cup f => Total(g)' <= Count(g)'
          /\ g \notin leaked \cup {} => Count(g)' <= Total(g)'
      <3>1. CASE g = k
        BY <1>0, <1>01, <2>1, <2>3, <3>1
      <3>2. CASE g # k
        <4>1. Count(g)' = Count(g)
          BY <2>1, <3>2 DEF Count
        <4>2. QED
          BY <1>0, <2>3, <4>1
      <3>3. QED
        BY <3>1, <3>2
    <2>5. f \in SUBSET Guilds /\ {} \in SUBSET Guilds
      OBVIOUS
    <2> HIDE DEF f
    <2>6. QED
      BY <1>3, <2>2, <2>4, <2>5
  <1>7. ASSUME NEW c \in Conns, NEW k \in Guilds, Release(c, k)
        PROVE  /\ g \notin forgotten' => Total(g)' <= Count(g)'
               /\ g \notin leaked' => Count(g)' <= Total(g)'
    <2>1. /\ step[c] = "cleanup" /\ subs[c][k] > 0
          /\ subs' = [subs EXCEPT ![c][k] = subs[c][k] - 1]
          /\ GiveBack(c, k, "cleanup_remove", "cleanup")
          /\ Remember({}, {})
      BY <1>7 DEF Release
    <2>2. /\ Count(k)' = IF Count(k) = 0 THEN 0 ELSE Count(k) - 1
          /\ \A h \in Guilds \ {k} : count'[h] = count[h]
      BY <1>0, <2>1, GiveBackStep, StepNames
    <2>3. /\ subs \in Subs /\ subs' \in Subs
          /\ \A d \in Conns \ {c} : subs'[d] = subs[d]
          /\ subs'[c][k] = subs[c][k] - 1
          /\ \A h \in Guilds \ {k} : subs'[c][h] = subs[c][h]
      BY <1>0, <1>00, <2>1 DEF Sockets, Subs
    <2>4. /\ g \notin forgotten \cup {} => Total(g)' <= Count(g)'
          /\ g \notin leaked \cup {} => Count(g)' <= Total(g)'
      <3>1. CASE g = k
        <4>1. PICK o \in Nat : Total(g) = o + subs[c][g] /\ Total(g)' = o + subs'[c][g]
          BY <2>3, TotalStep
        <4>2. subs[c][g] \in Nat \ {0}
          BY <2>1, <2>3, <3>1 DEF Subs
        <4>3. Total(g)' = Total(g) - 1 /\ Total(g) > 0
          BY <2>3, <3>1, <4>1, <4>2
        <4>4. Count(g)' = IF Count(g) = 0 THEN 0 ELSE Count(g) - 1
          BY <2>2, <3>1
        <4>5. QED
          BY <1>0, <1>01, <4>3, <4>4
      <3>2. CASE g # k
        <4>1. Count(g)' = Count(g)
          BY <2>2, <3>2 DEF Count
        <4>2. Total(g)' = Total(g)
          BY <2>3, <3>2, TotalSame
        <4>3. QED
          BY <1>0, <4>1, <4>2
      <3>3. QED
        BY <3>1, <3>2
    <2>5. QED
      BY <1>3, <2>1, <2>4
  <1>8. CASE UNCHANGED vars
    BY <1>1, <1>8 DEF vars, cvars
  <1>9. QED
    BY <1>1, <1>2, <1>4, <1>5, <1>6, <1>7, <1>8 DEF Next, CleansUp

LEMMA BalanceInit == Init => Balance
  <1> SUFFICES ASSUME Init, NEW g \in Guilds PROVE Total(g) = 0 /\ Count(g) = 0
    BY DEF Balance
  <1>1. Receivers(g) = {}
    BY DEF Receivers, Init
  <1>2. QED
    BY <1>1, FS_EmptySet DEF Total, Count, Init

LEMMA BalanceEver == Spec => [](TypeOK /\ Balance)
  <1>1. Init => TypeOK /\ Balance
    BY TypeInit, BalanceInit
  <1>2. TypeOK /\ Balance /\ [Next]_vars => (TypeOK /\ Balance)'
    BY TypeStep, BalanceStep
  <1>3. QED
    BY <1>1, <1>2, PTL DEF Spec

\* However many connections a user opens, and however they subscribe, leave
\* and drop off, the user has no more receivers of a guild than the limit says,
\* except where the map was made to forget one.
THEOREM LimitHoldsEver == Spec => []LimitHolds
  <1>1. TypeOK /\ Balance => LimitHolds
    <2> SUFFICES ASSUME TypeOK, Balance, NEW g \in Guilds \ forgotten PROVE Total(g) <= Limit
      BY DEF LimitHolds
    <2>1. Count(g) \in 0..Limit /\ Limit \in Nat /\ Total(g) \in Nat
      BY TypeParts, CountType, TotalType
    <2>2. Total(g) <= Count(g)
      BY DEF Balance
    <2>3. QED
      BY <2>1, <2>2
  <1>2. QED
    BY <1>1, BalanceEver, PTL

\* The map returns to what there is: a connection that closes, by whatever way
\* out of its loop, gives back all it was counted for, and nobody is refused
\* for receivers that are gone, except where an unsubscribe dropped several.
THEOREM NothingLeaksEver == Spec => []NothingLeaks
  <1>1. Balance => NothingLeaks
    BY DEF Balance, NothingLeaks
  <1>2. QED
    BY <1>1, BalanceEver, PTL

=============================================================================
