--------------------------- MODULE Sessions_proofs ---------------------------
(***************************************************************************)
(* Proofs about a session, for any number of requests that refresh it and  *)
(* check the user's guilds at the same time, and any number of token pairs.*)
(***************************************************************************)
EXTENDS Sessions, TLAPS

\* A request that is under way is a request.
LEMMA UnderWay ==
  ASSUME TypeOK, NEW r \in Requests
  PROVE  /\ req[r] # Idle => req[r] \in Request
         /\ req[r] = Idle <=> req[r].pc = "idle"
         /\ req[r] # Idle => req[r].pc \in Steps
  BY DEF TypeOK, Idle, Request, Steps

-----------------------------------------------------------------------------
(* Type correctness.                                                       *)

\* The steps in which a request holds a pair.
Holding == {"refresh", "store", "guilds", "lock", "recheck", "fetch", "insert"}

\* Ids and pairs are those Discord has issued.
Issued ==
    /\ row # NoRow => row.sid \in 1..pairs /\ row.pair \in 1..pairs
    /\ \A r \in Requests : req[r] # Idle => req[r].sid \in 1..pairs
    /\ \A r \in Requests : req[r].pc \in Holding => req[r].pair \in 1..pairs

TypeInv == TypeOK /\ Issued

LEMMA Bounds == /\ MaxPairs \in Nat /\ MaxFetch \in Nat /\ TokenLife \in Nat
                /\ GuildTtl \in Nat \ {0} /\ Nobody \notin Requests
  BY SessionsAssumption DEF SessionsAssumption

LEMMA TypeInit == Init => TypeInv
  <1> SUFFICES ASSUME Init PROVE TypeInv
    OBVIOUS
  <1>1. \A r \in Requests : req[r] = Idle /\ req[r].pc = "idle"
    BY DEF Init, Idle
  <1>2. Issued
    BY <1>1 DEF Init, Issued, Holding
  <1>3. \A p \in Pairs : fetching[p] = Nobody
    BY DEF Init
  <1>4. /\ guildCache \in [Pairs -> [at : Nat, admin : BOOLEAN] \cup {NoEntry}]
        /\ fetching \in [Pairs -> Requests \cup {Nobody}]
        /\ req \in [Requests -> {Idle} \cup Request]
    BY DEF Init
  <1>5. /\ clock \in Nat /\ row \in {NoRow} \cup Row /\ lost \in BOOLEAN
        /\ pairs \in 0..MaxPairs /\ valid \subseteq 1..pairs
        /\ admin \in BOOLEAN /\ demoted \in Nat \cup {-1}
    <2>1. clock \in Nat /\ pairs \in 0..MaxPairs /\ demoted \in Nat \cup {-1}
      BY Bounds DEF Init
    <2>2. QED
      BY <2>1, Zenon DEF Init
  <1>6. TypeOK
    BY <1>3, <1>4, <1>5 DEF TypeOK
  <1>7. QED
    BY <1>2, <1>6 DEF TypeInv

\* What a request's step makes of it, and of the fetch locks.
Moves(r, x) == /\ req' = [req EXCEPT ![r] = x]
               /\ \/ x = Idle
                  \/ x \in Request /\ x.sid = req[r].sid /\ x.kind = req[r].kind

LEMMA WithSessionMoves ==
  ASSUME TypeOK, NEW r \in Requests, req[r] # Idle, NEW p \in 1..pairs, WithSession(r, p)
  PROVE  \E x : /\ Moves(r, x) /\ x # Idle
                /\ \/ x.pc = "act" /\ x.pair = 0 /\ req[r].kind = "session"
                   \/ x.pc = "guilds" /\ x.pair = p
  <1>1. req[r] \in Request /\ p \in 0..MaxPairs /\ 0 \in 0..MaxPairs
    <2>1. pairs \in 0..MaxPairs
      BY DEF TypeOK
    <2>2. QED
      BY <2>1, UnderWay, Bounds
  <1>2. CASE req[r].kind = "session"
    <2> DEFINE x == Begin(req[r].kind, req[r].sid, "act")
    <2>1. x \in Request /\ x.pc = "act" /\ x.pair = 0 /\ x.sid = req[r].sid /\ x.kind = req[r].kind
      BY <1>1 DEF Begin, Request, Steps
    <2>2. x # Idle
      BY <2>1 DEF Idle
    <2>3. req' = [req EXCEPT ![r] = x]
      BY <1>2 DEF WithSession, Act, Goto
    <2> HIDE DEF x
    <2>4. QED
      BY <1>2, <2>1, <2>2, <2>3 DEF Moves
  <1>3. CASE req[r].kind # "session"
    <2> DEFINE x == [req[r] EXCEPT !.pc = "guilds", !.pair = p]
    <2>1. x \in Request /\ x.pc = "guilds" /\ x.pair = p /\ x.sid = req[r].sid /\ x.kind = req[r].kind
      BY <1>1 DEF Request, Steps
    <2>2. x # Idle
      BY <2>1 DEF Idle
    <2>3. req' = [req EXCEPT ![r] = x]
      BY <1>3 DEF WithSession, Goto
    <2> HIDE DEF x
    <2>4. QED
      BY <2>1, <2>2, <2>3 DEF Moves
  <1>4. QED
    BY <1>2, <1>3

\* The steps in which a request holds a fetch lock.
Locking == {"recheck", "fetch", "insert"}

\* What a request does to its own state leaves the types alone if a pair it
\* holds has been issued and a fetch lock it holds is that pair's.
LEMMA MovesKeepRequests ==
  ASSUME TypeInv, NEW r \in Requests, NEW x, Moves(r, x), req[r] # Idle,
         pairs' \in pairs..MaxPairs,
         x # Idle /\ x.pc \in Holding => x.pair \in 1..pairs',
         \/ fetching' = Unlocked(r)
         \/ /\ UNCHANGED fetching
            /\ \/ req[r].pc \notin Locking
               \/ x # Idle /\ x.pc \in Locking /\ x.pair = req[r].pair
  PROVE  /\ req' \in [Requests -> {Idle} \cup Request]
         /\ fetching' \in [Pairs -> Requests \cup {Nobody}]
         /\ \A p \in Pairs : fetching'[p] # Nobody =>
               /\ req'[fetching'[p]].pc \in Locking
               /\ req'[fetching'[p]].pair = p
         /\ \A q \in Requests : req'[q] # Idle => req'[q].sid \in 1..pairs'
         /\ \A q \in Requests : req'[q].pc \in Holding => req'[q].pair \in 1..pairs'
  <1>1. req \in [Requests -> {Idle} \cup Request] /\ fetching \in [Pairs -> Requests \cup {Nobody}]
    BY DEF TypeInv, TypeOK
  <1>2. \A q \in Requests : req'[q] = IF q = r THEN x ELSE req[q]
    BY <1>1 DEF Moves
  <1>3. 1..pairs \subseteq 1..pairs'
    BY Bounds DEF TypeInv, TypeOK
  <1>4. \A q \in Requests : /\ req[q] # Idle => req[q].sid \in 1..pairs
                            /\ req[q].pc \in Holding => req[q].pair \in 1..pairs
    BY DEF TypeInv, Issued
  <1>5. Idle.pc \notin Holding /\ Idle.pc \notin Locking
    BY DEF Idle, Holding, Locking
  <1>6. req' \in [Requests -> {Idle} \cup Request]
    BY <1>1 DEF Moves
  <1>7. \A q \in Requests : /\ req'[q] # Idle => req'[q].sid \in 1..pairs'
                            /\ req'[q].pc \in Holding => req'[q].pair \in 1..pairs'
    BY <1>2, <1>3, <1>4, <1>5 DEF Moves
  <1>8. \A p \in Pairs : fetching[p] # Nobody =>
          req[fetching[p]].pc \in Locking /\ req[fetching[p]].pair = p
    BY DEF TypeInv, TypeOK, Locking
  <1>9. fetching' \in [Pairs -> Requests \cup {Nobody}]
    BY <1>1 DEF Unlocked
  <1>10. ASSUME NEW p \in Pairs, fetching'[p] # Nobody
         PROVE  req'[fetching'[p]].pc \in Locking /\ req'[fetching'[p]].pair = p
    <2>1. fetching'[p] = fetching[p] /\ fetching[p] \in Requests
      BY <1>1, <1>9, <1>10 DEF Unlocked
    <2>2. CASE fetching[p] # r
      BY <1>2, <1>8, <1>10, <2>1, <2>2
    <2>3. CASE fetching[p] = r
      <3>1. fetching' # Unlocked(r)
        BY <1>10, <2>1, <2>3, Bounds DEF Unlocked
      <3>2. QED
        BY <1>2, <1>8, <1>10, <2>1, <2>3, <3>1
    <2>4. QED
      BY <2>2, <2>3
  <1>11. QED
    BY <1>6, <1>7, <1>9, <1>10

\* The rest of the types, and of what has been issued.
LEMMA MovesKeepTypes ==
  ASSUME TypeInv, NEW r \in Requests, NEW x, Moves(r, x), req[r] # Idle,
         pairs' \in pairs..MaxPairs,
         x # Idle /\ x.pc \in Holding => x.pair \in 1..pairs',
         \/ fetching' = Unlocked(r)
         \/ /\ UNCHANGED fetching
            /\ \/ req[r].pc \notin Locking
               \/ x # Idle /\ x.pc \in Locking /\ x.pair = req[r].pair,
         UNCHANGED <<clock, admin, demoted>>,
         lost' \in BOOLEAN, valid' \subseteq 1..pairs',
         row' \in {NoRow} \cup Row, row' # NoRow => row'.sid \in 1..pairs' /\ row'.pair \in 1..pairs',
         guildCache' \in [Pairs -> [at : Nat, admin : BOOLEAN] \cup {NoEntry}]
  PROVE  TypeInv'
  <1>1. Issued'
    BY MovesKeepRequests DEF Issued
  <1>2. pairs' \in 0..MaxPairs
    BY Bounds DEF TypeInv, TypeOK
  <1>3. TypeOK'
    BY MovesKeepRequests, <1>2 DEF TypeInv, TypeOK, Locking
  <1>4. QED
    BY <1>1, <1>3 DEF TypeInv

\* A request that passed or failed the check of the guilds.
LEMMA CheckedMoves ==
  ASSUME TypeOK, NEW r \in Requests, req[r] # Idle, NEW b, Checked(r, b)
  PROVE  \E x : /\ Moves(r, x)
                /\ \/ x = Idle
                   \/ x.pc = "act" /\ x.pair = 0 /\ (b \/ req[r].kind = "list")
  <1>1. req[r] \in Request /\ 0 \in 0..MaxPairs
    BY UnderWay, Bounds
  <1> DEFINE x == Begin(req[r].kind, req[r].sid, "act")
  <1>2. x \in Request /\ x.pc = "act" /\ x.pair = 0 /\ x.sid = req[r].sid /\ x.kind = req[r].kind
    BY <1>1 DEF Begin, Request, Steps
  <1>3. \/ req' = [req EXCEPT ![r] = x] /\ (b \/ req[r].kind = "list")
        \/ req' = [req EXCEPT ![r] = Idle]
    BY DEF Checked, Act, Fail, Goto
  <1> HIDE DEF x
  <1>4. CASE req' = [req EXCEPT ![r] = x] /\ (b \/ req[r].kind = "list")
    BY <1>2, <1>4 DEF Moves
  <1>5. CASE req' = [req EXCEPT ![r] = Idle]
    BY <1>5 DEF Moves
  <1>6. QED
    BY <1>3, <1>4, <1>5

\* A request whose step, pair or answer is changed is a request.
LEMMA Changed ==
  ASSUME TypeOK, NEW r \in Requests, req[r] # Idle
  PROVE  /\ \A s \in Steps : [req[r] EXCEPT !.pc = s] \in Request
         /\ \A s \in Steps, p \in 0..MaxPairs : [req[r] EXCEPT !.pair = p, !.pc = s] \in Request
         /\ \A s \in Steps, p \in 0..MaxPairs : [req[r] EXCEPT !.pc = s, !.pair = p] \in Request
         /\ \A s \in Steps, b \in BOOLEAN, t \in Nat :
               [req[r] EXCEPT !.pc = s, !.admin = b, !.at = t] \in Request
  BY UnderWay DEF Request

LEMMA RequestKeepsTypes ==
  ASSUME TypeInv, NEW r \in Requests, RequestStep(r)
  PROVE  TypeInv'
  <1> USE DEF At
  <1>0. /\ TypeOK /\ Issued /\ pairs \in pairs..MaxPairs /\ MaxPairs \in Nat /\ pairs \in Nat
        /\ valid \subseteq 1..pairs /\ 1..pairs \subseteq 0..MaxPairs /\ lost \in BOOLEAN
        /\ row \in {NoRow} \cup Row /\ admin \in BOOLEAN /\ clock \in Nat
        /\ guildCache \in [Pairs -> [at : Nat, admin : BOOLEAN] \cup {NoEntry}]
        /\ row # NoRow => row.sid \in 1..pairs /\ row.pair \in 1..pairs
        /\ req[r].pc \in Holding => req[r].pair \in 1..pairs
        /\ req[r] # Idle => req[r] \in Request
        /\ req[r] = Idle <=> req[r].pc = "idle"
    BY Bounds, UnderWay DEF TypeInv, TypeOK, Issued
  <1>f. Moves(r, Idle) <=> Fail(r)
    BY DEF Moves, Fail, Goto
  \* A step that changes nothing but the request itself, which holds no lock.
  <1>k. ASSUME NEW x, Moves(r, x), req[r] # Idle, req[r].pc \notin Locking,
               x # Idle /\ x.pc \in Holding => x.pair \in 1..pairs,
               UNCHANGED <<clock, row, discord, guilds, lost>>
        PROVE  TypeInv'
    BY <1>0, <1>k, MovesKeepTypes DEF discord, guilds
  <1>1. CASE LookUp(r)
    <2>1. req[r] # Idle /\ req[r].pc \notin Locking /\ UNCHANGED <<clock, row, discord, guilds, lost>>
      BY <1>0, <1>1 DEF LookUp, Locking
    <2>2. CASE Fail(r)
      BY <1>f, <1>k, <2>1, <2>2
    <2>3. CASE row # NoRow /\ WithSession(r, row.pair)
      BY <1>0, <1>k, <2>1, <2>3, WithSessionMoves DEF Holding
    <2>4. CASE row # NoRow /\ Goto(r, [req[r] EXCEPT !.pair = row.pair, !.pc = "refresh"])
      <3> DEFINE x == [req[r] EXCEPT !.pair = row.pair, !.pc = "refresh"]
      <3>1. x \in Request /\ x.sid = req[r].sid /\ x.kind = req[r].kind /\ x.pair = row.pair
        <4>1. "refresh" \in Steps /\ row.pair \in 0..MaxPairs /\ req[r] \in Request
          BY <1>0, <2>1, <2>4 DEF Steps
        <4>2. x \in Request
          BY <1>0, <2>1, <4>1, Changed
        <4>3. QED
          BY <4>1, <4>2 DEF Request
      <3>2. Moves(r, x)
        BY <2>4, <3>1 DEF Moves, Goto
      <3> HIDE DEF x
      <3>3. QED
        BY <1>0, <1>k, <2>1, <2>4, <3>1, <3>2
    <2>5. QED
      BY <1>1, <2>2, <2>3, <2>4 DEF LookUp
  <1>2. CASE RefreshTokens(r)
    <2>1. /\ req[r] # Idle /\ req[r].pc \notin Locking /\ UNCHANGED <<clock, row, guilds>>
          /\ lost' \in BOOLEAN
      BY <1>0, <1>2 DEF RefreshTokens, Locking, RowOf
    <2>2. CASE Fail(r) /\ UNCHANGED <<discord, lost>>
      BY <1>f, <1>k, <2>1, <2>2
    <2>3. CASE Issue({req[r].pair})
      <3>1. /\ pairs' = pairs + 1 /\ pairs' \in pairs..MaxPairs /\ valid' \subseteq 1..pairs'
            /\ 1..pairs \subseteq 1..pairs' /\ UNCHANGED <<clock, row, admin, demoted, guildCache, fetching>>
        <4>1. pairs < MaxPairs /\ pairs' = pairs + 1 /\ valid' = (valid \ {req[r].pair}) \cup {pairs + 1}
          BY <2>3 DEF Issue
        <4>2. pairs' \in pairs..MaxPairs /\ 1..pairs \subseteq 1..pairs' /\ pairs + 1 \in 1..pairs'
          BY <1>0, <4>1
        <4>3. valid' \subseteq 1..pairs'
          BY <1>0, <4>1, <4>2
        <4>4. QED
          BY <2>1, <2>3, <4>1, <4>2, <4>3 DEF Issue, guilds
      <3>2. CASE Fail(r)
        BY <1>0, <1>f, <2>1, <3>1, <3>2, MovesKeepTypes
      <3>3. CASE Goto(r, [req[r] EXCEPT !.pc = "store", !.pair = pairs + 1])
        <4> DEFINE x == [req[r] EXCEPT !.pc = "store", !.pair = pairs + 1]
        <4>1. pairs + 1 \in 0..MaxPairs /\ pairs + 1 \in 1..pairs'
          BY <1>0, <3>1
        <4>2. x \in Request /\ x.sid = req[r].sid /\ x.kind = req[r].kind /\ x.pair = pairs + 1
          <5>1. "store" \in Steps /\ req[r] \in Request
            BY <1>0, <2>1 DEF Steps
          <5>2. x \in Request
            BY <1>0, <2>1, <4>1, <5>1, Changed
          <5>3. QED
            BY <5>1, <5>2 DEF Request
        <4>3. Moves(r, x)
          BY <3>3, <4>2 DEF Moves, Goto
        <4> HIDE DEF x
        <4>4. QED
          BY <1>0, <2>1, <3>1, <4>1, <4>2, <4>3, MovesKeepTypes
      <3>4. QED
        BY <1>2, <2>1, <2>3, <3>2, <3>3 DEF RefreshTokens, Issue, discord
    <2>4. QED
      BY <1>2, <2>2, <2>3 DEF RefreshTokens
  <1>3. CASE UpdateTokens(r)
    <2>1. /\ req[r] # Idle /\ req[r].pc \notin Locking /\ UNCHANGED <<clock, discord, guilds>>
          /\ req[r].pair \in 1..pairs /\ lost' \in BOOLEAN
      BY <1>0, <1>3 DEF UpdateTokens, Locking, Holding, RowOf
    <2>2. CASE Fail(r) /\ UNCHANGED row
      BY <1>0, <1>f, <2>1, <2>2, MovesKeepTypes DEF discord, guilds
    <2>3. CASE /\ RowOf(r) /\ WithSession(r, req[r].pair)
               /\ row' = [row EXCEPT !.pair = req[r].pair, !.expires = clock + TokenLife]
      <3>1. row \in Row /\ row.sid \in 1..pairs
        BY <1>0, <2>3 DEF RowOf
      <3>2. row' \in Row /\ row'.sid \in 1..pairs /\ row'.pair \in 1..pairs
        <4>1. req[r].pair \in Pairs
          BY <1>0, <2>1 DEF Pairs
        <4>2. clock + TokenLife \in Nat
          BY <1>0, Bounds
        <4>3. QED
          BY <2>1, <2>3, <3>1, <4>1, <4>2 DEF Row
      <3>3. PICK x : Moves(r, x) /\ x # Idle /\ (x.pc \in Holding => x.pair = req[r].pair)
        BY <1>0, <2>1, <2>3, WithSessionMoves DEF Holding
      <3>4. QED
        BY <1>0, <2>1, <3>2, <3>3, MovesKeepTypes DEF discord, guilds
    <2>4. QED
      BY <1>3, <2>2, <2>3 DEF UpdateTokens
  \* A request that has checked the guilds, its lock given back.
  <1>c. ASSUME NEW b, Checked(r, b), req[r] # Idle,
               \/ fetching' = Unlocked(r)
               \/ UNCHANGED fetching /\ req[r].pc \notin Locking,
               guildCache' \in [Pairs -> [at : Nat, admin : BOOLEAN] \cup {NoEntry}],
               UNCHANGED <<clock, row, discord, lost>>
        PROVE  TypeInv'
    <2>1. PICK x : Moves(r, x) /\ (x = Idle \/ x.pc = "act")
      BY <1>0, <1>c, CheckedMoves
    <2>2. QED
      BY <1>0, <1>c, <2>1, MovesKeepTypes DEF discord, Holding
  \* One that goes on, holding its pair.
  <1>g. ASSUME NEW s \in Steps, req[r] # Idle, req[r].pc \in Holding, s \in Holding
        PROVE  /\ [req[r] EXCEPT !.pc = s] # Idle /\ [req[r] EXCEPT !.pc = s].pc = s
               /\ [req[r] EXCEPT !.pc = s].pair = req[r].pair
               /\ Goto(r, [req[r] EXCEPT !.pc = s]) => Moves(r, [req[r] EXCEPT !.pc = s])
    <2>1. /\ [req[r] EXCEPT !.pc = s] \in Request /\ [req[r] EXCEPT !.pc = s].pc = s
          /\ [req[r] EXCEPT !.pc = s].pair = req[r].pair
          /\ [req[r] EXCEPT !.pc = s].sid = req[r].sid /\ [req[r] EXCEPT !.pc = s].kind = req[r].kind
      BY <1>0, <1>g, Changed DEF Request
    <2>2. QED
      BY <1>g, <2>1 DEF Moves, Goto, Idle, Holding
  <1>4. CASE CheckCache(r)
    <2>1. /\ req[r] # Idle /\ req[r].pc = "guilds" /\ UNCHANGED <<clock, row, discord, guilds, lost>>
      BY <1>0, <1>4 DEF CheckCache
    <2>2. CASE Checked(r, Entry(r).admin)
      BY <1>0, <1>c, <2>1, <2>2 DEF guilds, Locking
    <2>3. CASE Goto(r, [req[r] EXCEPT !.pc = "lock"])
      <3>1. req[r].pc \in Holding /\ "lock" \in Holding /\ "lock" \in Steps /\ req[r].pc \notin Locking
        BY <2>1 DEF Holding, Steps, Locking
      <3>2. QED
        BY <1>0, <1>g, <1>k, <2>1, <2>3, <3>1
    <2>4. QED
      BY <1>4, <2>2, <2>3 DEF CheckCache
  <1>5. CASE LockFetch(r)
    <2> DEFINE x == [req[r] EXCEPT !.pc = "recheck"]
    <2>1. /\ req[r] # Idle /\ req[r].pc = "lock" /\ fetching[req[r].pair] = Nobody
          /\ fetching' = [fetching EXCEPT ![req[r].pair] = r] /\ Goto(r, x)
          /\ UNCHANGED <<clock, row, pairs, valid, admin, demoted, guildCache, lost>>
      BY <1>0, <1>5 DEF LockFetch, discord
    <2>2. /\ req[r].pc \in Holding /\ "recheck" \in Holding /\ "recheck" \in Steps
          /\ req[r].pc \notin Locking
      BY <2>1 DEF Holding, Steps, Locking
    <2>3. Moves(r, x) /\ x # Idle /\ x.pc = "recheck" /\ x.pair = req[r].pair /\ x.pair \in 1..pairs
      BY <1>0, <1>g, <2>1, <2>2
    <2> HIDE DEF x
    <2>4. /\ req \in [Requests -> {Idle} \cup Request] /\ fetching \in [Pairs -> Requests \cup {Nobody}]
          /\ \A p \in Pairs : fetching[p] # Nobody =>
                req[fetching[p]].pc \in Locking /\ req[fetching[p]].pair = p
      BY <1>0 DEF TypeOK, Locking
    <2>5. \A q \in Requests : req'[q] = IF q = r THEN x ELSE req[q]
      BY <2>3, <2>4 DEF Moves
    <2>6. fetching' \in [Pairs -> Requests \cup {Nobody}]
      BY <2>1, <2>4
    <2>7. ASSUME NEW p \in Pairs, fetching'[p] # Nobody
          PROVE  req'[fetching'[p]].pc \in Locking /\ req'[fetching'[p]].pair = p
      <3>1. CASE p = req[r].pair
        BY <2>1, <2>3, <2>4, <2>5, <3>1 DEF Locking
      <3>2. CASE p # req[r].pair
        <4>1. fetching'[p] = fetching[p] /\ fetching[p] \in Requests
          BY <2>1, <2>4, <2>7, <3>2
        <4>2. fetching[p] # r
          BY <2>2, <2>4, <2>7, <4>1
        <4>3. QED
          BY <2>4, <2>5, <2>7, <4>1, <4>2
      <3>3. QED
        BY <3>1, <3>2
    <2>8. req' \in [Requests -> {Idle} \cup Request]
      BY <2>3, <2>4 DEF Moves
    <2>9. TypeOK'
      BY <1>0, <2>1, <2>6, <2>7, <2>8 DEF TypeOK, Locking
    <2>10. Issued'
      BY <1>0, <2>1, <2>3, <2>5 DEF Issued, Moves
    <2>11. QED
      BY <2>9, <2>10 DEF TypeInv
  <1>6. CASE RecheckCache(r)
    <2>1. /\ req[r] # Idle /\ req[r].pc = "recheck" /\ UNCHANGED <<clock, row, discord, guildCache, lost>>
      BY <1>0, <1>6 DEF RecheckCache
    <2>2. CASE Checked(r, Entry(r).admin) /\ fetching' = Unlocked(r)
      BY <1>0, <1>c, <2>1, <2>2
    <2>3. CASE Goto(r, [req[r] EXCEPT !.pc = "fetch"]) /\ UNCHANGED fetching
      <3>1. /\ req[r].pc \in Holding /\ "fetch" \in Holding /\ "fetch" \in Steps
            /\ "fetch" \in Locking
        BY <2>1 DEF Holding, Steps, Locking
      <3>2. QED
        BY <1>0, <1>g, <2>1, <2>3, <3>1, MovesKeepTypes DEF discord
    <2>4. QED
      BY <1>6, <2>2, <2>3 DEF RecheckCache
  <1>7. CASE FetchGuilds(r)
    <2>1. /\ req[r] # Idle /\ req[r].pc = "fetch" /\ UNCHANGED <<clock, row, discord, guildCache, lost>>
          /\ req[r].pair \in 1..pairs
      BY <1>0, <1>7 DEF FetchGuilds, Holding
    <2>2. CASE Fail(r) /\ fetching' = Unlocked(r)
      BY <1>0, <1>f, <2>1, <2>2, MovesKeepTypes DEF discord
    <2>3. CASE /\ Goto(r, [req[r] EXCEPT !.pc = "insert", !.admin = admin, !.at = clock])
               /\ UNCHANGED fetching
      <3> DEFINE x == [req[r] EXCEPT !.pc = "insert", !.admin = admin, !.at = clock]
      <3>1. /\ x \in Request /\ x.sid = req[r].sid /\ x.kind = req[r].kind
            /\ x.pair = req[r].pair /\ x.pc \in Locking
        <4>1. "insert" \in Steps /\ "insert" \in Locking /\ req[r] \in Request
          BY <1>0, <2>1 DEF Steps, Locking
        <4>2. x \in Request
          BY <1>0, <2>1, <4>1, Changed
        <4>3. QED
          BY <4>1, <4>2 DEF Request
      <3>2. Moves(r, x) /\ x # Idle
        BY <2>3, <3>1 DEF Moves, Goto, Idle, Locking
      <3> HIDE DEF x
      <3>3. QED
        BY <1>0, <2>1, <2>3, <3>1, <3>2, MovesKeepTypes DEF discord
    <2>4. QED
      BY <1>7, <2>2, <2>3 DEF FetchGuilds
  <1>8. CASE InsertGuilds(r)
    <2>1. /\ req[r] # Idle /\ req[r] \in Request /\ Checked(r, req[r].admin) /\ fetching' = Unlocked(r)
          /\ UNCHANGED <<clock, row, discord, lost>>
      BY <1>0, <1>8 DEF InsertGuilds
    <2>2. guildCache' \in [Pairs -> [at : Nat, admin : BOOLEAN] \cup {NoEntry}]
      BY <1>0, <1>8, <2>1 DEF InsertGuilds, Request
    <2>3. QED
      BY <1>c, <2>1, <2>2
  <1>9. CASE SelectServer(r)
    <2>1. row' \in {NoRow} \cup Row /\ (row' # NoRow => row'.sid \in 1..pairs /\ row'.pair \in 1..pairs)
      BY <1>0, <1>9 DEF SelectServer, RowOf, Row, NoRow
    <2>2. QED
      BY <1>0, <1>9, <1>f, <2>1, MovesKeepTypes DEF SelectServer, discord, guilds, Locking
  <1>10. CASE Answer(r)
    BY <1>0, <1>10, <1>f, <1>k DEF Answer, Locking
  <1>11. CASE Dropped(r)
    <2>1. lost' \in BOOLEAN
      BY <1>0, <1>11 DEF Dropped, RowOf
    <2>2. QED
      BY <1>0, <1>11, <1>f, <2>1, MovesKeepTypes DEF Dropped, discord
  <1>12. CASE \E kind \in Kinds : Arrive(r, kind)
    <2>1. PICK kind \in Kinds : Arrive(r, kind)
      BY <1>12
    <2> DEFINE x == Begin(kind, row.sid, "lookup")
    <2>2. /\ x \in Request /\ x.sid \in 1..pairs /\ x.pc = "lookup" /\ req[r].pc = "idle"
          /\ req' = [req EXCEPT ![r] = x]
          /\ UNCHANGED <<clock, row, pairs, valid, admin, demoted, guildCache, fetching, lost>>
      BY <1>0, <2>1 DEF Arrive, Begin, Goto, Request, Steps, Pairs, discord, guilds
    <2> HIDE DEF x
    <2>3. /\ req \in [Requests -> {Idle} \cup Request] /\ fetching \in [Pairs -> Requests \cup {Nobody}]
          /\ \A p \in Pairs : fetching[p] # Nobody => fetching[p] # r
      BY <1>0, <2>2 DEF TypeOK
    <2>4. /\ \A q \in Requests : req'[q] = IF q = r THEN x ELSE req[q]
          /\ req' \in [Requests -> {Idle} \cup Request]
      BY <2>2, <2>3
    <2>5. TypeOK'
      <3>1. ASSUME NEW p \in Pairs, fetching'[p] # Nobody
            PROVE  req'[fetching'[p]].pc \in Locking /\ req'[fetching'[p]].pair = p
        BY <1>0, <2>2, <2>3, <2>4, <3>1 DEF TypeOK, Locking
      <3>2. QED
        BY <1>0, <2>2, <2>4, <3>1 DEF TypeOK, Locking
    <2>6. Issued'
      BY <1>0, <2>2, <2>4 DEF Issued, Holding
    <2>7. QED
      BY <2>5, <2>6 DEF TypeInv
  <1>13. QED
    BY <1>1, <1>2, <1>3, <1>4, <1>5, <1>6, <1>7, <1>8, <1>9, <1>10, <1>11, <1>12
       DEF RequestStep, GetSession, VerifyGuildAdmin

LEMMA TypeStep == TypeInv /\ [Next]_vars => TypeInv'
  <1> SUFFICES ASSUME TypeInv, [Next]_vars PROVE TypeInv'
    OBVIOUS
  <1>0. TypeOK /\ Issued
    BY DEF TypeInv
  <1>1. ASSUME NEW r \in Requests, RequestStep(r) PROVE TypeInv'
    BY <1>1, RequestKeepsTypes
  <1>2. CASE AdminChanges
    <2>1. admin' \in BOOLEAN /\ demoted' \in Nat \cup {-1}
      BY <1>0, <1>2 DEF AdminChanges, TypeOK
    <2>2. QED
      BY <1>0, <1>2, <2>1 DEF AdminChanges, TypeInv, TypeOK, Issued, guilds
  <1>3. CASE AuthCallback
    <2>1. /\ pairs \in Nat /\ pairs < MaxPairs /\ pairs' = pairs + 1 /\ valid' = (valid \ {}) \cup {pairs + 1}
          /\ valid \subseteq 1..pairs /\ clock + TokenLife \in Nat
      BY <1>0, <1>3, Bounds DEF AuthCallback, Issue, TypeOK
    <2>2. /\ pairs' \in 0..MaxPairs /\ pairs' \in Pairs /\ 1..pairs \subseteq 1..pairs' /\ pairs' \in 1..pairs'
          /\ valid' \subseteq 1..pairs'
      BY <2>1, Bounds DEF Pairs
    <2>3. row' \in Row /\ row'.sid = pairs' /\ row'.pair = pairs'
      BY <1>3, <2>1, <2>2 DEF AuthCallback, Row
    <2>4. TypeOK'
      BY <1>0, <1>3, <2>2, <2>3 DEF AuthCallback, Issue, TypeOK, guilds
    <2>5. Issued'
      BY <1>0, <1>3, <2>2, <2>3 DEF AuthCallback, Issued
    <2>6. QED
      BY <2>4, <2>5 DEF TypeInv
  <1>4. CASE AuthLogout \/ CleanupExpired
    BY <1>0, <1>4 DEF AuthLogout, CleanupExpired, TypeInv, TypeOK, Issued, discord, guilds
  <1>5. CASE Tick
    <2>1. clock' \in Nat
      BY <1>0, <1>5 DEF Tick, TypeOK
    <2>2. QED
      BY <1>0, <1>5, <2>1 DEF Tick, TypeInv, TypeOK, Issued, discord, guilds
  <1>6. CASE UNCHANGED vars
    BY <1>0, <1>6 DEF vars, TypeInv, TypeOK, Issued, discord, guilds
  <1>7. QED
    BY <1>1, <1>2, <1>3, <1>4, <1>5, <1>6 DEF Next

\* Whatever a request is in the middle of, the state is well formed, ids and
\* pairs are Discord's, and a fetch lock is held for the pair it is about.
THEOREM TypeCorrect == Spec => []TypeInv
  BY TypeInit, TypeStep, PTL DEF Spec

-----------------------------------------------------------------------------
(* The session stays usable.                                               *)

\* A pair that is still to be stored is good and its request's alone; who is
\* about to use up the refresh token of the row was started with that row.
Owned ==
    \A r \in Requests :
        /\ At(r, "store") =>
             /\ req[r].pair \in valid
             /\ row # NoRow => row.pair # req[r].pair
             /\ \A q \in Requests \ {r} :
                   req[q].pc \in {"refresh", "store"} => req[q].pair # req[r].pair
        /\ At(r, "refresh") /\ row # NoRow /\ row.pair = req[r].pair => row.sid = req[r].sid

\* A request's step without the tokens: what it held of them is given up, with
\* the session's fate recorded if a new pair is lost.
LEMMA QuietKeeps ==
  ASSUME TypeInv, Owned, SessionUsable, NEW r \in Requests, NEW x,
         req' = [req EXCEPT ![r] = x], x.pc \notin {"refresh", "store"},
         UNCHANGED valid,
         row' # NoRow => row # NoRow /\ row'.sid = row.sid /\ row'.pair = row.pair,
         lost => lost', At(r, "store") /\ RowOf(r) => lost'
  PROVE  Owned' /\ SessionUsable'
  <1>1. \A q \in Requests : req'[q] = IF q = r THEN x ELSE req[q]
    BY DEF TypeInv, TypeOK
  <1>2. Owned'
    BY <1>1 DEF Owned, At
  <1>3. SessionUsable'
    BY <1>1 DEF SessionUsable, At, RowOf
  <1>4. QED
    BY <1>2, <1>3

LEMMA RequestKeepsUsable ==
  ASSUME TypeInv, Owned, SessionUsable, NEW r \in Requests, RequestStep(r)
  PROVE  Owned' /\ SessionUsable'
  <1>0. /\ TypeOK /\ Issued /\ pairs \in Nat /\ valid \subseteq 1..pairs
        /\ req \in [Requests -> {Idle} \cup Request]
        /\ row # NoRow => row.sid \in 1..pairs /\ row.pair \in 1..pairs /\ row \in Row
        /\ \A q \in Requests : req[q].pc \in Holding => req[q].pair \in 1..pairs
        /\ \A q \in Requests : req[q] = Idle <=> req[q].pc = "idle"
        /\ Idle.pc = "idle"
    BY Bounds, UnderWay DEF TypeInv, TypeOK, Issued, Idle
  <1>a. lost \in BOOLEAN
    BY DEF TypeInv, TypeOK
  <1>1. CASE LookUp(r)
    <2>1. /\ req[r].pc = "lookup" /\ req[r] # Idle /\ UNCHANGED <<clock, row, discord, guilds, lost>>
      BY <1>0, <1>1 DEF LookUp, At
    <2>2. CASE Fail(r)
      BY <1>0, <2>1, <2>2, QuietKeeps DEF Fail, Goto, At, discord
    <2>3. CASE row # NoRow /\ WithSession(r, row.pair)
      <3>1. PICK x : Moves(r, x) /\ (x.pc = "act" \/ x.pc = "guilds")
        BY <1>0, <2>1, <2>3, WithSessionMoves
      <3>2. QED
        BY <2>1, <3>1, QuietKeeps DEF Moves, At, discord
    <2>4. CASE /\ row # NoRow /\ row.sid = req[r].sid
               /\ Goto(r, [req[r] EXCEPT !.pair = row.pair, !.pc = "refresh"])
      <3> DEFINE x == [req[r] EXCEPT !.pair = row.pair, !.pc = "refresh"]
      <3>1. x.pc = "refresh" /\ x.pair = row.pair /\ x.sid = req[r].sid
        BY <1>0, <2>1 DEF Request
      <3>2. req' = [req EXCEPT ![r] = x]
        BY <2>4 DEF Goto
      <3> HIDE DEF x
      <3>3. \A q \in Requests : req'[q] = IF q = r THEN x ELSE req[q]
        BY <1>0, <3>2
      <3>4. UNCHANGED <<row, valid, lost>>
        BY <2>1 DEF discord
      <3>5. Owned'
        BY <2>1, <2>4, <3>1, <3>3, <3>4 DEF Owned, At
      <3>6. SessionUsable'
        BY <2>1, <3>3, <3>4 DEF SessionUsable, At, RowOf
      <3>7. QED
        BY <3>5, <3>6
    <2>5. QED
      BY <1>1, <2>2, <2>3, <2>4 DEF LookUp
  <1>2. CASE RefreshTokens(r)
    <2>1. req[r].pc = "refresh" /\ req[r] # Idle /\ req[r] \in Request /\ req[r].pair \in 1..pairs
      BY <1>0, <1>2 DEF RefreshTokens, At, Holding
    <2>2. CASE Fail(r) /\ UNCHANGED <<clock, row, guilds, discord, lost>>
      BY <1>0, <2>1, <2>2, QuietKeeps DEF Fail, Goto, At, discord
    <2>3. CASE req[r].pair \in valid /\ Issue({req[r].pair}) /\ UNCHANGED row
      <3>1. /\ valid' = (valid \ {req[r].pair}) \cup {pairs + 1} /\ UNCHANGED row
            /\ pairs + 1 \notin 1..pairs
        BY <1>0, <2>3 DEF Issue
      <3>2. /\ \A q \in Requests : At(q, "store") => req[q].pair \in 1..pairs /\ req[q].pair # req[r].pair
            /\ \A q \in Requests : At(q, "refresh") => req[q].pair \in 1..pairs
            /\ row # NoRow /\ row.pair = req[r].pair => RowOf(r)
        BY <1>0, <2>1 DEF Owned, At, Holding, RowOf
      <3>3. CASE Fail(r) /\ lost' = (lost \/ RowOf(r))
        <4>1. \A q \in Requests : req'[q] = IF q = r THEN Idle ELSE req[q]
          BY <1>0, <3>3 DEF Fail, Goto
        <4>2. Owned'
          BY <1>0, <3>1, <3>2, <4>1 DEF Owned, At
        <4>3. SessionUsable'
          <5> SUFFICES ASSUME row # NoRow, ~lost, ~RowOf(r) PROVE SessionUsable'
            BY <1>a, <3>1, <3>3 DEF SessionUsable
          <5>1. CASE row.pair \in valid
            BY <3>1, <3>2, <5>1 DEF SessionUsable
          <5>2. ASSUME NEW q \in Requests, At(q, "store"), RowOf(q), req[q].pair \in valid
                PROVE  SessionUsable'
            BY <2>1, <3>1, <3>2, <4>1, <5>2 DEF SessionUsable, At, RowOf
          <5>3. QED
            BY <5>1, <5>2 DEF SessionUsable
        <4>4. QED
          BY <4>2, <4>3
      <3>4. CASE Goto(r, [req[r] EXCEPT !.pc = "store", !.pair = pairs + 1]) /\ UNCHANGED lost
        <4> DEFINE x == [req[r] EXCEPT !.pc = "store", !.pair = pairs + 1]
        <4>1. x.pc = "store" /\ x.pair = pairs + 1 /\ x.sid = req[r].sid
          BY <2>1 DEF Request
        <4>2. req' = [req EXCEPT ![r] = x]
          BY <3>4 DEF Goto
        <4> HIDE DEF x
        <4>3. \A q \in Requests : req'[q] = IF q = r THEN x ELSE req[q]
          BY <1>0, <4>2
        <4>4. Owned'
          BY <1>0, <3>1, <3>2, <4>1, <4>3 DEF Owned, At
        <4>5. SessionUsable'
          <5> SUFFICES ASSUME row # NoRow, ~lost PROVE SessionUsable'
            BY <1>a, <3>1, <3>4 DEF SessionUsable
          <5>1. CASE RowOf(r)
            BY <3>1, <4>1, <4>3, <5>1 DEF SessionUsable, At, RowOf
          <5>2. CASE ~RowOf(r) /\ row.pair \in valid
            BY <3>1, <3>2, <5>2 DEF SessionUsable
          <5>3. ASSUME NEW q \in Requests, At(q, "store"), RowOf(q), req[q].pair \in valid
                PROVE  SessionUsable'
            BY <2>1, <3>1, <3>2, <4>3, <5>3 DEF SessionUsable, At, RowOf
          <5>4. QED
            BY <5>1, <5>2, <5>3 DEF SessionUsable
        <4>6. QED
          BY <4>4, <4>5
      <3>5. QED
        BY <1>0, <1>2, <2>3, <3>3, <3>4 DEF RefreshTokens, Issue, discord
    <2>4. QED
      BY <1>2, <2>2, <2>3 DEF RefreshTokens
  <1>3. CASE UpdateTokens(r)
    <2>1. req[r].pc = "store" /\ req[r] # Idle /\ UNCHANGED valid /\ req[r].pair \in 1..pairs
      BY <1>0, <1>3 DEF UpdateTokens, At, discord, Holding
    <2>2. CASE Fail(r) /\ lost' = (lost \/ RowOf(r)) /\ UNCHANGED row
      BY <1>0, <1>a, <2>1, <2>2, QuietKeeps DEF Fail, Goto
    <2>3. CASE /\ RowOf(r) /\ WithSession(r, req[r].pair) /\ UNCHANGED lost
               /\ row' = [row EXCEPT !.pair = req[r].pair, !.expires = clock + TokenLife]
      <3>1. PICK x : Moves(r, x) /\ (x.pc = "act" \/ x.pc = "guilds")
        BY <1>0, <2>1, <2>3, WithSessionMoves
      <3>2. \A q \in Requests : req'[q] = IF q = r THEN x ELSE req[q]
        BY <1>0, <3>1 DEF Moves
      <3>3. row'.pair = req[r].pair /\ row'.sid = row.sid
        BY <1>0, <2>3 DEF RowOf, Row
      <3>4. req[r].pair \in valid
        BY <2>1 DEF Owned, At
      <3>5. Owned'
        BY <2>1, <3>1, <3>2, <3>3 DEF Owned, At
      <3>6. SessionUsable'
        BY <2>1, <3>3, <3>4 DEF SessionUsable
      <3>7. QED
        BY <3>5, <3>6
    <2>4. QED
      BY <1>3, <2>2, <2>3 DEF UpdateTokens
  <1>c. ASSUME NEW b, Checked(r, b), req[r] # Idle, ~At(r, "store"), UNCHANGED <<row, discord, lost>>
        PROVE  Owned' /\ SessionUsable'
    <2>1. PICK x : Moves(r, x) /\ (x = Idle \/ x.pc = "act")
      BY <1>0, <1>c, CheckedMoves
    <2>2. QED
      BY <1>0, <1>c, <2>1, QuietKeeps DEF Moves, discord
  <1>g. ASSUME NEW x, Goto(r, x), x.pc \notin {"refresh", "store"}, ~At(r, "store"),
               UNCHANGED <<row, discord, lost>>
        PROVE  Owned' /\ SessionUsable'
    BY <1>g, QuietKeeps DEF Goto, discord
  <1>4. CASE VerifyGuildAdmin(r)
    <2>1. /\ req[r] # Idle /\ req[r] \in Request /\ ~At(r, "store")
          /\ UNCHANGED <<clock, row, discord, lost>>
      BY <1>0, <1>4
         DEF VerifyGuildAdmin, CheckCache, LockFetch, RecheckCache, FetchGuilds, InsertGuilds, At
    <2>2. /\ [req[r] EXCEPT !.pc = "lock"].pc = "lock" /\ [req[r] EXCEPT !.pc = "fetch"].pc = "fetch"
          /\ [req[r] EXCEPT !.pc = "recheck"].pc = "recheck"
          /\ [req[r] EXCEPT !.pc = "insert", !.admin = admin, !.at = clock].pc = "insert"
      BY <2>1 DEF Request
    <2>3. CASE CheckCache(r)
      BY <1>c, <1>g, <2>1, <2>2, <2>3 DEF CheckCache
    <2>4. CASE LockFetch(r)
      BY <1>g, <2>1, <2>2, <2>4 DEF LockFetch
    <2>5. CASE RecheckCache(r)
      BY <1>c, <1>g, <2>1, <2>2, <2>5 DEF RecheckCache
    <2>6. CASE FetchGuilds(r)
      BY <1>0, <1>g, <2>1, <2>2, <2>6 DEF FetchGuilds, Fail
    <2>7. CASE InsertGuilds(r)
      BY <1>c, <2>1, <2>7 DEF InsertGuilds
    <2>8. QED
      BY <1>4, <2>3, <2>4, <2>5, <2>6, <2>7 DEF VerifyGuildAdmin
  <1>5. CASE SelectServer(r)
    <2>1. row' # NoRow => row # NoRow /\ row'.sid = row.sid /\ row'.pair = row.pair
      BY <1>0, <1>5 DEF SelectServer, RowOf, Row
    <2>2. QED
      BY <1>0, <1>5, <2>1, QuietKeeps DEF SelectServer, Fail, Goto, At, discord
  <1>6. CASE Answer(r)
    BY <1>0, <1>6, <1>g DEF Answer, Fail, At
  <1>7. CASE Dropped(r)
    BY <1>0, <1>a, <1>7, QuietKeeps DEF Dropped, Fail, Goto, discord
  <1>8. ASSUME NEW kind \in Kinds, Arrive(r, kind) PROVE Owned' /\ SessionUsable'
    <2>1. Begin(kind, row.sid, "lookup").pc = "lookup"
      BY DEF Begin
    <2>2. QED
      BY <1>0, <1>8, <1>g, <2>1 DEF Arrive, At
  <1>9. QED
    BY <1>1, <1>2, <1>3, <1>4, <1>5, <1>6, <1>7, <1>8 DEF RequestStep, GetSession

\* However many requests refresh a session at once, its row ends with a refresh
\* token that Discord accepts, unless a request was cut off with the new pair in
\* hand (get_session).
THEOREM SessionUsableEver == Spec => []SessionUsable
  <1>1. Init => Owned /\ SessionUsable
    BY DEF Init, Owned, SessionUsable, At, Idle
  <1>2. TypeInv /\ Owned /\ SessionUsable /\ [Next]_vars => Owned' /\ SessionUsable'
    <2> SUFFICES ASSUME TypeInv, Owned, SessionUsable, [Next]_vars PROVE Owned' /\ SessionUsable'
      OBVIOUS
    <2>1. ASSUME NEW r \in Requests, RequestStep(r) PROVE Owned' /\ SessionUsable'
      BY <2>1, RequestKeepsUsable
    <2>2. CASE AuthCallback
      <3>1. /\ pairs \in Nat /\ valid' = (valid \ {}) \cup {pairs + 1} /\ UNCHANGED req
            /\ row' = [sid |-> pairs + 1, pair |-> pairs + 1, expires |-> clock + TokenLife, selected |-> FALSE]
        BY <2>2 DEF AuthCallback, Issue, TypeInv, TypeOK
      <3>2. \A r \in Requests : req[r].pc \in {"refresh", "store"} => req[r].pair \in 1..pairs
        BY DEF TypeInv, Issued, Holding
      <3>3. row'.pair = pairs + 1 /\ row'.pair \in valid' /\ pairs + 1 \notin 1..pairs
        BY <3>1
      <3>4. Owned'
        BY <3>1, <3>2, <3>3 DEF Owned, At
      <3>5. SessionUsable'
        BY <3>3 DEF SessionUsable
      <3>6. QED
        BY <3>4, <3>5
    <2>3. CASE AuthLogout \/ CleanupExpired
      BY <2>3 DEF AuthLogout, CleanupExpired, Owned, SessionUsable, At, discord
    <2>4. CASE AdminChanges \/ Tick \/ UNCHANGED vars
      BY <2>4 DEF AdminChanges, Tick, vars, discord, guilds, Owned, SessionUsable, At, RowOf
    <2>5. QED
      BY <2>1, <2>2, <2>3, <2>4 DEF Next
  <1>3. QED
    BY <1>1, <1>2, TypeCorrect, PTL DEF Spec

-----------------------------------------------------------------------------
(* Sessions are not brought back.                                          *)

\* Only a login makes a row, with an id no request has: an update that finds no
\* row changes nothing (update_session_tokens, set_selected_guild).
THEOREM LoggedOutStaysOutEver == Spec => LoggedOutStaysOut
  <1>1. ASSUME TypeInv, [Next]_vars
        PROVE  row = NoRow /\ row' # NoRow =>
                  \A r \in Requests : req[r] # Idle => row'.sid # req[r].sid
    <2> SUFFICES ASSUME row = NoRow, row' # NoRow, NEW r \in Requests, req[r] # Idle
                 PROVE  row'.sid # req[r].sid
      OBVIOUS
    <2>1. ASSUME NEW q \in Requests, RequestStep(q) PROVE row' = NoRow
      BY <2>1 DEF RequestStep, Arrive, GetSession, LookUp, RefreshTokens, UpdateTokens, RowOf,
                  VerifyGuildAdmin, CheckCache, LockFetch, RecheckCache, FetchGuilds, InsertGuilds,
                  SelectServer, Answer, Dropped
    <2>2. AuthCallback
      BY <1>1, <2>1 DEF Next, AdminChanges, AuthLogout, CleanupExpired, Tick, vars
    <2>3. row'.sid = pairs + 1
      BY <2>2 DEF AuthCallback
    <2>4. req[r].sid \in 1..pairs /\ pairs \in Nat
      BY <1>1 DEF TypeInv, Issued, TypeOK
    <2>5. QED
      BY <2>3, <2>4
  <1>2. QED
    BY <1>1, TypeCorrect, PTL DEF Spec, LoggedOutStaysOut

-----------------------------------------------------------------------------
(* Whoever passes the check was an administrator a short while ago.        *)

\* What a request is about to cache was true when Discord answered, at most one
\* fetch ago; what is cached was true at most one fetch before it was cached.
Remembered ==
    /\ demoted <= clock
    /\ \A p \in Pairs :
          /\ guildCache[p].at <= clock
          /\ guildCache[p].admin => admin \/ (demoted >= 0 /\ guildCache[p].at <= demoted + MaxFetch)
    /\ \A r \in Requests : At(r, "insert") =>
          /\ req[r].at <= clock /\ clock <= req[r].at + MaxFetch
          /\ req[r].admin => admin \/ demoted >= req[r].at

\* A step that leaves the cache, the clock and Discord's mind alone, and brings
\* no answer.
LEMMA RememberedFrame ==
  ASSUME TypeInv, Remembered, UNCHANGED <<clock, admin, demoted, guildCache>>,
         NEW r \in Requests, NEW x, req' = [req EXCEPT ![r] = x], x.pc # "insert"
  PROVE  Remembered'
  <1>1. \A q \in Requests : req'[q] = IF q = r THEN x ELSE req[q]
    BY DEF TypeInv, TypeOK
  <1>2. QED
    BY <1>1 DEF Remembered, At

LEMMA RememberedStep == TypeInv /\ Remembered /\ [Next]_vars => Remembered'
  <1> SUFFICES ASSUME TypeInv, Remembered, [Next]_vars PROVE Remembered'
    OBVIOUS
  <1>0. /\ req \in [Requests -> {Idle} \cup Request] /\ clock \in Nat /\ demoted \in Int
        /\ guildCache \in [Pairs -> [at : Nat, admin : BOOLEAN] \cup {NoEntry}] /\ MaxFetch \in Nat
        /\ \A p \in Pairs : guildCache[p].at \in Int
        /\ TypeOK /\ Idle.pc = "idle"
    BY Bounds DEF TypeInv, TypeOK, NoEntry, Idle
  <1>1. ASSUME NEW r \in Requests, RequestStep(r) PROVE Remembered'
    <2>0. /\ req[r] # Idle => req[r] \in Request
          /\ req[r] = Idle <=> req[r].pc = "idle"
          /\ row # NoRow => row.pair \in 1..pairs
          /\ req[r].pc = "store" => req[r].pair \in 1..pairs
      BY UnderWay DEF TypeInv, Issued, Holding
    <2>g. ASSUME NEW x, Goto(r, x), x.pc # "insert", UNCHANGED <<clock, admin, demoted, guildCache>>
          PROVE  Remembered'
      BY <2>g, RememberedFrame DEF Goto
    <2>c. ASSUME NEW b, Checked(r, b), req[r] # Idle, UNCHANGED <<clock, admin, demoted, guildCache>>
          PROVE  Remembered'
      <3>1. PICK x : Moves(r, x) /\ (x = Idle \/ x.pc = "act")
        BY <1>0, <2>c, CheckedMoves
      <3>2. QED
        BY <1>0, <2>c, <3>1, RememberedFrame DEF Moves
    <2>w. ASSUME NEW p \in 1..pairs, WithSession(r, p), req[r] # Idle,
                 UNCHANGED <<clock, admin, demoted, guildCache>>
          PROVE  Remembered'
      <3>1. PICK x : Moves(r, x) /\ (x.pc = "act" \/ x.pc = "guilds")
        BY <1>0, <2>w, WithSessionMoves
      <3>2. QED
        BY <2>w, <3>1, RememberedFrame DEF Moves
    <2>f. Fail(r) <=> Goto(r, Idle)
      BY DEF Fail
    <2>1. CASE InsertGuilds(r)
      <3>1. /\ req[r].pc = "insert" /\ req[r] \in Request /\ Checked(r, req[r].admin)
            /\ guildCache' = [guildCache EXCEPT ![req[r].pair] = [at |-> clock, admin |-> req[r].admin]]
            /\ UNCHANGED <<clock, admin, demoted>>
        BY <1>0, <2>0, <2>1 DEF InsertGuilds, At, discord
      <3>2. PICK x : Moves(r, x) /\ (x = Idle \/ x.pc = "act")
        BY <1>0, <2>0, <3>1, CheckedMoves
      <3>3. \A q \in Requests : req'[q] = IF q = r THEN x ELSE req[q]
        BY <1>0, <3>2 DEF Moves
      <3>4. ASSUME NEW p \in Pairs
            PROVE  /\ guildCache'[p].at <= clock
                   /\ guildCache'[p].admin =>
                        admin \/ (demoted >= 0 /\ guildCache'[p].at <= demoted + MaxFetch)
        <4>1. CASE p = req[r].pair
          <5>1. guildCache'[p] = [at |-> clock, admin |-> req[r].admin]
            BY <1>0, <3>1, <4>1
          <5>2. /\ clock <= req[r].at + MaxFetch /\ req[r].at \in Nat
                /\ req[r].admin => admin \/ demoted >= req[r].at
            BY <3>1 DEF Remembered, At, Request
          <5>3. QED
            BY <1>0, <5>1, <5>2
        <4>2. CASE p # req[r].pair
          BY <1>0, <3>1, <4>2 DEF Remembered
        <4>3. QED
          BY <4>1, <4>2
      <3>5. QED
        BY <1>0, <3>1, <3>2, <3>3, <3>4 DEF Remembered, At
    <2>2. CASE FetchGuilds(r)
      <3>1. req[r] # Idle /\ UNCHANGED <<clock, admin, demoted, guildCache>>
        BY <1>0, <2>0, <2>2 DEF FetchGuilds, At, discord
      <3>2. CASE Fail(r)
        BY <1>0, <2>f, <2>g, <3>1, <3>2
      <3>3. CASE Goto(r, [req[r] EXCEPT !.pc = "insert", !.admin = admin, !.at = clock])
        <4> DEFINE x == [req[r] EXCEPT !.pc = "insert", !.admin = admin, !.at = clock]
        <4>1. x.admin = admin /\ x.at = clock
          BY <2>0, <3>1 DEF Request
        <4>2. req' = [req EXCEPT ![r] = x]
          BY <3>3 DEF Goto
        <4> HIDE DEF x
        <4>3. \A q \in Requests : req'[q] = IF q = r THEN x ELSE req[q]
          BY <1>0, <4>2
        <4>4. QED
          BY <1>0, <3>1, <4>1, <4>3 DEF Remembered, At
      <3>4. QED
        BY <2>2, <3>2, <3>3 DEF FetchGuilds
    <2>3. CASE CheckCache(r) \/ LockFetch(r) \/ RecheckCache(r)
      <3>1. /\ req[r] \in Request /\ req[r] # Idle /\ UNCHANGED <<clock, admin, demoted, guildCache>>
        BY <1>0, <2>0, <2>3 DEF CheckCache, LockFetch, RecheckCache, At, discord, guilds
      <3>2. /\ [req[r] EXCEPT !.pc = "lock"].pc = "lock" /\ [req[r] EXCEPT !.pc = "fetch"].pc = "fetch"
            /\ [req[r] EXCEPT !.pc = "recheck"].pc = "recheck"
        BY <3>1 DEF Request
      <3>3. CASE CheckCache(r)
        BY <2>c, <2>g, <3>1, <3>2, <3>3 DEF CheckCache
      <3>4. CASE LockFetch(r)
        BY <2>g, <3>1, <3>2, <3>4 DEF LockFetch
      <3>5. CASE RecheckCache(r)
        BY <2>c, <2>g, <3>1, <3>2, <3>5 DEF RecheckCache
      <3>6. QED
        BY <2>3, <3>3, <3>4, <3>5
    <2>4. CASE LookUp(r)
      <3>1. req[r] \in Request /\ req[r] # Idle /\ UNCHANGED <<clock, admin, demoted, guildCache>>
        BY <1>0, <2>0, <2>4 DEF LookUp, At, discord, guilds
      <3>2. CASE Goto(r, [req[r] EXCEPT !.pair = row.pair, !.pc = "refresh"])
        <4>1. [req[r] EXCEPT !.pair = row.pair, !.pc = "refresh"].pc = "refresh"
          BY <3>1 DEF Request
        <4>2. QED
          BY <2>g, <3>1, <3>2, <4>1
      <3>3. QED
        BY <1>0, <2>0, <2>f, <2>g, <2>w, <2>4, <3>1, <3>2 DEF LookUp
    <2>5. CASE RefreshTokens(r)
      <3>1. req[r] \in Request /\ UNCHANGED <<clock, admin, demoted, guildCache>>
        BY <1>0, <2>0, <2>5 DEF RefreshTokens, Issue, At, discord, guilds
      <3>2. [req[r] EXCEPT !.pc = "store", !.pair = pairs + 1].pc = "store"
        BY <3>1 DEF Request
      <3>3. QED
        BY <1>0, <2>f, <2>g, <2>5, <3>1, <3>2 DEF RefreshTokens
    <2>6. CASE UpdateTokens(r)
      <3>1. /\ req[r] # Idle /\ req[r].pair \in 1..pairs
            /\ UNCHANGED <<clock, admin, demoted, guildCache>>
        BY <1>0, <2>0, <2>6 DEF UpdateTokens, At, discord, guilds
      <3>2. QED
        BY <1>0, <2>f, <2>g, <2>w, <2>6, <3>1 DEF UpdateTokens
    <2>7. CASE SelectServer(r) \/ Answer(r) \/ Dropped(r)
      BY <1>0, <2>f, <2>g, <2>7 DEF SelectServer, Answer, Dropped, discord, guilds
    <2>8. ASSUME NEW kind \in Kinds, Arrive(r, kind) PROVE Remembered'
      <3>1. Begin(kind, row.sid, "lookup").pc = "lookup"
        BY DEF Begin
      <3>2. QED
        BY <2>g, <2>8, <3>1 DEF Arrive, discord, guilds
    <2>9. QED
      BY <1>1, <2>1, <2>2, <2>3, <2>4, <2>5, <2>6, <2>7, <2>8
         DEF RequestStep, GetSession, VerifyGuildAdmin
  <1>2. CASE AdminChanges
    <2>1. /\ UNCHANGED <<clock, guildCache, req>> /\ admin \in BOOLEAN /\ admin' = ~admin
          /\ demoted' = IF admin THEN clock ELSE demoted
      BY <1>2 DEF AdminChanges, guilds, TypeInv, TypeOK
    <2>2. CASE admin
      <3>1. \A r \in Requests : At(r, "insert") => req[r].at \in Nat
        BY <1>0, UnderWay DEF At, Request
      <3>2. QED
        BY <1>0, <2>1, <2>2, <3>1 DEF Remembered, At
    <2>3. CASE ~admin
      BY <1>0, <2>1, <2>3 DEF Remembered, At
    <2>4. QED
      BY <2>2, <2>3
  <1>3. CASE Tick
    <2>1. \A r \in Requests : At(r, "insert") => clock < req[r].at + MaxFetch /\ req[r].at \in Nat
      BY <1>0, <1>3, UnderWay DEF Tick, At, Request
    <2>2. QED
      BY <1>0, <1>3, <2>1 DEF Tick, Remembered, At, discord, guilds
  <1>4. CASE AuthCallback \/ AuthLogout \/ CleanupExpired \/ UNCHANGED vars
    BY <1>4 DEF AuthCallback, Issue, AuthLogout, CleanupExpired, vars, discord, guilds, Remembered, At
  <1>5. QED
    BY <1>1, <1>2, <1>3, <1>4 DEF Next

\* What was remembered at most GuildTtl ago was true within that and a fetch.
LEMMA FreshIsRecent ==
  ASSUME TypeInv, Remembered, NEW p \in Pairs, Fresh(guildCache[p]), guildCache[p].admin
  PROVE  admin \/ (demoted >= 0 /\ clock - demoted < GuildTtl + MaxFetch)
  <1>1. /\ clock \in Nat /\ demoted \in Int /\ MaxFetch \in Nat /\ GuildTtl \in Nat
        /\ guildCache[p] # NoEntry /\ guildCache[p] \in [at : Nat, admin : BOOLEAN] \cup {NoEntry}
    BY Bounds DEF TypeInv, TypeOK, Fresh
  <1>2. guildCache[p].at \in Nat /\ clock - guildCache[p].at < GuildTtl
    BY <1>1 DEF Fresh
  <1>3. admin \/ (demoted >= 0 /\ guildCache[p].at <= demoted + MaxFetch)
    BY DEF Remembered
  <1>4. QED
    BY <1>1, <1>2, <1>3

\* Whoever passes the check for a guild was its administrator within GuildTtl and
\* one fetch, whichever request filled the cache (verify_guild_admin).
THEOREM AdminWasRecentEver == Spec => AdminWasRecent
  <1>1. Init => Remembered
    BY Bounds DEF Init, Remembered, NoEntry, At, Idle
  <1>2. Spec => []Remembered
    BY <1>1, RememberedStep, TypeCorrect, PTL DEF Spec
  <1>3. ASSUME TypeInv, Remembered, [Next]_vars
        PROVE  \A r \in Requests :
                 ~At(r, "act") /\ req'[r].pc = "act" /\ req[r].kind = "guild"
                 => admin \/ (demoted >= 0 /\ clock - demoted < GuildTtl + MaxFetch)
    <2> DEFINE Recent == admin \/ (demoted >= 0 /\ clock - demoted < GuildTtl + MaxFetch)
    <2> SUFFICES ASSUME NEW r \in Requests, ~At(r, "act"), req'[r].pc = "act", req[r].kind = "guild"
                 PROVE  Recent
      OBVIOUS
    <2>0. /\ req \in [Requests -> {Idle} \cup Request] /\ TypeOK /\ Idle.pc = "idle"
          /\ req[r].pc # "act"
          /\ row # NoRow => row.pair \in 1..pairs
          /\ \A q \in Requests : req[q].pc \in Holding => req[q].pair \in 1..pairs /\ req[q].pair \in Pairs
          /\ \A q \in Requests : req[q] # Idle => req[q] \in Request
          /\ \A q \in Requests : req[q] = Idle <=> req[q].pc = "idle"
      BY <1>3, UnderWay, Bounds DEF TypeInv, TypeOK, Issued, Idle, At, Pairs
    <2>1. ASSUME UNCHANGED req PROVE FALSE
      BY <2>0, <2>1
    <2>2. ASSUME NEW q \in Requests, RequestStep(q) PROVE Recent
      <3>1. ASSUME NEW x, req' = [req EXCEPT ![q] = x] PROVE q = r /\ x.pc = "act"
        BY <2>0, <3>1
      <3>2. ASSUME NEW x, Goto(q, x), x.pc # "act" PROVE FALSE
        BY <3>1, <3>2 DEF Goto
      <3>f. ASSUME Fail(q) PROVE FALSE
        BY <2>0, <3>2, <3>f DEF Fail
      <3>w. ASSUME NEW p \in 1..pairs, WithSession(q, p), req[q] # Idle PROVE FALSE
        <4>1. PICK x : Moves(q, x) /\ (req[q].kind = "session" \/ x.pc = "guilds")
          BY <2>0, <3>w, WithSessionMoves
        <4>2. QED
          BY <3>1, <4>1 DEF Moves
      <3>c. ASSUME NEW b, Checked(q, b) PROVE b /\ q = r
        BY <3>1, <3>c, <3>f DEF Checked, Act, Goto
      <3>3. CASE CheckCache(q)
        <4>1. req[q] \in Request /\ req[q].pair \in Pairs
          BY <2>0, <3>3 DEF CheckCache, At, Holding
        <4>2. [req[q] EXCEPT !.pc = "lock"].pc = "lock"
          BY <4>1 DEF Request
        <4>3. Fresh(Entry(q)) /\ Checked(q, Entry(q).admin)
          BY <3>2, <3>3, <4>2 DEF CheckCache
        <4>4. Entry(q).admin
          BY <3>c, <4>3
        <4>5. QED
          BY <1>3, <4>1, <4>3, <4>4, FreshIsRecent DEF Entry
      <3>4. CASE RecheckCache(q)
        <4>1. req[q] \in Request /\ req[q].pair \in Pairs
          BY <2>0, <3>4 DEF RecheckCache, At, Holding
        <4>2. [req[q] EXCEPT !.pc = "fetch"].pc = "fetch"
          BY <4>1 DEF Request
        <4>3. Fresh(Entry(q)) /\ Checked(q, Entry(q).admin)
          BY <3>2, <3>4, <4>2 DEF RecheckCache
        <4>4. Entry(q).admin
          BY <3>c, <4>3
        <4>5. QED
          BY <1>3, <4>1, <4>3, <4>4, FreshIsRecent DEF Entry
      <3>5. CASE InsertGuilds(q)
        <4>1. /\ req[q].admin /\ req[q].at \in Nat /\ clock <= req[q].at + MaxFetch
              /\ admin \/ demoted >= req[q].at
          <5>1. req[q] \in Request /\ At(q, "insert") /\ req[q].admin
            BY <2>0, <3>5, <3>c DEF InsertGuilds, At
          <5>2. QED
            BY <1>3, <5>1 DEF Remembered, Request
        <4>2. clock \in Nat /\ demoted \in Int
          BY <2>0 DEF TypeOK
        <4>3. QED
          BY <4>1, <4>2, Bounds
      <3>6. CASE LockFetch(q)
        <4>1. [req[q] EXCEPT !.pc = "recheck"].pc = "recheck"
          BY <2>0, <3>6 DEF LockFetch, At, Request
        <4>2. QED
          BY <3>2, <3>6, <4>1 DEF LockFetch
      <3>7. CASE FetchGuilds(q)
        <4>1. [req[q] EXCEPT !.pc = "insert", !.admin = admin, !.at = clock].pc = "insert"
          BY <2>0, <3>7 DEF FetchGuilds, At, Request
        <4>2. QED
          BY <3>2, <3>7, <3>f, <4>1 DEF FetchGuilds
      <3>8. CASE LookUp(q)
        <4>1. req[q] # Idle /\ [req[q] EXCEPT !.pair = row.pair, !.pc = "refresh"].pc = "refresh"
          BY <2>0, <3>8 DEF LookUp, At, Request
        <4>2. QED
          BY <2>0, <3>2, <3>8, <3>f, <3>w, <4>1 DEF LookUp
      <3>9. CASE RefreshTokens(q)
        <4>1. [req[q] EXCEPT !.pc = "store", !.pair = pairs + 1].pc = "store"
          BY <2>0, <3>9 DEF RefreshTokens, At, Request
        <4>2. QED
          BY <3>2, <3>9, <3>f, <4>1 DEF RefreshTokens
      <3>10. CASE UpdateTokens(q)
        <4>1. req[q] # Idle /\ req[q].pair \in 1..pairs
          BY <2>0, <3>10 DEF UpdateTokens, At, Holding
        <4>2. QED
          BY <3>10, <3>f, <3>w, <4>1 DEF UpdateTokens
      <3>11. CASE SelectServer(q) \/ Answer(q) \/ Dropped(q)
        BY <3>11, <3>f DEF SelectServer, Answer, Dropped
      <3>12. ASSUME NEW kind \in Kinds, Arrive(q, kind) PROVE FALSE
        <4>1. Begin(kind, row.sid, "lookup").pc = "lookup"
          BY DEF Begin
        <4>2. QED
          BY <3>2, <3>12, <4>1 DEF Arrive
      <3>13. QED
        BY <2>2, <3>3, <3>4, <3>5, <3>6, <3>7, <3>8, <3>9, <3>10, <3>11, <3>12
           DEF RequestStep, GetSession, VerifyGuildAdmin
    <2>3. QED
      BY <1>3, <2>1, <2>2
         DEF Next, AdminChanges, AuthCallback, AuthLogout, CleanupExpired, Tick, vars
  <1>4. QED
    BY <1>2, <1>3, TypeCorrect, PTL DEF Spec, AdminWasRecent
=============================================================================
