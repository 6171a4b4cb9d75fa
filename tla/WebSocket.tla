------------------------------ MODULE WebSocket ------------------------------
(***************************************************************************)
(* The dashboard's WebSocket connections (src/src/websocket.rs): each runs *)
(* handle_connection, a select! loop over the client's messages and two    *)
(* intervals, and keeps a receiver per subscription.  A map counts the     *)
(* subscriptions of a user to a guild over all connections, to limit them. *)
(* Users share nothing but locks, so the connections here are of one user. *)
(*                                                                         *)
(*   Subscribe, Unsubscribe         Subscribe, Unsubscribe                 *)
(*   ping_interval, pong_timeout    PingTick, PongTimeout                  *)
(*   Pong; Close or an error        Pong; Close                            *)
(*   the loop after the select      Release ; RemoveKey ; Closed           *)
(*                                                                         *)
(* Giving back the last subscription is two critical sections: the count   *)
(* drops to zero under its lock, then the key is removed.                  *)
(*                                                                         *)
(* A definition named Faulty... is the one after it with a bug put in, kept*)
(* to show that the properties notice; no specification uses it.           *)
(***************************************************************************)
EXTENDS Naturals, FiniteSets

CONSTANTS Conns,     \* connections of one user
          Guilds,
          Limit,     \* subscriptions of a user to a guild, 5 in the code
          MaxSubs,   \* bound on the subscriptions of one connection to a guild
          None       \* no key in the map, no guild

ASSUME WebSocketAssumption ==
    /\ IsFiniteSet(Conns)
    /\ Limit \in Nat \ {0} /\ MaxSubs \in Nat \ {0}
    /\ None \notin Nat \cup Guilds

VARIABLES
    step,      \* where each connection is
    at,        \* the guild whose key it is about to remove
    subs,      \* its receivers for each guild
    awaiting,  \* awaiting_pong
    silent,    \* the client will not send anything any more
    count,     \* the map user_connections, for the user
    connected, \* connection_count
    leaked,    \* history: guilds with a count that was not given back in full
    forgotten  \* history: guilds with a subscription that is not counted,
               \* both until count and subscriptions agree again

cvars == <<step, at, subs, awaiting, silent>>
vars  == <<cvars, count, connected, leaked, forgotten>>

\* A connection about to remove a key goes on in its loop, or is cleaning up.
Steps == {"closed", "open", "remove", "cleanup", "cleanup_remove"}
Removing == {"remove", "cleanup_remove"}

\* The receivers there are for a guild, numbered in each connection.
Receivers(g) == {r \in Conns \X (1..MaxSubs) : r[2] <= subs[r[1]][g]}

Total(g) == Cardinality(Receivers(g))
Count(g) == IF count[g] = None THEN 0 ELSE count[g]
Agrees(g) == Count(g) = Total(g)

(* A connection that is closed has no receivers; the count is within the   *)
(* limit, and connections are counted until they are closed.               *)
TypeOK ==
    /\ step \in [Conns -> Steps]
    /\ at \in [Conns -> Guilds \cup {None}]
    /\ \A c \in Conns : at[c] # None <=> step[c] \in Removing
    /\ subs \in [Conns -> [Guilds -> 0..MaxSubs]]
    /\ \A c \in Conns, g \in Guilds : step[c] = "closed" => subs[c][g] = 0
    /\ awaiting \in [Conns -> BOOLEAN]
    /\ silent \in [Conns -> BOOLEAN]
    /\ count \in [Guilds -> 0..Limit \cup {None}]
    /\ connected = Cardinality({c \in Conns : step[c] # "closed"})
    /\ leaked \subseteq Guilds /\ forgotten \subseteq Guilds

Init ==
    /\ step = [c \in Conns |-> "closed"]
    /\ at = [c \in Conns |-> None]
    /\ subs = [c \in Conns |-> [g \in Guilds |-> 0]]
    /\ awaiting = [c \in Conns |-> FALSE]
    /\ silent = [c \in Conns |-> FALSE]
    /\ count = [g \in Guilds |-> None]
    /\ connected = 0
    /\ leaked = {} /\ forgotten = {}

Goes(c, s) == step' = [step EXCEPT ![c] = s]

Connect(c) ==
    /\ step[c] = "closed"
    /\ Goes(c, "open")
    /\ awaiting' = [awaiting EXCEPT ![c] = FALSE]
    /\ silent' = [silent EXCEPT ![c] = FALSE]
    /\ connected' = connected + 1
    /\ UNCHANGED <<at, subs, count, leaked, forgotten>>

\* The client sends a message, and the loop handles it.
Hears(c) == step[c] = "open" /\ ~silent[c]

\* Bug: the limit admits one more.
FaultyBelowLimit(g) == Count(g) <= Limit

BelowLimit(g) == Count(g) < Limit

(* Counted and received again if the connection has subscribed before;     *)
(* beyond the limit the client is told so and nothing changes.             *)
Subscribe(c, g) ==
    /\ Hears(c)
    /\ BelowLimit(g)
    /\ subs[c][g] < MaxSubs
    /\ count' = [count EXCEPT ![g] = Count(g) + 1]
    /\ subs' = [subs EXCEPT ![c][g] = @ + 1]
    /\ UNCHANGED <<step, at, awaiting, silent, connected, leaked, forgotten>>

(* One less under the lock of the entry, saturating, if there is one; the  *)
(* key goes in a step of its own.                                          *)
GiveBack(c, g, removing, after) ==
    /\ count' = IF count[g] \in {None, 0} THEN count ELSE [count EXCEPT ![g] = @ - 1]
    /\ IF count[g] \in {0, 1}
       THEN Goes(c, removing) /\ at' = [at EXCEPT ![c] = g]
       ELSE Goes(c, after) /\ UNCHANGED at

(* The history after a step that may have mixed up the guilds in l and f.  *)
Remember(l, f) ==
    /\ leaked' = {g \in leaked \cup l : ~Agrees(g)'}
    /\ forgotten' = {g \in forgotten \cup f : ~Agrees(g)'}

(* All receivers of the guild are dropped, none or several, and one is     *)
(* given back.                                                             *)
Unsubscribe(c, g) ==
    /\ Hears(c)
    /\ subs' = [subs EXCEPT ![c][g] = 0]
    /\ GiveBack(c, g, "remove", "open")
    /\ Remember(IF subs[c][g] > 1 THEN {g} ELSE {}, IF subs[c][g] = 0 THEN {g} ELSE {})
    /\ UNCHANGED <<awaiting, silent, connected>>

(* Whoever has subscribed since the count was zero is no longer counted.   *)
RemoveKey(c) ==
    /\ step[c] \in Removing
    /\ Goes(c, IF step[c] = "remove" THEN "open" ELSE "cleanup")
    /\ count' = [count EXCEPT ![at[c]] = None]
    /\ at' = [at EXCEPT ![c] = None]
    /\ UNCHANGED <<subs, awaiting, silent, connected>>
    /\ Remember({}, IF Count(at[c]) > 0 THEN {at[c]} ELSE {})

Pong(c) ==
    /\ Hears(c)
    /\ awaiting' = [awaiting EXCEPT ![c] = FALSE]
    /\ UNCHANGED <<step, at, subs, silent, count, connected, leaked, forgotten>>

GoSilent(c) ==
    /\ Hears(c)
    /\ silent' = [silent EXCEPT ![c] = TRUE]
    /\ UNCHANGED <<step, at, subs, awaiting, count, connected, leaked, forgotten>>

Break(c) ==
    /\ Goes(c, "cleanup")
    /\ UNCHANGED <<at, subs, awaiting, silent, count, connected, leaked, forgotten>>

\* The client closes, the socket fails, or a ping cannot be sent.
Close(c) == step[c] = "open" /\ Break(c)

PingTick(c) ==
    /\ step[c] = "open"
    /\ \/ awaiting[c] /\ Break(c)
       \/ /\ ~awaiting[c]
          /\ awaiting' = [awaiting EXCEPT ![c] = TRUE]
          /\ UNCHANGED <<step, at, subs, silent, count, connected, leaked, forgotten>>

PongTimeout(c) == step[c] = "open" /\ awaiting[c] /\ Break(c)

\* Bug: cleaning up gives back one subscription per guild.
FaultyRelease(c, g) ==
    /\ step[c] = "cleanup"
    /\ subs[c][g] > 0
    /\ subs' = [subs EXCEPT ![c][g] = 0]
    /\ GiveBack(c, g, "cleanup_remove", "cleanup")
    /\ Remember({}, {})
    /\ UNCHANGED <<awaiting, silent, connected>>

(* After the loop: each receiver is given back, in the order of the list.  *)
Release(c, g) ==
    /\ step[c] = "cleanup"
    /\ subs[c][g] > 0
    /\ subs' = [subs EXCEPT ![c][g] = @ - 1]
    /\ GiveBack(c, g, "cleanup_remove", "cleanup")
    /\ Remember({}, {})
    /\ UNCHANGED <<awaiting, silent, connected>>

Closed(c) ==
    /\ step[c] = "cleanup"
    /\ \A g \in Guilds : subs[c][g] = 0
    /\ Goes(c, "closed")
    /\ connected' = connected - 1
    /\ UNCHANGED <<at, subs, awaiting, silent, count, leaked, forgotten>>

CleansUp(c) == RemoveKey(c) \/ (\E g \in Guilds : Release(c, g)) \/ Closed(c)

\* Bug: an overdue answer is asked for again, its timeout starting anew.
FaultyTimes(c) == PingTick(c) /\ step'[c] = "open"

Times(c) == PingTick(c) \/ PongTimeout(c)

Next == \E c \in Conns :
    \/ Connect(c) \/ Pong(c) \/ GoSilent(c) \/ Close(c)
    \/ \E g \in Guilds : Subscribe(c, g) \/ Unsubscribe(c, g)
    \/ Times(c) \/ CleansUp(c)

Spec == Init /\ [][Next]_vars /\ \A c \in Conns : WF_vars(CleansUp(c)) /\ WF_vars(Times(c))

-----------------------------------------------------------------------------
(* Properties                                                              *)

\* The limit per user and guild holds for the receivers there are, over all
\* connections, unless one is uncounted: a subscription never taken was given
\* back, or one was taken while another connection removed the key.
LimitHolds == \A g \in Guilds \ forgotten : Total(g) <= Limit

\* Counts are given back in full when connections close or unsubscribe, except
\* where a connection left a guild it had subscribed to more than once: no other
\* race makes a count too high, and so locks a user out.
NothingLeaks == \A g \in Guilds \ leaked : Count(g) <= Total(g)

\* A client that falls silent loses its connection and what it held.
SilentIsClosed == \A c \in Conns : silent[c] ~> step[c] = "closed"
=============================================================================
