-------------------------------- MODULE Dedup --------------------------------
(***************************************************************************)
(* Deduplication of GET requests in front of the dashboard's router        *)
(* (src/src/web.rs): the first request for a key leads, executes and       *)
(* broadcasts its answer; requests that find it in flight follow, and wait *)
(* for that answer.                                                        *)
(*                                                                         *)
(*   get in the map              LookUp                                    *)
(*   insert, execute             Insert                                    *)
(*   the response, broadcast     Respond                                   *)
(*   remove                      Remove                                    *)
(*   recv by a follower          Receive                                   *)
(*   the client goes away        Drop                                      *)
(*                                                                         *)
(* The map is a DashMap: shards, a readers-writer lock each.  A follower   *)
(* keeps its read guard while it awaits; who inserts or removes in that    *)
(* shard blocks its thread meanwhile.  From the lookup to the insert, and  *)
(* from the broadcast to the removal, a request runs without an await, on  *)
(* one worker thread of the runtime.                                       *)
(*                                                                         *)
(* A definition named Faulty... is the one after it with a bug put in, kept*)
(* to show that the properties notice; no specification uses it.           *)
(***************************************************************************)
EXTENDS Naturals, FiniteSets

CONSTANTS Requests,    \* GET requests, each made once
          Impatient,   \* those whose client may close the connection
          Keys,        \* method, path and query
          ShardOf,     \* the shard of each key
          Workers,     \* worker threads of the runtime
          None         \* no request

ASSUME DedupAssumption ==
    /\ None \notin Requests
    /\ Impatient \subseteq Requests
    /\ Workers \in Nat \ {0}

VARIABLES
    step,    \* where each request is
    key,     \* its key
    entry,   \* who leads for a key: the channel in the map, named after its maker
    chan,    \* whose channel a follower waits on
    ready,   \* followers whose channel holds an answer for them
    late     \* history: followers that subscribed after the answer was sent

vars == <<step, key, entry, chan, ready, late>>

Steps == {"idle", "look", "insert", "call", "remove", "wait", "done", "gone"}

(* Followers alone wait, and only they are answered.                       *)
TypeOK ==
    /\ step  \in [Requests -> Steps]
    /\ key   \in [Requests -> Keys]
    /\ entry \in [Keys -> Requests \cup {None}]
    /\ chan  \in [Requests -> Requests \cup {None}]
    /\ \A r \in Requests : (chan[r] = None) = (step[r] # "wait")
    /\ ready \subseteq {r \in Requests : step[r] = "wait"}
    /\ late  \subseteq Requests

Init ==
    /\ step  = [r \in Requests |-> "idle"]
    /\ key   \in [Requests -> Keys]
    /\ entry = [k \in Keys |-> None]
    /\ chan  = [r \in Requests |-> None]
    /\ ready = {}
    /\ late  = {}

Goes(r, s) == step' = [step EXCEPT ![r] = s]

(* A request in these steps is running, or blocked, on a worker's thread.  *)
FreeWorker == Cardinality({r \in Requests : step[r] \in {"insert", "remove"}}) < Workers

\* Bug: a follower lets go of the map before it waits.
FaultyWritable(k) == k \in Keys

(* Nobody holds a read guard in the shard of k.                            *)
Writable(k) == \A r \in Requests : step[r] = "wait" => ShardOf[key[r]] # ShardOf[k]

Arrive(r) ==
    /\ step[r] = "idle"
    /\ Goes(r, "look")
    /\ UNCHANGED <<key, entry, chan, ready, late>>

(* A request found in flight is subscribed to under the guard, also when   *)
(* it has been answered and is about to be removed.                        *)
LookUp(r) ==
    /\ step[r] = "look"
    /\ FreeWorker
    /\ LET lead == entry[key[r]] IN
       IF lead = None
       THEN Goes(r, "insert") /\ UNCHANGED <<chan, late>>
       ELSE /\ Goes(r, "wait")
            /\ chan' = [chan EXCEPT ![r] = lead]
            /\ late' = IF step[lead] = "remove" THEN late \cup {r} ELSE late
    /\ UNCHANGED <<key, entry, ready>>

(* Replaces whatever entry another request has put there since the lookup. *)
Insert(r) ==
    /\ step[r] = "insert"
    /\ Writable(key[r])
    /\ entry' = [entry EXCEPT ![key[r]] = r]
    /\ Goes(r, "call")
    /\ UNCHANGED <<key, chan, ready, late>>

\* Bug: one follower is told, as over a oneshot channel.
FaultyRespond(r) ==
    /\ step[r] = "call"
    /\ FreeWorker
    /\ LET fs == {f \in Requests : chan[f] = r}
       IN ready' = IF fs = {} THEN ready ELSE ready \cup {CHOOSE f \in fs : TRUE}
    /\ Goes(r, "remove")
    /\ UNCHANGED <<key, entry, chan, late>>

(* The response is complete and sent to those subscribed by now.           *)
Respond(r) ==
    /\ step[r] = "call"
    /\ FreeWorker
    /\ ready' = ready \cup {f \in Requests : chan[f] = r}
    /\ Goes(r, "remove")
    /\ UNCHANGED <<key, entry, chan, late>>

\* Bug: the entry of an answered request stays.
FaultyRemove(r) ==
    /\ step[r] = "remove"
    /\ Writable(key[r])
    /\ Goes(r, "done")
    /\ UNCHANGED <<key, entry, chan, ready, late>>

(* Removes the key's entry, whoever made it.                               *)
Remove(r) ==
    /\ step[r] = "remove"
    /\ Writable(key[r])
    /\ entry' = [entry EXCEPT ![key[r]] = None]
    /\ Goes(r, "done")
    /\ UNCHANGED <<key, chan, ready, late>>

(* A follower's guard and subscription end with it.                        *)
Leave(r, s) ==
    /\ Goes(r, s)
    /\ chan' = [chan EXCEPT ![r] = None]
    /\ ready' = ready \ {r}
    /\ UNCHANGED <<key, entry, late>>

Receive(r) ==
    /\ step[r] = "wait"
    /\ FreeWorker
    /\ r \in ready
    /\ Leave(r, "done")

(* The connection is closed and its future dropped at an await; a leader   *)
(* leaves its entry, with a channel nobody will send to.                   *)
Drop(r) ==
    /\ r \in Impatient
    /\ step[r] \in {"call", "wait"}
    /\ FreeWorker
    /\ Leave(r, "gone")

Proceeds(r) == LookUp(r) \/ Insert(r) \/ Respond(r) \/ Remove(r) \/ Receive(r)

Next == \E r \in Requests : Arrive(r) \/ Proceeds(r) \/ Drop(r)

Spec == Init /\ [][Next]_vars /\ \A r \in Requests : WF_vars(Proceeds(r))

-----------------------------------------------------------------------------
(* Properties                                                              *)

(* A waiting follower's channel is the one in the map: the guard it holds  *)
(* keeps a second leader's insert, and any removal, away from it.  So the  *)
(* channel is open, and the branch of the code in which a follower finds   *)
(* it closed and executes the request itself is never taken.               *)
GuardKeepsEntry == \A r \in Requests : step[r] = "wait" => entry[key[r]] = chan[r]

(* Two ways only for a follower to wait for nothing: its leader's client   *)
(* has gone, or it subscribed between the leader's broadcast and removal.  *)
(* Then its guard also keeps the leader from removing the entry.           *)
Hung(r) ==
    /\ step[r] = "wait"
    /\ r \notin ready
    /\ step[chan[r]] = "gone" \/ r \in late

(* Any other follower without an answer has a leader still executing.      *)
WaitsForALeader ==
    \A r \in Requests :
        step[r] = "wait" /\ r \notin ready /\ ~Hung(r) => step[chan[r]] = "call"

(* With a worker for each request every request comes to an end, unless    *)
(* some follower hangs: two leaders, guards and blocked removals alone     *)
(* never stop anyone for good.                                             *)
EndsUnlessHung ==
    \A r \in Requests :
        step[r] = "look" ~> (step[r] \in {"done", "gone"} \/ \E f \in Requests : Hung(f))

=============================================================================
