----------------------------- MODULE UserLookup -----------------------------
(***************************************************************************)
(* Who is this user?  The three tiers of src/src/user_service.rs, for one  *)
(* user: the memory cache (src/src/cache.rs), the row of user_cache, and   *)
(* Discord, which may refuse because of its rate limit.                    *)
(*                                                                         *)
(* A user that does not exist any more is remembered by a marker, the      *)
(* value Gone.  The row's cached_at is set when the row is inserted and    *)
(* never again, so a row that turned stale stays stale.                    *)
(***************************************************************************)
EXTENDS Integers, FiniteSets

CONSTANTS
    Lookups,      \* lookups that may be under way at the same time
    Names,        \* what Discord may call the user
    Gone,         \* no such user, and the marker that says so
    MemTtl,       \* time_to_live of the memory cache: 1 hour
    RowTtl,       \* is_stale: 24 hours
    MaxRetries,   \* max_retries
    MaxDelay,     \* bound: from reading a value to the end of what is done with it
    MaxTime       \* bound: the clock

ASSUME LookupAssumption ==
    /\ {MemTtl, MaxRetries, MaxDelay, MaxTime} \subseteq Nat
    /\ RowTtl \in Nat \ {0}
    /\ Gone \notin Names

VARIABLES
    clock,
    truth,      \* what Discord would answer
    lastTrue,   \* per value: when it was last true (for properties)
    mem,        \* entry of the memory cache, or NoEntry
    row,        \* row of user_cache, or NoEntry
    task        \* per lookup: its step and what it holds

discord == <<truth, lastTrue>>
lookupVars == <<clock, discord, mem, row, task>>

Values == Names \cup {Gone}
NoEntry == [val |-> Gone, at |-> -1, old |-> FALSE]
Idle == [pc |-> "idle"]

(* old: the value was taken from a row without regard to its age.          *)
Task ==
    [pc : {"memory", "database"}, batch : BOOLEAN]
    \cup [pc : {"discord"}, tries : 0..MaxRetries]
    \cup [pc : {"backoff"}, tries : 1..MaxRetries]
    \cup [pc : {"fallback"}]
    \cup [pc : {"store"}, val : Values, at : Nat]
    \cup [pc : {"remember"}, val : Values, at : Nat, old : BOOLEAN]
    \cup [pc : {"answered"}, val : Values, old : BOOLEAN]

LookupTypeOK ==
    /\ clock \in Nat
    /\ truth \in Values /\ lastTrue \in [Values -> Nat \cup {-1}]
    /\ mem \in [val : Values, at : Nat, old : BOOLEAN] \cup {NoEntry}
    /\ row \in [val : Values, at : Nat, old : {FALSE}] \cup {NoEntry}
    /\ task \in [Lookups -> {Idle} \cup Task]

LookupInit ==
    /\ clock = 0
    /\ truth \in Values
    /\ lastTrue = [v \in Values |-> IF v = truth THEN 0 ELSE -1]
    /\ mem = NoEntry /\ row = NoEntry
    /\ task = [k \in Lookups |-> Idle]

Goto(k, step) == task' = [task EXCEPT ![k] = step]
Fail(k) == Goto(k, Idle)
At(k, step) == task[k].pc = step

Remember(k, val, old) == Goto(k, [pc |-> "remember", val |-> val, at |-> clock, old |-> old])
Answered(val, old) == [pc |-> "answered", val |-> val, old |-> old]
AskDiscord(k, tries) == Goto(k, [pc |-> "discord", tries |-> tries])

Begin(k, batch) ==
    /\ task[k] = Idle
    /\ Goto(k, [pc |-> "memory", batch |-> batch])
    /\ UNCHANGED <<clock, discord, mem, row>>

(***************************************************************************)
(* get_user_info and get_users_batch, as far as memory and row             *)
(***************************************************************************)

Cached == mem # NoEntry /\ clock - mem.at < MemTtl

(* A marker in memory is an answer to a single lookup; a batch goes on to  *)
(* the row with it.                                                        *)
LookInMemory(k) ==
    /\ At(k, "memory")
    /\ Goto(k, IF Cached /\ (task[k].batch => mem.val # Gone)
               THEN Answered(mem.val, mem.old)
               ELSE [task[k] EXCEPT !.pc = "database"])
    /\ UNCHANGED <<clock, discord, mem, row>>

(* Mutant: a stale row is as good as any.                                  *)
FaultyStale == FALSE

Stale == clock - row.at >= RowTtl

(* A single lookup takes a row that is not stale, marker or not; an error  *)
(* of the statement ends it.                                               *)
LookInDatabase(k) ==
    /\ At(k, "database") /\ ~task[k].batch
    /\ \/ IF row # NoEntry /\ ~Stale THEN Remember(k, row.val, FALSE) ELSE AskDiscord(k, 0)
       \/ Fail(k)
    /\ UNCHANGED <<clock, discord, mem, row>>

(* A batch leaves a marker out of its answer, answers with a stale row as  *)
(* it is, and asks Discord only where there is no row, for twenty users    *)
(* at most.  Its statement's errors read as no rows.                       *)
BatchDatabase(k) ==
    /\ At(k, "database") /\ task[k].batch
    /\ \/ row # NoEntry /\ row.val = Gone /\ Fail(k)
       \/ row # NoEntry /\ row.val # Gone /\ ~Stale /\ Remember(k, row.val, FALSE)
       \/ row # NoEntry /\ row.val # Gone /\ Stale /\ Goto(k, Answered(row.val, TRUE))
       \/ AskDiscord(k, 0)
       \/ row = NoEntry /\ Fail(k)
    /\ UNCHANGED <<clock, discord, mem, row>>

(***************************************************************************)
(* fetch_from_discord                                                      *)
(***************************************************************************)

(* A name or 404 is stored; any error but the rate limit ends the lookup.  *)
FetchFromDiscord(k) ==
    /\ At(k, "discord")
    /\ \/ Goto(k, [pc |-> "store", val |-> truth, at |-> clock])
       \/ Fail(k)
    /\ UNCHANGED <<clock, discord, mem, row>>

(* Mutant: the retries are not counted.                                    *)
FaultyRateLimited(k) ==
    /\ At(k, "discord")
    /\ Goto(k, [pc |-> "backoff", tries |-> 1])
    /\ UNCHANGED <<clock, discord, mem, row>>

RateLimited(k) ==
    /\ At(k, "discord")
    /\ Goto(k, IF task[k].tries + 1 > MaxRetries
               THEN [pc |-> "fallback"]
               ELSE [pc |-> "backoff", tries |-> task[k].tries + 1])
    /\ UNCHANGED <<clock, discord, mem, row>>

Backoff(k) ==
    /\ At(k, "backoff")
    /\ AskDiscord(k, task[k].tries)
    /\ UNCHANGED <<clock, discord, mem, row>>

(* The row whatever its age, and whether or not it is the marker: it is    *)
(* answered as a user.  Without a row, or after an error, the lookup ends. *)
Fallback(k) ==
    /\ At(k, "fallback")
    /\ \/ row # NoEntry /\ Remember(k, row.val, TRUE)
       \/ Fail(k)
    /\ UNCHANGED <<clock, discord, mem, row>>

(* store_in_database; on conflict cached_at is kept.                       *)
StoreInDatabase(k) ==
    /\ At(k, "store")
    /\ \/ /\ row' = IF row = NoEntry
                    THEN [val |-> task[k].val, at |-> task[k].at, old |-> FALSE]
                    ELSE [row EXCEPT !.val = task[k].val]
          /\ Goto(k, [pc |-> "remember", val |-> task[k].val, at |-> task[k].at, old |-> FALSE])
       \/ Fail(k) /\ UNCHANGED row
    /\ UNCHANGED <<clock, discord, mem>>

(* The memory cache counts an entry's age from its insertion.              *)
InsertInMemory(k) ==
    /\ At(k, "remember")
    /\ mem' = [val |-> task[k].val, at |-> clock, old |-> task[k].old]
    /\ Goto(k, Answered(task[k].val, task[k].old))
    /\ UNCHANGED <<clock, discord, row>>

Return(k) ==
    /\ At(k, "answered")
    /\ Fail(k)
    /\ UNCHANGED <<clock, discord, mem, row>>

(***************************************************************************)
(* Surroundings                                                            *)
(***************************************************************************)

InvalidateUser ==
    /\ mem' = NoEntry
    /\ UNCHANGED <<clock, discord, row, task>>

(* The user is renamed, or deleted for good.                               *)
Renamed(v) ==
    /\ truth # Gone /\ truth # v
    /\ truth' = v
    /\ lastTrue' = [lastTrue EXCEPT ![v] = clock]
    /\ UNCHANGED <<clock, mem, row, task>>

(* A lookup that read a value has MaxDelay to store and remember it; an    *)
(* answer and a request to Discord are moments.                            *)
Tick ==
    /\ clock < MaxTime
    /\ \A k \in Lookups :
          /\ At(k, "store") \/ At(k, "remember") => clock < task[k].at + MaxDelay
          /\ ~At(k, "answered")
    /\ clock' = clock + 1
    /\ lastTrue' = [lastTrue EXCEPT ![truth] = clock + 1]
    /\ UNCHANGED <<truth, mem, row, task>>

LookupStep(k) ==
    \/ LookInMemory(k) \/ LookInDatabase(k) \/ BatchDatabase(k)
    \/ FetchFromDiscord(k) \/ RateLimited(k) \/ Backoff(k) \/ Fallback(k)
    \/ StoreInDatabase(k) \/ InsertInMemory(k) \/ Return(k)

LookupNext ==
    \/ \E k \in Lookups : LookupStep(k) \/ \E batch \in BOOLEAN : Begin(k, batch)
    \/ InvalidateUser \/ Tick \/ \E v \in Values : Renamed(v)

(* A lookup is a future the runtime polls until it is done.                *)
LookupFairness == \A k \in Lookups : WF_lookupVars(LookupStep(k))

LookupSpec == LookupInit /\ [][LookupNext]_lookupVars /\ LookupFairness

(***************************************************************************)
(* Properties                                                              *)
(***************************************************************************)

(* An answer was true not longer ago than a day, an hour and two delays:   *)
(* the row's age and the cache's entry add up, and lookups that overtake   *)
(* each other add their delay.  The exceptions are the two places that     *)
(* take a row of any age, the fallback of a rate-limited lookup and a      *)
(* batch (get_user_info, get_users_batch, store_in_database).              *)
AnswersAreRecent ==
    \A k \in Lookups :
        At(k, "answered") /\ ~task[k].old =>
            clock - lastTrue[task[k].val] < RowTtl + MemTtl + 2 * MaxDelay

(* Every lookup ends, however long Discord's rate limit lasts: the retries *)
(* are counted (fetch_from_discord).                                       *)
LookupsEnd == \A k \in Lookups : (task[k] # Idle) ~> (task[k] = Idle)
=============================================================================
