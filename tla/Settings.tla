------------------------------ MODULE Settings ------------------------------
(***************************************************************************)
(* A guild's custom rules (src/src/rules.rs) and its configuration         *)
(* (src/src/database.rs): a database row each, read through caches that    *)
(* have no expiry.  The commands and the dashboard share one RulesEngine,  *)
(* the pipeline has another, so the rules are cached twice; the            *)
(* configuration is cached once, in Database.                              *)
(*                                                                         *)
(*   get_rules, get_server_config     LookUp ; Query ; Fill                *)
(*   upload_rules, clear_rules        Upload / Clear ; Write ; Publish     *)
(*   update of some config fields     LookUp ; Query ; Fill ; Write ;      *)
(*                                    Publish                              *)
(*                                                                         *)
(* No lock or transaction spans two steps.  Guilds have rows and entries   *)
(* of their own, so one is enough.                                         *)
(*                                                                         *)
(* A definition named Faulty... is the one after it with a bug put in, kept*)
(* to show that the properties notice; no specification uses it.           *)
(***************************************************************************)
EXTENDS Naturals, FiniteSets

CONSTANTS Tasks,          \* requests, commands and flushes under way
          Texts,          \* texts of rules
          Fields,         \* fields of the configuration
          Values,         \* values of a field
          DefaultValue,   \* what ServerConfig::default gives a field
          Absent          \* no row, no entry, or no change

ASSUME SettingsAssumption ==
    /\ DefaultValue \in Values
    /\ Absent \notin Texts \cup [Fields -> Values]
    /\ Absent \notin UNION {[fs -> Values] : fs \in SUBSET Fields}

Stores == {"rules", "config"}
Caches == {"dashboard", "pipeline", "config"}
StoreOf(c) == IF c = "config" THEN "config" ELSE "rules"

Config == [Fields -> Values]
DefaultConfig == [f \in Fields |-> DefaultValue]
Data(s) == IF s = "rules" THEN Texts ELSE Config
Contents == Texts \cup Config \cup {Absent}

\* What an update asks to set (the dashboard sends any of the fields, or none
\* and saves what it read), or that a task only reads.
Changes == UNION {[fs -> Values] : fs \in SUBSET Fields}
ReadOnly == Absent
Asks == Changes \cup {ReadOnly}

VARIABLES
    row,     \* the guild's row in each table
    cache,   \* the guild's entry in each cache
    step,    \* what each task does next
    at,      \* the cache through which it works
    val,     \* the value it holds
    change,  \* the fields it will set, with their values
    raced    \* history: caches that may be stale, see Overtaken

tvars == <<step, at, val, change>>
vars  == <<row, cache, tvars, raced>>

None == "None"

Becomes(t, s, c, v, ch) ==
    /\ step' = [step EXCEPT ![t] = s]
    /\ at' = [at EXCEPT ![t] = c]
    /\ val' = [val EXCEPT ![t] = v]
    /\ change' = [change EXCEPT ![t] = ch]

Finish(t) == Becomes(t, "idle", None, Absent, ReadOnly)

\* What a reader without a cache would be given.
Current(s) == IF s = "config" /\ row[s] = Absent THEN DefaultConfig ELSE row[s]

With(base, ch) == [f \in Fields |-> IF f \in DOMAIN ch THEN ch[f] ELSE base[f]]

-----------------------------------------------------------------------------
(* A cache can only go stale when a write is overtaken: another task holds *)
(* a value read before the write (or about to be cached), or another cache *)
(* has an entry, or the writer is dropped before it updates its cache.     *)
Publishing(c) == {t \in Tasks : step[t] = "publish" /\ at[t] = c}

Holding(c) == Publishing(c) \cup
    {t \in Tasks : at[t] = c /\ \/ step[t] = "fill"
                                \/ step[t] = "write" /\ c = "config"}

Overtaken(t) ==
    {c \in Caches : /\ StoreOf(c) = StoreOf(at[t])
                    /\ \/ Holding(c) \ {t} # {}
                       \/ c # at[t] /\ cache[c] # Absent}

-----------------------------------------------------------------------------
(* At the start of the process the caches are empty, whatever is stored.   *)
Fresh ==
    /\ cache = [c \in Caches |-> Absent]
    /\ step = [t \in Tasks |-> "idle"]
    /\ at = [t \in Tasks |-> None]
    /\ val = [t \in Tasks |-> Absent]
    /\ change = [t \in Tasks |-> ReadOnly]
    /\ raced = {}

Init == row = [s \in Stores |-> Absent] /\ Fresh

\* Bug: an update starts from the defaults instead of what it has read.
FaultyGot(t, v, ch) == IF ch = ReadOnly THEN Finish(t)
                       ELSE Becomes(t, "write", "config", With(DefaultConfig, ch), ch)

(* What a get leads to: an update goes on to write, a reader is done.      *)
Got(t, v, ch) == IF ch = ReadOnly THEN Finish(t)
                 ELSE Becomes(t, "write", "config", With(v, ch), ch)

(* The first lines of a get, under the cache's read lock.                  *)
LookUp(t, c, ch) ==
    /\ step[t] = "idle"
    /\ c = "config" \/ ch = ReadOnly
    /\ IF cache[c] # Absent
       THEN /\ Got(t, cache[c], ch)
            /\ raced' = IF ch # ReadOnly /\ Publishing(c) # {} THEN raced \cup {c} ELSE raced
       ELSE Becomes(t, "query", c, Absent, ch) /\ UNCHANGED raced
    /\ UNCHANGED <<row, cache>>

(* SELECT: a missing configuration is cached as the defaults, missing      *)
(* rules are not cached.                                                   *)
Query(t) ==
    /\ step[t] = "query"
    /\ LET v == Current(StoreOf(at[t])) IN
         IF v = Absent THEN Finish(t) ELSE Becomes(t, "fill", at[t], v, change[t])
    /\ UNCHANGED <<row, cache, raced>>

Fill(t) ==
    /\ step[t] = "fill"
    /\ cache' = [cache EXCEPT ![at[t]] = val[t]]
    /\ Got(t, val[t], change[t])
    /\ UNCHANGED <<row, raced>>

Upload(t, text) ==
    /\ step[t] = "idle"
    /\ Becomes(t, "write", "dashboard", text, ReadOnly)
    /\ UNCHANGED <<row, cache, raced>>

Clear(t) ==
    /\ step[t] = "idle"
    /\ Becomes(t, "write", "dashboard", Absent, ReadOnly)
    /\ UNCHANGED <<row, cache, raced>>

(* The upsert, or the DELETE of clear_rules; what was asked is done.       *)
Write(t) ==
    /\ step[t] = "write"
    /\ row' = [row EXCEPT ![StoreOf(at[t])] = val[t]]
    /\ Becomes(t, "publish", at[t], val[t], ReadOnly)
    /\ raced' = raced \cup Overtaken(t)
    /\ UNCHANGED cache

(* The writer's value into its cache: undisturbed, it mends a stale entry. *)
Publish(t) ==
    /\ step[t] = "publish"
    /\ cache' = [cache EXCEPT ![at[t]] = val[t]]
    /\ Finish(t)
    /\ raced' = IF Holding(at[t]) = {t} /\ val[t] = row[StoreOf(at[t])]
                THEN raced \ {at[t]} ELSE raced
    /\ UNCHANGED row

\* Bug: after a failed statement the value is cached all the same.
FaultyStatementError(t) ==
    /\ step[t] \in {"query", "write"}
    /\ IF step[t] = "write" THEN Becomes(t, "publish", at[t], val[t], change[t]) ELSE Finish(t)
    /\ UNCHANGED <<row, cache, raced>>

(* A failed statement ends the operation before the cache is touched.      *)
StatementError(t) ==
    /\ step[t] \in {"query", "write"}
    /\ Finish(t)
    /\ UNCHANGED <<row, cache, raced>>

(* axum drops a handler whose client has gone, at any await; the pipeline's*)
(* own reads are never dropped.                                            *)
Dropped(t) ==
    /\ step[t] # "idle" /\ at[t] # "pipeline"
    /\ Finish(t)
    /\ raced' = IF step[t] = "publish" THEN raced \cup {at[t]} ELSE raced
    /\ UNCHANGED <<row, cache>>

(* invalidate_cache, invalidate_config_cache, clear_config_cache: offered, *)
(* and nothing in the program calls them.                                  *)
Invalidate(c) ==
    /\ cache' = [cache EXCEPT ![c] = Absent]
    /\ raced' = IF Holding(c) = {} THEN raced \ {c} ELSE raced
    /\ UNCHANGED <<row, tvars>>

Restart ==
    /\ cache' = [c \in Caches |-> Absent]
    /\ step' = [t \in Tasks |-> "idle"]
    /\ at' = [t \in Tasks |-> None]
    /\ val' = [t \in Tasks |-> Absent]
    /\ change' = [t \in Tasks |-> ReadOnly]
    /\ raced' = {}
    /\ UNCHANGED row

Get(t) == (\E c \in Caches, ch \in Asks : LookUp(t, c, ch)) \/ Query(t) \/ Fill(t)
Put(t) == (\E x \in Texts : Upload(t, x)) \/ Clear(t) \/ Write(t) \/ Publish(t)
Fail(t) == StatementError(t) \/ Dropped(t)

Next == Restart \/ (\E c \in Caches : Invalidate(c)) \/ \E t \in Tasks : Get(t) \/ Put(t) \/ Fail(t)

Spec == Init /\ [][Next]_vars

-----------------------------------------------------------------------------
(* Properties.                                                             *)

\* What a task can hold at a step: a reader never caches what is missing, and
\* nobody deletes a configuration.
Fits(s, c, v) ==
    /\ s # "idle" => c \in Caches
    /\ s = "fill" => v \in Data(StoreOf(c))
    /\ s \in {"write", "publish"} =>
         \/ c = "dashboard" /\ v \in Texts \cup {Absent}
         \/ c = "config" /\ v \in Config

\* Types of rows and entries, and of what tasks hold.
TypeOK ==
    /\ row \in [Stores -> Contents] /\ cache \in [Caches -> Contents]
    /\ \A s \in Stores : row[s] \in Data(s) \cup {Absent}
    /\ \A c \in Caches : cache[c] \in Data(StoreOf(c)) \cup {Absent}
    /\ step \in [Tasks -> {"idle", "query", "fill", "write", "publish"}]
    /\ at \in [Tasks -> Caches \cup {None}]
    /\ val \in [Tasks -> Contents]
    /\ change \in [Tasks -> Asks]
    /\ \A t \in Tasks : Fits(step[t], at[t], val[t])
    /\ raced \subseteq Caches

\* A cache disagrees with its table only while the writer is about to update
\* it, or after a write was overtaken: get, set, upload and clear keep it
\* current in every other interleaving, with failed statements and restarts.
StaleNeedsRace ==
    \A c \in Caches :
        cache[c] \in {Absent, Current(StoreOf(c))} \/ Publishing(c) # {} \/ c \in raced

\* An update changes the fields it was asked to change and leaves the others
\* as they are, unless a write to the configuration was overtaken: then it can
\* carry a stale entry back into the table.
OnlyAskedFields ==
    [][ \A t \in Tasks : Write(t) /\ at[t] = "config" /\ "config" \notin raced =>
          \A f \in Fields \ DOMAIN change[t] : row'["config"][f] = Current("config")[f] ]_vars
=============================================================================
