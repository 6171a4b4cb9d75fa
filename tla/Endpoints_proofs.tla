-------------------------- MODULE Endpoints_proofs --------------------------
(***************************************************************************)
(* Proofs about the cached settings, for any tasks, texts, fields and      *)
(* values, and about the handlers and commands that work on them: what is  *)
(* proved of Settings carries over, as every step of theirs is one of its  *)
(* steps.                                                                  *)
(***************************************************************************)
EXTENDS Endpoints, TLAPS

-----------------------------------------------------------------------------
(* Type correctness.                                                       *)

LEMMA WithType ==
  ASSUME NEW base \in Config, NEW ch \in Changes
  PROVE  With(base, ch) \in Config
  BY DEF With, Config, Changes

LEMMA CurrentType ==
  ASSUME TypeOK, NEW s \in Stores
  PROVE  Current(s) \in Data(s) \/ (s = "rules" /\ Current(s) = Absent)
  BY SettingsAssumption
     DEF TypeOK, Current, Stores, Data, DefaultConfig, Config, SettingsAssumption

\* The part of the state that belongs to the tasks.
TasksOK ==
    /\ step \in [Tasks -> {"idle", "query", "fill", "write", "publish"}]
    /\ at \in [Tasks -> Caches \cup {None}]
    /\ val \in [Tasks -> Contents]
    /\ change \in [Tasks -> Asks]
    /\ \A t \in Tasks : Fits(step[t], at[t], val[t])

LEMMA BecomesTyped ==
  ASSUME TasksOK, NEW t \in Tasks, NEW s \in {"idle", "query", "fill", "write", "publish"},
         NEW c \in Caches \cup {None}, NEW v \in Contents, NEW ch \in Asks,
         Fits(s, c, v), Becomes(t, s, c, v, ch)
  PROVE  TasksOK'
  BY DEF TasksOK, Becomes

LEMMA ReadOnlyType == ReadOnly \in Asks
  BY DEF ReadOnly, Asks

LEMMA FinishTyped ==
  ASSUME TasksOK, NEW t \in Tasks, Finish(t)
  PROVE  TasksOK'
  <1>1. Fits("idle", None, Absent) /\ Absent \in Contents /\ None \in Caches \cup {None}
    BY DEF Fits, Contents
  <1>2. QED
    BY <1>1, ReadOnlyType, BecomesTyped DEF Finish

LEMMA GotTyped ==
  ASSUME TasksOK, NEW t \in Tasks, NEW v, NEW ch \in Asks, Got(t, v, ch),
         ch # ReadOnly => v \in Config
  PROVE  TasksOK'
  <1>1. CASE ch = ReadOnly
    BY <1>1, FinishTyped DEF Got
  <1>2. CASE ch # ReadOnly
    <2>1. With(v, ch) \in Config
      BY <1>2, WithType DEF Asks
    <2>2. Fits("write", "config", With(v, ch)) /\ With(v, ch) \in Contents
      BY <2>1 DEF Fits, Contents, Caches
    <2>3. "config" \in Caches \cup {None}
      BY DEF Caches
    <2>4. QED
      BY <1>2, <2>2, <2>3, BecomesTyped DEF Got
  <1>3. QED
    BY <1>1, <1>2

\* Only the configuration is looked up by an update.
ChangeAt == \A t \in Tasks : step[t] \in {"query", "fill"} /\ change[t] # ReadOnly => at[t] = "config"

LEMMA TypeStep == TypeOK /\ ChangeAt /\ [Next]_vars => TypeOK' /\ ChangeAt'
  <1> SUFFICES ASSUME TypeOK, ChangeAt, [Next]_vars PROVE TypeOK' /\ ChangeAt'
    OBVIOUS
  <1>0. /\ TasksOK /\ raced \subseteq Caches
        /\ row \in [Stores -> Contents] /\ cache \in [Caches -> Contents]
        /\ \A s \in Stores : row[s] \in Data(s) \cup {Absent}
        /\ \A c \in Caches : cache[c] \in Data(StoreOf(c)) \cup {Absent}
        /\ \A c \in Caches : StoreOf(c) \in Stores
    BY DEF TypeOK, TasksOK, Caches, StoreOf, Stores
  <1>q. ASSUME TasksOK', raced' \subseteq Caches, UNCHANGED <<row, cache>> PROVE TypeOK'
    BY <1>0, <1>q DEF TypeOK, TasksOK
  <1>1. ASSUME NEW t \in Tasks, NEW c \in Caches, NEW ch \in Asks, LookUp(t, c, ch)
        PROVE  TypeOK' /\ ChangeAt'
    <2>1. raced' \subseteq Caches /\ UNCHANGED <<row, cache>>
      BY <1>0, <1>1 DEF LookUp
    <2>2. CASE cache[c] # Absent
      <3>1. ch # ReadOnly => cache[c] \in Config
        BY <1>0, <1>1, <2>2 DEF LookUp, StoreOf, Data
      <3>2. TasksOK'
        BY <1>0, <1>1, <2>2, <3>1, GotTyped DEF LookUp
      <3>3. ChangeAt'
        BY <1>0, <1>1, <2>2 DEF LookUp, Got, Finish, Becomes, ChangeAt, TasksOK
      <3>4. QED
        BY <1>q, <2>1, <3>2, <3>3
    <2>3. CASE cache[c] = Absent
      <3>1. Fits("query", c, Absent) /\ Absent \in Contents
        BY DEF Fits, Contents
      <3>2. TasksOK'
        BY <1>0, <1>1, <2>3, <3>1, BecomesTyped DEF LookUp
      <3>3. ChangeAt'
        BY <1>0, <1>1, <2>3 DEF LookUp, Becomes, ChangeAt, TasksOK
      <3>4. QED
        BY <1>q, <2>1, <3>2, <3>3
    <2>4. QED
      BY <2>2, <2>3
  <1>2. ASSUME NEW t \in Tasks, Query(t) PROVE TypeOK' /\ ChangeAt'
    <2> DEFINE v == Current(StoreOf(at[t]))
    <2>1. UNCHANGED <<row, cache, raced>> /\ at[t] \in Caches
      BY <1>0, <1>2 DEF Query, TasksOK, Fits
    <2>2. CASE v = Absent
      <3>1. Finish(t)
        BY <1>2, <2>2 DEF Query
      <3>2. ChangeAt'
        BY <1>0, <3>1 DEF Finish, Becomes, ChangeAt, TasksOK
      <3>3. QED
        BY <1>0, <1>q, <2>1, <3>1, <3>2, FinishTyped
    <2>3. CASE v # Absent
      <3>1. Becomes(t, "fill", at[t], v, change[t]) /\ step[t] = "query"
        BY <1>2, <2>3 DEF Query
      <3>2. v \in Data(StoreOf(at[t]))
        BY <1>0, <2>1, <2>3, CurrentType
      <3>3. Fits("fill", at[t], v) /\ v \in Contents /\ change[t] \in Asks
        BY <1>0, <2>1, <3>2 DEF Fits, Contents, Data, TasksOK
      <3>4. TasksOK'
        BY <1>0, <2>1, <3>1, <3>3, BecomesTyped
      <3>5. ChangeAt'
        BY <1>0, <3>1 DEF Becomes, ChangeAt, TasksOK
      <3>6. QED
        BY <1>0, <1>q, <2>1, <3>4, <3>5
    <2>4. QED
      BY <2>2, <2>3
  <1>3. ASSUME NEW t \in Tasks, Fill(t) PROVE TypeOK' /\ ChangeAt'
    <2>1. at[t] \in Caches /\ val[t] \in Data(StoreOf(at[t])) /\ val[t] \in Contents
      BY <1>0, <1>3 DEF Fill, TasksOK, Fits
    <2>2. change[t] # ReadOnly => val[t] \in Config
      BY <1>3, <2>1 DEF ChangeAt, Fill, StoreOf, Data
    <2>3. TasksOK'
      BY <1>0, <1>3, <2>2, GotTyped DEF Fill, TasksOK
    <2>4. ChangeAt'
      BY <1>0, <1>3 DEF Fill, Got, Finish, Becomes, ChangeAt, TasksOK
    <2>5. /\ cache' \in [Caches -> Contents] /\ UNCHANGED <<row, raced>>
          /\ \A c \in Caches : cache'[c] \in Data(StoreOf(c)) \cup {Absent}
      BY <1>0, <1>3, <2>1 DEF Fill
    <2>6. QED
      BY <1>0, <2>3, <2>4, <2>5 DEF TypeOK, TasksOK
  <1>4. ASSUME NEW t \in Tasks, NEW x \in Texts \cup {Absent},
               Becomes(t, "write", "dashboard", x, ReadOnly), UNCHANGED <<row, cache, raced>>
        PROVE  TypeOK' /\ ChangeAt'
    <2>1. Fits("write", "dashboard", x) /\ x \in Contents /\ "dashboard" \in Caches
      BY DEF Fits, Contents, Caches
    <2>2. TasksOK'
      BY <1>0, <1>4, <2>1, ReadOnlyType, BecomesTyped
    <2>3. ChangeAt'
      BY <1>0, <1>4 DEF Becomes, ChangeAt, TasksOK
    <2>4. QED
      BY <1>0, <1>4, <1>q, <2>2, <2>3
  <1>5. ASSUME NEW t \in Tasks, Write(t) PROVE TypeOK' /\ ChangeAt'
    <2>1. /\ at[t] \in Caches /\ val[t] \in Contents
          /\ val[t] \in Data(StoreOf(at[t])) \cup {Absent}
          /\ Fits("publish", at[t], val[t])
      BY <1>0, <1>5 DEF Write, TasksOK, Fits, StoreOf, Data
    <2>2. TasksOK'
      BY <1>0, <1>5, <2>1, ReadOnlyType, BecomesTyped DEF Write
    <2>3. ChangeAt'
      BY <1>0, <1>5 DEF Write, Becomes, ChangeAt, TasksOK
    <2>4. /\ row' \in [Stores -> Contents] /\ raced' \subseteq Caches /\ UNCHANGED cache
          /\ \A s \in Stores : row'[s] \in Data(s) \cup {Absent}
      BY <1>0, <1>5, <2>1 DEF Write, Overtaken
    <2>5. QED
      BY <1>0, <2>2, <2>3, <2>4 DEF TypeOK, TasksOK
  <1>6. ASSUME NEW t \in Tasks, Publish(t) PROVE TypeOK' /\ ChangeAt'
    <2>1. /\ at[t] \in Caches /\ val[t] \in Contents
          /\ val[t] \in Data(StoreOf(at[t])) \cup {Absent}
      BY <1>0, <1>6 DEF Publish, TasksOK, Fits, StoreOf, Data
    <2>2. TasksOK'
      BY <1>0, <1>6, FinishTyped DEF Publish
    <2>3. ChangeAt'
      BY <1>0, <1>6 DEF Publish, Finish, Becomes, ChangeAt, TasksOK
    <2>4. /\ cache' \in [Caches -> Contents] /\ raced' \subseteq Caches /\ UNCHANGED row
          /\ \A c \in Caches : cache'[c] \in Data(StoreOf(c)) \cup {Absent}
      BY <1>0, <1>6, <2>1 DEF Publish
    <2>5. QED
      BY <1>0, <2>2, <2>3, <2>4 DEF TypeOK, TasksOK
  <1>7. ASSUME NEW t \in Tasks, Fail(t) PROVE TypeOK' /\ ChangeAt'
    <2>1. Finish(t) /\ UNCHANGED <<row, cache>>
      BY <1>7 DEF Fail, StatementError, Dropped
    <2>2. raced' \subseteq Caches
      BY <1>0, <1>7 DEF Fail, StatementError, Dropped, TasksOK, Fits
    <2>3. ChangeAt'
      BY <1>0, <2>1 DEF Finish, Becomes, ChangeAt, TasksOK
    <2>4. QED
      BY <1>0, <1>q, <2>1, <2>2, <2>3, FinishTyped
  <1>8. ASSUME NEW c \in Caches, Invalidate(c) PROVE TypeOK' /\ ChangeAt'
    <2>1. Absent \in Contents
      BY DEF Contents
    <2>2. QED
      BY <1>0, <1>8, <2>1 DEF Invalidate, tvars, TypeOK, TasksOK, ChangeAt
  <1>9. ASSUME Restart PROVE TypeOK' /\ ChangeAt'
    <2>1. Absent \in Contents /\ Fits("idle", None, Absent)
      BY DEF Contents, Fits
    <2>2. QED
      BY <1>0, <1>9, <2>1, ReadOnlyType DEF Restart, TypeOK, ChangeAt
  <1>10. CASE UNCHANGED vars
    BY <1>10, <1>0 DEF vars, tvars, TypeOK, TasksOK, ChangeAt
  <1>11. QED
    <2>1. ASSUME NEW t \in Tasks, Put(t) PROVE TypeOK' /\ ChangeAt'
      BY <1>4, <1>5, <1>6, <2>1 DEF Put, Upload, Clear
    <2>2. ASSUME NEW t \in Tasks, Get(t) PROVE TypeOK' /\ ChangeAt'
      BY <1>1, <1>2, <1>3, <2>2 DEF Get
    <2>3. QED
      BY <1>7, <1>8, <1>9, <1>10, <2>1, <2>2 DEF Next

LEMMA TypeInit == Init => TypeOK /\ ChangeAt
  <1>1. Absent \in Contents /\ Fits("idle", None, Absent)
    BY DEF Contents, Fits
  <1>2. QED
    BY <1>1, ReadOnlyType DEF Init, Fresh, TypeOK, ChangeAt

\* Rows, entries and what tasks hold keep their types.
THEOREM TypeCorrect == Spec => []TypeOK
  BY TypeInit, TypeStep, PTL DEF Spec
-----------------------------------------------------------------------------
(* What overtaking protects.                                               *)

\* For a cache no write to which was overtaken: what tasks hold agrees with the
\* table, and so does the entry unless a writer is about to update it.
Agrees(s, c, v, ch) ==
    /\ s = "fill" => v = Current(StoreOf(c))
    /\ s = "publish" => v = row[StoreOf(c)]
    /\ s = "write" /\ c = "config" =>
         \A f \in Fields \ DOMAIN ch : v[f] = Current("config")[f]

EntryAgrees(c) == cache[c] \in {Absent, Current(StoreOf(c))} \/ Publishing(c) # {}

HoldersAgree(c) == \A t \in Tasks : at[t] = c => Agrees(step[t], c, val[t], change[t])

Sound(c) == HoldersAgree(c) /\ EntryAgrees(c)

RaceInv == \A c \in Caches \ raced : Sound(c)

\* A step of one task that leaves the table alone keeps a cache sound if what
\* the task holds then agrees, and the entry does or nobody's publishing ended.
LEMMA SoundFrame ==
  ASSUME TasksOK, NEW c \in Caches, Sound(c), NEW t \in Tasks,
         NEW s, NEW a, NEW v, NEW ch, Becomes(t, s, a, v, ch), UNCHANGED row,
         a = c => Agrees(s, c, v, ch),
         \/ cache'[c] \in {Absent, Current(StoreOf(c))}
         \/ cache'[c] = cache[c] /\ t \notin Publishing(c)
  PROVE  Sound(c)'
  <1>1. /\ step'[t] = s /\ at'[t] = a /\ val'[t] = v /\ change'[t] = ch
        /\ \A u \in Tasks \ {t} : /\ step'[u] = step[u] /\ at'[u] = at[u]
                                  /\ val'[u] = val[u] /\ change'[u] = change[u]
    BY DEF Becomes, TasksOK
  <1>2. /\ Current(StoreOf(c))' = Current(StoreOf(c))
        /\ Current("config")' = Current("config")
    BY DEF Current
  <1>3. \A u \in Tasks : at'[u] = c => Agrees(step'[u], c, val'[u], change'[u])
    BY <1>1 DEF Sound, HoldersAgree
  <1>4. EntryAgrees(c)'
    BY <1>1, <1>2 DEF Sound, HoldersAgree, EntryAgrees, Publishing
  <1>5. QED
    BY <1>2, <1>3, <1>4 DEF Sound, HoldersAgree, Agrees

\* An idle task, or one that begins to query, holds nothing.
LEMMA SoundNothing ==
  ASSUME TasksOK, NEW c \in Caches, Sound(c), NEW t \in Tasks,
         NEW s \in {"idle", "query"}, NEW a, NEW ch, Becomes(t, s, a, Absent, ch),
         UNCHANGED <<row, cache>>, t \notin Publishing(c)
  PROVE  Sound(c)'
  <1>1. Agrees(s, c, Absent, ch)
    BY DEF Agrees
  <1>2. QED
    BY <1>1, SoundFrame

\* What an update writes agrees with the table in the fields it was not asked
\* to change, if what it read does.
LEMMA GotAgrees ==
  ASSUME NEW ch
  PROVE  Agrees("write", "config", With(Current("config"), ch), ch)
  BY DEF Agrees, With

\* The end of a get through a cache that stays sound.
LEMMA SoundGot ==
  ASSUME TasksOK, NEW c \in Caches, Sound(c), NEW t \in Tasks,
         NEW v, NEW ch, Got(t, v, ch), UNCHANGED row,
         ch # ReadOnly /\ c = "config" => v = Current("config"),
         \/ cache'[c] \in {Absent, Current(StoreOf(c))}
         \/ cache'[c] = cache[c] /\ t \notin Publishing(c)
  PROVE  Sound(c)'
  <1>1. CASE ch = ReadOnly
    <2>1. Becomes(t, "idle", None, Absent, ReadOnly) /\ Agrees("idle", c, Absent, ReadOnly)
      BY <1>1 DEF Got, Finish, Agrees
    <2>2. QED
      BY <2>1, SoundFrame
  <1>2. CASE ch # ReadOnly
    <2>1. Becomes(t, "write", "config", With(v, ch), ch)
      BY <1>2 DEF Got
    <2>2. c = "config" => Agrees("write", c, With(v, ch), ch)
      BY <1>2, GotAgrees
    <2>3. QED
      BY <2>1, <2>2, SoundFrame
  <1>3. QED
    BY <1>1, <1>2

LEMMA RaceStep == TypeOK /\ ChangeAt /\ RaceInv /\ [Next]_vars => RaceInv'
  <1> SUFFICES ASSUME TypeOK, ChangeAt, RaceInv, [Next]_vars, NEW c \in Caches, c \notin raced'
               PROVE  Sound(c)'
    BY DEF RaceInv
  <1>0. TasksOK
    BY DEF TypeOK, TasksOK
  <1>s. c \notin raced => Sound(c)
    BY DEF RaceInv
  <1>1. ASSUME NEW t \in Tasks, NEW d \in Caches, NEW ch \in Asks, LookUp(t, d, ch)
        PROVE  Sound(c)'
    <2>1. /\ c \notin raced /\ UNCHANGED <<row, cache>> /\ t \notin Publishing(c)
          /\ d = "config" \/ ch = ReadOnly
      BY <1>1 DEF LookUp, Publishing
    <2>2. CASE cache[d] # Absent
      <3>1. Got(t, cache[d], ch)
        BY <1>1, <2>2 DEF LookUp
      <3>2. ch # ReadOnly /\ c = "config" => cache[d] = Current("config")
        BY <1>1, <1>s, <2>1, <2>2 DEF LookUp, Sound, HoldersAgree, EntryAgrees, StoreOf
      <3>3. QED
        BY <1>0, <1>s, <2>1, <3>1, <3>2, SoundGot
    <2>3. CASE cache[d] = Absent
      <3>1. Becomes(t, "query", d, Absent, ch)
        BY <1>1, <2>3 DEF LookUp
      <3>2. QED
        BY <1>0, <1>s, <2>1, <3>1, SoundNothing
    <2>4. QED
      BY <2>2, <2>3
  <1>2. ASSUME NEW t \in Tasks, Query(t) PROVE Sound(c)'
    <2> DEFINE v == Current(StoreOf(at[t]))
    <2>1. c \notin raced /\ UNCHANGED <<row, cache>> /\ t \notin Publishing(c)
      BY <1>2 DEF Query, Publishing
    <2>2. CASE v = Absent
      BY <1>0, <1>2, <1>s, <2>1, <2>2, SoundNothing DEF Query, Finish
    <2>3. CASE v # Absent
      <3>1. Becomes(t, "fill", at[t], v, change[t])
        BY <1>2, <2>3 DEF Query
      <3>2. at[t] = c => Agrees("fill", c, v, change[t])
        BY DEF Agrees
      <3>3. QED
        BY <1>0, <1>s, <2>1, <3>1, <3>2, SoundFrame
    <2>4. QED
      BY <2>2, <2>3
  <1>3. ASSUME NEW t \in Tasks, Fill(t) PROVE Sound(c)'
    <2>1. /\ c \notin raced /\ UNCHANGED row /\ t \notin Publishing(c)
          /\ Got(t, val[t], change[t])
          /\ change[t] # ReadOnly => at[t] = "config"
      BY <1>3 DEF Fill, Publishing, ChangeAt
    <2>2. at[t] = c => val[t] = Current(StoreOf(c))
      BY <1>3, <1>s, <2>1 DEF Fill, Sound, HoldersAgree, Agrees
    <2>3. cache'[c] = cache[c] \/ cache'[c] = Current(StoreOf(c))
      BY <1>3, <2>2 DEF Fill, TypeOK
    <2>4. change[t] # ReadOnly /\ c = "config" => val[t] = Current("config")
      BY <2>1, <2>2 DEF StoreOf
    <2>5. QED
      BY <1>0, <1>s, <2>1, <2>3, <2>4, SoundGot
  <1>4. ASSUME NEW t \in Tasks, NEW x, step[t] = "idle",
               Becomes(t, "write", "dashboard", x, ReadOnly), UNCHANGED <<row, cache, raced>>
        PROVE  Sound(c)'
    <2>1. t \notin Publishing(c) /\ (c = "dashboard" => Agrees("write", c, x, ReadOnly))
      BY <1>4 DEF Publishing, Agrees
    <2>2. QED
      BY <1>0, <1>4, <1>s, <2>1, SoundFrame
  <1>5. ASSUME NEW t \in Tasks, Write(t) PROVE Sound(c)'
    <2>1. /\ c \notin raced /\ c \notin Overtaken(t) /\ UNCHANGED cache
          /\ step'[t] = "publish" /\ at'[t] = at[t] /\ val'[t] = val[t]
          /\ \A u \in Tasks \ {t} : /\ step'[u] = step[u] /\ at'[u] = at[u]
                                    /\ val'[u] = val[u] /\ change'[u] = change[u]
          /\ step[t] = "write" /\ at[t] \in Caches
          /\ row' = [row EXCEPT ![StoreOf(at[t])] = val[t]]
      BY <1>0, <1>5 DEF Write, Becomes, TasksOK, Fits
    <2>2. CASE StoreOf(c) # StoreOf(at[t])
      <3>1. /\ c # at[t] /\ row'[StoreOf(c)] = row[StoreOf(c)]
            /\ Current(StoreOf(c))' = Current(StoreOf(c))
        BY <2>1, <2>2 DEF TypeOK, Stores, StoreOf, Current
      <3>2. c = "config" => Current("config")' = Current("config")
        BY <3>1 DEF StoreOf
      <3>3. EntryAgrees(c)'
        BY <1>s, <2>1, <3>1 DEF Sound, HoldersAgree, EntryAgrees, Publishing
      <3>4. HoldersAgree(c)'
        BY <1>s, <2>1, <3>1, <3>2 DEF Sound, HoldersAgree, Agrees
      <3>5. QED
        BY <3>3, <3>4 DEF Sound, HoldersAgree
    <2>3. CASE StoreOf(c) = StoreOf(at[t])
      <3>1. /\ Holding(c) \ {t} = {}
            /\ c = at[t] \/ cache[c] = Absent
        BY <2>1, <2>3 DEF Overtaken
      <3>2. row'[StoreOf(c)] = val[t]
        BY <2>1, <2>3 DEF TypeOK, Stores, StoreOf
      <3>3. HoldersAgree(c)'
        BY <2>1, <3>1, <3>2 DEF HoldersAgree, Agrees, Holding, Publishing
      <3>4. EntryAgrees(c)'
        BY <2>1, <3>1 DEF EntryAgrees, Publishing
      <3>5. QED
        BY <3>3, <3>4 DEF Sound, HoldersAgree
    <2>4. QED
      BY <2>2, <2>3
  <1>6. ASSUME NEW t \in Tasks, Publish(t) PROVE Sound(c)'
    <2>1. /\ UNCHANGED row /\ Finish(t) /\ step[t] = "publish" /\ at[t] \in Caches
          /\ cache' = [cache EXCEPT ![at[t]] = val[t]]
      BY <1>0, <1>6 DEF Publish, TasksOK, Fits
    <2>2. Fits("publish", at[t], val[t])
      BY <1>0, <2>1 DEF TasksOK
    <2>3. CASE at[t] # c
      <3>1. c \notin raced /\ cache'[c] = cache[c] /\ t \notin Publishing(c)
        BY <1>6, <2>1, <2>3 DEF Publish, TypeOK, Publishing
      <3>2. Agrees("idle", c, Absent, ReadOnly)
        BY DEF Agrees
      <3>3. QED
        BY <1>0, <1>s, <2>1, <3>1, <3>2, SoundFrame DEF Finish
    <2>4. CASE at[t] = c
      <3>1. val[t] = row[StoreOf(c)] => cache'[c] \in {Absent, Current(StoreOf(c))}
        BY <2>1, <2>4 DEF TypeOK, Current
      <3>2. CASE c \notin raced
        <4>1. val[t] = row[StoreOf(c)]
          BY <1>s, <2>1, <2>4, <3>2 DEF Sound, HoldersAgree, Agrees
        <4>2. Agrees("idle", c, Absent, ReadOnly)
          BY DEF Agrees
        <4>3. QED
          BY <1>0, <1>s, <2>1, <3>1, <3>2, <4>1, <4>2, SoundFrame DEF Finish
      <3>3. CASE c \in raced
        <4>1. Holding(c) = {t} /\ val[t] = row[StoreOf(c)]
          BY <1>6, <2>4, <3>3 DEF Publish
        <4>2. /\ step'[t] = "idle"
              /\ \A u \in Tasks \ {t} : step'[u] = step[u] /\ at'[u] = at[u]
          BY <1>0, <2>1 DEF Finish, Becomes, TasksOK
        <4>3. HoldersAgree(c)'
          BY <4>1, <4>2 DEF HoldersAgree, Agrees, Holding, Publishing
        <4>4. EntryAgrees(c)'
          BY <2>1, <3>1, <4>1 DEF EntryAgrees, Current
        <4>5. QED
          BY <4>3, <4>4 DEF Sound, HoldersAgree
      <3>4. QED
        BY <3>2, <3>3
    <2>5. QED
      BY <2>3, <2>4
  <1>7. ASSUME NEW t \in Tasks, Fail(t) PROVE Sound(c)'
    <2>1. Finish(t) /\ UNCHANGED <<row, cache>> /\ c \notin raced /\ t \notin Publishing(c)
      BY <1>7 DEF Fail, StatementError, Dropped, Publishing
    <2>2. QED
      BY <1>0, <1>s, <2>1, SoundNothing DEF Finish
  <1>8. ASSUME NEW d \in Caches, Invalidate(d) PROVE Sound(c)'
    <2>1. /\ UNCHANGED <<row, step, at, val, change>>
          /\ cache'[c] \in {cache[c], Absent}
      BY <1>8 DEF Invalidate, tvars, TypeOK
    <2>2. CASE c \notin raced
      BY <1>s, <2>1, <2>2 DEF Sound, HoldersAgree, Agrees, EntryAgrees, Publishing, Current
    <2>3. CASE c \in raced
      <3>1. d = c /\ Holding(c) = {} /\ cache'[c] = Absent
        BY <1>8, <2>3 DEF Invalidate, TypeOK
      <3>2. QED
        BY <2>1, <3>1 DEF Sound, HoldersAgree, Agrees, EntryAgrees, Holding, Publishing
    <2>4. QED
      BY <2>2, <2>3
  <1>9. ASSUME Restart PROVE Sound(c)'
    BY <1>9 DEF Restart, Sound, HoldersAgree, Agrees, EntryAgrees
  <1>10. CASE UNCHANGED vars
    BY <1>10, <1>s DEF vars, tvars, Sound, HoldersAgree, Agrees, EntryAgrees, Publishing, Current
  <1>11. QED
    <2>1. ASSUME NEW t \in Tasks, Put(t) PROVE Sound(c)'
      BY <1>4, <1>5, <1>6, <2>1 DEF Put, Upload, Clear
    <2>2. ASSUME NEW t \in Tasks, Get(t) PROVE Sound(c)'
      BY <1>1, <1>2, <1>3, <2>2 DEF Get
    <2>3. QED
      BY <1>7, <1>8, <1>9, <1>10, <2>1, <2>2 DEF Next

LEMMA RaceInit == Init => RaceInv
  BY DEF Init, Fresh, RaceInv, Sound, HoldersAgree, Agrees, EntryAgrees

SettingsInv == TypeOK /\ ChangeAt /\ RaceInv

LEMMA SettingsInvariant == Spec => []SettingsInv
  <1>1. Init => SettingsInv
    BY TypeInit, RaceInit DEF SettingsInv
  <1>2. SettingsInv /\ [Next]_vars => SettingsInv'
    BY TypeStep, RaceStep DEF SettingsInv
  <1>3. QED
    BY <1>1, <1>2, PTL DEF Spec

\* No cache is stale but for an overtaken write.
THEOREM StaleNeedsRaceEver == Spec => []StaleNeedsRace
  <1>1. SettingsInv => StaleNeedsRace
    BY DEF SettingsInv, RaceInv, Sound, HoldersAgree, EntryAgrees, StaleNeedsRace
  <1>2. QED
    BY <1>1, SettingsInvariant, PTL

\* An update leaves alone what it was not asked to change, unless a write was
\* overtaken.
THEOREM OnlyAskedFieldsEver == Spec => OnlyAskedFields
  <1> DEFINE Asked == \A t \in Tasks : Write(t) /\ at[t] = "config" /\ "config" \notin raced =>
                        \A f \in Fields \ DOMAIN change[t] : row'["config"][f] = Current("config")[f]
  <1>1. SettingsInv /\ [Next]_vars => [Asked]_vars
    <2> SUFFICES ASSUME SettingsInv, NEW t \in Tasks, Write(t), at[t] = "config",
                        "config" \notin raced, NEW f \in Fields \ DOMAIN change[t]
                 PROVE  row'["config"][f] = Current("config")[f]
      OBVIOUS
    <2>1. Sound("config") /\ TypeOK
      BY DEF SettingsInv, RaceInv, Caches
    <2>2. val[t][f] = Current("config")[f]
      BY <2>1 DEF Write, Sound, HoldersAgree, Agrees
    <2>3. row'["config"] = val[t]
      BY <2>1 DEF Write, TypeOK, Stores, StoreOf
    <2>4. QED
      BY <2>2, <2>3
  <1>2. QED
    BY <1>1, SettingsInvariant, PTL DEF Spec, OnlyAskedFields


-----------------------------------------------------------------------------
(* Handlers and commands only take the steps of Settings.                  *)

LEMMA StepOfSettings == [EndpointsNext]_allvars => [Next]_vars
  <1> SUFFICES ASSUME [EndpointsNext]_allvars PROVE [Next]_vars
    OBVIOUS
  <1>1. CASE RestartAll
    BY <1>1 DEF RestartAll, Next
  <1>2. ASSUME NEW c \in Caches, Invalidate(c) PROVE Next
    BY <1>2 DEF Next
  <1>3. ASSUME NEW t \in Tasks, Ask(t) PROVE Next
    <2>1. ASSUME NEW c \in Caches, GetRules(t, c) \/ GetConfig(t) PROVE Get(t)
      BY <2>1 DEF GetRules, GetConfig, Get, Asks, Caches
    <2>2. ASSUME NEW text \in Texts, UpdateRules(t, text) PROVE Put(t)
      BY <2>2 DEF UpdateRules, Put
    <2>3. ASSUME DeleteRules(t) PROVE Put(t)
      BY <2>3 DEF DeleteRules, Put
    <2>4. ASSUME NEW ch \in Changes, UpdateConfig(t, ch) PROVE Get(t)
      BY <2>4 DEF UpdateConfig, Get, Asks, Caches
    <2>5. ASSUME NEW f \in Fields, NEW v \in Values, HandleConfig(t, f, v) PROVE Get(t)
      <3>1. [g \in {f} |-> v] \in [{f} -> Values] /\ {f} \in SUBSET Fields
        OBVIOUS
      <3>2. [g \in {f} |-> v] \in Asks
        BY <3>1 DEF Asks, Changes
      <3>3. QED
        BY <2>5, <3>2 DEF HandleConfig, Get, Caches
    <2>6. ASSUME HandleRules(t) PROVE Put(t)
      BY <2>6 DEF HandleRules, Put
    <2>7. QED
      BY <1>3, <2>1, <2>2, <2>3, <2>4, <2>5, <2>6 DEF Ask, Next, Caches
  <1>4. ASSUME NEW t \in Tasks, Work(t) PROVE [Next]_vars
    BY <1>4 DEF Work, WriteConfig, WriteRules, StampEntry, CreateAuditLog, Next, Get, Put
  <1>5. ASSUME NEW t \in Tasks, Failed(t) \/ Gone(t) PROVE Next
    BY <1>5 DEF Failed, Gone, Next, Fail
  <1>6. ASSUME NEW t \in Tasks, AuditLost(t) PROVE UNCHANGED vars
    BY <1>6 DEF AuditLost
  <1>7. CASE UNCHANGED allvars
    BY <1>7 DEF allvars
  <1>8. QED
    BY <1>1, <1>2, <1>3, <1>4, <1>5, <1>6, <1>7 DEF EndpointsNext

(* The handlers of the dashboard and the slash commands implement Settings:*)
(* whatever holds of the cached rows there holds for them.                 *)
THEOREM SettingsImplemented == EndpointsSpec => Spec
  <1>1. EndpointsInit => Init
    BY DEF EndpointsInit
  <1>2. QED
    BY <1>1, StepOfSettings, PTL DEF EndpointsSpec, Spec

LEMMA EndpointsSettingsInv == EndpointsSpec => []SettingsInv
  BY SettingsImplemented, SettingsInvariant, PTL

-----------------------------------------------------------------------------
(* Values in range.                                                        *)

InRange(config) == \A f \in Fields : config[f] \in Accepted

\* What is on its way: changes asked for, and values held.
RangeInv ==
    /\ row["config"] # Absent => InRange(row["config"])
    /\ cache["config"] # Absent => InRange(cache["config"])
    /\ \A t \in Tasks :
         /\ step[t] # "idle" /\ at[t] = "config" /\ val[t] # Absent => InRange(val[t])
         /\ change[t] # ReadOnly => \A f \in DOMAIN change[t] : change[t][f] \in Accepted

LEMMA RangeInit == EndpointsInit => RangeInv
  BY DEF EndpointsInit, Init, Fresh, RangeInv, ReadOnly, Stores, Caches

\* A task that goes from one step to another with values in range.
LEMMA RangeBecomes ==
  ASSUME TypeOK, RangeInv, NEW t \in Tasks, NEW s, NEW c, NEW v, NEW ch, Becomes(t, s, c, v, ch),
         s # "idle" /\ c = "config" /\ v # Absent => InRange(v),
         ch # ReadOnly => \A f \in DOMAIN ch : ch[f] \in Accepted,
         row'["config"] # Absent => InRange(row'["config"]),
         cache'["config"] # Absent => InRange(cache'["config"])
  PROVE  RangeInv'
  <1>1. ASSUME NEW u \in Tasks
        PROVE  /\ step'[u] # "idle" /\ at'[u] = "config" /\ val'[u] # Absent => InRange(val'[u])
               /\ change'[u] # ReadOnly => \A f \in DOMAIN change'[u] : change'[u][f] \in Accepted
    BY DEF Becomes, TypeOK, RangeInv
  <1>2. QED
    BY <1>1 DEF RangeInv, InRange, ReadOnly

LEMMA RangeFinish ==
  ASSUME TypeOK, RangeInv, NEW t \in Tasks, Finish(t),
         row'["config"] # Absent => InRange(row'["config"]),
         cache'["config"] # Absent => InRange(cache'["config"])
  PROVE  RangeInv'
  BY RangeBecomes DEF Finish

\* What a get leads to, given values in range.
LEMMA RangeGot ==
  ASSUME TypeOK, RangeInv, NEW t \in Tasks, NEW v, NEW ch \in Asks, Got(t, v, ch),
         ch # ReadOnly => InRange(v) /\ \A f \in DOMAIN ch : ch[f] \in Accepted,
         row'["config"] # Absent => InRange(row'["config"]),
         cache'["config"] # Absent => InRange(cache'["config"])
  PROVE  RangeInv'
  <1>1. CASE ch = ReadOnly
    BY <1>1, RangeFinish DEF Got
  <1>2. CASE ch # ReadOnly
    <2>1. InRange(With(v, ch))
      BY <1>2 DEF InRange, With
    <2>2. QED
      BY <1>2, <2>1, RangeBecomes DEF Got
  <1>3. QED
    BY <1>1, <1>2

LEMMA RangeStep == TypeOK /\ ChangeAt /\ RangeInv /\ [EndpointsNext]_allvars => RangeInv'
  <1> SUFFICES ASSUME TypeOK, ChangeAt, RangeInv, [EndpointsNext]_allvars PROVE RangeInv'
    OBVIOUS
  <1>0. /\ \A t \in Tasks : at[t] \in Caches \cup {None} /\ change[t] \in Asks /\ Fits(step[t], at[t], val[t])
        /\ "config" \in Caches /\ "config" \in Stores
        /\ row \in [Stores -> Contents] /\ cache \in [Caches -> Contents]
    BY DEF TypeOK, Caches, Stores
  <1>k. ASSUME UNCHANGED <<row, cache>>
        PROVE  /\ row'["config"] # Absent => InRange(row'["config"])
               /\ cache'["config"] # Absent => InRange(cache'["config"])
    BY <1>k DEF RangeInv, InRange
  <1>1. ASSUME NEW t \in Tasks, NEW c \in Caches, NEW ch \in Asks, LookUp(t, c, ch),
               ch # ReadOnly => \A f \in DOMAIN ch : ch[f] \in Accepted
        PROVE  RangeInv'
    <2>1. UNCHANGED <<row, cache>> /\ (ch # ReadOnly => c = "config")
      BY <1>1 DEF LookUp
    <2>2. CASE cache[c] # Absent
      <3>1. Got(t, cache[c], ch) /\ (ch # ReadOnly => InRange(cache[c]))
        BY <1>1, <2>1, <2>2 DEF LookUp, RangeInv
      <3>2. QED
        BY <1>1, <1>k, <2>1, <3>1, RangeGot
    <2>3. CASE cache[c] = Absent
      <3>1. Becomes(t, "query", c, Absent, ch)
        BY <1>1, <2>3 DEF LookUp
      <3>2. QED
        BY <1>1, <1>k, <2>1, <3>1, RangeBecomes
    <2>4. QED
      BY <2>2, <2>3
  <1>2. ASSUME NEW t \in Tasks, Query(t) PROVE RangeInv'
    <2> DEFINE v == Current(StoreOf(at[t]))
    <2>1. UNCHANGED <<row, cache>>
      BY <1>2 DEF Query
    <2>2. CASE v = Absent
      BY <1>2, <1>k, <2>1, <2>2, RangeFinish DEF Query
    <2>3. CASE v # Absent
      <3>1. Becomes(t, "fill", at[t], v, change[t])
        BY <1>2, <2>3 DEF Query
      <3>2. at[t] = "config" => InRange(v)
        BY <2>3, EndpointsAssumption
           DEF StoreOf, Current, RangeInv, InRange, DefaultConfig, EndpointsAssumption
      <3>3. change[t] # ReadOnly => \A f \in DOMAIN change[t] : change[t][f] \in Accepted
        BY DEF RangeInv
      <3>4. QED
        BY <1>k, <2>1, <3>1, <3>2, <3>3, RangeBecomes
    <2>4. QED
      BY <2>2, <2>3
  <1>3. ASSUME NEW t \in Tasks, Fill(t) PROVE RangeInv'
    <2>1. at[t] = "config" => val[t] # Absent
      BY <1>0, <1>3, SettingsAssumption
         DEF Fill, Fits, Data, StoreOf, Config, SettingsAssumption
    <2>2. at[t] = "config" => InRange(val[t])
      BY <1>3, <2>1 DEF Fill, RangeInv
    <2>3. cache'["config"] # Absent => InRange(cache'["config"])
      BY <1>0, <1>3, <2>2 DEF Fill, RangeInv
    <2>4. row'["config"] # Absent => InRange(row'["config"])
      BY <1>3 DEF Fill, RangeInv
    <2>5. change[t] # ReadOnly => InRange(val[t]) /\ \A f \in DOMAIN change[t] : change[t][f] \in Accepted
      BY <1>3, <2>2 DEF RangeInv, ChangeAt, Fill
    <2>6. Got(t, val[t], change[t]) /\ change[t] \in Asks
      BY <1>0, <1>3 DEF Fill
    <2>7. QED
      BY <2>3, <2>4, <2>5, <2>6, RangeGot
  <1>4. ASSUME NEW t \in Tasks, NEW x, Becomes(t, "write", "dashboard", x, ReadOnly), UNCHANGED <<row, cache>>
        PROVE  RangeInv'
    BY <1>4, <1>k, RangeBecomes
  <1>5. ASSUME NEW t \in Tasks, Write(t) PROVE RangeInv'
    <2>1. at[t] = "config" /\ val[t] # Absent => InRange(val[t])
      BY <1>5 DEF Write, RangeInv
    <2>2. StoreOf(at[t]) = "config" => at[t] = "config"
      BY DEF StoreOf
    <2>3. row'["config"] # Absent => InRange(row'["config"])
      BY <1>0, <1>5, <2>1, <2>2 DEF Write, RangeInv
    <2>4. cache'["config"] # Absent => InRange(cache'["config"])
      BY <1>5 DEF Write, RangeInv
    <2>6. Becomes(t, "publish", at[t], val[t], ReadOnly)
      BY <1>5 DEF Write
    <2>7. QED
      BY <2>1, <2>3, <2>4, <2>6, RangeBecomes
  <1>6. ASSUME NEW t \in Tasks, Publish(t) PROVE RangeInv'
    <2>1. cache'["config"] # Absent => InRange(cache'["config"])
      BY <1>0, <1>6 DEF Publish, RangeInv
    <2>2. row'["config"] # Absent => InRange(row'["config"])
      BY <1>6 DEF Publish, RangeInv
    <2>3. QED
      BY <1>6, <2>1, <2>2, RangeFinish DEF Publish
  <1>7. ASSUME NEW t \in Tasks, StatementError(t) \/ Dropped(t) PROVE RangeInv'
    BY <1>7, <1>k, RangeFinish DEF StatementError, Dropped
  <1>8. ASSUME NEW c \in Caches, Invalidate(c) PROVE RangeInv'
    BY <1>0, <1>8 DEF Invalidate, RangeInv, tvars
  <1>9. ASSUME Restart PROVE RangeInv'
    BY <1>0, <1>9 DEF Restart, RangeInv
  <1>10. CASE UNCHANGED vars
    BY <1>10 DEF vars, tvars, RangeInv
  <1>11. ASSUME NEW t \in Tasks, Ask(t) PROVE RangeInv'
    <2>1. ASSUME NEW c \in Caches, GetRules(t, c) \/ GetConfig(t) PROVE RangeInv'
      BY <1>0, <1>1, <2>1, ReadOnlyType DEF GetRules, GetConfig
    <2>2. ASSUME NEW ch \in Changes, UpdateConfig(t, ch) PROVE RangeInv'
      BY <1>0, <1>1, <2>2 DEF UpdateConfig, Asks
    <2>3. ASSUME NEW f \in Fields, NEW v \in Values, HandleConfig(t, f, v) PROVE RangeInv'
      <3>1. [g \in {f} |-> v] \in [{f} -> Values] /\ {f} \in SUBSET Fields
        OBVIOUS
      <3>2. [g \in {f} |-> v] \in Asks
        BY <3>1 DEF Asks, Changes
      <3>3. \A h \in DOMAIN [g \in {f} |-> v] : [g \in {f} |-> v][h] \in Accepted
        BY <2>3, EndpointsAssumption DEF HandleConfig, EndpointsAssumption
      <3>4. QED
        BY <1>0, <1>1, <2>3, <3>2, <3>3 DEF HandleConfig
    <2>4. QED
      BY <1>4, <1>11, <2>1, <2>2, <2>3
         DEF Ask, Caches, UpdateRules, DeleteRules, HandleRules, Upload, Clear
  <1>12. ASSUME NEW t \in Tasks, Work(t) PROVE RangeInv'
    BY <1>2, <1>3, <1>5, <1>6, <1>10, <1>12 DEF Work, WriteConfig, WriteRules, StampEntry, CreateAuditLog
  <1>13. ASSUME NEW t \in Tasks, Failed(t) \/ Gone(t) \/ AuditLost(t) PROVE RangeInv'
    BY <1>7, <1>10, <1>13 DEF Failed, Gone, AuditLost
  <1>14. QED
    BY <1>8, <1>9, <1>10, <1>11, <1>12, <1>13 DEF EndpointsNext, RestartAll, allvars

(* Values outside the range are never stored, cached or held: the checks of*)
(* update_config and handle_config are enough, in any interleaving.        *)
THEOREM SettingsInRangeEver == EndpointsSpec => []SettingsInRange
  <1>1. RangeInv => SettingsInRange
    BY DEF RangeInv, InRange, SettingsInRange
  <1>2. EndpointsSpec => [](TypeOK /\ ChangeAt)
    BY EndpointsSettingsInv, PTL DEF SettingsInv
  <1>3. EndpointsSpec => []RangeInv
    BY <1>2, RangeInit, RangeStep, PTL DEF EndpointsSpec
  <1>4. QED
    BY <1>1, <1>3, PTL

-----------------------------------------------------------------------------
(* The audit log.                                                          *)

\* What a task with an entry to insert is doing.
DueOK ==
    /\ due \in [Tasks -> Entries \cup {None}]
    /\ writer \in Tasks \cup {None} /\ blurred \in BOOLEAN
    /\ \A t \in Tasks : due[t] \in AboutRules /\ step[t] # "idle" =>
         /\ step[t] \in {"write", "publish"} /\ at[t] = "dashboard"
         /\ (val[t] # Absent) <=> (due[t] = "rules_updated")
    /\ \A t \in Tasks : due[t] = "config_updated" /\ step[t] # "idle" => at[t] = "config"

\* Timestamps are taken by tasks that are logging.
StampOK ==
    /\ stamped \subseteq Logging /\ overtaken \subseteq stamped
    /\ earlier \in [Tasks -> SUBSET Tasks]
    /\ \A t \in Tasks : earlier[t] \subseteq stamped \ {t}

\* The last writer, while it has yet to log, is the one whose entry will explain
\* the rules; unless the log is blurred nobody else is logging, and nobody's
\* timestamp is overtaken.
LogInv ==
    /\ writer # None =>
         /\ writer \in Logging
         /\ (row["rules"] # Absent) <=> (due[writer] = "rules_updated")
    /\ ~blurred => Logging \subseteq {writer} /\ overtaken = {}
    /\ StampOK
    /\ LogExplains

LEMMA LogInit == EndpointsInit => DueOK /\ LogInv
  <1> SUFFICES ASSUME EndpointsInit PROVE DueOK /\ LogInv
    OBVIOUS
  <1>1. /\ \A t \in Tasks : due[t] = None /\ step[t] = "idle"
        /\ due = [t \in Tasks |-> None]
        /\ writer = None /\ newest = None /\ blurred = FALSE
        /\ row["rules"] = Absent
        /\ stamped = {} /\ overtaken = {} /\ earlier = [t \in Tasks |-> {}]
    BY DEF EndpointsInit, Init, Fresh, Stores
  <1>2. None \notin AboutRules
    BY DEF AboutRules, None
  <1>3. DueOK
    BY <1>1, <1>2 DEF DueOK, None
  <1>4. Logging = {}
    BY <1>1, <1>2 DEF Logging
  <1>5. LogInv
    BY <1>1, <1>2, <1>4 DEF LogInv, StampOK, LogExplains, AboutRules
  <1>6. QED
    BY <1>3, <1>5

\* Steps that leave the rules and the log alone, of tasks that are not logging.
LEMMA LogFrame ==
  ASSUME DueOK, LogInv, row'["rules"] = row["rules"], Logging' = Logging,
         UNCHANGED <<newest, writer, blurred, stamped, earlier, overtaken>>,
         writer # None => due'[writer] = due[writer]
  PROVE  LogInv'
  BY DEF LogInv, StampOK, LogExplains

\* A task whose entry is inserted or given up.
LEMMA Forgotten ==
  ASSUME StampOK, NEW t \in Tasks, Logging' = Logging \ {t}, Forget(t),
         overtaken' \subseteq overtaken \cup earlier[t], t \notin overtaken'
  PROVE  StampOK'
  <1>1. /\ stamped' = stamped \ {t}
        /\ earlier' = [u \in Tasks |-> IF u = t THEN {} ELSE earlier[u] \ {t}]
    BY DEF Forget
  <1>2. \A u \in Tasks : earlier'[u] \in SUBSET Tasks /\ earlier'[u] \subseteq stamped' \ {u}
    BY <1>1 DEF StampOK
  <1>3. earlier' \in [Tasks -> SUBSET Tasks]
    BY <1>1, <1>2
  <1>4. QED
    BY <1>1, <1>2, <1>3 DEF StampOK

LEMMA LogStep == TypeOK /\ DueOK /\ LogInv /\ [EndpointsNext]_allvars => DueOK' /\ LogInv'
  <1> SUFFICES ASSUME TypeOK, DueOK, LogInv, [EndpointsNext]_allvars PROVE DueOK' /\ LogInv'
    OBVIOUS
  <1>0. /\ step \in [Tasks -> {"idle", "query", "fill", "write", "publish"}]
        /\ at \in [Tasks -> Caches \cup {None}] /\ val \in [Tasks -> Contents]
        /\ due \in [Tasks -> Entries \cup {None}] /\ None \notin AboutRules
        /\ row \in [Stores -> Contents] /\ None \notin Tasks
    BY EndpointsAssumption DEF TypeOK, DueOK, AboutRules, None, EndpointsAssumption
  <1>w. writer # None => writer \in Logging
    BY DEF LogInv
  \* A task without an entry, or one that keeps its entry and its phase.
  <1>k. ASSUME NEW t \in Tasks, NEW s, NEW c, NEW v, NEW ch, Becomes(t, s, c, v, ch),
               row'["rules"] = row["rules"], UNCHANGED avars,
               due[t] \in AboutRules => s = "idle" /\ step[t] \in {"publish", "idle"},
               due[t] = "config_updated" => s = "idle" \/ c = "config"
        PROVE  DueOK' /\ LogInv'
    <2>1. Logging' = Logging
      BY <1>0, <1>k DEF Becomes, avars, Logging
    <2>2. LogInv'
      BY <1>k, <2>1, LogFrame DEF avars, stampVars
    <2>3. DueOK'
      BY <1>0, <1>k DEF Becomes, avars, DueOK
    <2>4. QED
      BY <2>2, <2>3
  \* A task that starts.
  <1>1. ASSUME NEW t \in Tasks, NEW s, NEW c, NEW v, NEW ch, NEW entry \in Entries \cup {None},
               step[t] = "idle", Becomes(t, s, c, v, ch), UNCHANGED row, Starts(t, entry),
               entry \in AboutRules =>
                 s = "write" /\ c = "dashboard" /\ ((v # Absent) <=> (entry = "rules_updated")),
               entry = "config_updated" => s = "idle" \/ c = "config"
        PROVE  DueOK' /\ LogInv'
    <2>1. t \notin Logging
      BY <1>0, <1>1 DEF Starts, Logging
    <2>2. Logging' = Logging
      BY <1>0, <1>1, <2>1 DEF Starts, Becomes, Logging
    <2>3. writer # None => due'[writer] = due[writer]
      BY <1>0, <1>1, <1>w, <2>1 DEF Starts, Logging
    <2>4. LogInv'
      BY <1>1, <2>2, <2>3, LogFrame DEF Starts, stampVars
    <2>5. DueOK'
      BY <1>0, <1>1 DEF Starts, Becomes, DueOK
    <2>6. QED
      BY <2>4, <2>5
  <1>2. ASSUME NEW t \in Tasks, NEW c, NEW ch, NEW entry \in {None, "config_updated"},
               LookUp(t, c, ch), Starts(t, entry), entry = "config_updated" => c = "config"
        PROVE  DueOK' /\ LogInv'
    <2>1. step[t] = "idle" /\ UNCHANGED row /\ entry \in Entries \cup {None} /\ entry \notin AboutRules
      BY <1>0, <1>2 DEF LookUp, Entries, AboutRules
    <2>2. PICK s, w, v, m : Becomes(t, s, w, v, m) /\ (s = "idle" \/ w \in {c, "config"})
      BY <1>2 DEF LookUp, Got, Finish
    <2>3. QED
      BY <1>1, <1>2, <2>1, <2>2
  <1>3. ASSUME NEW t \in Tasks, Ask(t) PROVE DueOK' /\ LogInv'
    <2>1. ASSUME NEW c \in Caches, GetRules(t, c) \/ GetConfig(t) PROVE DueOK' /\ LogInv'
      BY <1>2, <2>1 DEF GetRules, GetConfig, None
    <2>2. ASSUME NEW ch \in Changes, UpdateConfig(t, ch) PROVE DueOK' /\ LogInv'
      BY <1>2, <2>2 DEF UpdateConfig
    <2>3. ASSUME NEW f \in Fields, NEW v \in Values, HandleConfig(t, f, v) PROVE DueOK' /\ LogInv'
      BY <1>2, <2>3 DEF HandleConfig
    <2>4. ASSUME NEW text \in Texts, UpdateRules(t, text) PROVE DueOK' /\ LogInv'
      BY <1>1, <2>4, SettingsAssumption DEF UpdateRules, Upload, Entries, SettingsAssumption
    <2>5. ASSUME DeleteRules(t) PROVE DueOK' /\ LogInv'
      BY <1>1, <2>5 DEF DeleteRules, Clear, Entries
    <2>6. ASSUME HandleRules(t) PROVE DueOK' /\ LogInv'
      BY <1>0, <1>1, <2>6 DEF HandleRules, Upload, Clear, None
    <2>7. QED
      BY <1>3, <2>1, <2>2, <2>3, <2>4, <2>5, <2>6 DEF Ask, Caches
  <1>4. ASSUME NEW t \in Tasks, Query(t) \/ Fill(t), UNCHANGED avars PROVE DueOK' /\ LogInv'
    <2>1. due[t] \notin AboutRules /\ UNCHANGED row
      BY <1>4 DEF Query, Fill, DueOK
    <2>2. PICK s, w, v, m : Becomes(t, s, w, v, m) /\ (s = "idle" \/ w \in {at[t], "config"})
      BY <1>4 DEF Query, Fill, Got, Finish
    <2>3. due[t] = "config_updated" => at[t] = "config"
      BY <1>4 DEF Query, Fill, DueOK
    <2>4. QED
      BY <1>k, <1>4, <2>1, <2>2, <2>3
  <1>5. ASSUME NEW t \in Tasks, Publish(t), UNCHANGED avars PROVE DueOK' /\ LogInv'
    BY <1>k, <1>5 DEF Publish, Finish
  <1>6. ASSUME NEW t \in Tasks, WriteConfig(t) PROVE DueOK' /\ LogInv'
    <2>1. due[t] \notin AboutRules
      BY <1>6 DEF WriteConfig, Write, DueOK
    <2>2. row'["rules"] = row["rules"]
      BY <1>0, <1>6 DEF WriteConfig, Write, StoreOf, Stores
    <2>3. QED
      BY <1>k, <1>6, <2>1, <2>2 DEF WriteConfig, Write
  <1>7. ASSUME NEW t \in Tasks, WriteRules(t) PROVE DueOK' /\ LogInv'
    <2>1. /\ step[t] = "write" /\ at[t] = "dashboard" /\ row'["rules"] = val[t]
          /\ Becomes(t, "publish", at[t], val[t], ReadOnly)
      BY <1>0, <1>7 DEF WriteRules, Write, StoreOf, Stores
    <2>2. due[t] = None \/ due[t] \in AboutRules
      BY <1>0, <1>7, <2>1 DEF DueOK, Entries, AboutRules
    <2>3. Logging' = IF due[t] = None THEN Logging ELSE Logging \cup {t}
      BY <1>0, <1>7, <2>1, <2>2 DEF WriteRules, Becomes, Logging
    <2>4. DueOK'
      BY <1>0, <1>7, <2>1, <2>2 DEF WriteRules, Becomes, DueOK
    <2>5. t \notin Logging
      BY <2>1 DEF Logging
    <2>s. UNCHANGED <<stamped, earlier, overtaken>> /\ StampOK'
      BY <1>7, <2>3 DEF WriteRules, stampVars, LogInv, StampOK
    <2>6. CASE due[t] = None
      <3>1. writer' = None /\ blurred' = TRUE
        BY <1>7, <2>6 DEF WriteRules, Blurs
      <3>2. QED
        BY <2>4, <2>s, <3>1 DEF LogInv, LogExplains
    <2>7. CASE due[t] # None
      <3>1. writer' = t /\ t \in Logging' /\ due'[t] = due[t]
        BY <1>7, <2>3, <2>7 DEF WriteRules
      <3>2. (row'["rules"] # Absent) <=> (due[t] = "rules_updated")
        BY <2>1, <2>2, <2>7 DEF DueOK
      <3>3. ~blurred' => Logging = {} /\ ~blurred
        BY <1>7, <2>7 DEF WriteRules, Blurs, DueOK
      <3>4. QED
        <4>1. Logging' = Logging \cup {t}
          BY <2>3, <2>7
        <4>2. ~blurred' => Logging' \subseteq {writer'} /\ overtaken' = {}
          BY <2>s, <3>1, <3>3, <4>1 DEF LogInv
        <4>3. (row'["rules"] # Absent) <=> (due'[writer'] = "rules_updated")
          BY <3>1, <3>2
        <4>4. QED
          BY <2>4, <2>s, <3>1, <4>2, <4>3 DEF LogInv, LogExplains
    <2>8. QED
      BY <2>4, <2>6, <2>7
  <1>8. ASSUME NEW t \in Tasks, CreateAuditLog(t) PROVE DueOK' /\ LogInv'
    <2>1. Logging' = Logging \ {t}
      BY <1>0, <1>8 DEF CreateAuditLog, Logging, vars, tvars
    <2>2. DueOK'
      BY <1>0, <1>8 DEF CreateAuditLog, DueOK, vars, tvars
    <2>3. UNCHANGED row
      BY <1>8 DEF CreateAuditLog, vars
    <2>s. StampOK'
      BY <1>8, <2>1, Forgotten DEF CreateAuditLog, LogInv, StampOK
    <2>4. CASE due[t] \in AboutRules
      <3>1. t \in Logging
        BY <1>0, <1>8, <2>4 DEF CreateAuditLog, Logging
      <3>2. CASE writer = t
        <4>1. writer' = None
          BY <1>8, <3>2 DEF CreateAuditLog
        <4>2. ((row["rules"] # Absent) <=> (due[t] = "rules_updated"))
          BY <1>0, <3>2 DEF LogInv
        <4>3. ~blurred' => Logging = {t} /\ t \notin overtaken
          BY <1>8, <3>1, <3>2 DEF CreateAuditLog, LogInv, DueOK
        <4>4. ~blurred' => newest' = due[t] /\ overtaken' = overtaken \cup earlier[t]
          BY <1>8, <2>4, <4>3 DEF CreateAuditLog
        <4>5. ~blurred' => overtaken' = {}
          BY <4>3, <4>4 DEF LogInv, StampOK
        <4>6. QED
          BY <2>1, <2>2, <2>3, <2>s, <4>1, <4>2, <4>3, <4>4, <4>5 DEF LogInv, LogExplains
      <3>3. CASE writer # t
        <4>1. UNCHANGED <<writer, blurred>> /\ blurred
          BY <1>8, <3>1, <3>3 DEF CreateAuditLog, LogInv, DueOK
        <4>2. writer # None => due'[writer] = due[writer]
          BY <1>0, <1>8, <1>w, <3>3 DEF CreateAuditLog, Logging
        <4>3. QED
          BY <2>1, <2>2, <2>3, <2>s, <3>3, <4>1, <4>2 DEF LogInv, LogExplains
      <3>4. QED
        BY <3>2, <3>3
    <2>5. CASE due[t] \notin AboutRules
      <3>1. t \notin Logging
        BY <2>5 DEF Logging
      <3>2. writer # t /\ UNCHANGED <<writer, blurred, newest>>
        BY <1>8, <1>w, <1>0, <2>5, <3>1 DEF CreateAuditLog, DueOK
      <3>3. writer # None => due'[writer] = due[writer]
        BY <1>0, <1>8, <1>w, <3>1 DEF CreateAuditLog, Logging
      <3>4. overtaken' = overtaken
        BY <1>8, <2>5, <3>1 DEF CreateAuditLog, LogInv, StampOK
      <3>5. QED
        BY <2>1, <2>2, <2>3, <2>s, <3>1, <3>2, <3>3, <3>4 DEF LogInv, LogExplains
    <2>6. QED
      BY <2>4, <2>5
  <1>16. ASSUME NEW t \in Tasks, StampEntry(t) PROVE DueOK' /\ LogInv'
    <2>1. /\ Logging' = Logging /\ t \in Logging
          /\ UNCHANGED <<row, step, at, val, due, newest, overtaken, writer, blurred>>
          /\ stamped' = stamped \cup {t} /\ earlier' = [earlier EXCEPT ![t] = stamped]
          /\ t \notin stamped
      BY <1>16 DEF StampEntry, Logging, vars, tvars
    <2>2. DueOK'
      BY <2>1 DEF DueOK
    <2>3. Logging \subseteq Tasks
      BY DEF Logging
    <2>4. StampOK'
      BY <2>1, <2>3 DEF LogInv, StampOK
    <2>5. QED
      BY <2>1, <2>2, <2>4 DEF LogInv, LogExplains
  \* A task that ends without its entry, and what it was doing ends with it.
  <1>9. ASSUME NEW t \in Tasks, Stops(t), UNCHANGED row, Finish(t) \/ UNCHANGED <<step, at, val>>
        PROVE  DueOK' /\ LogInv'
    <2>1. Logging' = Logging \ {t}
      BY <1>0, <1>9 DEF Stops, Finish, Becomes, Logging
    <2>2. DueOK'
      <3>1. /\ due' = [due EXCEPT ![t] = None] /\ blurred' \in BOOLEAN /\ writer' \in Tasks \cup {None}
            /\ None \notin AboutRules /\ None # "config_updated"
        BY <1>0, <1>9 DEF Stops, DueOK, None
      <3>2. \A u \in Tasks \ {t} : step'[u] = step[u] /\ at'[u] = at[u] /\ val'[u] = val[u] /\ due'[u] = due[u]
        BY <1>0, <1>9, <3>1 DEF Finish, Becomes
      <3>3. due' \in [Tasks -> Entries \cup {None}] /\ due'[t] = None
        BY <1>0, <3>1
      <3>4. QED
        BY <3>1, <3>2, <3>3 DEF DueOK
    <2>3. writer' # None => writer' = writer /\ writer # t /\ due'[writer] = due[writer]
      BY <1>0, <1>9, <1>w DEF Stops, Logging
    <2>4. ~blurred' => t \notin Logging /\ ~blurred /\ writer' = writer
      BY <1>9, <1>w DEF Stops, DueOK
    <2>5. StampOK' /\ overtaken' \subseteq overtaken
      BY <1>9, <2>1, Forgotten DEF Stops, LogInv
    <2>6. QED
      BY <1>9, <2>1, <2>2, <2>3, <2>4, <2>5 DEF Stops, LogInv, LogExplains
  <1>10. ASSUME NEW t \in Tasks, Failed(t) \/ Gone(t) \/ AuditLost(t) PROVE DueOK' /\ LogInv'
    BY <1>9, <1>10 DEF Failed, Gone, AuditLost, StatementError, Dropped, vars, tvars
  <1>11. ASSUME RestartAll PROVE DueOK' /\ LogInv'
    <2>1. Logging' = {} /\ writer' = None /\ UNCHANGED <<row, newest>>
      BY <1>0, <1>11 DEF RestartAll, Restart, Logging
    <2>2. DueOK'
      BY <1>0, <1>11 DEF RestartAll, Restart, DueOK
    <2>3. ~blurred' => ~blurred /\ Logging = {}
      BY <1>11 DEF RestartAll
    <2>4. StampOK' /\ overtaken' = {}
      BY <1>11, <2>1 DEF RestartAll, StampOK
    <2>5. QED
      BY <2>1, <2>2, <2>3, <2>4 DEF LogInv, LogExplains
  <1>12. ASSUME NEW c \in Caches, Invalidate(c), UNCHANGED avars PROVE DueOK' /\ LogInv'
    <2>1. Logging' = Logging
      BY <1>12 DEF Invalidate, tvars, avars, Logging
    <2>2. QED
      BY <1>12, <2>1, LogFrame DEF Invalidate, tvars, avars, stampVars, DueOK
  <1>13. CASE UNCHANGED allvars
    <2>1. Logging' = Logging
      BY <1>13 DEF allvars, vars, tvars, avars, Logging
    <2>2. QED
      BY <1>13, <2>1, LogFrame DEF allvars, vars, tvars, avars, stampVars, DueOK
  <1>14. ASSUME NEW t \in Tasks, Work(t) PROVE DueOK' /\ LogInv'
    BY <1>4, <1>5, <1>6, <1>7, <1>8, <1>14, <1>16 DEF Work
  <1>15. QED
    BY <1>3, <1>10, <1>11, <1>12, <1>13, <1>14 DEF EndpointsNext

(* The newest entry about the rules says whether there are any, for any    *)
(* number of handlers and commands, unless one of the named races happened.*)
THEOREM LogExplainsEver == EndpointsSpec => []LogExplains
  <1>1. LogInv => LogExplains
    BY DEF LogInv
  <1>2. EndpointsSpec => []TypeOK
    BY EndpointsSettingsInv, PTL DEF SettingsInv
  <1>3. EndpointsSpec => [](DueOK /\ LogInv)
    BY <1>2, LogInit, LogStep, PTL DEF EndpointsSpec
  <1>4. QED
    BY <1>1, <1>3, PTL
=============================================================================
