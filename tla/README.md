# Murdoch in TLA+

Murdoch is a Discord moderation bot written in Rust on tokio: messages pass a
regex filter, are buffered, analysed in batches by Gemini, and violations are
enforced through a ladder of warnings; a web dashboard shows and configures it.
This directory holds TLA+ modules of its core logic, TLC configurations that
check them on small instances, and TLAPS proofs for instances of any size.

## 1. The system

Sources are under `src/src/`. Components talk through shared state (`Arc` of
mutexes, `RwLock`, `DashMap`), a SQLite database, and broadcast channels; every
event (message, command, request) runs in a task of its own.

| component | state | operations | what is hard | what makes it correct |
|---|---|---|---|---|
| message buffer (`buffer.rs`) | two vectors, a flag and a time, a mutex each | `add`, `should_flush`, `flush`, `return_messages` | each operation is several critical sections; flushes overlap | no message lost, none twice |
| pipeline (`pipeline.rs`) | `gemini_available` | `process_message`, `flush_buffer`, timer task | handlers and timer flush at once; analysis fails and is retried; one `?` drops the rest of a batch | every message is judged in the end; the gate reopens |
| warnings (`warnings.rs`) | a row per user and guild | `record_violation`, `mark_kicked`, `decay_warnings`, `clear_warnings`, `bulk_clear_old_warnings` | read, compute, write without a transaction; text timestamps | levels follow offences; bans stay; kick before ban |
| Discord client (`discord.rs`) | queue of actions | `handle_violation`, `queue_*`, `process_queue` | several drainers; failed actions dropped | each action once, in order per user |
| appeals (`appeals.rs`) | appeals table | `create_appeal`, `resolve_appeal` | check-then-insert; resolve then clear | one active appeal; approval clears |
| raid detector (`raid.rs`) | windows of joins and messages, mode per guild | `record_*`, `check_expiry`, `disable_raid_mode` | detection and activation under two locks | raid mode iff a raid was seen recently |
| rules, configuration (`rules.rs`, `database.rs`) | a table and a cache each | get, upload/set, clear, field updates | cache-aside with stale inserts; two rules engines | readers see the last write |
| WebSocket manager (`websocket.rs`) | channels, counts per user and guild | subscribe, unsubscribe, ping, cleanup, broadcast | counts over many connections | counts match subscriptions, limit of 5 |
| deduplication (`web.rs`) | map of requests in flight | lead or follow | two leaders, dead leaders, guard held while waiting | every follower is answered |
| user service, caches (`user_service.rs`, `cache.rs`) | memory and table caches | three-tier lookup | staleness, rate limits | fresh or fetched |
| sessions, OAuth (`session.rs`, `oauth.rs`) | sessions table, guild cache | refresh, cleanup | concurrent refresh, cleanup of live sessions | a live session stays usable |
| notifications (`notification.rs`) | notification table | `send` | webhook retries after the in-app notice | told once |
| metrics (`metrics.rs`) | counters per guild | record, `flush` | counters removed before they are saved | counts conserved |
| access control (`rbac.rs`) | roles table | assign, check | the matrix, the default role | permission follows role |
| context (`context.rs`) | last 10 messages per channel | add, get | | bounded, in order |
| analyser (`analyzer.rs`) | permits of a rate limiter | `analyze_with_context` | permits, retries inside a call, two formats of answers | a call ends |
| audit log (`database.rs`, `web.rs`) | entries | one after each change by the dashboard | a statement of its own, its error ignored | the newest entry explains the state |
| reports (`web.rs`, `commands.rs`, `export.rs`) | none, they read violations, counters and warnings | pages, metrics, health, offenders, rules, times, histories, exports | several statements per answer, rows recorded between them | the parts of one answer fit together |

Left aside: `models.rs`, `error.rs`, `config.rs`, `health.rs` (data, formatting,
probes), `filter.rs` beyond its verdict, and the browser code in `src/web` but for
the walk over the pages of violations.

`PROJECT.json` lists the components with their status, and the hazards: the
places where a test would hardly reach what can go wrong.

## 2. What is modelled

### MessageBuffer, and BatchPool which it implements

Each field of the struct has its own mutex, so an operation is a sequence of
critical sections, and each is an action; `pc[t]` is the next one of task `t`.

| code | actions |
|---|---|
| `add` | `ReadFlushing` (the flag decides the buffer), `Push` (under that buffer's lock) |
| `should_flush` | `ReadLastFlush`, `CheckTimeout` |
| `flush` | `BeginFlush`, `Take`, `Touch`, `SwapBack` |
| `return_messages` | `ReturnMessages` |
| the caller done with its batch | `Consume` |

Time is an age saturating at the timeout. `offered`, `consumed` and `overlap` are
history. `overlap` is raised by the three ways something can be left in primary
between a flush's `Take` and its `SwapBack`, which overwrites it: an add that had
chosen primary before (`DirtyTake`), a second flush (`DirtyBegin`), a batch put
back (`DirtyReturn`). `NoLoss` is false of the code; `LossNeedsOverlap` says
precisely when it can fail, and `SetAsideIsSafe` which messages are at risk.

`BatchPool` is the promise: a set of waiting messages from which tasks take
batches they put back whole or finish. `ImplementsPool` maps both vectors to the
pool and a task's batch to what it holds, and `overlap` to `abused`: once callers have
broken the discipline, waiting messages may vanish, and nothing else changes.

### Pipeline, and Analyzer under it

`Pipeline` extends the buffer with its callers. A handler (`HandlerStep`) screens a
message, reads the gate, adds, and flushes if its add reached the threshold; the
timer (`PollRead`, `PollCheck`) asks `should_flush`; both run `FlushBuffer`. The
filter's verdict is nondeterministic. The gate is read and the message handed over in
one action (`PassFilter`), the add comes later, so the gate may have closed in between.
On failure the gate is closed (`AnalyzeErr`) before the batch is given back
(`GiveBack`), as in the code.

`Analyzer` is the call in between: it waits for a permit (`UntilReady`), sends, sends
again after a network error (`Retry`), and ends with any reply or with the error of
its last attempt. Permits come back one by one (`Replenish`). `Replies` are what can
come back; `Parses` tries the hardened format, then the legacy one, as
`parse_enhanced_response` does, and a report of coordinated harassment counts only if
`detected` and named participants make it valid. One permit serves all three attempts, though
`analyzer.rs:123` calls the client "Rate limited to 60 requests per minute".

### Warnings

A row of `user_warnings` per user; each SQL statement an action; tasks hold what
they have read (`got`, `new`), the decay job the levels it has selected (`snap`).
The violations table is written and never read by this logic and is left out.
`since` counts hours since the last violation up to a day and `midnight` whether
the date has changed: `last_violation` is `YYYY-MM-DD HH:MM:SS`, the cutoff
`YYYY-MM-DDTHH:MM:SS+00:00`, and compared as text a violation of the cutoff's date
is always before it, so "older than 24 hours" means "of yesterday or before".
If several hourly ticks pass while the job runs they count as one. Any statement may fail,
which ends the operation.

### Enforcement

Extends `Warnings` with the tasks that act on verdicts and with the action queue of
`discord.rs`, behind one mutex. A handler (`Screen`) queues a deletion and a notice,
records the violation, pushes the action of the level it got, marks a kicked user and
drains the queue. A flush (`Analyse`) gets a list of verdicts, queues the deletion of each
and records each in turn, in any order, since Gemini's is open, keeping the highest level
per user in `top`. A verdict is an item of that list and `About` names its message: the
code never deduplicates the list (`pipeline.rs:441`), so two items may name one message,
and each item leads to a deletion, a record and an escalation. Then it tells each user
(`Tell`, in any order: a `HashMap`) and drains. Draining (`Pop`, `Execute`) is popping under the lock and executing outside
it, whoever queued the action. A failed request is logged and forgotten, so `tried`
holds what was executed, with whatever outcome; `execute_action` never returns the
`RateLimited` error that `process_queue` waits for, so that branch cannot be taken.
A failed statement ends the task (`Abort`); `dropped` remembers whose handling it cut
short. `DeletedOnce` therefore speaks of verdicts: Discord is asked twice to delete a
message named twice. The hourly job and moderators do not act here, and the table may hold rows of
an earlier run of the process at the start.

### Settings, and Endpoints which works on them

The rules and the configuration of a guild: a row each (`row`), read through caches
without expiry (`cache`). `main.rs` makes two `RulesEngine`s over one table: commands
and dashboard write and read through one (`"dashboard"`), the pipeline reads through
the other. A get is `LookUp`, `Query` and `Fill`, a set is `Write` and `Publish`, an
update of some fields is a get and a set; nothing is held between them. `change` is
what an update was asked to set. Statements fail (`StatementError`), the dashboard's
requests are dropped at any await when the client is gone (`Dropped`), the process
restarts (`Restart`). `raced` is history: the caches a write to which was overtaken,
until an undisturbed write mends them. `updated_at` is left out.

`Endpoints` says who does this: the handlers of the dashboard (`GetRules`,
`UpdateRules`, `DeleteRules`, `GetConfig`, `UpdateConfig`) and the commands
(`HandleConfig`, `HandleRules`), each with the values it accepts. A handler of the
dashboard that has changed something writes an audit entry afterwards
in two steps: it takes the timestamp by which the list is sorted (`StampEntry`), then
inserts (`CreateAuditLog`), and entries may enter in another order than that of their
timestamps (`earlier`, `overtaken`). Its error is ignored (`AuditLost`). It then broadcasts without
another await; nothing in the front end listens to that event. A command inserts none.
The log is tracked for the rules: `newest` entry, and the history `blurred`, raised by
whatever makes it say something else than the table: a change by a command, one that
was never logged, two whose entries may come in another order. A change logged
undisturbed ends it.

### WebSocket

The connections of one user: users share no more than locks. A connection is its
`select!` loop, then its clean-up; `subs` counts its receivers per guild, `count` is
the entry of the shared map that limits them. A client may subscribe twice, and leave
what it never joined: `Subscribe` and `Unsubscribe` do what the code does then. The last
count is given back in two critical sections, `GiveBack` and `RemoveKey`. History:
`forgotten` are guilds with subscriptions that are not counted, `leaked` those whose
count was not given back in full, each from the step that caused it until both agree
again. Time is left out: an interval ticks at any time, so an answer in time is one
before the next tick. Sends are taken to return at once, though the code holds the
count's lock over one; events on the broadcast channels are left out.

### Dedup

The tower middleware in front of the API's router. The map of requests in flight is a
`DashMap`: shards, each with a readers-writer lock that blocks threads. `LookUp` finds
a leader's channel and follows (`chan`), or goes on without an await to `Insert`;
`Respond` broadcasts, `Remove` takes the entry out, again without an await in between,
so from one to the other a request occupies a worker thread (`FreeWorker`). A follower
keeps its read guard while it waits: `Writable` is what insert and remove need of the
shard. Channels are named after their leaders. `Drop` is a client that closes its
connection. The branch in which a follower finds its channel closed is left out:
`GuardKeepsEntry` shows that it is never taken. Nor are answers modelled: a follower
always gets status 200, whatever the leader's was. What reads the map is never kept
out by a blocked writer, as in `dashmap` 6.

### RaidDetector, and Gateway around it

One guild. Each event handler reads the clock (`Join`, `Message`), waits for a lock,
appends and prunes (`RecordJoin`, `CheckUserSpam`, `RecordMessage`), and activates raid
mode under another lock (`ActivateRaidMode`). `Pruned` cuts from the front of a queue that
the waits have left unsorted. The expiry task reads the clock and then takes the lock
(`CheckExpiry`, `Expire`); `DisableRaidMode` and `ClearGuild` come at any time. Texts are
model values up to `hash_content`; the ratios are in tenths. `sent` and `hits` count
messages and timeouts per user, `since` is when raid mode went on: history.

`Gateway` adds what `main.rs` does around it: a message is counted first, checked for
spam, then for a flood, and then noted in the conversation context (`AddMessage`) at
the head of `process_message`.

### Sessions

One user, with the session's row, Discord's side (`discord`: which pairs of tokens are
valid, whether the user is administrator) and the guild cache by access token. A
request looks its row up, refreshes the pair if it is about to expire
(`RefreshTokens`, which uses the refresh token up, then `UpdateTokens`), and checks the
guild: cache, fetch lock, cache again, fetch, insert. Any await can be its last
(`Dropped`); `lost` remembers that a new pair went with it. Log-in, log-out and the
hourly clean-up are actions of their own.

### UserLookup

One user, looked up alone or in a batch: memory, table, Discord with its rate limit,
retries and the fallback to a row of any age. `old` marks an answer taken from
such a row, `lastTrue` when each name was last the user's. On conflict the
table keeps `cached_at`, so after a day a row is stale for good and each lookup that
misses memory asks Discord; the fallback answers a deleted user's marker as a user. An
error of the database ends a single lookup, in its fallback too.

### Records: ViolationLog, Metrics, Reports, Appeals, Exports, Notices

`ViolationLog` is the table of violations and a walk over its pages: the count and the
rows are two statements (`CountRows`, `FetchRows`), and the page's last follows from the
count. `Metrics` has the counters in memory and `flush` in two steps, `TakeCounters` and
`UpsertHour` or its failure, by several callers at once (`Flushers`), since nothing in the
code keeps one from starting while another inserts.

`Reports` are the answers of dashboard and command. A handler that runs several statements
puts its answer together from several states of the tables: `answer` is the one being
put together, a record whose `todo` are the statements left (`Statements`), and each is an
action that reads rows, counters, hours or the clock as they are then (`SelectList` and
`SelectChart` of the offenders; `ReadCounters`, `ReadHours`, `ReadRows` of
`get_snapshot` and `query_historical`, with its fallback; `SelectSeries`, `SelectBars`,
`StartPrevious`, `CountActions`). A statement that fails is read as no rows by the
dashboard and ends the command. Handlers only read, so one at a time shows all they can see.
The analytics are one statement and an operator (`TemporalAnalytics`), over the rows whose
timestamps parse (`Parsed`). Penalties are compared by cross-multiplication; the score is
rounded down from a fraction. Single reads whose answer is what they select (a user's
history, the effectiveness of rules) are left out; what they do is told below.

`Appeals` are handlers that check, insert, update to any status (`Pending` too, which
reopens an appeal), read and clear, each statement of which may fail; `Exports` select,
write a file, which a failed write may leave in part, then its record, and clean up in
three steps; `Notices` store a notice and then try a webhook. Each is a module of its own,
and `Records` composes them. What shares no variable cannot disturb each other: every action
of one of the six scenes leaves the variables of the others alone but for the clock, and
every property is about the variables of one, so a behaviour stays in one `scene` chosen
at the start, and the interleavings left out could not change any property's value: pages;
reports, over the tables as the program fills them (it counts messages and flushes
nothing); metrics, with a collector that counts violations and is flushed; appeals;
exports; notices. What parts share is in one scene: reports read the violations, the
counters and `warned`, and `ClearWarnings` of an approved appeal empties the same `warned`.

Definitions named `Faulty...` are bugs put in on purpose, one or more for each property,
to show that the property notices; no specification uses them.

## 3. What TLC checks

| run | question | instance | result |
|---|---|---|---|
| `buffer_loss` | `NoLoss` | 2 tasks, 2 messages | violated |
| `pipeline` | `NoDuplicates`, `LossNeedsOverlap`, `SetAsideIsSafe`, `ImplementsPool`, `RetryRemains`, `EventuallySettled`, `FlushesEnd` | a handler and the timer, 3 messages, threshold 2, 1 permit, 2 attempts | holds |
| `warnings` | `LevelEarned`, `BanAfterKick`, `OnlyStaleReadsLower`, `EventuallyForgiven` | 1 user, 2 tasks, 6 offences | holds |
| `enforcement` | `DeletedOnce`, `SanctionsFollow`, `LeftoverNeedsError` | 2 users, 3 messages (one outside a guild), 4 verdicts (two on one message), 2 tasks | holds |
| `settings` | `StaleNeedsRace`, `SettingsInRange`, `LogExplains`, `OnlyAskedFields` | `Endpoints`: 2 tasks, 1 text, 2 fields, 3 values of which dashboard and commands accept 2 and 1 | holds |
| `websocket` | `LimitHolds`, `NothingLeaks`, `SilentIsClosed` | 2 connections, limit 3 | holds |
| `dedup` | `GuardKeepsEntry`, `WaitsForALeader`, `EndsUnlessHung` | 4 requests, 2 keys of one shard, 4 workers | holds |
| `gateway` | `WindowsAreShort`, `EachMessageCountsOnce`, `RaidEnds` | 2 handlers, 2 users, 2 texts, 3 events, 4 ticks | holds |
| `sessions` | `SessionUsable`, `LoggedOutStaysOut`, `AdminWasRecent` | 2 requests, 2 pairs of tokens, 2 ticks | holds |
| `users` | `AnswersAreRecent`, `LookupsEnd` | 2 lookups, 1 name, 4 ticks | holds |
| `records` | `PagesMissNothing`, `CountsAreKept`, `ChartsFit`, `KicksLowerHealth`, `SnapshotsMissNothing`, `AppealsSettle`, `StoresAgree` | 4 rows, pages of 1; answers over 2 rows and 2 ticks, with flushes 1 row; 2 flushers, handlers, appeals, exports, notices | holds |
| `analytics` | `HeatmapCountsAll` | the same | violated |

The `pipeline` run checks `TypeOK` of its buffer as well; the types of every
module with proofs are theorems; those of `Analyzer` and of the parts of `Records` document
their variables.

Bounds. Overlap of a flush needs two tasks; two messages fill a threshold of 2, a third
arrives meanwhile, and the theorems on the buffer hold of any number. The timeout matters
only as passed or not, so it is 1. One permit makes the two tasks wait for each other's;
of two attempts the first can fail and the last can. On the
warning ladder 6 offences pass Kick unmarked, Kick marked and Ban; a day of 2 hours
has the same two decisions (a day passed, midnight passed) as one of 24.
`MaxOffences` and `MaxSubs` bound guards of their modules. Rows of different users never meet in a
statement but `BulkClear` and the decay job's loop, so one user shows the races. For
enforcement, two messages of one user in one batch or in two tasks are what the
highest level is about; starting from rows at none and at the long timeout,
three violations cover every step of the ladder that needs an action on Discord. A
second task is what can overtake a write; a third adds no new step between two of the
first. Two fields make one that an update leaves alone; one text is enough for
being there or not, which is what the audit log tells, and the theorems hold of any.
Four requests are two leaders
of one key, a follower, and a request of the other key, and with a worker each they
never wait for one; one client that may go away can be any of them. Two connections
with up to two receivers each are one more than the limit of 3, and one removes the
key while the other subscribes; a second guild would repeat the first.

For the raid detector, two handlers whose waits differ leave a queue unsorted; three
events pass thresholds of 2 once and start the next window; four ticks see raid mode
on for its expiry, one period of the task and both waits. Two requests are the two that refresh
at once; two pairs are the one used up and its successor; GuildTtl, MaxFetch and TokenLife of
one tick keep the order of the code's five minutes, a fetch and a week. Two
lookups can remember in the other order than they asked; one name, its
renaming to nobody and four ticks reach the age at which a row and a memory entry add up. Four rows of
violations fill four pages of one; hours, days, weeks and months
are 1, 2, 3 and 4 ticks, each longer than the one before. Between the statements of an answer
two rows make one user pass another or move the chart, one row and two ticks move hours in and
out of a period. Two flushers, handlers, appeals, exports or
notices are what can overtake each other. `MaxEvents`, `MaxTime`, `MaxPageTime`, `MaxReported`, `MaxReportTime`, `MaxWait`,
`MaxFetch`, `MaxDelay`, `MaxRows`, `MaxCounted`, `MaxFlushes`, `MaxAppeals`, `MaxPairs` are the
names of the bounds in guards. `MaxWait`, `MaxFetch` and `MaxDelay` are assumptions too: how long
a lock or a server is waited for, which the bounds of `WindowsAreShort`, `RaidEnds`,
`AdminWasRecent` and `AnswersAreRecent` are given in.

Two runs end in a violation, of sentences quoted from the repository's tests and documents
(the findings in `PROJECT.json` give the lines):

* a message can be lost when an add straddles the start of a flush, when two
  flushes overlap, or when a failed batch is returned during a flush;
* the temporal analytics see no violation that the program records: the column's
  default timestamp has no offset, and `parse_from_rfc3339` refuses it.

What else the models showed on the way, and a property states the true side of:

* an add that straddles the end of a flush leaves its message in the secondary
  buffer, where the timer does not look (`EventuallySettled` excepts them);
* the decay job can turn a ban into a lower level, although "bans don't decay"
  (`warnings.rs:61`): `OnlyStaleReadsLower` excepts levels written after a stale read;
* two violations of one user in one batch can ban them without the kick that is to
  come first (`warnings.rs:27`): they were marked, as `BanAfterKick` says, and not kicked,
  for only the action of the highest level is queued (`pipeline.rs:504`);
* a trigger while raid mode is active does not renew it (`raid.rs:323`), though it was to
  end after ten minutes "without new triggers" (`murdoch-enhancements/requirements.md:103`):
  `RaidEnds` bounds it from the last trigger, which holds of both, and the code ends it sooner;
* on the one worker thread of the deployed machine (`cpus = 1` in `fly.toml`) two
  identical requests at once stop the process: the leader waits for the follower's
  guard, the follower for the leader's thread. `EndsUnlessHung` needs a worker each.

With fresh reads the ladder keeps its promises (`OnlyStaleReadsLower`); with workers
enough, racing leaders and blocked writers stop nobody, but a follower
hangs, and with it its shard, when it subscribes between broadcast and removal, or
when the leader's client has gone. Not properties of the models, but worth
knowing: if the failed batch is the one lost, the gate stays closed for good; two
violations recorded at once can lower a level; two identical requests may both
execute; once the pipeline has cached a guild's rules it never sees an update or a
clear (the run shows it in `raced`), though they were to apply "immediately"
(`murdoch-enhancements/requirements.md:50`); the text comparison of dates decays a violation of late evening at the first
run after midnight (`warnings.rs:264`), not after the 24 hours of its comment (`warnings.rs:254`); a database error on one verdict of a batch
leaves the verdicts after it without a deletion (`pipeline.rs:497`), though every
violation was to be deleted (`murdoch-discord-bot/design.md:332`); a slash command and
the dashboard updating different fields at once undo each other.

Of the reports, read in the code; no property claims the opposite:

* `UNION` sorts the two counts of users and the first, the smaller, is divided by, so the
  percentage of moderated users is 0 or at least 100 (`web.rs:2011`), though it was to be
  of all users (`web-dashboard/requirements.md:160`);
* the violations of all rules are added up from the five rows below a `LIMIT`
  (`web.rs:2068`), though none was to be lost (`web-dashboard/design.md:510`);
* the query for the period before has a start and no end, so it contains the present one
  (`web.rs:1110`), which its comment calls "24-48 hours ago";
* a user's history shows the present as the time of each row, whose text does not parse
  (`warnings.rs:325`), though the time was to be shown (`web-dashboard/requirements.md:66`),
  and the lists of warnings show no time at all;
* shares of actions leave out those of another name; without a count of messages a
  hundred are assumed, however many violations there are; `record_violation` and `flush`
  of the metrics have no caller, so the broadcast always gives a score of 100. The download
  URL of an export has no route.

An answer of Gemini in the hardened format names no participants, so coordinated harassment is
reported for legacy answers only. The dashboard accepts timeouts that the command refuses and
never checks the buffer threshold. A comment of `oauth.rs:239` speaks of 60 seconds where
the cache's life is 300.

Fairness. Tokio runs every ready task, intervals tick, time passes: weak fairness
of a task's own steps, of the timer and of `Tick`. That an analysis retried for
ever succeeds at some point is an assumption on Gemini (strong fairness of
`AnalyzeOk`); that a decay statement tried every hour succeeds at some point, one on
the database. The intervals of a connection tick and its clean-up goes on (weak
fairness of `Times` and `CleansUp`); that a handler of the dashboard returns is
assumed. Permits of the analyser's limiter come back, and a call that waits while they come
and go gets one in the end (strong fairness of `Analyzing`): a batch takes far longer to fill than
the second in which a permit comes. A lookup is polled until it is done (`LookupStep`). Nothing is assumed about arriving messages, requests, clears or violations.

## 4. What is proved

TLAPS, for any finite or infinite sets of tasks, messages, users, requests and keys
(connections: finite), any thresholds, limits, timeouts and lives that are positive, and
any number of offences, rows, events and ticks; of enforcement, as many messages as the bound
on offences allows, whatever that is. Each bullet names a theorem and what had
to be added to its property for an invariant that every step preserves.

`Pipeline_proofs`, of the buffer
* `TypeCorrect`: `TypeOK`, inductive as it stands.
* `NoDuplicatesEver`: `NoDuplicates` is inductive with `TypeOK`. `Take`, `SwapBack`
  and `ReturnMessages` move whole sequences; lemmas on ranges of appended and
  concatenated injective sequences carry the weight.
* `LossNeedsOverlapEver`: inductive with `QuietWindow`, which explains the double
  buffer: without overlap the flag is up exactly while the one flush runs, and
  from `Take` on all adds under way go to secondary, so primary is empty when it
  is overwritten.
* `SetAsideIsSafeEver`: no invariant but `PlacesInv`; of all actions `SwapBack` alone drops.
* `PoolImplemented`: `Spec => ImplementsPool`, a step of the pool per critical section,
  under the invariants above: `SwapBack` leaves the pool alone when primary is empty.

and of the pipeline around it
* `BufferImplemented`: `PSpec => Spec`. Timer, gate and analyser call the buffer only
  where its own callers do: `Stations` says which stage of the pipeline a task at a step
  of the buffer is in. `BufferInPipeline` lifts the five theorems above by it.
* `RetryRemainsEver`: inductive with `QuietWindow`, `Stations` and `Calls` (who waits
  for Gemini holds a batch). Without overlap what is returned goes to primary and stays.

`Enforcement_proofs`, of the warnings
* `TypeCorrect`: in particular a stored row never has level 0, so deleting at
  level 0 loses nothing.
* `LevelEarnedEver`: strengthened (`EarnedInv`) with the levels that are on their
  way back into the table: those tasks have read and those the decay job selected
  are at most the offences so far, and escalation adds one with the offence.
* `BanAfterKickEver`: strengthened (`KickedInv`) with the kicked flags in rows and in
  what tasks have read.
* `LevelsFallForAReason`: `OnlyStaleReadsLower`, from the type invariant and a lemma
  on what an upsert and a decay write when what they read is still true.

and of what follows a verdict
* `EnforcementTypes`: with `Phases`, what a task holds at each of its stages.
* `LeftoverNeedsErrorEver`: `LeftInv` speaks of any task that is not at rest: whoever
  pushed drains before it rests, so the last one to leave finds the queue empty.
* `SanctionsFollowEver`: `SanctionsInv` covers a recorded level in every place it passes
  through: in the row a task has read, its plan, the queue, its hand, or issued.
* `DeletedOnceEver`: `OnceInv` says of each verdict that it is in one place, at one index,
  and `PlansInv` that what tasks plan holds no deletion; lemmas say which places a
  push, a pop and an append add and take.

`Endpoints_proofs`, of settings and rules
* `TypeCorrect`, with `ChangeAt` (only the configuration is read for an update).
* `StaleNeedsRaceEver`, `OnlyAskedFieldsEver`: from `RaceInv`: for a cache outside
  `raced`, what tasks have read, are about to cache, or have changed for an update
  agrees with the table, so what they write does.

and of dashboard and commands
* `SettingsImplemented`: every step of `Endpoints` is one of `Settings` or leaves its
  variables alone, so the theorems above hold of what handlers and commands do.
* `SettingsInRangeEver`: inductive together with the ranges of what updates were asked
  to set; what `With` makes of an accepted value and an accepted change is accepted.
* `LogExplainsEver`: strengthened with who may be logging: outside `blurred` at most one
  task is, it is the last writer, and its entry is what the table will agree with.

`WebSocket_proofs`
* `TypeCorrect`.
* `LimitHoldsEver`, `NothingLeaksEver`: the limit is checked against the map, so neither
  is inductive; `Balance` is: the map is no less than the receivers of a guild unless it
  was made to forget some, and no more unless one leaked. Receivers are counted as pairs
  of connection and number, so that sums over connections are cardinalities.

`Dashboard_proofs`
* `TypeCorrect`, `GuardKeepsEntryEver`, `WaitsForALeaderEver`, of requests: inductive
  together with `EntryLed` (the entry of a key belongs to a request of that key that
  executes, is about to remove it, or has gone). A guard keeps the entry, and so the
  leader from being done; the broadcast reaches all who follow by then.
* `LookupTypeCorrect`, `AnswersAreRecentEver`, of users: `RecentInv` bounds the age of a name
  at every station, in the row, in memory and in the hands of a lookup: each tier adds its
  life, each lookup its delay.

`Gateway_proofs`
* `GatewayImplementsDetector`: the handlers of `main.rs` add messages and contexts, and do
  with the raid detector what it alone would do.
* `TypeCorrect`.
* `WindowsAreShortEver`: `Close` alone is not kept, because a handler that overtook
  another leaves the queue unsorted and pruning stops at the first young entry.
  `Steady` is: no entry is younger than a later one by more than a wait.
* `EachMessageCountsOnceEver`: inductive with the types.
* `RaidEndsEver`: `ExpiryInv` ties the raid to the expiry task's last reading of the clock:
  the reading that let a raid go on was too early for it, and its last trigger is no earlier
  than the one that switched it on.

`Sessions_proofs`
* `TypeCorrect`, with `Issued` (ids and pairs are those Discord has issued).
* `SessionUsableEver`: with `Owned`: a pair on its way to the row is its request's alone, so
  no one else can use it up.
* `LoggedOutStaysOutEver`: from the types; ids are never issued twice.
* `AdminWasRecentEver`: with `Remembered`: what is cached, or about to be, was true at most a
  fetch before the time written beside it.

`Records_proofs`
* `PagesMissNothingEver`: `Ahead` counts the rows before an owed row: while it was not
  seen, as many as the pages turned hold. New rows stand before it or after it, never
  take it forward, and the count that ends the walk is one of the same rows. A lemma
  on `\div` moves it from one page to the next.
* `AppealsSettleEver`: `InsertsAlone`: between check and insert a handler is alone with its
  user, and the user without an active appeal, or `overlapped` has the user.
* `StoresAgreeEver`: `SweepInv`: while a clean-up runs, the files left to delete are
  of records that had expired when it read the clock, and the others it will
  drop have no file, or an error was noted. The clock of `Records` runs in
  other scenes too; a record that has expired stays so.
* `TypeCorrect`: inductive together with the invariants above.

and of the counts and reports
* `CountsAreKeptEver`: inductive with the types and finitely many hours (`CountersInv`). Each
  step of the collector moves counts between four places; that an upsert adds to the total
  of the table what it writes (`UpsertAdds`) is where the fold over hours is unfolded.
* The answers put together statement by statement: each has an invariant with one conjunct
  per place in its list of statements, kept by the statements and, since rows are never
  deleted, by whatever is recorded, counted and flushed between them. `TablesInv` adds the
  types of answers to `PagesInv` and `CountersInv`.
* `OffendersAreChartedEver` (`OffendersInv`), `TotalIsChartedEver` (`ChartInv`) and both as
  `ChartsFitEver`: a list of offenders stays below any later chart, a chart below any
  later count; the rows in the total stay within the period the bars are selected for.
* `KicksLowerHealthEver`: an arithmetic fact of the penalties, for whatever snapshot the
  answer holds: `HalfIsGone` from half the violations, `Quotient` for the rounding down.
* `SnapshotsMissNothingEver` (`CommandInv`): what counters and table held when the counters
  were read is counted or left out by its hour; `StoredSplits` divides the table's sum there.

Sums and inductions. The induction theorems of the library take the predicate as an
operator, which the provers cannot instantiate; `SubsetInduction` takes it as a set and
follows from `WFMin`, which speaks of sets only, and the well-founded order of finite subsets.
The sums of `FoldSet` and `MapThenSumSet` are values of a table over the subsets; that the table
exists, that it does not depend on which element is taken first, and how sums split,
grow and compare is proved once, at the head of `Records_proofs`.

Assumptions: `BufferAssumption`, `WarningsAssumption`, `WebSocketAssumption`,
`DetectorAssumption`, `SessionsAssumption`, `LookupAssumption`, `LogAssumption`, `MetricsAssumption`,
`ReportsAssumption`
(thresholds, limits and lives are positive, waits are not negative; connections are finitely many), `ContextAssumption`, `SettingsAssumption` (`Absent` is no text, configuration or
change), `DedupAssumption` (`None` is no request), `EnforcementAssumption` (every message has an
author, rows at the start are the program's), `EndpointsAssumption` (what the command accepts the dashboard
accepts too, the default is accepted, `None` is no task). The modules instantiated by
`Pipeline` and `Records` state theirs as `ConstantsFit`, which `PipelineAssumption` and
`RecordsAssumption` assume, so TLC evaluates them.

Only model-checked. Liveness (`EventuallySettled`, `FlushesEnd`, `EventuallyForgiven`,
`EndsUnlessHung`, `SilentIsClosed`, `LookupsEnd`): fairness and `ENABLED` are beyond the
prover. Of each safety property the passing runs check there is a theorem. The two violations
are counterexamples and need no proof.

## 5. Plan

1. Mixed-guild batches: the first message's threshold and rules judge all.
2. The broadcast arm of `WebSocket`: at most one event per guild and turn of the loop,
   so a client hears late, or lags.
3. The list of audit entries for the configuration; that of the rules is modelled.

Not modelled, and why. `rbac.rs`: nothing in the program calls it, and it is a table
of permissions with a protocol around it that no caller has chosen yet. `health.rs`,
`models.rs`, `error.rs`, `config.rs`: probes, data and formatting. The rest of the
front end renders answers. The generic reads with statistics of `cache.rs` and its
caches for metrics and configuration have no caller. Prompts, patterns and texts of
messages are data that no property tells apart. `AppealSystem`, the sending of
notifications, the clean-up of exports and single lookups of users have no
caller outside tests either, but they are protocols complete in themselves and are modelled
as their public functions allow.

## 6. Layout

`X.tla` a component, `XMC.tla` its instances (symmetry sets) with one `.cfg` per run,
`X_proofs.tla` its theorems: `Pipeline_proofs` those of `MessageBuffer` too,
`Enforcement_proofs` those of `Warnings`, `Endpoints_proofs` those of `Settings`,
`Dashboard_proofs` those of `Dedup` and `UserLookup`. `tlc -config X.cfg XMC` and `tlapm X_proofs.tla` reproduce
each result.
