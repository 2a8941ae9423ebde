# Verification of s-size

TLA+ models, TLC runs and TLAPS proofs for the s-size catalogue server (`src/`):
a small web shop window that shows a catalogue, sends visitors to partner shops
and records what they do.

## 1. Inventory

The process has three threads. **main** starts and stops the others. The **HTTP
thread** runs one request handler at a time. The **DB thread** owns the SQLite
connection. They share three objects: the event queue, the postback queue
(both a mutex and a vector) and the `CatalogHandle` (an atomic `shared_ptr`).
A second program, `ssize-admin`, writes the same database file.

| Component | State | Operations | Interacts with |
|---|---|---|---|
| `EventQueue`, `ConversionQueue` (events.cpp) | pending vectors, drop counter | push, drain | pushed by handlers, drained by the DB thread |
| Handlers (handlers.cpp) | feed cache | feed, item, redirect, beacon, postback | queues, `CatalogHandle` |
| DB thread (db_worker.cpp) | timers, `running_`, local batches | refresh, flush events, flush postbacks, maintenance, final flush | queues, tables, `CatalogHandle` |
| Tables (db.cpp, 001_init.sql) | events, conversions, daily_item_stats, items and their child tables, partners | insert_events, record_conversion, rollup_daily, prune_events, load_published_items, list_partners | DB thread, `ssize-admin`, the operator |
| main (main.cpp) | shutdown flag | start, wait, stop | both threads |
| HTTP server (http_server.cpp) | io_context, stopped flag | start, accept, connection, stop | handlers |
| Migrations (migrations.cpp) | user_version, the schema | discover, apply | tables; run by the server and by `ssize-admin` |
| Identity (handlers.cpp) | none in the server; the cookies `aid` and `sid` in the browser | identify, apply_identity | every handler that logs |
| Impression tracker (static/app.js) | seen set, timers and queue of a page | enter, leave, dwell, three flush triggers | `handle_beacon` |
| Static and media files (handlers.cpp) | none; the file and the browser's copy | handle_file | the deploy that replaces files |
| Catalogue (catalog.cpp) | sorted items, index by id, tags | construct, find, query, partner | built by the DB thread, read by handlers |
| Links and request texts (links.cpp, handlers.cpp) | none | render_link, url_encode, url_decode, parse_query, cookie_value | redirect, all handlers |
| Configuration, templating, statistics report | none after start-up | | |

What is hard to test here:

- in the write path, pushes between the two drains of a round, a shutdown while
  a beacon is being handled, a flush that throws after the queue was drained, a
  crash between drain and COMMIT, and postbacks that are repeated, reordered,
  early or late with respect to their click;
- in the tables, commits of another process between the reads of one refresh,
  deletion of events around the days that are still rolled up, and two processes
  that migrate from a version both read before their transactions;
- in the process, a signal between a test and a sleep or before a handler is
  installed, a bind or a template that fails when other threads run already;
- in memory, reuse of a freed snapshot's address;
- in the browser, overlapping first requests, answers that arrive out of order
  or never, cookies that expire in between, hidden and killed tabs, and a file
  that is replaced between two looks at it;
- in the algorithms, half escapes, repeated names, nested braces, equal sort keys
  and decimal fractions that are not binary ones.

PROJECT.json lists each at its line under "hazards".

What makes the parts correct: events reach the table in order and once, or are
accounted for; shutdown keeps what was accepted; revenue rows belong to clicks
and are never overwritten by older news; a snapshot is complete; a cached page
is the page; daily counts are never taken back; the schema is what user_version
says; nothing is served before it can be; every thread started is joined; a
device keeps its name and a visit ends by idling; a card seen is reported once;
a file is never older than the request for it; pages of a feed neither repeat
nor skip; a link carries the product url unharmed.

## 2. Modules

### MetricsPipeline: the write path

State: the queues (`pending`, `convq`), the DB thread's locals (`batch`,
`cbatch`), the tables (`events` as a sequence in rowid order, `conversions` as a
set of rows), program counters of main (`mpc`) and of the DB thread (`dpc`), and
`left`, the entries the beacon being handled still has to push. `dropped`,
`lost`, `pruned`, `warned` and `issued` are history: the code keeps the first as
a number, logs two of the others and forgets the rest.

| Action | Code |
|---|---|
| `HandleItem`, `HandleRedirect`, `HandlePostback` | the handlers; one push each, so one step |
| `HandleBeacon`, `PushImpression` | `handle_beacon`: one step per push, the DB thread may drain in between |
| `DbTop` .. `Maintenance` | `DbWorker::run`; one step per lock, transaction or statement |
| `InsertEventsFail`, `RecordConversionFail` | the exceptions: the local batch unwinds and is gone; an insert that throws also skips the postbacks of the round |
| `StopHttp`, `StopDb`, `Exit` | `main` lines 95-100: stop, join, stop, join |
| `Crash`, `Restart` | the process dies (volatile state goes) or is started again |

An event is its serial number and type; a click token is the number of its
outbound event (tokens are random 12-character strings and taken as distinct).
Events are in time order, so pruning removes a prefix. `Round` is the order of
the calls in the loop. The refresh at the top of the loop touches none of this
and has a module of its own. `faults` counts crashes and failing statements.

### WriteBehindLog: what the write path promises

An abstract log with a buffer: accept or (only when at capacity) refuse, commit
the oldest, lose the oldest through a counted fault, expire the oldest.
`MetricsPipeline` implements it with `log <- events`,
`buffer <- batch \o pending`, `next <- nextEv` (property `ImplementsLog`).

### CatalogRefresh: from tables to handlers

`load_published_items` and `list_partners` are six SELECTs (`LoadOrder`) without
a transaction. `Select` is one of them; writers commit between any two: `Seed`
(`cmd_seed`, one transaction), `SetItemStatus`, and the operator's row edits
`AddPartner` and `MoveItem` (external: 001_init.sql and the docs describe them).
`MoveItem` may also set `partner_id` to NULL. `partners.enabled` is left out: a
disabled partner is in the snapshot like any other, and the redirect avoids it on
purpose.
`RefreshFail` is the `catch` that keeps the previous snapshot. The first
`Publish` is `refresh_now`, before the server starts.

### FeedCache: the page cache

A snapshot is an address; `Build` may take any address nobody references.
`FeedGet`, `FeedAnswer` and `FeedReturn` are `handle_feed` split where the DB
thread can interfere with it: at the load of the handle and at the release of
the reference. `FeedFail` is a rendering that throws, after the
cache was checked. A page is what it was rendered from. Filter values are character
sequences because the key is a concatenation. `MCFeedCache` gives them values.

### Retention: rollup and pruning

Time in hours, one item, at most one event per hour, so a count is a set of
hours. `Tick` cannot pass over a due maintenance while the process is up,
because the loop runs every second. `Flush` may write an event of the hour
before. A day without remaining events keeps its count, as the upsert does.

`DbTasks` composes CatalogRefresh and Retention, the two periodic tasks of the DB
thread beside the flush. They touch different tables and share no state, so a
behaviour follows one of them (`task`).

### Migrations: several processes, one schema

State: the committed `version` and the sequence of scripts `applied`; the open
write transaction `tx` and the process `writer` that holds SQLite's write lock;
each process's `pc`, `current` (read before any transaction) and `file`.

| Action | Code |
|---|---|
| `Open`, `ReadVersion` | `DbConn::DbConn`, the read of `PRAGMA user_version` |
| `Begin`, `Return` | the loop of `apply_migrations`: the next file above `current`, or none |
| `RunScript`, `BusyTimeout` | `exec` of the script: takes the lock and runs, or gives up waiting |
| `SetUserVersion`, `Commit`, `Rollback` | the rest of the transaction and the `catch` |
| `StatementFails`, `Crash`, `Restart` | an error of SQLite, a kill, the next start |

`Discovered` and `Pending` are `discover` and its sort. A script is what
001_init.sql is: `CREATE TABLE` without `IF NOT EXISTS`. That is what makes the
loser of a race fail instead of migrating twice, and the mutant
`RunScriptIfNotExists` shows that nothing else does.

### Lifecycle: main, its threads and the signals

One action per step of `main` (`Migrate` .. `JoinDb`), of the HTTP thread
(`Bind`, `Accept`, `DispatchBegin`, `DispatchEnd`, `RunReturns`) and of the DB
thread (`DbOpen`, `DbRound`). `Wait` splits `g_shutdown_cv.wait` into the test of
the predicate and the going to sleep, because `request_shutdown` holds no mutex;
`Signal` and `Notify` split the handler into its store and its notify. A request
leaves one event, a flush succeeds: what the flush does to the tables, and how it
fails, is in MetricsPipeline. A further request on a kept-alive connection is
like a new connection.

### Startup: Migrations and Lifecycle together

`main`'s step `Migrate` waits for the server's run of `apply_migrations`
(`Migrated`) while `ssize-admin` goes on. One life of the server is followed: a
start that is killed before a thread exists leaves only the database behind and is
a step of Migrations, and so is a start after that life.

### Identity, ImpressionTracker, StaticFiles: what the browser keeps

*Identity.* The jar holds `aid` and `sid` with the time each expires. `Send`
copies what is alive into a request, `Identify` is `identify`, `Deliver` is
`apply_identity` and the browser storing the answer, `Lose` the answer that never
arrives. `random_id` is taken never to repeat.

*ImpressionTracker.* `Enter` and `Leave` are the observer's callback, `Dwelt` the
timer with `enqueue` and `unobserve`, `Interval`, `Hide` and `LeavePage` the three
triggers of `flush`, `Receive` is `handle_beacon` with its cap. `SendFails` and
`TabKilled` are the losses that the script does not repair. `lost`, `reported` and
`seen` of earlier pages are history.

*StaticFiles.* `handle_file` looks at the disk three times before it answers
(`LastWriteTime`, `FileSize`, `OpenFile`), and a deploy (`Write`, `RemoveFile`) may act
between any two. A write replaces the file at once, as a rename does; a file that is
overwritten in place while it is read is left out. A write's number is also its
modification time: two writes within the resolution of the file system's clock are
not distinguished by the code.

`Visitor` composes the three. They share no state, so a behaviour follows one of
them (`part`) and the order of steps of different ones cannot matter.

### LinkText, CatalogQuery, PostbackAmount: the algorithms

*LinkText.* `UrlEncode`, `UrlDecode`, `ParseQuery`, `CookieValue`, `SplitTarget`,
`RenderLink` on sequences of bytes. A loop over a text is a function of the place
it has reached (what the rest of the text gives), and the loop of `parse_query` over
its pairs one of the pairs read so far. Names of placeholders, parameters and cookies
are one letter long, so that short texts contain whole ones. `QueryMeaning` and
`CookieMeaning` are the reference definitions: they speak of the pieces between
separators and not of a scan. `RenderIsOnePass` compares two renderings of one
template, with and without a mark that no text contains.

*CatalogQuery.* `Feed` is the constructor's stable sort, `ById` and `FindItem` the
index, `AllTags` the chips, `Visit` one turn of `query`'s loop. Rows arrive in any
order, although the SELECT sorts them: the constructor promises feed order itself.

*PostbackAmount.* `Stod`, `Times100` and `Trunc` are the two roundings and the
truncation between a quoted amount and the stored kopecks, on significands of
`Precision` bits. The run takes 13 bits and every amount below 64 rubles, the
theorem every width above seven bits, a double's 53 included, and every amount
below `2^(Precision - 7)` rubles.

`RequestData` composes the three; a behaviour feeds one of them (`fed`). `Stateless`
composes `Visitor` and `RequestData` in the same way; what is not followed rests.

## 3. Runs

| Run | Shows |
|---|---|
| `pipeline_events` | `InOrderOnce`, `EventAccounting`, `ShutdownKeepsClicks`, liveness (`EventsReachTable`, `ShutdownCompletes`) and `ImplementsLog` under overflow, failures, crashes, restarts |
| `pipeline_postbacks` | `InTimePostbackMatches`, `ConversionsHaveClicks`, `OneRowPerOrder`, `NoStaleOverwrite`, `PostbacksHandled` |
| `pipeline_unknown_click` (violation) | a genuine postback is reported unknown and discarded, no fault needed |
| `pipeline_shutdown_postbacks` (violation) | an orderly shutdown discards acknowledged postbacks |
| `db_tasks` | a refresh shows whole items (`SnapshotComplete`) with their partner (`PartnerResolves`) and shows them at last (`PublishedGetsShown`); an event counts for its own day (`StatsTypeOK`), what was counted stays counted (`StatsNeverShrink`), one rollup by the end of the next day is enough (`CountedIfMaintained`) |
| `feed_cache` | `AnswerIsFresh`, `NeverOlder`, for filter values without the separator |
| `retention_downtime` (violation) | events deleted uncounted after a day of downtime |
| `startup` | the schema is what user_version says at every moment of a race with failures and crashes (`SchemaMatchesVersion`), which only advances (`VersionOnlyAdvances`), and everybody gets through in the end (`AllGetThrough`); nothing is served before schema and catalogue are there (`ReadyBeforeTraffic`); every return from `main` has joined its threads (`ThreadsJoined`), a clean one has written every event (`CleanExitKeepsEvents`), and a signal that reaches `main` ends it (`ShutdownCompletes`) |
| `lifecycle_lost_wakeup` (violation) | a signal that falls between test and sleep is lost, and the kill that follows loses events |
| `stateless` | one browser: a device keeps its `aid` (`AidStable`) and a visit breaks exactly by idling (`VisitBreaksWhenIdle`); a card is reported once per page (`SeenOncePerPage`) and in the end (`SeenIsLogged`); a 200 or 304 never leaves an older file than there was (`NeverStale`); `UrlEncSurvives`, `RenderIsOnePass`, `ReadsAsMeant`, `ViewsAgree`, `PagesTileTheFeed`, `OffByAtMostOne` on every small input |
| `tracker_session` (violation) | a card seen on two pages of one session is reported twice |
| `postback_amount` (violation) | 0.29 rubles are stored as 28 kopecks |

Bounds.

- `pipeline_events`: four events against a queue of two and beacons of up to
  three entries against a cap of two, so that the queue overflows, a beacon is
  cut, and a drain falls inside a beacon; two faults, so that a failed flush can be
  followed by a crash.
- `pipeline_postbacks`: two clicks and two postbacks, with one order and none, a
  forged token and an illegal status; two postbacks are what overwriting takes.
- `db_tasks`, refresh: two items, two partners, four edits: a new partner and a
  moved item both fit inside one refresh. Maintenance: days of three hours, a
  retention of two days, eight hours: the cutoff falls inside a day, and all that a
  day has in the table can be pruned after it was rolled up.
- `feed_cache`: four addresses (handle, request, cache, DB thread), a cache of two,
  four snapshots, so that addresses are reused.
- `startup`: two processes (the server and the tool, as deployed), two migrations
  with a gap in their numbers, a file without a number, one failing statement and
  one kill; one request, two signals, so that a second one can follow a lost first.
- `stateless`, browser: cookies that live two and one units, a clock of three, four requests
  with two in flight; two cards on two pages, with batches of up to two; two sizes,
  four writes and two removals of a file. A page never has more cards than a batch
  holds: 120 at most (handlers.cpp:273) against 200, so the cap of app.js:33 is never
  reached. Algorithms: texts of up to four bytes over the bytes the code tells apart
  (two cookies of one name take five; that the first one counts is left to the theorem),
  catalogues of three items with equal and missing sort keys, every amount below 64
  rubles. What rounding does to n/100 repeats when the precision changes by 20
  bits, so 13 bits give these amounts the result that the 53 of a double give.
- the runs that expect a violation have the smallest bounds that reach it, and no
  loss or fault that it does not need.

`CHECK_DEADLOCK FALSE` in the runs of DbTasks, Retention, Startup, Lifecycle,
Stateless and its parts: the clock stops at its bound, the process ends, the visitor
has opened the last page, the inputs are used up.

Fairness. The operating system runs every thread, so the DB thread
(`WF(DbThread)`), a handler that has started (`WF(PushImpression)`) and a stop
that has begun (`WF(StopDb \/ Exit)`) go on. Requests, signals, faults and
restarts are never assumed there. Failing statements are bounded, which is the
assumption that the database works again some day. `DbTasks` assumes the
refresh timer (`WF(Refresh)`). Lifecycle and Startup assume each thread and a
signal handler that has begun (`Main`, `Http`, `Db`, `Notify`), but no signal, no
spurious wakeup and no client. Migrations assumes each process (`Run(p)`) with its
next start, which the unit's `Restart=on-failure` and the operator provide.
The tracker assumes its interval timer and that a request under way is received
or fails.

Each property of a passing run has a mutant: a definition is replaced by a
plausible bug that stands next to it in the module ("The bug: ..."), and TLC then
finds the property violated.

## 4. Findings

Shown by a run:

1. A click and its postback that arrive between a round's two drains are handled
   in the wrong order; the postback is lost (db_worker.cpp:118). What does hold
   is `InTimePostbackMatches`.
2. `DbWorker::run`'s final flush leaves out the postbacks (db_worker.cpp:98).
3. Days around a downtime of a day or more are never rolled up (db_worker.cpp:136).
   What does hold is `CountedIfMaintained`. `StatsNeverShrink` needs
   `retention_days >= 2`, which the configuration does not check.
4. `request_shutdown` notifies without the mutex (main.cpp:29); a signal handled
   between `main`'s test and its sleep is lost, and the process sleeps on until it
   is killed. What does hold is `ShutdownCompletes`, for a notification that finds
   `main` asleep.
5. Impressions are deduplicated per page (app.js:25), not per session as
   docs/analytics.md:128 has it. What does hold is `SeenOncePerPage`.
6. 0.29 rubles become 28 kopecks (handlers.cpp:493), although models.hpp:10 and
   001_init.sql:26 rule out floating point money. What does hold is
   `OffByAtMostOne`.

Met while modelling; no run of their own:

- The key of the feed cache joins the filter pair with a character that either
  value may hold (handlers.cpp:264), although handlers.cpp:262 says that pages are
  keyed by the pair: two pairs that join to one text share a page. The run and
  `FreshWithoutSeparator` speak of values without that character.
- Two first requests in flight mint two devices (handlers.cpp:176), although
  handlers.cpp:161 calls `aid` the device. What does hold is `AidStable`: the last of
  their answers wins, and nothing after them replaces it.
- Of two processes that migrate at once the loser's script fails and the process
  exits with 1, although migrations.hpp:11 calls the function idempotent
  (migrations.cpp:60). A restart gets through (`AllGetThrough`).
- A file like `2backup.sql` is applied as migration 2 (migrations.cpp:36), which
  the comment at migrations.cpp:23 does not expect. The run has only a stray file
  without a number.
- A bind that fails ends the HTTP thread only; `main` waits on without a server
  (http_server.cpp:167).
- `sid` is sent with every answer and `aid` only when it was minted, so the answers
  of two tabs can leave one visit with two devices (handlers.cpp:200).
- A dwell timer goes on while the tab is hidden (static/app.js:68).
- `file_size` overwrites the error code of `last_write_time` (handlers.cpp:422): a
  file that appears between the two gets a validator without a time. `NeverStale`
  leaves out 304s that such a validator causes.

## 5. Proofs

For every value of the constants that the modules' assumptions allow:

| Module | Theorem | States |
|---|---|---|
| `MetricsPipelineProofs` | `TypeCorrect` | `TypeOK`: types, queue capacity, beacon bound |
| | `ShutdownSafe` | `ShutdownKeepsClicks` |
| | `EventsInOrderOnce`, `EventsAccounted` | `InOrderOnce`, `EventAccounting` |
| | `LogImplemented` | `ImplementsLog`: the write path refines `WriteBehindLog` |
| | `PostbacksMatch` | `InTimePostbackMatches` |
| | `RevenueHasClick`, `OrdersUnique` | `ConversionsHaveClicks`, `OneRowPerOrder` |
| | `NewestWins` | the action property `NoStaleOverwrite` |
| `CatalogRefreshProofs` | `TypeCorrect` | `RefreshTypeOK` |
| | `SnapshotsComplete`, `PartnersResolve` | `SnapshotComplete`, `PartnerResolves` |
| `FeedCacheProofs` | `FreshWithoutSeparator` | `AnswerIsFresh`, if no filter value holds the separator |
| | `PagesNeverOlder` | the action property `NeverOlder`, without that condition |
| | `TypeCorrect` | `TypeOK`: the cap of the cache, one page per key |
| `StartupProofs` | `TypeCorrect` | `TypeOK`: types, the holder of SQLite's write lock |
| | `SchemaSound` | `SchemaMatchesVersion`, if only migrations are numbered |
| | `VersionAdvances` | the action property `VersionOnlyAdvances`, if no two files share a number |
| | `ServesWhenReady` | `ReadyBeforeTraffic`, if no two files share a number |
| | `AlwaysJoined`, `ExitKeepsEvents` | `ThreadsJoined`, `CleanExitKeepsEvents` |
| `VisitorProofs` | `DeviceStable` | the action property `AidStable` |
| | `VisitsBreakWhenIdle` | `VisitBreaksWhenIdle` |
| | `SeenOnce` | `SeenOncePerPage` |
| | `CopiesNeverStale` | `NeverStale` |
| `RetentionProofs` | `TypeCorrect` | `StatsTypeOK`: an event counts for its own day |
| | `StatsKeptForever` | the action property `StatsNeverShrink`, for a retention of two days or more |
| | `CountedBeforeDeleted` | `CountedIfMaintained`, for a retention of two days or more |
| `CatalogQueryProofs` | `ViewsAlwaysAgree` | `ViewsAgree`: the sort and the index by id |
| | `PagesAlwaysTile` | `PagesTileTheFeed`: the slices of `query` and the chips |
| `RequestDataProofs` | `UrlEncAlwaysSurvives` | `UrlEncSurvives`, for urls of every length |
| | `RenderAlwaysOnePass` | `RenderIsOnePass`, for templates of every length |
| | `ReadsAlwaysAsMeant` | `ReadsAsMeant`, for queries and Cookie headers of every length |
| | `AmountsOffByAtMostOne` | `OffByAtMostOne`, for every significand width above seven bits |
| | `RequestDataCorrect` | these and `ViewsAgree`, for the composition |

How the arguments go:

- *Shutdown.* `Phases` ties the program counters of main and of the DB thread to
  the queue: the DB thread is past its loop only when the HTTP thread has been
  joined, so nothing is pushed after the final drain.
- *Events.* `EventSteps` reduces each of the 19 actions to one of eight kinds of
  step on the events; `Phases` is what rules out that a restart or a drain
  overwrites something. The invariant `Ordered` then needs both its halves: a
  new event lies above all others because the accounting puts those below
  `nextEv`, and what is pruned or lost leaves the stream because, by the order,
  no number occurs twice in it. The refinement is proved from the same eight
  kinds.
- *Postbacks.* `InTimeInv` follows a postback backwards from the report to the
  queue. A token in time is in `Expected` while the postback is queued, and in
  `Known` once it is drained; `TokensGrow` shows that neither loses a token, and
  `WindowOpens` that the window between a round's drains opens with an empty
  event queue. `TsInv` keeps arrival times in order through queue, batch and
  table, which gives `NoStaleOverwrite`.
- *Snapshots.* `BuildingOK` says what the reads made so far guarantee for the
  items loaded by the first one: later commits only add child rows and partners
  for them, so each later SELECT finds what it needs. This rests on the order of
  the SELECTs, on `cmd_seed`'s transaction and on nothing deleting child rows or
  partners.
- *Feed cache.* `Pointers` says that a snapshot somebody refers to stays at its
  address (`Build` takes only free ones), `Filled` that every cached page was
  rendered from the snapshot the cache refers to. What remains is that a key
  determines the filter pair (`KeyInjective`), true only without the separator.
  The bound of the cache (`SizeInv`) needs that the set stays finite, and that a
  page is stored only when its key is not there.
- *Migrations.* The danger is that a process chooses its next file from a
  `current` it read before its transaction. `SchemaInv` says that the
  committed schema holds exactly the files up to its version, in order; `ProcInv` that
  `current` is never ahead of the committed version, that the file a process is
  about to run is the next above its `current`, and that past `RunScript`, where it
  holds the write lock, it is the next above the committed version. A process that lost the race
  finds its file applied and fails, because the script does not tolerate existing
  tables; one that did not lose it extends the schema by the next file. Two files
  with one number break this (`DistinctNumbers` is a hypothesis): the second is
  never run. A numbered file that is not a migration would be applied
  (`StrayUnnumbered`). The loader checks neither.
- *Start and stop.* `Bringup` and `Takedown` tie the program counter of main to
  the two threads: what must be up before what, and that the DB thread is told to
  stop only when the HTTP thread is gone, so that the last flush finds the event of
  every answered request. `ReadyInv` carries "no file above `version`" from the
  server's run of `apply_migrations` to the rest of its life, which the other
  processes cannot undo because `user_version` only advances.
- *Visits.* `VisitBreaksWhenIdle` speaks of requests made one after the other
  (`Steady`), while other behaviours have overlapping and lost ones. `JarOf` says
  what the answers to the first n requests leave in the jar, `VisitOK` what request
  j was sent with or was given; both depend on the requests up to j only
  (`PrefixDecides`). `AloneInv` makes a request that is under way the last of a
  steady sequence, so a step can only disturb the claim about the request it
  touches (`TouchLast`). `Drawn` says that an identifier that is minted was not in
  use, which identifies the answer that set `aid`.
- *Devices.* `AidStable` is about one step; what it needs to know of the state is
  `DeviceInv`: a request in flight that may bring a device was sent no later than the
  device in the jar was put there. `Send` keeps it because a request sent while the jar
  has a device carries it, `Deliver` because all requests in flight were sent by now.
- *Impressions.* `Traces` counts places; the invariant does not. `TrackerInv` says
  that queue and batches have no repetitions, that a card of a page is in at most one
  place, and in one exactly when it was seen. That a seen card was queued at all is a
  pigeonhole argument (`ShortBatch`): a queue without repetitions that lacks one of
  at most `MaxBatch` cards is not full. `kMaxBatch` never cuts a batch for the same
  reason.
- *Files.* `FileInv`: the validator is taken before the body, so a copy is at least
  as new as its validator, and a 304 confirms a copy that is at least as new as the
  file was at the request.
- *Retention.* `CountedIfMaintained` is not inductive, since it is silent about
  events still in the table. `RetentionInv` adds that such events are counted by
  the same rollups, and that what is deleted is of a day before yesterday
  (`ExpiredDay`), which no rollup touches again. This is where a retention of two
  days is needed; the default is 90 and config.cpp checks nothing.
- *Feed order.* `Precedes` (score, then date, then the place in the vector) is a
  strict total order (`StrictOrder`). A row's place counts the rows ahead of it, so
  an earlier row has a smaller place (`PlaceMonotone`), no two rows share one, and
  by counting every place is taken (`OnePerPlace`): `Feed` is a permutation. In rows
  that already are in a SELECT's order exactly the earlier ones precede a row, so each
  one stays. Distinct ids stay distinct under a permutation, which makes the index by
  id unambiguous.
- *Induction.* The library's induction theorems take an operator, which the installed
  provers cannot instantiate. `LeastNumber` takes a set instead, by the well-founded
  order of the naturals, and `Induction` follows from it. Recursive functions and folds
  are a `CHOOSE` of a function that satisfies an equation; that one exists, and so what
  they compute, is proved by induction (`TurnsExist`, `JoinsExist`, `Recursion`,
  `RecursionFromTheEnd` for loops over a text).
- *Pages.* `QueryIsSlice`: after any number of turns `query`'s loop has skipped or
  taken the matching items met, in order, so it returns those numbered `offset + 1` to
  `offset + limit`. `SlicesJoin` and `PagesJoin` put the slices of all pages together.
- *Encoded urls.* `RoundTrip`: `UrlDecode` inverts `UrlEncode`, by induction from the
  end over the encoded bytes. The code of a byte has none of the delimiters, so the link
  has exactly one `?` and one `&` (`AffiliateLink`, `LinkQuery`), `parse_query` finds two
  pairs in it (`TwoPairs`), and each is split at its first `=`.
- *Templates.* Both halves of `RenderIsOnePass` are inductions from the end over the
  places `render_link`'s loop stops at. `RenderOwn`: if each placeholder stands for
  itself, what is written from a place on is the template from there. `RenderMarked`:
  rendering with a value, and putting it in for the marks afterwards, agree from every
  place on, because `PutForMark` distributes over joining (`PutSplits`).
- *Reading.* The loops walk over separators, the meanings speak of maximal runs between
  them. `RunAtSegment` is the bridge: a run that begins in the piece a loop is at is that
  piece. For `parse_query`, after each turn the map is the meaning of the runs before the
  place reached (`TurnRead`), since a pair behind all others overwrites a value and a
  bare name does not (`PairAdds`). For `cookie_value`, by induction from the end, the
  answer from a place with only blanks since the last separator (`Fresh`) is that of the
  cookies that end there or later (`CookieTurn`). It needs that the name is not `=`
  itself.
- *Amounts.* `StodFacts`: the double of `n` kopecks is `n/100` rounded to a multiple of
  `1/2^k`, where an amount below `2^(Precision - 7)` rubles leaves `k` at least 7.
  `Times100Facts`: the product is rounded to a multiple of `2^s/2^k`, `s` being 6 or 7,
  so one kopeck is a whole number of steps and truncation sees an exact integer as
  such. `KopekFacts` adds up the two errors, which stay below one kopeck; they vanish
  when `n/100` is a multiple of `1/4` (`NearestExact`).

Four assumptions on constants serve the proofs: `None` is no process (Migrations)
and no item (CatalogQuery), `NoCookie` is no identifier (Identity), and `NoPartner` is
no partner (CatalogRefresh). They are choices of the models.

Only model-checked: the liveness properties (`EventsReachTable`, `PostbacksHandled`,
`ShutdownCompletes`, `PublishedGetsShown`, `AllGetThrough`, `SeenIsLogged`), which are
out of the prover's reach, and the six properties that the code violates.

## 6. Plan

Everything the inventory names and section 7 does not exclude is modelled, and every
safety property that holds is proved. What is left is to shorten the proofs, and to
keep model and proofs beside the code as it changes.

## 7. Not modelled

- Configuration (config.cpp) and templating: parsing at start-up without state of
  its own. The values are the modules' CONSTANTS; a failure is a failing step of
  Lifecycle.
- `Stmt` and `DbConn` wrappers: one call of the SQLite C API each; their failures
  are failing steps of the modules.
- `cmd_stats` of `ssize-admin`: reads and formats.
- `hash_ip`, `classify_ua`, `client_address`, `visit_source`, the path dispatch, MIME
  types: functions of one request, stored and not acted upon.
- `make_click_token`: 71 random bits; collisions are ignored, as are those of
  `random_id`.
- Amounts that are not numbers of kopecks: the cast of a NaN or of a value out of
  range is undefined behaviour and has no result to compare.
- Markup, style sheet, deployment files.
