# TLA+ models of LayaWatch

LayaWatch is a single-process observability server in front of a translation
engine: request threads serve HTTP, every request becomes a trace, one writer
thread persists traces and log lines to SQLite in batches, a retention thread
rolls metrics up and prunes old rows, an SSE hub streams what was committed, and
an engine adapter loads, unloads and prefetches models. This directory holds
TLA+ modules translated from the Python source, the TLC runs that check them and
the theorems TLAPS proves about them. `PROJECT.json` maps every definition to the
lines it models.

## Inventory

| Component | State | Operations | What is hard | What makes it correct |
|---|---|---|---|---|
| Writer (`store/writer.py`) | bounded queue, open 10 s rollup buckets, counters, flush flag and event | `enqueue`, `enqueue_log`, `flush_now`, `stop`, the collect/commit loop | producers, flushers and `stop()` interleave with a thread that reads its flags before a commit and uses them after it; busy retries, one requeue, dropped batches | nothing is lost uncounted, nothing overtakes, rollups count each trace once, flush and stop keep their promise |
| Retention (`store/retention.py`, `obs/rollup.py`) | `metric_rollup` rows of three steps, pruned tables | build missing rows, cascade, prune in chunks, vacuum | runs on its own connection while the writer holds buckets open | each request counts once at every step |
| Engine adapter (`engine/adapter.py`) | loaded and warmed models, in-flight counts, prefetch queue, five locks | load, unload, predict, prefetch worker, warm-up | lifecycle lock refused with 409, the worker reads the queue before it takes the lock | one forward at a time, exactly counted; nothing is staged twice and residents leave by unload alone; every call returns |
| Stream hub (`api/stream.py`, `web/src/lib/stream.ts`) | ring of events with ids, clients, shared pulse | publish, subscribe with replay, tick, drop slow clients, client reconnect and polling | replay and registration race with publish; one thread computes a pulse for all; a stream whose browser does not read blocks on its queue | a client sees every event of the ring once, in order; a browser comes back; `stop()` ends what it can reach |
| Accounts (`auth/users.py`, `auth/sessions.py`, `api/users.py`, `api/auth.py`) | users, roles, enabled flags, sessions, first-run setup | create, patch, delete, login, logout, password change | check-then-write over several statements from several request threads | an enabled owner remains and a privilege change ends sessions, unless two edits of users cross; a session has its user |
| API keys (`engine/keys.py`, `api/keys.py`) | key rows with hash, previous hash, grace and count; the `keys.auth` row; the pepper file | create, rotate, revoke, arm, disarm, verify | handlers read a row before the transaction that writes it; two threads may create the pepper | a key accepts its last two secrets and no other; a revoked key stays revoked |
| Rate limits (`auth/ratelimit.py`, `auth/login_limit.py`, `api/ratelimits.py`) | token buckets, failure stamps per subject, the policy rows | consume, refill, sweep; ask, record, clear; update the policy | the clock is read before the lock; parallel logins ask before any of them has failed | never more than the burst plus the refill; guesses stay bounded and a lockout ends |
| Requests (`app.py`, `http/middleware.py`, `obs/recorder.py`, `api/playground.py`) | trace contexts with spans and a stack, two thread-locals per pooled worker, the ring of traces | read the body, start, span, finish, the `on_sent` hook | the hook runs on another worker than the call; untraced calls find contexts others left bound | spans stay in their trace and in order; a trace closes once, after the write; errors are kept |
| Database and import (`store/db.py`, `engine/legacy_state.py`, `__main__.py`) | applied migrations, `api_keys.json` | migrate, import, rename, serve | two processes start at once, and die between any two steps | migrations apply once; no legacy key is lost |
| Queries (`store/queries.py`, `api/traces.py`, `api/logs.py`, `api/audit.py`, `obs/rollup.py`) | none of their own; cursors are in the client | keyset pages, export, tags, scores, deletes, charts, the summary strip | rows come, go and change between two pages; charts and strip read different tables | a scroll repeats and skips nothing and ends; charts, strip and listing agree |

The router, redaction, the permission tables and the runtime settings are pure
functions of their input; they are operators with laws. Configuration parsing,
password hashing, the static file server, the OpenAPI document and the React
pages keep no state that steps of several actors could disturb; they are listed
as not modelled in `PROJECT.json`.

## Plan

Done: `CountedLog` and `Writer` (the write path), `Engine` (the adapter's
lifecycle), `Accounts` (users and sessions), `StreamHub` (the live stream with
its web client), `Requests`, `Keys` under `Boot`, `Limits`, `Retention` beside the
writer's open buckets, and `Pages`, each with its theorems; `Series`, `Router`,
`Capture`, `Permissions` and `Settings` as operators with laws TLC evaluates.
Every safety invariant and action property of the passing runs is a theorem;
the liveness properties are checked by TLC.

The project keeps one safety run per module, a liveness run where the code
promises progress and the safety bounds would be too large for it, and one violated
run; the other disagreements are described in the last section with the property and
the constants that show them.

## Modules

### Writer

`Writer.tla` models `store/writer.py` action by action. Each `with self._cond`
section is one action; what the thread does outside the lock is a separate
action, so other threads interleave exactly where they can. `tpc` is the
position of `_run`; `batch`, `flushSeen`, `stopSeen`, `attempt` and `status` are
its local variables, `retried` and `open` its private fields. Producers blocked
in `_wait_for_room` are the set `waiting`; `fpc` is the position of each
`flush_now` call. The database is `done` (items of committed transactions) and
`rolled` (traces in the rollup rows); `published` is what `on_flush` was given.
An item is its arrival number, its kind (kept, error, sampled-out, log line) and
its 10 s bucket. Time is not modelled: a batch window, a put timeout, a flush
timeout or a bucket's end may come at any moment.

`CountedLog.tla` is the abstract promise: items are accepted in order and each
is settled once, made durable oldest first or counted as lost.

### Engine

`Engine.tla` models `RealAdapter`. Three kinds of thread (requests, admins,
startup workers) each have a place in `pc`; every read or write of shared state
is an action, so a value read under no lock may be stale in the next action.
`ensureBy`, `slotBy`, `predictBy` and `workerBy` are the holders of the four
locks that threads wait for; `_inflight_lock` guards one increment and is part
of the actions that count. `EnsureFast` .. `EnsureFail` are `_ensure`, shared by
all three kinds of thread; `PredictCall` .. `Leave` are `predict` with
`_kick_worker`; `AdminCall` .. `AdminReturn` are `load` and `unload`;
`WorkerTry` .. `PrefetchPop` are the startup worker with `_warm_resident`.
`laya.Router` is external: a set of resident checkpoints with a cap, which evicts
some other checkpoint when a load exceeds the cap. Load average and free memory
(`_prefetch_gates`) may allow or forbid a prefetch at any time, and every load,
construction and forward pass may fail.

### Accounts

`Accounts.tla` models the handlers of `api/auth.py` and `api/users.py` over the
users and sessions tables. The granularity is SQLite's: under Python's default
isolation a SELECT before a handler's first write is a transaction of its own,
so `fetch_user`, each count of owners and the login's two reads are separate
actions; the writes of a handler, up to its commit, are one action, enabled when
nobody holds the write lock. `setup` is the exception: it takes the lock first
(`BEGIN IMMEDIATE`), so it is three actions under `writeBy`. `req` holds the
handler's local variables: the cached principal, the target row as read, the
body. The foreign key and the cascade of `sessions.user_id` are external.
Passwords are right or wrong and a session may expire at any time. A refusal,
or a write that cannot get the lock in time, is `Refused`. Any request may edit
users. `crossed[r]` exists for the properties: the users whose role or flag others
have changed since the PATCH or DELETE of `r` read its target.

### StreamHub

`StreamHub.tla` models `api/stream.py` together with the two ends it serves: the
sink of `app.py` (`Written`, `read`, `Close`, `Ended`) and the hook of
`web/src/lib/stream.ts`. A slot is a stream thread with its client; `pc` is its
place in `stream` and `_tick_batch`, `batch` what it drained, `sink` what the
response holds, `link` the state of the connection, which the server learns of
only at `Notice`. The response's queue takes `Room` writes (`chunks`), those that
carry no event included; a write into a full queue waits until the loop has read a
chunk (`read`) or the sink is closed, when it may still get through
(`NoticeFrees`). A browser in `stalled` is connected and takes no bytes. A refresh timer is a thread of its own. The browser has a
`place` (off, connecting, open, backoff) and the refs that survive a remount. A
trace event is its id and the process that gave it; `lastBoot` and `floor` exist
for the properties. `Restart` stands for a new process, which attaches a fresh
hub. `stop()` may come at any moment; `__main__.py` calls it when uvicorn's
`run()` has returned, so that in the product most streams are gone by then.

### Retention

`Retention.tla` follows `apply` statement by statement. Before a pass's first
write each SELECT is a transaction of its own (the age keys, the cap keys, the
look for a row, the count, the children, the parent), so the writer may commit
between any two of them; from the first write to the commit (`WriteRows`) the
pass holds SQLite's write lock. The deletes commit per chunk. Time is a bucket
number and every age a number of buckets; one key stands for all, and one parent
step for the 60 s and 3600 s rows, which the code treats alike. A trace counts
in the bucket it started in, at most `Late` buckets before its commit. `CommitTrace`
and `CommitIdle` are the rollup half of the writer's commit. `fed`, `lost`, `excess`
(what was over the cap when the pass collected its keys) and `strained` (one of those
lay in a parent the writer may still add to) exist for the properties. `Tick` says that the writer, which wakes when a bucket is
due, closes it before another bucket of time has passed.

### Requests

`Requests.tla` follows one exchange through `app.handle`, the instrumented
dispatch and the recorder. `pc` is the place of a call, `at` the pooled worker
that runs its code. `current` and `proxy` are the two thread-locals of each
worker (`recorder._local`, `ThreadLocalSpans._local`); `Resolved` is what the
proxy resolves. An observation carries the call that made it, so that a span in
a foreign trace can be seen; `stack` is the context's stack of open spans. Body
intake (`Read`, `ReadChunked`, `ReadDeclared`) is pure and decides only whether
the call is dispatched. Sampling is a free choice that `AlwaysKeep` overrides.
`HangUp` is a write that raises, as the bridge in `http/server.py` reports a
client that is gone; an ASGI server that swallows such writes never takes it.
`Free` and the choice of a worker stand for the pool, which is external.
`Noted` adds an observation to a list, `Mine` is what a call recorded in its own
trace.

### Keys and Boot

`Keys.tla` has the handlers of `api/keys.py` and the verification of
`engine/keys.py`. A handler first reads (`create_key`, `_rotate`, `_revoke`,
`arm`, `present`), may have to load the pepper (`load_pepper`, `write_pepper`),
and then commits (`Commit`); other handlers act between any two of these. A
digest is the pair of a secret and what it was hashed with, so a key hashed with
an empty pepper is visible. `Boot.tla` extends it with the two processes that
open the database: `migrate` computes the pending files, `ApplyNext` applies one
per transaction, `ReadLegacy` .. `Rename` are `import_once`, `Ready` serves or
returns, and `Die` ends a process anywhere, with its handlers. A process may be
an older release, which knows fewer migrations.

### Limits

The token bucket of `auth/ratelimit.py` is a set of operators: its methods run
under one lock, so the calls on a bucket are a sequence, with clocks in any
order. Tokens are integers in parts of 1/`Period`. The login backoff is a state
machine: `Ask` and `Wrong` read the clock, `refused` and `record_failure` take
the lock later with that stamp, `clear` and `clear_email` forget, `ReadPolicy`,
`upsert_policy` and `PushPolicy` are the three steps of `update_policy`, and
`Restart` takes the policy from the configuration.

The registry of buckets (`Take`, `Swept`, `reset`, `usage`, `Panel`) is a
function of subject and scope on top of the single bucket.

### Router, Capture, Permissions and Settings

Four modules without variables. `Router.tla`: a table maps patterns to methods,
`_match` picks the pattern of a path, `dispatch` turns what the handler did into
the response. `Capture.tla`: `redact_for_capture` on nested values whose texts
and keys are plain or show something the PII patterns match, and the cut of
`scrub_text` on byte widths; the patterns themselves are left out.
`Permissions.tla`: the server's table beside the console's map of
`permissions.ts`. `Settings.tla`: the conversions between JSON values, stored
texts and typed values, `update` with its refusals and audit rows, and the limits
of a key.

### Lists

`Lists.tla` has the one list comprehension the code uses in several places:
`Only(list, members)` keeps the elements of a list that are in a set, in order
(the prune of failure stamps, the replay of the ring, the observations of one
call). It is a recursive function, so that it can be proved about.

### Pages and Series

`Pages.tla` has one client that pages through traces, logs or the audit log, or
exports logs. A page is two statements, the SELECT (`NextPage`) and the COUNT
(`Answer`), with commits of others between and around them: inserts anywhere in
the order, tag and score requests that read first and write later, deletes and
the log prune. The cursor is the last row shown. `steady` is the set of rows
that matched from the first page on. `Series.tla` has the arithmetic of
`obs/rollup.py` and of the metrics queries as operators: a sample is a sequence
of durations, a load a sequence of calls, `Rolled` the rollup rows they leave.
`Strip.tla` composes the two: the summary strip reads the rows the listing shows.

## Runs

| Run | Shows |
|---|---|
| `writer_safety` | the queue is bounded and in order, every drop counted, commits whole (rollups and published events agree with the rows), stop drains, and `CountedLog` is implemented, with every kind of item, retries, a requeue, a crash and a stop |
| `writer_liveness` | flush requests are answered, stop ends the thread, blocked producers leave; `flush_now` keeps its promise |
| `engine` | one forward at a time, exactly counted, no double staging, evictions only by unload; every call returns |
| `accounts_safety` | with two editors: the last enabled owner goes only by an edit that another edit crossed, sessions belong to users, a privilege change ends sessions unless an edit of the same user crossed it, one setup inserts |
| `stream_safety` | a browser is given each trace once, in order, without a gap the ring could have filled, through broken connections, remounts and a restart; one provider call at a time |
| `stream_liveness` | dead streams that fill the hub are cleared and the browser is served again; `stop()` ends every stream but one whose browser stays connected and never reads again |
| `retention` | age and the count cap prune: rows exist before traces of the collected keys go, counts are exact and parents agree until the cap reaches what is still being written, old traces go |
| `requests` | spans stay in their own trace, in the documented order, with the error event exactly on errors; a trace closes once, after its write, takes nothing more and reaches the sink; every call ends and gives its worker back |
| `requests_claim_spans` | violated: an admin load records its span in the trace of the engine call that last used its worker |
| `boot` | migrations apply once, the server serves a complete schema and table, no renamed file is unimported, a key verifies exactly its last two secrets, rows keep revocation and count |
| `limits` | guesses within a window stay within the limit plus the other threads, a quiet subject is let in, the policy in force is the stored one when updates do not overlap |
| `reads` | pages in order, without repetition or omission, that come to an end; no orphan score; the strip agrees with the listing |

Facts about one function that no step can disturb are assumptions of the run's
MC module, which TLC evaluates over all inputs of the bounds before it explores a
state: `BodyLaw` (a chunked upload is held whole when it fits and never much
longer), `RouteLaws` (`AllowIsTrue`: what 405 and OPTIONS list is what the path
accepts; `HeadMirrorsGet`; `RoutesReachable`), `CaptureLaws` (`NoSecretStored` at
any depth and under any key; `CutIsTight`), `PermissionLaws`
(`ConsoleAgreesWithGate`: a control is enabled exactly when the gate lets it
through; `ReasonsAreTrue`; `LastOwnerAgrees`), `SettingsLaws` (`UpdateReadsBack`,
`OwnerCaptures`, `PatchesDoNotMix`),
`BucketLaws` (`NeverOverRate`, `RetryIsEnough`, `SweepForgetsNothing`), `PanelLaws`
(`ResetRenews`: a reset owner is granted its next call and nobody else is
affected; `PanelShowsBusiest`),
`SampleLaws` (`PercentileIsNearestRank`, `MergeIsExact`) and `ChartLaws`
(`SeriesHasNoGap`, `ChartsAgreeWithTraces`, `WindowsMeet`).

A property such as `QueueSound` or `StartSound` is the conjunction of named
parts, each with its own comment; TLC and the theorems speak of the conjunction.

### Bounds

Every bound is a constant. In the writer, a queue of one and batches of two rows
make backpressure, eviction, requeueing of a longer batch than the queue and a
partly filled batch all happen; three arrivals are enough for one item in the
batch, one queued and one waiting, and `MaxFaults` allows a busy retry, a requeue
and a dropped batch in one behaviour. In the engine, two checkpoints are the
catalog the code ships; two requests, an admin and a worker are enough for
every pair of places of two threads to occur, and two calls let an unload meet a
predict, a load or the worker. In the accounts, two users are the smallest table in
which one owner edits another, two sessions let a login replace a session while
another lives, and three calls let a login or a setup straddle an edit. In the
stream, two slots hold a dead stream beside the new one, a ring of one evicts at
the second trace, three traces put one before, one during and one after a
reconnect, and two faults allow a broken connection and a restart. The response
queue holds one write instead of 64, so the second write finds it full.
`stream_safety` bounds traces and faults together (`FewEvents`): three traces with one
fault, or two with two.
`stream_liveness` publishes no trace, since pulses and pings fill that queue like
events do, and lets a browser stop reading (`CanStall`), once while a dead stream
is being cleared or twice; `stream_safety` does not, since there nothing obliges a
browser to read. In the
retention, parents of two buckets and six buckets of time let a trace be
committed late, open, closed, aged and past the rollup age in one behaviour; two
traces share a bucket, a parent or nothing; two faults allow a crash and a failed
pass. In the requests,
one call of each kind and two workers let a hook run on the other worker while
the first one serves an admin or a playground call; a ring of one evicts at the
second trace. In boot, two starts put a second process or a restart beside the
first, two migrations separate an older release from a newer one, and three
secrets let the legacy key be rotated twice. In the limits, a limit of one and
two threads make the overrun happen, two windows and two updates let a policy
change under a running login, and a map larger than one subject is swept. In the
reads, three rows tie in every prefix of the two orders, and a page of one row
puts commits between all of them; loads of two calls over six ticks cover every
position of a call against the ends of a window and of a bucket. The laws range
over route tables of two registrations on paths of up to two characters, payloads
nested two deep, three users, bodies with every subset of one control per kind,
and registries of two owners with two calls each. The
theorems remove all of these bounds for what they cover.

`accounts_safety` puts no bound on who edits users: both threads may, and the PATCH
bodies of `Edits` demote, promote, set and clear each flag, and change two fields at
once. `OwnerGuarded` and `PrivilegeRotates` name the one interleaving the code does not
stand, an edit that commits between another's reads and its write, and say that
nothing else breaks the rule. That it does break it is `OwnerRemains` and
`EveryChangeRotates` (last section).

Retention has two regimes: traffic that stays below `retention_traces` within
`retention_days`, where age prunes, and traffic that reaches the default 10,000 rows
sooner, at about one trace a minute, where the cap does. With `Cap = 1` the run has
both: a trace alone goes for its age, the older of two for whichever a pass meets
first, and a pass that comes late finds two traces past their age.
`CountsExact` and `ParentsAgree` hold until `strained`: until a pass finds over the cap
a trace of a parent that is still being written, which takes 10,000 traces within
little more than an hour. `RolledBeforePruned` has no such condition. It speaks of
every trace past its age and of every trace over the cap when the keys were collected,
in parents being written as well. The traces that go over the cap later in the pass are
`RowsBeforeRaw`; `Cap = 1` makes this gap as wide as the code has it, since a single
commit during a pass pushes a trace over. Both exceptions are in the last section.

`limits` excepts two things by name: `GuessesBounded` speaks of histories whose
stamps were appended in order (`late` is false), and `PolicyBinds` of updates that
do not overlap and were not followed by a restart (`settled`). In `boot`,
`LatestTwoVerify` speaks of digests the pepper on disk can recompute. What
happens outside these conditions is in the last section.

### Deadlock

Every cfg says `CHECK_DEADLOCK FALSE`: the writer ends after `stop()`, and in the
engine and the accounts no call is left when the bound on calls is used up; a
browser that is unmounted leaves the hub idle; time ends at `MaxNow`; the calls of
`requests`, the starts and secrets of `boot`, the logins of `limits` and the rows
of `reads` are used up.

### Fairness

Writer: weak fairness of the writer thread's steps, of its start, of a blocked
producer (its wait has a timeout) and of each step of a flusher that has called.
The thread runs whenever it is not blocked on the condition, and the condition's
waits have timeouts; nothing obliges a producer, a flusher or `stop()` to call.
Engine: weak fairness of each thread's own steps, not of new calls. A lock that
becomes free and stays free is taken; since calls are bounded, no lock is handed
around for ever. Stream: weak fairness of each stream thread, timer and browser,
of the loop reading a response and noticing a dead connection; not of publishing,
faults, `stop()`, mounting, or a browser that does not read reading again. Two steps have strong fairness: a waiter woken by the end of a
computation runs before the timer, half a tick later, claims again; and arming a
timer, which in the code never waits, is disabled only by the bound on timer
threads. Retention: weak fairness of the pass, which its timer starts every 60 s;
failures are bounded. Requests: weak fairness of what the server does for each
call that has arrived, since loop and pool keep running; not of arrivals. Reads:
weak fairness of the client's next page and its answer, a user who keeps
scrolling; nobody else need act. `boot` and `limits` state no liveness.

## Proofs

All theorems hold for every value of the constants that the named assumptions
allow. Each invariant below was an invariant of a TLC run before it was proved.

* `ListFacts`: what `Only` returns, for every list. Its induction is stated with
  sets: `NumberInduction` and `ListInduction` say that a set that contains 0, or
  the empty list, and is closed under the successor, or under `Append`, contains
  every number or list; the proofs that use them define the set of lists with the
  property. They rest on the library's theorem that a well-founded relation has
  minimal elements (`LeastNumber`). `OnlyAppend` is the recursion, `OnlyTwice`,
  `OnlyLength` and `OnlyCounts` what the other modules cite.
* `WriterProofs`: `TypeCorrect`; `NothingOvertakes` from the inductive
  `OrderInv`: batch followed by queue is sorted by arrival number, everything
  committed is older, everything is older than `next`. The lemma `StepEffect`
  classifies a step by what it does to that sequence (keeps, accepts, exchanges,
  commits, drops), so later proofs need five cases instead of one per action.
  `QueueIsSound` and `CommitIsWhole`, the conjunctions the run
  checks, from `MemoryBounded` (with the batch's own bound), `RolledUpOnce`
  and `SubscribersAccurate` (with what the thread holds between a commit and its
  callback), `FlushKeepsPromise` and `StopKeepsPromise` (from `PlaceInv` and
  `PromiseInv`: an acknowledgement seen by an asking flusher already covers its
  mark), `EvictionSpares`, and `WriterRefinesLog`, the refinement of
  `CountedLog`. `DropsAreCounted` from `CountInv`: the two drop counters balance
  the arrivals against the blocked producers and the items held or committed; it
  needs `OrderInv`, without which an item could be held twice and the sizes would
  not add up.
* `EngineProofs`: `TypeCorrect`; `ForwardsAreSound` from `InflightCounted` and
  `ForwardsExclude`, which rests on `LockInv` (the holder of
  each lock is at a place that holds it, and conversely); `EnglishKept`;
  `EvictionsAreUnloads`, assuming every checkpoint of the catalog is configured;
  `InflightCounted` uses finite cardinalities; `NeverStagedTwice` from
  `StagedInv`: the queue embeds, in order, into the tail of the configured names,
  and is empty until construction has succeeded.
* `StreamHubProofs`: `OneProviderCall` from `PulseInv`, `OneProvider` with the
  types of the claim and the places; a step leaves the computation alone, enters
  it from no claim, or leaves it. `StreamTypesKept`, with the bound of the ring;
  both together are `HubIsSound`.
  `TracesInOrderOnce` and `TracesWithoutGap` from `HubInvariant`: what the
  response, the thread's batch and the client's queue hold, put together
  (`Line`), is a run of consecutive ids (`Runs`) that ends with the newest trace
  while the connection is up and begins where the browser stands (`Follows`), or
  at the oldest trace the ring had when the stream registered. Neither property is
  inductive: a trace may be received only because of what was appended, drained
  and written long before. `ReplayRuns` says what the replay of a run is;
  `OneEach` that a browser reads one stream at a time; `Heard` that no browser has
  heard of a later process or an id not yet given.
* `BootProofs`: `StartIsSound`, `RenamedWasImported`, `LatestTwoAlways` and the
  action property `RowsAreKept` from `BootInvariant`. Its parts say what survives
  between the read and the write of each handler and each start: `CallsSound` (a
  handler at its write holds an id that still fits, no two create the same one),
  `RowsSound` (a row holds the latest secret and the one before it),
  `CountsSound` (counted uses and accepted ones not yet counted), `SchemaSound`
  (the recorded migrations are an initial interval, and what a process holds as
  pending begins no later than where it ends) and `ImportSound` (a process past
  the insert, or a renamed file, implies every legacy key is in the table).
* `AuthProofs`, of `Limits`: `LockoutIsSound` from `PolicyInvariant` (`EditSound`: an update
  that met no other has merged over the rows as they still are). `GuessesAreBounded`
  from `GuessInvariant`: every wrong password of the shortest window has its stamp
  in the map (`WrongStamped`), so that whoever is let through was let through with
  fewer than the limit, and the guesses made plus the guesses under way stay
  within the bound (`GuessesLeft`); `LastNewest`, which holds while stamps arrive
  in order, is why the sweep forgets none of them.
  Of `Accounts`: `TypeCorrect`; `SetupSerialised` from `SetupInv` (a setup
  holds the write lock, and after its look no user exists); `TablesAreSound`
  from `NoOrphanSessions` and `BelongInv`, with `PlaceInv` saying that an issuing login has a target;
  `OwnerKept` and `RotationKept` rest on `EditAlways`, for any number of editors: the
  row a handler fetched is still the row in the table unless an edit of that user
  crossed it, and what its guards found (another enabled owner) still holds at the
  write unless some edit did. An edit tells every request that is reading
  (`EditTells`), and all other steps only add users (`QuietGrows`).
* `RequestsProofs`: `SpansStayOwn`, `TracesAreSound` and the action property
  `FinishedTracesAreFinal` from `RequestsInvariant`: a worker that runs a traced
  call resolves to it (`Resolves`, `ProxySound`), the state of a trace and the
  place of its call determine each other (`TraceAt`), the spans a call has recorded
  so far are a beginning of the documented order (`Shape`), and every finished
  trace that must be kept is in the ring or at least `RingSize` finishes old
  (`KeptAt`).
* `StoreProofs`, of `Retention`: `RollupsAreExact` and `ParentsAlwaysAgree` from
  `RetentionInvariant`. A pass reads in transactions of its own and writes later,
  so `RetInv` says what stays true in between: every pending bucket lies in a
  parent nobody writes any more (`ParentSettled`), a bucket seen without a row
  still has none, a count is at most what the writer was fed, and a sum of
  children is still their sum (`PassSound`). It holds because traces are committed
  at most `Late` buckets after they started (`OpenRecent`) and a bucket past
  `AgeAfter` is older than that by a whole parent: `AgeSpares`, `Late + Width <=
  AgeAfter + 1`, which an age of a day leaves true for every request that is
  committed within 23 hours. `/settings` asks for a day or more and 7 days are the
  default, but `LAYWATCH_RETENTION_DAYS` is not checked, so this is a hypothesis of
  these theorems and not an assumption on the constants. The count cap has no such
  distance, so the invariant is `strained \/ RetInv`: it holds while the cap takes
  traces of settled parents, and a pass that finds another sets `strained` for good
  (`StrainStays`). What is true in either case is `StoreInv`.
  `RowsPrecedePruning` needs neither hypothesis: for any ages, cap and traffic,
  every trace the pass has collected has a row, is open in the writer, or has its
  key still to be dealt with (`Covered`), and a key is dealt with by finding its row,
  finding no trace, or writing the row. Between these reads the writer can only add
  to its open buckets or turn them into rows; a crash, which empties them, ends the
  pass. TLC checked `StoreInv`, `Covered` and `strained \/ RetInv` on the run's
  instance and with `Cap = 2`.
  `TotalIsSum`, `TotalAdds` and `TotalSame` are the facts about `Total`.
  Of `Pages`: `ListingsAreSound` and `NothingIsSkipped` from `PagesInv`, which
  adds that until a scroll ends a steady row was shown, or more rows were promised
  and it comes after all that were shown (`Promised`). The rest is about a page as
  a function of a set: the places of rows in a finite set are the numbers up to
  its size (`PlaceTaken`), a page holds the first places in order (`PageInOrder`)
  and what it leaves out comes behind it and makes the set larger than a page
  (`PageRest`); `PageAppended` and `CutSorted` say what the next page and export's
  cut do to a sorted list.
  Of `Strip`: `StripAgrees` from `StripInv`, which adds that only logs are
  exported and that, while no request has changed the table, every row shown is
  still there and in the window. `StripCounts` says that the strip's number of
  requests is the number of stored traces in its window, whatever order it reads
  them in; `ShownOnce` that a sorted list shows as many rows as it has places.

`AuthProofs` and `StoreProofs` each treat two components that share no state and
take no steps together; the specification of the second is `AccountsSpec` and
`PagesSpec`.

Assumptions beyond finiteness and types: `KeysAssumption` says that the value
standing for "no secret" is neither a secret nor a digest; the bounds on calls,
faults and time are arbitrary natural numbers, so no theorem depends on their
size.

Only model-checked: the laws evaluated as assumptions of the MC modules, and all
liveness properties. Liveness under fairness is outside the prover's reach. The
laws of `Series`, `Router`, `Capture` and `Settings` say what a fold or a
recursive definition computes for every input, which takes an induction over the
input that the installed provers cannot carry out; TLC evaluates them over bounded
inputs.

## Where code and documents differ

`requests_claim_spans` is a run and a finding: spans recorded in a foreign trace
(`http/middleware.py:23`). The disagreements below were found
with the same modules; each names the property and the constants under which TLC
shows it, starting from the cfg of the module's run.

| Where | Document or comment | What the code does | How to see it |
|---|---|---|---|
| `store/writer.py:241` | `writer.py:13` "a drop is never silent" | a producer blocked when `stop()` is called may be admitted after the thread left its loop; its trace is neither written nor counted | `NothingStranded` in `writer_safety` |
| `engine/adapter.py:799` | `unload`: "also cancels any pending background prefetch of the same name" | the worker read the head of the queue before the unload and loads it all the same | `UnloadCancelsPrefetch` in `engine` |
| `engine/adapter.py:836` | "correctness never depends on the prefetch queue draining" | `_kick_worker` indexes a queue that has emptied since it was tested; `predict` raises IndexError | `KickFindsHead` in `engine` with one client, two workers, `MaxCalls = 3` |
| `app.py:140` | `api/stream.py:155` `stop`: "Ask every connected stream to exit its loop" | a stream blocked on the full queue of a browser that stays connected and does not read never looks at the hub's flag; it keeps its place and its thread | `StopEnds` without `[]Held(s)` in `stream_liveness` |
| `auth/users.py:290` | `docs/security.md:37` "The last enabled `owner` can never be deleted, demoted or disabled" | the count of other owners precedes the writing transaction: two owners who edit each other at once both count one, and none is left | `OwnerRemains` in `accounts_safety` |
| `auth/users.py:211` | `auth/users.py:198` "Role changes and disables revoke the target's sessions"; `docs/security.md:59` | the comparison is with a row read before the transaction: a PATCH that another crossed changes the role back and revokes nothing | `EveryChangeRotates` in `accounts_safety` |
| `store/retention.py:139` | `retention.py:14` "Keys that already have a row are the writer's committed view and are never touched, so nothing double-counts" | when the count cap reaches a bucket the writer holds open, its row is built from the stored traces and the writer adds them again | `NothingDoubleCounts` in `retention` |
| `store/retention.py:142` | the same sentence: rows that exist "are never touched" | where the cap reaches what is still being written, a row may be replaced by a stale count and a parent rebuilt from older children; with an age of less than a parent, age does what the cap does | `NothingForgotten`, `ParentsSum` in `retention`; `CountsExact`, `ParentsAgree` with `AgeAfter = 0` |
| `store/retention.py:192` | `retention.py:4` "rollups are computed BEFORE raw rows are pruned so charts keep answering pruned windows" | the DELETE evaluates the cap anew: a trace a crash left without a row, pushed over the cap by one committed during the pass, goes although the pass never looked at its key | `RowsBeforeRaw` in `retention` |
| `engine/legacy_state.py` | a repeated import "re-reads, inserts nothing" | it writes `keys.auth` again, over the arming an administrator chose | `ArmingKept` in `boot` |
| `engine/keys.py:54` | "a half-written secret must not survive to become the pepper" | the thread that loses the race for `secret.key` may read it empty, and a crash leaves it empty; keys hashed then stop verifying | `PepperWhole` in `boot` |
| `auth/login_limit.py` | | `_sweep` judges a subject by its last stamp; with stamps out of order it forgets failures of the window | `GuessesBounded` without its guard `~late`, `MaxLogins = 6`, `MaxUpdates = 0` |
| `auth/ratelimit.py:275` | `ratelimit.py:15` "minting subjects cannot grow the map without bound"; `docs/rate-limiting.md:189` | `_sweep` compares the tokens of the last call and nothing refills an idle bucket, so a bucket in use once is never dropped | `SweepFrees` as an assumption of `MCLimits` |
| `api/keys.py:347` | "absent fields mean 'leave unchanged' on PATCH" | a PATCH that names one limit sets the other to NULL | `PatchKeepsAbsent` as an assumption of `MCLimits` |
| `api/ratelimits.py:92` | | overlapping updates leave the backoff on a merge of older rows, a restart on the configured values | `PolicyBinds` without `settled` |

Met while modelling, and not stated as a property:

* `docs/architecture.md:101` says backpressure drops only kept traces, while an
  error trace that waits too long is refused (and counted); when the last
  transaction of `stop()` is refused, the buckets still open are discarded.
* Unloading the last resident checkpoint is allowed, against
  `docs/api-reference.md:266`. That an English-only deployment never loads the
  multilingual checkpoint is a theorem (`EnglishKept`) and has no run.
* `stream.ts` promises the status "polling" while it polls, but each retry sets
  "reconnecting" and `startPolling` returns early, so the pill shows it once.
* A login verified against the old password hash issues its session after
  `change_password` has revoked the others.
* `middleware.py:19` says the `finally` closes the trace if the hook never runs;
  once the hook is attached it does not, so a write that raises leaves the trace
  open (`HangUp`).
* The docstring of `verify_key` speaks of one transaction; SELECT and UPDATE are
  two, and a second rotation ends the grace of the first. The look for an active
  key when arming races a revocation.
* After a restart the login policy is the configuration's, not the stored one, and
  the Retry-After of a refusal is not the moment the subject is let in: each
  refusal counts as a failure.
* `BucketRegistry.consume` has no caller in the repository, and `usage` never
  refills, so a bucket does not leave the panel by waiting. The rows that
  `POST /settings` writes are read by no running component. A row that parses but
  is out of bounds is shown as effective by `/settings`, while the policy view
  falls back to the configuration.
* A HEAD that the handler of GET refuses with an exception is answered with the
  body of the envelope.
* `useSyncedFilters` (`web/src/lib/filters.ts`) merges an edit into the filters of
  the URL and cancels the pending one: of two filters edited within 250 ms the
  first is lost.
* Of two concurrent tag requests the later erases the earlier one's tags, and the
  total of a page is counted after its rows were read.

## Not modelled

See the components with status `not_modelled` in `PROJECT.json`. In the modelled
components log wording and payload shapes are left out, and wall-clock time is
"any moment" except where a clock decides (retention, key grace, login windows).
API-key principals do not appear in `Accounts` (they only read there). The
prunes of payloads and sessions, VACUUM, the health and meta documents, trace
detail and the audit rows change or read data no modelled step depends on. Filters of
the listing other than the window are one tag. A client that sends the `range`
shorthand (`1h`) lets the server compute the window anew on every page; the model's
window is fixed for a scroll, which is what `since` and `until` give. The benchmark, seed and budget scripts are tools around the
program and not part of it.
