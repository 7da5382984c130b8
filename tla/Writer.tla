------------------------------- MODULE Writer -------------------------------
(***************************************************************************)
(* The single writer thread of layawatch/store/writer.py: a bounded queue  *)
(* filled by request threads, drained in batches, one SQLite transaction   *)
(* per batch, with backpressure, busy retries, one requeue, counted drops, *)
(* flush_now() and stop().                                                 *)
(*                                                                         *)
(* Every critical section of `with self._cond` is one action.  Steps of    *)
(* the writer thread outside the lock are actions of their own, so that    *)
(* producers, flushers and stop() interleave with them as in the code.     *)
(*                                                                         *)
(* Data abstraction: a queued item is its arrival number, its kind and the *)
(* 10 s rollup bucket its start time falls in.  The clock is not a         *)
(* variable: which open buckets are due is a nondeterministic choice.      *)
(***************************************************************************)
EXTENDS Integers, Sequences, FiniteSets

CONSTANTS Producers,    \* request threads that call enqueue / enqueue_log
          Flushers,     \* threads that call flush_now
          Buckets,      \* 10 s buckets, numbered from 1 (0 marks a log line)
          Offered,      \* bound: the kinds of items the callers enqueue
          QueueMax,     \* queue_max
          BatchRows,    \* batch_rows
          BusyRetries,  \* len(_BUSY_BACKOFF)
          MaxArrivals,  \* bound: calls of enqueue and enqueue_log
          MaxFaults,    \* bound: statements SQLite refuses
          CanStop,      \* whether stop() is called
          CanCrash      \* whether the thread may die of another exception

ASSUME WriterAssumption ==
  /\ Buckets \subseteq Nat \ {0}
  /\ Offered \subseteq {"kept", "error", "sampled", "log"}
  /\ QueueMax \in Nat \ {0}
  /\ BatchRows \in Nat \ {0}
  /\ BusyRetries \in Nat
  /\ MaxArrivals \in Nat
  /\ MaxFaults \in Nat
  /\ CanStop \in BOOLEAN
  /\ CanCrash \in BOOLEAN

TraceKinds == {"kept", "error", "sampled"}
Kinds      == TraceKinds \cup {"log"}
Item       == [id : Nat, kind : Kinds, bucket : Nat]
Waiter     == [by : Producers, kind : TraceKinds, bucket : Buckets]

VARIABLES
  (* shared state, guarded by the condition *)
  queue,        \* _queue
  waiting,      \* the traces of producers blocked in _wait_for_room
  stopping,     \* _stopping
  flushWanted,  \* _flush_wanted
  flushAck,     \* _flush_ack
  obsDropped,   \* _obs_dropped
  logsDropped,  \* _logs_dropped
  (* the writer thread *)
  tpc,          \* where _run is
  batch,        \* the batch _collect gathered
  flushSeen,    \* the local `flush` of _run
  stopSeen,     \* the local `stopping` of _run
  attempt,      \* the local `attempt` of _commit
  status,       \* what the last _commit returned
  retried,      \* _retried
  open,         \* traces accumulated in an open bucket of _open
  fresh,        \* kept traces committed, not yet handed to on_flush
  (* the flushers *)
  fpc,          \* where each flush_now call is
  (* the database and the subscriber of on_flush *)
  done,         \* items whose batch committed
  rolled,       \* traces closed into the metric_rollup rows
  published,    \* traces handed to on_flush
  (* history *)
  next,         \* number of the next item appended to the queue
  lost,         \* items taken off the queue and dropped
  arrived,      \* calls of enqueue and enqueue_log, per kind
  mark,         \* value of next when each flusher asked
  stopMark,     \* value of next when stop() was called
  faults,       \* statements SQLite has refused so far
  crashed       \* the thread died of an exception

shared  == <<queue, waiting, stopping, flushWanted, flushAck>>
counts  == <<obsDropped, logsDropped>>
thread  == <<tpc, batch, flushSeen, stopSeen, attempt, status, retried, open, fresh>>
durable == <<done, rolled, published>>
history == <<next, lost, arrived, mark, stopMark, faults, crashed>>
vars    == <<shared, counts, thread, fpc, durable, history>>

Elems(s)     == {s[i] : i \in DOMAIN s}
IsTrace(i)   == i.kind # "log"
_is_error(i) == i.kind = "error"

_is_kept(i) == i.kind # "sampled"

\* What backpressure may evict: a trace, kept and not an error.
Droppable(i) == IsTrace(i) /\ _is_kept(i) /\ ~_is_error(i)
Traces(S)    == {i \in S : IsTrace(i)}
Kept(S)      == {i \in S : IsTrace(i) /\ _is_kept(i)}

\* Items accepted by the queue and not yet settled by a transaction.
Live         == Elems(queue) \cup Elems(batch)

\* Places of a sequence that satisfy P, and a sequence without one place.
TraceCount(s) == Cardinality({i \in DOMAIN s : IsTrace(s[i])})
LogCount(s)   == Cardinality({i \in DOMAIN s : ~IsTrace(s[i])})
Without(s, k) == [i \in 1 .. (Len(s) - 1) |-> IF i < k THEN s[i] ELSE s[i + 1]]

Full == Len(queue) >= QueueMax

DrainingOnStop  == stopping                  \* seeded fault: flush does not drain
DrainingOnFlush == flushWanted               \* seeded fault: stop does not drain
Draining        == flushWanted \/ stopping

NewItem(k, b) == [id |-> next, kind |-> k, bucket |-> b]

Arrivals     == arrived["kept"] + arrived["error"] + arrived["sampled"] + arrived["log"]
Idle(p)      == \A w \in waiting : w.by # p

Init ==
  /\ queue = <<>> /\ waiting = {} /\ stopping = FALSE
  /\ flushWanted = FALSE /\ flushAck = FALSE
  /\ obsDropped = 0 /\ logsDropped = 0
  /\ tpc = "new" /\ batch = <<>> /\ flushSeen = FALSE /\ stopSeen = FALSE
  /\ attempt = 0 /\ status = "ok" /\ retried = FALSE /\ open = {} /\ fresh = {}
  /\ fpc = [f \in Flushers |-> "idle"]
  /\ done = {} /\ rolled = {} /\ published = {}
  /\ next = 1 /\ lost = {} /\ arrived = [k \in Kinds |-> 0]
  /\ mark = [f \in Flushers |-> 0] /\ stopMark = 0 /\ faults = 0 /\ crashed = FALSE

-----------------------------------------------------------------------------
(* Producers: enqueue and enqueue_log. *)

\* An arriving trace: rejected when stopping; a sampled-out one is counted at once.
Arrive(k) ==
  /\ k \in Offered
  /\ ~stopping
  /\ Arrivals < MaxArrivals
  /\ arrived' = [arrived EXCEPT ![k] = @ + 1]

Appended(q, k, b) ==
  /\ queue' = Append(q, NewItem(k, b))
  /\ next' = next + 1

SampledDropUncounted(k) == 0                 \* seeded fault: sampling not counted
SampledDrop(k)          == IF k = "sampled" THEN 1 ELSE 0

Put(p, k, b) ==
  /\ Idle(p) /\ Arrive(k)
  /\ ~Full
  /\ Appended(queue, k, b)
  /\ obsDropped' = obsDropped + SampledDrop(k)
  /\ UNCHANGED <<waiting, stopping, flushWanted, flushAck, logsDropped,
                 thread, fpc, durable, lost, mark, stopMark, faults, crashed>>

\* The oldest queued kept non-error trace, as _evict_kept_non_error finds it.
_evict_kept_non_error(k) ==
  /\ k \in DOMAIN queue
  /\ Droppable(queue[k])
  /\ \A j \in 1 .. (k - 1) : ~Droppable(queue[j])

PutEvicting(p, b) ==
  /\ Idle(p) /\ Arrive("kept")
  /\ Full
  /\ \E k \in DOMAIN queue :
       /\ _evict_kept_non_error(k)
       /\ Appended(Without(queue, k), "kept", b)
       /\ lost' = lost \cup {queue[k]}
  /\ obsDropped' = obsDropped + 1
  /\ UNCHANGED <<waiting, stopping, flushWanted, flushAck, logsDropped,
                 thread, fpc, durable, mark, stopMark, faults, crashed>>

\* Full, and nothing to evict or not entitled to: block in _wait_for_room.
PutBlocked(p, k, b) ==
  /\ Idle(p) /\ Arrive(k)
  /\ Full
  /\ k = "kept" => \A j \in DOMAIN queue : ~Droppable(queue[j])
  /\ waiting' = waiting \cup {[by |-> p, kind |-> k, bucket |-> b]}
  /\ obsDropped' = obsDropped + SampledDrop(k)
  /\ UNCHANGED <<queue, stopping, flushWanted, flushAck, logsDropped,
                 thread, fpc, durable, next, lost, mark, stopMark, faults, crashed>>

\* The wait of _wait_for_room ends without room: _PUT_TIMEOUT passed (at any
\* time, as far as the model can tell) or stop() was called.
PutTimeout == Full

\* _wait_for_room sees room; it does not look at _stopping again.
Admitted(w) ==
  /\ ~Full
  /\ waiting' = waiting \ {w}
  /\ Appended(queue, w.kind, w.bucket)
  /\ UNCHANGED <<stopping, flushWanted, flushAck, counts, thread, fpc, durable,
                 lost, arrived, mark, stopMark, faults, crashed>>

GiveUp(w) ==
  /\ PutTimeout
  /\ waiting' = waiting \ {w}
  /\ obsDropped' = obsDropped + 1
  /\ UNCHANGED <<queue, stopping, flushWanted, flushAck, logsDropped, thread,
                 fpc, durable, history>>

\* enqueue_log, called by the log sink on any thread (p) or on the writer's own.
LogLine ==
  IF Full
    THEN /\ logsDropped' = logsDropped + 1
         /\ UNCHANGED <<queue, next>>
    ELSE /\ Appended(queue, "log", 0)
         /\ UNCHANGED logsDropped

EnqueueLog(p) ==
  /\ Idle(p) /\ Arrive("log")
  /\ LogLine
  /\ UNCHANGED <<waiting, stopping, flushWanted, flushAck, obsDropped,
                 thread, fpc, durable, lost, mark, stopMark, faults, crashed>>

-----------------------------------------------------------------------------
(* Lifecycle: start, stop, flush_now. *)

Start ==
  /\ tpc = "new"
  /\ tpc' = "connect"
  /\ UNCHANGED <<shared, counts, batch, flushSeen, stopSeen, attempt, status, retried,
                 open, fresh, fpc, durable, history>>

\* stop() before start() returns without effect, so a stop has a thread.
Stop ==
  /\ CanStop /\ tpc # "new" /\ ~stopping
  /\ stopping' = TRUE
  /\ stopMark' = next
  /\ UNCHANGED <<queue, waiting, flushWanted, flushAck, counts, thread, fpc, durable,
                 next, lost, arrived, mark, faults, crashed>>

\* flush_now: the liveness test, outside the lock.
FlushCheck(f) ==
  /\ fpc[f] = "idle"
  /\ tpc \notin {"new", "dead"}
  /\ fpc' = [fpc EXCEPT ![f] = "checked"]
  /\ UNCHANGED <<shared, counts, thread, durable, history>>

KeepAck  == UNCHANGED flushAck               \* seeded fault: stale acknowledgement
ClearAck == flushAck' = FALSE

FlushRequest(f) ==
  /\ fpc[f] = "checked"
  /\ flushWanted' = TRUE
  /\ ClearAck
  /\ fpc' = [fpc EXCEPT ![f] = "asked"]
  /\ mark' = [mark EXCEPT ![f] = next]
  /\ UNCHANGED <<queue, waiting, stopping, counts, thread, durable, next, lost,
                 arrived, stopMark, faults, crashed>>

\* Event.wait: returns at once when the event is set, else sleeps until it is.
FlushWait(f) ==
  /\ fpc[f] = "asked"
  /\ fpc' = [fpc EXCEPT ![f] = IF flushAck THEN "released" ELSE "waiting"]
  /\ UNCHANGED <<shared, counts, thread, durable, history>>

FlushReturn(f) ==
  /\ fpc[f] = "released"
  /\ fpc' = [fpc EXCEPT ![f] = "idle"]
  /\ UNCHANGED <<shared, counts, thread, durable, history>>

\* Event.wait timed out: TimeoutError.
FlushTimeout(f) ==
  /\ fpc[f] = "waiting"
  /\ fpc' = [fpc EXCEPT ![f] = "idle"]
  /\ UNCHANGED <<shared, counts, thread, durable, history>>

\* Event.set: wakes every sleeper, whatever happens to the event afterwards.
AckFlush ==
  /\ flushWanted' = FALSE
  /\ flushAck' = TRUE
  /\ fpc' = [f \in Flushers |-> IF fpc[f] = "waiting" THEN "released" ELSE fpc[f]]

-----------------------------------------------------------------------------
(* The writer thread: _run, _collect, _commit. *)

Connect ==
  /\ tpc = "connect"
  /\ tpc' = "collect"
  /\ UNCHANGED <<shared, counts, batch, flushSeen, stopSeen, attempt, status, retried,
                 open, fresh, fpc, durable, history>>

\* _collect pops without releasing the lock until the batch is full, the queue
\* is empty, or, when not draining, the batch window elapses in between.
CollectTake ==
  /\ tpc = "collect"
  /\ queue # <<>>
  /\ Len(batch) < BatchRows
  /\ \E n \in 1 .. Len(queue) :
       /\ Len(batch) + n <= BatchRows
       /\ n < Len(queue) /\ Len(batch) + n < BatchRows => ~Draining
       /\ batch' = batch \o SubSeq(queue, 1, n)
       /\ queue' = SubSeq(queue, n + 1, Len(queue))
       /\ tpc' = IF Len(batch) + n = BatchRows \/ n < Len(queue) \/ Draining
                   THEN "decide" ELSE "collect"
  /\ UNCHANGED <<waiting, stopping, flushWanted, flushAck, counts, flushSeen, stopSeen,
                 attempt, status, retried, open, fresh, fpc, durable, history>>

\* The window of a non-empty batch elapses, or flush/stop cuts the wait short.
CollectClose ==
  /\ tpc = "collect"
  /\ batch # <<>>
  /\ Draining => queue = <<>>
  /\ tpc' = "decide"
  /\ UNCHANGED <<shared, counts, batch, flushSeen, stopSeen, attempt, status, retried,
                 open, fresh, fpc, durable, history>>

\* Nothing gathered: flush/stop has drained the queue, or an open bucket is due.
CollectIdle ==
  /\ tpc = "collect"
  /\ batch = <<>> /\ queue = <<>>
  /\ Draining \/ open # {}
  /\ tpc' = "decide"
  /\ UNCHANGED <<shared, counts, batch, flushSeen, stopSeen, attempt, status, retried,
                 open, fresh, fpc, durable, history>>

\* _run reads the flags under the lock, then calls _commit.
Decide ==
  /\ tpc = "decide"
  /\ stopSeen' = stopping
  /\ flushSeen' = flushWanted
  /\ tpc' = "commit"
  /\ UNCHANGED <<shared, counts, batch, attempt, status, retried, open, fresh, fpc, durable, history>>

Work     == open \cup Traces(Elems(batch))
CloseAll == flushSeen \/ stopSeen

\* The open traces whose bucket is in D; D holds every bucket when closing all.
Due(D)   == {i \in Work : i.bucket \in D}

BucketsKept(D) == Work                       \* seeded fault: closed but not removed

\* attempt_work after the due buckets were popped.
BucketsLeft(D) == Work \ Due(D)

\* Neither items nor open buckets: _commit returns without a transaction.  (With
\* an empty batch and open buckets _commit is reached only when one is due or all
\* are to be closed, so there is a transaction.)
CommitNothing ==
  /\ tpc = "commit"
  /\ batch = <<>> /\ open = {}
  /\ attempt' = 0
  /\ status' = "ok"
  /\ tpc' = "settle"
  /\ UNCHANGED <<shared, counts, batch, flushSeen, stopSeen, retried, open,
                 fresh, fpc, durable, history>>

\* COMMIT: rows and rollups become visible together; _open advances.
CommitOk ==
  /\ tpc = "commit"
  /\ \E D \in SUBSET Buckets :
       /\ \A b \in D, c \in Buckets : c < b => c \in D   \* the clock passes the oldest first
       /\ CloseAll => D = Buckets
       /\ batch # <<>> \/ Due(D) # {}
       /\ open' = BucketsLeft(D)
       /\ rolled' = rolled \cup Due(D)
  /\ done' = done \cup Elems(batch)
  /\ fresh' = Kept(Elems(batch))
  /\ batch' = <<>>
  /\ retried' = FALSE
  /\ attempt' = 0
  /\ status' = "ok"
  /\ tpc' = "publish"
  /\ UNCHANGED <<shared, counts, flushSeen, stopSeen, fpc, published, history>>

\* After COMMIT: the kept traces go to on_flush (writes_total only counts).
Publish ==
  /\ tpc = "publish"
  /\ published' = published \cup fresh
  /\ fresh' = {}
  /\ tpc' = "settle"
  /\ UNCHANGED <<shared, counts, batch, flushSeen, stopSeen, attempt,
                 status, retried, open, fpc, done, rolled, history>>

HasWork == batch # <<>> \/ open # {}
Fault   == faults < MaxFaults /\ faults' = faults + 1

\* SQLITE_BUSY with retries left: roll back, sleep, try again.
CommitBusyRetry ==
  /\ tpc = "commit" /\ HasWork /\ Fault
  /\ attempt < BusyRetries
  /\ attempt' = attempt + 1
  /\ UNCHANGED <<shared, counts, tpc, batch, flushSeen, stopSeen, status, retried, open,
                 fresh, fpc, durable, next, lost, arrived, mark, stopMark, crashed>>

RequeuedAtBack == queue \o batch             \* seeded fault: extend, not extendleft
RequeuedNever  == queue                      \* seeded fault: the batch is forgotten
Requeued       == batch \o queue

\* Retries exhausted for the first time: the batch goes back to the front.
CommitRequeue ==
  /\ tpc = "commit" /\ HasWork /\ Fault
  /\ attempt = BusyRetries
  /\ ~retried
  /\ queue' = Requeued
  /\ batch' = <<>>
  /\ retried' = TRUE
  /\ attempt' = 0
  /\ status' = "requeued"
  /\ tpc' = "settle"
  /\ UNCHANGED <<waiting, stopping, flushWanted, flushAck, counts, flushSeen, stopSeen,
                 open, fresh, fpc, durable, next, lost, arrived, mark, stopMark,
                 crashed>>

\* Busy again after a requeue, or any other sqlite3.Error: _drop_batch counts.
CommitDrop ==
  /\ tpc = "commit" /\ HasWork /\ Fault
  /\ obsDropped' = obsDropped + TraceCount(batch)
  /\ logsDropped' = logsDropped + LogCount(batch)
  /\ lost' = lost \cup Elems(batch)
  /\ batch' = <<>>
  /\ retried' = FALSE
  /\ attempt' = 0
  /\ status' = "dropped"
  /\ tpc' = "warn"
  /\ UNCHANGED <<shared, flushSeen, stopSeen, open, fresh, fpc, durable,
                 next, arrived, mark, stopMark, crashed>>

\* A line the writer thread itself logs comes back through the log sink;
\* enqueue_log raises when stopping and the sink's caller swallows it.
OwnLog ==
  IF stopping
    THEN UNCHANGED <<queue, next, logsDropped, arrived>>
    ELSE LogLine /\ arrived' = [arrived EXCEPT !["log"] = @ + 1]

\* The warning at the end of _drop_batch.
Warn ==
  /\ tpc = "warn"
  /\ OwnLog
  /\ tpc' = "settle"
  /\ UNCHANGED <<waiting, stopping, flushWanted, flushAck, obsDropped, batch,
                 flushSeen, stopSeen, attempt, status, retried, open, fresh, fpc, durable,
                 lost, mark, stopMark, faults, crashed>>

DrainedEarly == status # "requeued"          \* seeded fault: queue not looked at

\* The end of the loop body: acknowledge a flush, leave on stop, or go round.
Drained == status # "requeued" /\ queue = <<>>

Settle ==
  /\ tpc = "settle"
  /\ IF flushSeen /\ Drained THEN AckFlush ELSE UNCHANGED <<flushWanted, flushAck, fpc>>
  /\ tpc' = IF stopSeen /\ Drained THEN "exit" ELSE "collect"
  /\ flushSeen' = FALSE /\ stopSeen' = FALSE /\ status' = "ok"   \* locals of the loop body
  /\ UNCHANGED <<queue, waiting, stopping, counts, batch, attempt, retried, open, fresh, durable, history>>

\* Any other exception, in db.connect or in _commit, is logged and ends the loop.
Crash ==
  /\ CanCrash
  /\ tpc = "connect" \/ (tpc = "commit" /\ HasWork)
  /\ OwnLog
  /\ tpc' = "exit"
  /\ crashed' = TRUE
  /\ UNCHANGED <<waiting, stopping, flushWanted, flushAck, obsDropped, batch,
                 flushSeen, stopSeen, attempt, status, retried, open, fresh, fpc, durable,
                 lost, mark, stopMark, faults>>

\* The finally clause of _run: roll back, close, release every flusher.
Exit ==
  /\ tpc = "exit"
  /\ tpc' = "dead"
  /\ AckFlush
  /\ UNCHANGED <<queue, waiting, stopping, counts, batch, flushSeen, stopSeen, attempt,
                 status, retried, open, fresh, durable, history>>

WriterStep ==
  \/ Connect \/ CollectTake \/ CollectClose \/ CollectIdle \/ Decide
  \/ CommitNothing \/ CommitOk \/ Publish \/ CommitBusyRetry \/ CommitRequeue
  \/ CommitDrop \/ Warn \/ Settle \/ Crash \/ Exit

Next ==
  \/ \E p \in Producers, k \in TraceKinds, b \in Buckets :
        Put(p, k, b) \/ PutBlocked(p, k, b)
  \/ \E p \in Producers, b \in Buckets : PutEvicting(p, b)
  \/ \E p \in Producers : EnqueueLog(p)
  \/ \E w \in waiting : Admitted(w) \/ GiveUp(w)
  \/ Start \/ Stop
  \/ \E f \in Flushers : FlushCheck(f) \/ FlushRequest(f) \/ FlushWait(f)
                           \/ FlushReturn(f) \/ FlushTimeout(f)
  \/ WriterStep

Spec == Init /\ [][Next]_vars

\* The interpreter keeps running a started thread, and a timed wait ends: the
\* thread, its start, and the producers' and flushers' waits are fair.  Calls are
\* not, and neither are SQLite's refusals, crashes or the timeouts as such.
Fairness ==
  /\ WF_vars(WriterStep)
  /\ WF_vars(Start)
  /\ WF_vars(\E w \in waiting : Admitted(w) \/ GiveUp(w))
  /\ \A f \in Flushers : WF_vars(FlushRequest(f)) /\ WF_vars(FlushWait(f))
                            /\ WF_vars(FlushReturn(f))

FairSpec == Spec /\ Fairness

-----------------------------------------------------------------------------
(* Properties. *)

ThreadPlaces == {"new", "connect", "collect", "decide", "commit", "publish", "warn",
                 "settle", "exit", "dead"}

\* Every variable of the writer keeps its type.
TypeOK ==
  /\ queue \in Seq(Item) /\ batch \in Seq(Item)
  /\ waiting \subseteq Waiter
  /\ stopping \in BOOLEAN /\ flushWanted \in BOOLEAN /\ flushAck \in BOOLEAN
  /\ obsDropped \in Nat /\ logsDropped \in Nat
  /\ tpc \in ThreadPlaces
  /\ flushSeen \in BOOLEAN /\ stopSeen \in BOOLEAN
  /\ attempt \in Nat /\ retried \in BOOLEAN
  /\ status \in {"ok", "requeued", "dropped"}
  /\ open \subseteq Item /\ fresh \subseteq Item
  /\ fpc \in [Flushers -> {"idle", "checked", "asked", "waiting", "released"}]
  /\ done \subseteq Item /\ rolled \subseteq Item /\ published \subseteq Item
  /\ next \in Nat /\ lost \subseteq Item
  /\ arrived \in [Kinds -> Nat]
  /\ mark \in [Flushers -> Nat] /\ stopMark \in Nat
  /\ faults \in Nat /\ crashed \in BOOLEAN

\* Memory stays bounded although a requeue ignores queue_max: what the queue and
\* the thread hold together never exceeds queue_max plus one batch.
QueueBound == Len(queue) + Len(batch) <= QueueMax + BatchRows

\* A transaction never overtakes: everything still pending was appended after
\* everything committed, across evictions, requeues and dropped batches, and the
\* pending items are in arrival order (requeue puts the batch back in front).
NoOvertaking ==
  /\ \A d \in done, i \in Live : d.id < i.id
  /\ LET s == batch \o queue IN \A i, j \in DOMAIN s : i < j => s[i].id < s[j].id

\* The counters account for every arrival: a trace or log line that is neither
\* waiting, pending nor committed has been counted as dropped exactly once, a
\* sampled-out trace once more on arrival.
EveryDropCounted ==
  /\ obsDropped = arrived["sampled"] + arrived["kept"] + arrived["error"] + arrived["sampled"]
                    - Cardinality(waiting) - Cardinality(Traces(Live \cup done))
  /\ logsDropped = arrived["log"] - Cardinality((Live \cup done) \ Traces(Live \cup done))

\* The queue is typed, bounded and in order through evictions and requeues.
QueueSound == TypeOK /\ QueueBound /\ NoOvertaking

\* Rollups see every committed trace exactly once, however often a bucket is
\* closed, a batch retried, requeued or dropped: it is in the rows or in an open
\* bucket, never in both, and a trace that never committed is in neither.
RollupsExact ==
  /\ open \cap rolled = {}
  /\ open \cup rolled = {i \in done : i.kind # "log"}

\* Subscribers hear of exactly the kept traces that are durable, except those of
\* a commit whose callback has not run yet.
PublishedIsDurable ==
  /\ published \cap fresh = {}
  /\ published \cup fresh = {i \in done : i.kind \in {"kept", "error"}}

\* A commit is whole: rows, rollups and the published events speak of the same
\* traces, whatever was retried, requeued or dropped (_commit).
CommitWhole == RollupsExact /\ PublishedIsDurable

\* flush_now returns only when everything enqueued before the call is committed
\* or dropped and counted, whoever else flushes meanwhile, as long as the thread runs.
FlushPromise ==
  \A f \in Flushers :
    fpc[f] = "released" /\ tpc \notin {"exit", "dead"} =>
      \A i \in Live : i.id >= mark[f]

\* stop() drains: when the thread leaves its loop on its own, nothing that was
\* queued before stop() was called is left behind.
StopDrains ==
  tpc \in {"exit", "dead"} /\ ~crashed => \A i \in Live : i.id >= stopMark

\* Backpressure never takes an error or sampled-out trace or a log line off the
\* queue: outside a failed transaction, such an item leaves only by committing.
OnlyKeptEvicted ==
  [][\A i \in Live \ Live' :
        i \in done' \/ tpc = "commit" \/ i.kind = "kept"]_vars

\* A requested flush is acknowledged as long as the thread has not left its loop.
FlushAnswered == flushWanted ~> (~flushWanted \/ tpc = "dead")

\* stop() ends the thread.
StopTerminates == stopping ~> tpc = "dead"

\* No producer stays blocked for ever.
WaitersLeave == \A p \in Producers : ~Idle(p) ~> Idle(p)

\* Nobody waits for ever: not stop() for the thread, not a producer for room
\* (stop, _wait_for_room).
NobodyStuck == StopTerminates /\ WaitersLeave

\* The writer implements the counted log: pending is the batch and the queue,
\* requeueing, collecting and retrying are invisible.
Ids(S) == {i.id : i \in S}

Abstract == INSTANCE CountedLog WITH
  accepted <- next - 1,
  pending  <- Ids(Live),
  durable  <- Ids(done),
  lost     <- Ids(lost)

ImplementsCountedLog == Abstract!Spec

-----------------------------------------------------------------------------
(* What the documentation says, where the code does otherwise (README, last section). *)

\* writer.py: "a drop is never silent".  Once the thread has ended after stop(),
\* the queue holds nothing that would never be written and never be counted.
NothingStranded == tpc = "dead" /\ ~crashed => Live = {}
=============================================================================
