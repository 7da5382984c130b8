----------------------------- MODULE StreamHub -----------------------------
(***************************************************************************)
(* The live stream: StreamHub of api/stream.py, the response sink of       *)
(* app.py and the browser's client, web/src/lib/stream.ts.                 *)
(*                                                                         *)
(* Each connected stream runs in a thread of its own (a slot, reused), the *)
(* refresh timer in another.  A `with self._cond` section is one action.   *)
(* A trace event is its id and the number of the server process that gave  *)
(* it; ids start at 1 again after a restart.  Log and model events have    *)
(* neither id nor replay and are left out, as are pulses and pings on the  *)
(* wire.  Time is nondeterministic: a client's cadence, the age of the     *)
(* pulse frame, the timer and the browser's backoff may run out at any     *)
(* moment.                                                                 *)
(***************************************************************************)
EXTENDS Integers, Sequences, FiniteSets, Lists

CONSTANTS Browsers,
          Slots,        \* bound: stream threads alive at once
          Timers,       \* bound: refresh timer threads alive at once
          NoBrowser, NoTimer,
          MaxClients,   \* max_clients
          Replay,       \* replay: length of the ring
          Room,         \* maxsize of a response's queue
          MaxTraces,    \* bound: traces published
          MaxFaults,    \* bound: broken and stalled connections, unmounts and restarts
          CanStop,      \* whether stop() may be called
          CanStall      \* whether a browser may stop reading

ASSUME StreamAssumption ==
  /\ NoBrowser \notin Browsers /\ NoTimer \notin Timers /\ Slots \cap Timers = {}
  /\ IsFiniteSet(Slots)
  /\ {MaxClients, Replay, Room} \subseteq Nat \ {0}
  /\ MaxTraces \in Nat /\ MaxFaults \in Nat /\ {CanStop, CanStall} \subseteq BOOLEAN

VARIABLES
  ring, nextId, clients, queue, stopping,   \* the hub's fields
  computing, timer,                         \* its pulse claim and registered timer
  pc,        \* where each stream thread and each timer thread is
  batch,     \* the events a stream thread is about to write
  sink,      \* the events written and not yet seen by the browser
  chunks,    \* how many writes the response's queue holds
  stalled,   \* connected streams whose browser does not read
  link,      \* the connection: "up", "lost" by the browser, "drain" when the stream has
             \* ended and the response still holds events, "closed"
  owner,     \* the browser a stream was opened for
  place,     \* the browser: "off", "connecting", "open" or "backoff"
  lastId, attempts, polling,                \* its refs and its poll flag
  boot, published, faults,           \* the server process; counters for the bounds
  lastBoot,  \* for the properties: the process that gave the browser its last trace
  floor      \* for the properties: the oldest id in the ring when a stream registered

hub    == <<ring, nextId, clients, queue, stopping>>
pulse  == <<computing, timer>>
flow   == <<chunks, stalled>>
conn   == <<batch, sink, flow, link, owner, floor>>
page   == <<place, lastId, attempts, polling, lastBoot>>
counts == <<boot, published, faults>>
vars   == <<hub, pulse, pc, conn, page, counts>>

Threads  == Slots \cup Timers
Go(t, p) == pc' = [pc EXCEPT ![t] = p]

Init ==
  /\ ring = <<>> /\ nextId = 1 /\ clients = {} /\ queue = [s \in Slots |-> <<>>] /\ stopping = FALSE
  /\ computing = FALSE /\ timer = NoTimer
  /\ pc = [t \in Threads |-> "off"]
  /\ batch = [s \in Slots |-> <<>>] /\ sink = [s \in Slots |-> <<>>]
  /\ chunks = [s \in Slots |-> 0] /\ stalled = {}
  /\ link = [s \in Slots |-> "closed"] /\ owner = [s \in Slots |-> NoBrowser]
  /\ floor = [s \in Slots |-> 1]
  /\ place = [b \in Browsers |-> "off"] /\ lastId = [b \in Browsers |-> 0]
  /\ attempts = [b \in Browsers |-> 0] /\ polling = [b \in Browsers |-> FALSE]
  /\ lastBoot = [b \in Browsers |-> 0]
  /\ boot = 1 /\ published = 0 /\ faults = 0

-----------------------------------------------------------------------------
(* Publishers. *)

FanOut(e) == queue' = [s \in Slots |-> IF s \in clients THEN Append(queue[s], e) ELSE queue[s]]

\* deque(maxlen=replay).
Remember(e) == ring' = IF Len(ring) < Replay THEN Append(ring, e) ELSE Append(Tail(ring), e)

publish_trace ==
  /\ published < MaxTraces /\ published' = published + 1
  /\ LET e == [boot |-> boot, id |-> nextId] IN Remember(e) /\ FanOut(e)
  /\ nextId' = nextId + 1
  /\ UNCHANGED <<clients, stopping, pulse, pc, conn, page, boot, faults>>

-----------------------------------------------------------------------------
(* A connection, from the request to the first write. *)

Events      == [boot : Nat, id : Nat]
Later(last) == {e \in Events : e.id > last}

\* Seeded fault: the snapshot taken before the lock, without the newest event.
ReplayedEarly(last) == Only(IF ring = <<>> THEN ring ELSE SubSeq(ring, 1, Len(ring) - 1), Later(last))
ReplayedAgain(last) == Only(ring, {e \in Events : e.id >= last})  \* seeded fault: off by one
Replayed(last)      == Only(ring, Later(last))

\* The streams the browser is still reading.
Open(b) == {s \in Slots : owner[s] = b /\ link[s] \in {"up", "drain"}}

\* Registration and snapshot in one critical section.
_handle(b, s) ==
  /\ place[b] = "connecting" /\ Open(b) = {}
  /\ pc[s] = "off" /\ link[s] = "closed" /\ Cardinality(clients) < MaxClients
  /\ clients' = clients \cup {s}
  /\ queue' = [queue EXCEPT ![s] = <<>>]
  /\ batch' = [batch EXCEPT ![s] = IF lastId[b] = 0 THEN <<>> ELSE Replayed(lastId[b])]
  /\ floor' = [floor EXCEPT ![s] = IF ring = <<>> THEN nextId ELSE ring[1].id]
  /\ link' = [link EXCEPT ![s] = "up"] /\ owner' = [owner EXCEPT ![s] = b]
  /\ chunks' = [chunks EXCEPT ![s] = 0]
  /\ Go(s, "head")
  /\ UNCHANGED <<ring, nextId, stopping, pulse, sink, stalled, page, counts>>

\* One write is one chunk, also without events: hello, a pulse or a ping.  It waits until
\* the queue has room; to a connection the server knows to be closed it raises.
Written(s) ==
  /\ chunks[s] < Room
  /\ chunks' = [chunks EXCEPT ![s] = @ + 1]
  /\ sink' = [sink EXCEPT ![s] = IF link[s] = "up" THEN sink[s] \o batch[s] ELSE sink[s]]

WriteHead(s) ==
  /\ pc[s] = "head" /\ link[s] # "closed"
  /\ Written(s)
  /\ batch' = [batch EXCEPT ![s] = <<>>]
  /\ Go(s, "tick")
  /\ UNCHANGED <<hub, pulse, stalled, link, owner, floor, page, counts>>

WriteBatch(s) ==
  /\ pc[s] = "write" /\ link[s] # "closed"
  /\ Written(s)
  /\ batch' = [batch EXCEPT ![s] = <<>>]
  /\ Go(s, "tick")
  /\ UNCHANGED <<hub, pulse, stalled, link, owner, floor, page, counts>>

\* generate() takes a chunk from the queue and sends it, unless the browser does not read
\* and the connection takes no more.
read(s) ==
  /\ chunks[s] > 0 /\ link[s] # "closed" /\ s \notin stalled
  /\ chunks' = [chunks EXCEPT ![s] = @ - 1]
  /\ UNCHANGED <<hub, pulse, pc, batch, sink, stalled, link, owner, floor, page, counts>>

\* The finally of stream(): the client leaves the registry.
Unregister(s) ==
  /\ clients' = clients \ {s}
  /\ queue' = [queue EXCEPT ![s] = <<>>]
  /\ batch' = [batch EXCEPT ![s] = <<>>]
  /\ link' = [link EXCEPT ![s] = IF @ = "up" THEN "drain" ELSE "closed"]
  /\ Go(s, "off")
  /\ UNCHANGED <<ring, nextId, stopping, sink, flow, owner, floor, page, counts>>

WriteFails(s) ==
  /\ pc[s] \in {"head", "write"} /\ link[s] = "closed"
  /\ Unregister(s)
  /\ UNCHANGED pulse

-----------------------------------------------------------------------------
(* _tick_batch and the shared pulse. *)

SeesStopWaiting == {"await"}                            \* seeded fault: not looked at per tick
SeesStop        == {"tick", "await"}

Stopped(s) ==
  /\ pc[s] \in SeesStop /\ stopping
  /\ Unregister(s)
  /\ UNCHANGED pulse

Drain(s) ==
  /\ pc[s] = "tick" /\ ~stopping
  /\ batch' = [batch EXCEPT ![s] = queue[s]]
  /\ queue' = [queue EXCEPT ![s] = <<>>]
  /\ UNCHANGED <<ring, nextId, clients, stopping, sink, flow, link, owner, floor, page, counts>>

\* Only the ping is due, or the frame is younger than the tick.
TickFresh(s) ==
  /\ Drain(s) /\ Go(s, "write")
  /\ UNCHANGED pulse

ClaimUnchecked(s) == TRUE                               \* seeded fault: no look at the claim
ClaimFree(s)      == ~computing

TickClaims(s) ==
  /\ Drain(s) /\ ClaimFree(s)
  /\ computing' = TRUE
  /\ Go(s, "compute")
  /\ UNCHANGED timer

TickAwaits(s) ==
  /\ Drain(s) /\ computing
  /\ Go(s, "await")
  /\ UNCHANGED pulse

Awaited(s) ==
  /\ pc[s] = "await" /\ ~computing /\ ~stopping
  /\ Go(s, "write")
  /\ UNCHANGED <<hub, pulse, conn, page, counts>>

ClaimKept == UNCHANGED computing                        \* seeded fault: the claim is not released
ClaimEnds == computing' = FALSE

\* The provider's failure is caught: a frame is stored either way.  How old it is
\* when a client crosses its cadence is left open.
_compute_pulse(t) ==
  /\ pc[t] = "compute"
  /\ ClaimEnds
  /\ Go(t, "arm")
  /\ UNCHANGED <<hub, timer, conn, page, counts>>

Arms == ~stopping /\ clients # {} /\ timer = NoTimer

_arm_prefetch(t) ==
  /\ pc[t] = "arm"
  /\ LET next == IF t \in Slots THEN "write" ELSE "off"
     IN  \/ /\ Arms
            /\ \E n \in Timers :
                 /\ pc[n] = "off" \/ n = t
                 /\ timer' = n
                 /\ pc' = [pc EXCEPT ![t] = next, ![n] = "armed"]
         \/ ~Arms /\ Go(t, next) /\ UNCHANGED timer
  /\ UNCHANGED <<hub, computing, conn, page, counts>>

\* The timer runs out: superseded, not needed, or it claims the computation.
_prefetch(t) ==
  /\ pc[t] = "armed"
  /\ timer' = IF timer = t THEN NoTimer ELSE timer
  /\ IF timer = t /\ ~stopping /\ clients # {} /\ ~computing
       THEN computing' = TRUE /\ Go(t, "compute")
       ELSE UNCHANGED computing /\ Go(t, "off")
  /\ UNCHANGED <<hub, conn, page, counts>>

stop ==
  /\ CanStop /\ ~stopping
  /\ stopping' = TRUE
  /\ timer' = NoTimer
  /\ UNCHANGED <<ring, nextId, clients, queue, computing, pc, conn, page, counts>>

-----------------------------------------------------------------------------
(* The browser. *)

Connect(b) ==
  /\ place[b] = "backoff"
  /\ place' = [place EXCEPT ![b] = "connecting"]
  /\ UNCHANGED <<hub, pulse, pc, conn, lastId, attempts, polling, lastBoot, counts>>

Mount(b) ==
  /\ place[b] = "off"
  /\ place' = [place EXCEPT ![b] = "connecting"]
  /\ UNCHANGED <<hub, pulse, pc, conn, lastId, attempts, polling, lastBoot, counts>>

\* EventSource.close(): what the response still holds reaches nobody.
Hangup(b) ==
  /\ link' = [s \in Slots |-> IF s \notin Open(b) THEN link[s]
                              ELSE IF link[s] = "up" THEN "lost" ELSE "closed"]
  /\ sink' = [s \in Slots |-> IF s \in Open(b) THEN <<>> ELSE sink[s]]
  /\ stalled' = stalled \ Open(b)

\* The effect's cleanup; the refs survive.
Unmount(b) ==
  /\ place[b] # "off" /\ faults < MaxFaults /\ faults' = faults + 1
  /\ place' = [place EXCEPT ![b] = "off"]
  /\ polling' = [polling EXCEPT ![b] = FALSE]
  /\ Hangup(b)
  /\ UNCHANGED <<hub, pulse, pc, batch, chunks, owner, floor, lastId, attempts, lastBoot, boot, published>>

onopen(b) ==
  /\ place[b] = "connecting" /\ \E s \in Open(b) : pc[s] # "head"
  /\ place' = [place EXCEPT ![b] = "open"]
  /\ attempts' = [attempts EXCEPT ![b] = 0]
  /\ polling' = [polling EXCEPT ![b] = FALSE]
  /\ UNCHANGED <<hub, pulse, pc, conn, lastId, lastBoot, counts>>

\* FALLBACK_AFTER_FAILURES = 2; more failures change nothing.
onerror(b) ==
  LET n == IF attempts[b] < 2 THEN attempts[b] + 1 ELSE 2
  IN  /\ place' = [place EXCEPT ![b] = "backoff"]
      /\ attempts' = [attempts EXCEPT ![b] = n]
      /\ polling' = [polling EXCEPT ![b] = @ \/ n >= 2]
      /\ UNCHANGED <<lastId, lastBoot>>

\* The network breaks the connection or swallows the request.
Break(b) ==
  /\ place[b] \in {"connecting", "open"} /\ faults < MaxFaults /\ faults' = faults + 1
  /\ Hangup(b) /\ onerror(b)
  /\ UNCHANGED <<hub, pulse, pc, batch, chunks, owner, floor, boot, published>>

\* The browser stays connected and does not read, or reads again.
Stall(b) ==
  /\ CanStall /\ place[b] = "open" /\ ~(Open(b) \subseteq stalled)
  /\ faults < MaxFaults /\ faults' = faults + 1
  /\ stalled' = stalled \cup Open(b)
  /\ UNCHANGED <<hub, pulse, pc, batch, sink, chunks, link, owner, floor, page, boot, published>>

Resume(b) ==
  /\ Open(b) \cap stalled # {}
  /\ stalled' = stalled \ Open(b)
  /\ UNCHANGED <<hub, pulse, pc, batch, sink, chunks, link, owner, floor, page, counts>>

\* 503 sse_unavailable.
Refused(b) ==
  /\ place[b] = "connecting" /\ Open(b) = {}
  /\ Cardinality(clients) >= MaxClients
  /\ onerror(b)
  /\ UNCHANGED <<hub, pulse, pc, conn, counts>>

\* The response ended.  read() may see `done` before the last chunk it was given.
Ended(b) ==
  /\ place[b] \in {"connecting", "open"} /\ \A s \in Open(b) : link[s] = "drain" /\ chunks[s] <= 1 /\ s \notin stalled
  /\ place[b] = "connecting" => Open(b) # {}
  /\ Hangup(b) /\ onerror(b)
  /\ UNCHANGED <<hub, pulse, pc, batch, chunks, owner, floor, counts>>

Receive(b, s) ==
  /\ place[b] = "open" /\ s \in Open(b) \ stalled /\ sink[s] # <<>>
  /\ LET e == Head(sink[s])
     IN  /\ lastId' = [lastId EXCEPT ![b] = e.id]
         /\ lastBoot' = [lastBoot EXCEPT ![b] = e.boot]
  /\ sink' = [sink EXCEPT ![s] = Tail(@)]
  /\ UNCHANGED <<hub, pulse, pc, batch, flow, link, owner, floor, place, attempts, polling, counts>>

\* The server notices that the browser is gone: close() of the sink empties the queue.
Close(s) ==
  /\ link[s] = "lost"
  /\ link' = [link EXCEPT ![s] = "closed"]
  /\ chunks' = [chunks EXCEPT ![s] = 0]
  /\ UNCHANGED <<hub, pulse, sink, stalled, owner, floor, page, counts>>

Notice(s) == Close(s) /\ UNCHANGED <<pc, batch>>

\* A write that waited for room may still get its chunk into the emptied queue.
NoticeFrees(s) ==
  /\ pc[s] = "write" /\ chunks[s] = Room
  /\ Close(s)
  /\ batch' = [batch EXCEPT ![s] = <<>>]
  /\ Go(s, "tick")

\* A new server process: every stream is gone and ids start again.
Restart ==
  /\ faults < MaxFaults /\ faults' = faults + 1
  /\ boot' = boot + 1
  /\ ring' = <<>> /\ nextId' = 1 /\ clients' = {} /\ queue' = [s \in Slots |-> <<>>] /\ stopping' = FALSE
  /\ computing' = FALSE /\ timer' = NoTimer
  /\ pc' = [t \in Threads |-> "off"]
  /\ batch' = [s \in Slots |-> <<>>] /\ sink' = [s \in Slots |-> <<>>]
  /\ chunks' = [s \in Slots |-> 0] /\ stalled' = {}
  /\ link' = [s \in Slots |-> "closed"]
  /\ UNCHANGED <<owner, floor, page, published>>

-----------------------------------------------------------------------------
StreamStep(s) ==
  \/ WriteHead(s) \/ WriteBatch(s) \/ WriteFails(s) \/ Stopped(s)
  \/ TickFresh(s) \/ TickClaims(s) \/ TickAwaits(s) \/ Awaited(s)
  \/ _compute_pulse(s) \/ _arm_prefetch(s)

TimerStep(t) == _prefetch(t) \/ _compute_pulse(t) \/ _arm_prefetch(t)

BrowserStep(b) ==
  \/ Connect(b) \/ onopen(b) \/ Refused(b) \/ Ended(b)
  \/ \E s \in Slots : _handle(b, s)

Next ==
  \/ publish_trace \/ stop \/ Restart
  \/ \E s \in Slots : StreamStep(s) \/ read(s) \/ Notice(s) \/ NoticeFrees(s)
  \/ \E t \in Timers : TimerStep(t)
  \/ \E b \in Browsers : BrowserStep(b) \/ Mount(b) \/ Unmount(b) \/ Break(b) \/ Stall(b) \/ Resume(b)
  \/ \E b \in Browsers, s \in Slots : Receive(b, s)

\* notify_all wakes a waiter long before the timer, half a tick later, claims again: SF.
\* Arming never waits in the code; only the bound on timer threads disables it: SF.
Fairness ==
  /\ \A s \in Slots : WF_vars(StreamStep(s)) /\ WF_vars(read(s)) /\ WF_vars(Notice(s))
  /\ \A s \in Slots : SF_vars(Awaited(s)) /\ SF_vars(_arm_prefetch(s))
  /\ \A t \in Timers : WF_vars(TimerStep(t))
  /\ \A b \in Browsers : WF_vars(BrowserStep(b)) /\ \A s \in Slots : WF_vars(Receive(b, s))

Spec     == Init /\ [][Next]_vars
FairSpec == Spec /\ Fairness

-----------------------------------------------------------------------------
(* Properties. *)

StreamPlaces == {"off", "head", "tick", "await", "compute", "arm", "write"}
TimerPlaces  == {"off", "armed", "compute", "arm"}

\* Every variable keeps its type; the ring holds at most `replay` events.
TypeOK ==
  /\ ring \in Seq(Events) /\ Len(ring) <= Replay /\ nextId \in Nat \ {0} /\ clients \subseteq Slots
  /\ queue \in [Slots -> Seq(Events)] /\ stopping \in BOOLEAN
  /\ computing \in BOOLEAN /\ timer \in Timers \cup {NoTimer}
  /\ pc \in [Threads -> StreamPlaces \cup TimerPlaces]
  /\ \A s \in Slots : pc[s] \in StreamPlaces
  /\ \A t \in Timers : pc[t] \in TimerPlaces
  /\ batch \in [Slots -> Seq(Events)] /\ sink \in [Slots -> Seq(Events)]
  /\ chunks \in [Slots -> 0 .. Room] /\ stalled \subseteq Slots
  /\ link \in [Slots -> {"up", "lost", "drain", "closed"}] /\ owner \in [Slots -> Browsers \cup {NoBrowser}]
  /\ floor \in [Slots -> Nat]
  /\ place \in [Browsers -> {"off", "connecting", "open", "backoff"}]
  /\ lastId \in [Browsers -> Nat] /\ attempts \in [Browsers -> 0 .. 2]
  /\ polling \in [Browsers -> BOOLEAN] /\ lastBoot \in [Browsers -> Nat]
  /\ boot \in Nat /\ published \in Nat /\ faults \in Nat

\* At most one provider call at a time, by a stream or by the refresh timer, and a
\* claim always has a computation that will release it.
OneProvider ==
  /\ \A t, u \in Threads : pc[t] = "compute" /\ pc[u] = "compute" => t = u
  /\ computing <=> \E t \in Threads : pc[t] = "compute"

\* What the hub keeps whoever connects, publishes or stops: the types, the bound of the
\* ring, and one provider call at a time (publish_trace, _tick_batch, _prefetch).
HubSound == TypeOK /\ OneProvider

\* A browser is given every trace at most once and in order, through reconnects, replays,
\* slow streams and restarts of the server.
InOrderOnce ==
  [][\A b \in Browsers, s \in Slots : Receive(b, s) =>
       LET e == Head(sink[s])
       IN  e.boot > lastBoot[b] \/ (e.boot = lastBoot[b] /\ e.id > lastId[b])]_vars

\* And without a gap: from one trace of a server process to the next of the same process
\* nothing is skipped, unless the ring had already dropped it when the stream registered.
NoGap ==
  [][\A b \in Browsers, s \in Slots : Receive(b, s) =>
       LET e == Head(sink[s])
       IN  e.boot = lastBoot[b] => e.id <= lastId[b] + 1 \/ e.id = floor[s]]_vars

\* A browser that is down comes back, or the server is stopping.
Recovers == \A b \in Browsers : place[b] = "backoff" ~> place[b] \in {"open", "off"} \/ stopping

\* stop() ends every stream, also one that waits for another's pulse or for room in its
\* queue, but one whose browser stays connected and never reads again: write() waits for
\* that browser and does not look at the hub's flag.
Held(s)  == pc[s] = "write" /\ chunks[s] = Room /\ s \in stalled
StopEnds == \A s \in Slots :
              stopping /\ s \in clients ~> s \notin clients \/ ~stopping \/ []Held(s)
=============================================================================
