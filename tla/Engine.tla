------------------------------- MODULE Engine -------------------------------
(***************************************************************************)
(* RealAdapter of layawatch/engine/adapter.py: first-use construction of   *)
(* the router, predict with its queue and forward pass, admin load and     *)
(* unload, and the startup worker that prefetches and warms checkpoints.   *)
(*                                                                         *)
(* Request threads (Clients), admin threads (Admins) and worker threads    *)
(* (Workers) interleave at every read or write of shared state.  Data are  *)
(* abstracted: a request is the checkpoint it is routed to; load average   *)
(* and MemAvailable are nondeterministic; laya.Router is external, a set   *)
(* of resident checkpoints with a cap beyond which it evicts.              *)
(***************************************************************************)
EXTENDS Integers, Sequences, FiniteSets

CONSTANTS Clients,      \* threads that call predict and route
          Admins,       \* threads that call load and unload
          Workers,      \* bound: startup workers alive at once
          Models,       \* the router's catalog
          Names,        \* the configured checkpoints, in LAYA_MODELS order
          EnglishOnly,  \* LAYA_ENGLISH_ONLY
          Multilingual, \* the checkpoint an English-only deployment removes
          NoOne,        \* the holder of a free lock
          MaxCalls      \* bound: predict, route, load and unload calls

Threads == Clients \cup Admins \cup Workers
Tail1   == 2 .. Len(Names)

ASSUME EngineAssumption ==
  /\ Names \in Seq(Models) /\ Len(Names) > 0
  /\ EnglishOnly \in BOOLEAN
  /\ EnglishOnly => Len(Names) = 1 /\ Names[1] # Multilingual
  /\ NoOne \notin Threads
  /\ Clients \cap Admins = {} /\ Clients \cap Workers = {} /\ Admins \cap Workers = {}
  /\ IsFiniteSet(Models) /\ IsFiniteSet(Threads)
  /\ MaxCalls \in Nat

VARIABLES
  built,        \* _router is not None
  queue,        \* _prefetch_queue
  warmed,       \* _warmed
  inflight,     \* _inflight
  ensureBy,     \* holder of _ensure_lock
  slotBy,       \* holder of _lifecycle_lock
  predictBy,    \* holder of _predict_lock
  workerBy,     \* holder of _worker_lock
  loaded, cap,  \* the router: resident checkpoints and max_loaded
  pc,           \* where each thread is
  model,        \* the checkpoint a request or the worker is about
  op, asked, todo, \* the admin's call, its names, and those not processed yet
  calls         \* calls made so far

locks  == <<ensureBy, slotBy, predictBy, workerBy>>
router == <<built, loaded, cap>>
locals == <<model, op, asked, todo>>
vars   == <<router, queue, warmed, inflight, locks, pc, locals, calls>>

Go(t, place) == pc' = [pc EXCEPT ![t] = place]
Rest(t)      == IF t \in Workers THEN "off" ELSE "idle"
Staged       == {queue[i] : i \in DOMAIN queue}

\* router.models; _ensure pops multilingual from an English-only router.
Catalog == IF EnglishOnly THEN Models \ {Multilingual} ELSE Models

\* The startup worker is running when the constructor returns.
Init ==
  /\ built = FALSE /\ queue = <<>> /\ warmed = {} /\ inflight = 0
  /\ ensureBy = NoOne /\ slotBy = NoOne /\ predictBy = NoOne /\ workerBy = NoOne
  /\ loaded = {} /\ cap = 1
  /\ \E w \in Workers : pc = [t \in Threads |-> IF t = w THEN "start" ELSE Rest(t)]
  /\ model = [t \in Threads |-> Names[1]]
  /\ op = [t \in Admins |-> "load"]
  /\ asked = [t \in Admins |-> {}]
  /\ todo = [t \in Admins \cup Workers |-> {}]
  /\ calls = 0

-----------------------------------------------------------------------------
(* laya.Router, as the adapter uses it. *)

\* Makes m resident, evicting another checkpoint when the cap is reached.
RouterLoad(m) ==
  /\ m \in Catalog
  /\ UNCHANGED <<built, cap>>
  /\ \/ m \in loaded /\ UNCHANGED loaded
     \/ m \notin loaded /\ Cardinality(loaded) < cap /\ loaded' = loaded \cup {m}
     \/ /\ m \notin loaded /\ Cardinality(loaded) >= cap
        /\ \E v \in loaded : loaded' = (loaded \ {v}) \cup {m}

-----------------------------------------------------------------------------
(* First-use construction: _ensure, called by every kind of thread. *)

AfterEnsure(t) ==
  CASE t \in Clients -> "kick"
    [] t \in Admins  -> IF op[t] = "load" THEN "check" ELSE "unload"
    [] t \in Workers -> "warm"

\* An exception leaves the call; `finally` clauses release what the thread holds.
Raise(t) ==
  /\ Go(t, Rest(t))
  /\ slotBy' = IF slotBy = t THEN NoOne ELSE slotBy
  /\ workerBy' = IF workerBy = t THEN NoOne ELSE workerBy

\* The unlocked test of _router.
EnsureFast(t) ==
  /\ pc[t] = "ensure" /\ built
  /\ Go(t, AfterEnsure(t))
  /\ UNCHANGED <<router, queue, warmed, inflight, locks, locals, calls>>

EnsureLock(t) ==
  /\ pc[t] = "ensure" /\ ensureBy = NoOne
  /\ ensureBy' = t
  /\ Go(t, "building")
  /\ UNCHANGED <<router, queue, warmed, inflight, slotBy, predictBy, workerBy, locals, calls>>

\* Somebody else built it while this thread waited for the lock.
EnsureFound(t) ==
  /\ pc[t] = "building" /\ built
  /\ ensureBy' = NoOne
  /\ Go(t, AfterEnsure(t))
  /\ UNCHANGED <<router, queue, warmed, inflight, slotBy, predictBy, workerBy, locals, calls>>

CapDefault == 1                              \* seeded fault: max_loaded not raised
CapRaised  == Len(Names)

EnsureBuild(t) ==
  /\ pc[t] = "building" /\ ~built
  /\ built' = TRUE
  /\ loaded' = {Names[1]}
  /\ cap' = CapRaised
  /\ queue' = queue \o Tail(Names)
  /\ ensureBy' = NoOne
  /\ Go(t, AfterEnsure(t))
  /\ UNCHANGED <<warmed, inflight, slotBy, predictBy, workerBy, locals, calls>>

StageEarly == queue' = queue \o Tail(Names)  \* seeded fault: staged before the load
StageLate  == UNCHANGED queue

\* Import, construction or the first preload fails: nothing is kept.
EnsureFail(t) ==
  /\ pc[t] = "building" /\ ~built
  /\ StageLate
  /\ ensureBy' = NoOne
  /\ Raise(t)
  /\ UNCHANGED <<router, warmed, inflight, predictBy, locals, calls>>

-----------------------------------------------------------------------------
(* predict and route. *)

Call(t) ==
  /\ pc[t] = "idle" /\ calls < MaxCalls
  /\ calls' = calls + 1
  /\ Go(t, "ensure")

PredictCall(t) ==
  /\ Call(t)
  /\ UNCHANGED <<router, queue, warmed, inflight, locks, locals>>

\* route() only decides; so does a predict that is refused.
Answer(t) ==
  /\ pc[t] \in {"kick", "decide"}
  /\ Go(t, "idle")
  /\ UNCHANGED <<router, queue, warmed, inflight, locks, locals, calls>>

\* _kick_worker: three unlocked reads, then the gates and maybe a new thread.
KickQueue(t) ==
  /\ pc[t] = "kick"
  /\ Go(t, IF queue = <<>> THEN "decide" ELSE "kicklock")
  /\ UNCHANGED <<router, queue, warmed, inflight, locks, locals, calls>>

KickLock(t) ==
  /\ pc[t] = "kicklock"
  /\ Go(t, IF workerBy # NoOne THEN "decide" ELSE "kickhead")
  /\ UNCHANGED <<router, queue, warmed, inflight, locks, locals, calls>>

KickGated(t) ==
  /\ pc[t] = "kickhead" /\ queue # <<>>
  /\ Go(t, "decide")
  /\ UNCHANGED <<router, queue, warmed, inflight, locks, locals, calls>>

KickSpawn(t, w) ==
  /\ pc[t] = "kickhead" /\ queue # <<>>
  /\ pc[w] = "off"
  /\ pc' = [pc EXCEPT ![t] = "decide", ![w] = "start"]
  /\ UNCHANGED <<router, queue, warmed, inflight, locks, locals, calls>>

\* _prefetch_queue[0] of an empty deque: IndexError out of predict.
KickFails(t) ==
  /\ pc[t] = "kickhead" /\ queue = <<>>
  /\ Go(t, "idle")
  /\ UNCHANGED <<router, queue, warmed, inflight, locks, locals, calls>>

Decide(t, m) ==
  /\ pc[t] = "decide"
  /\ model' = [model EXCEPT ![t] = m]
  /\ inflight' = inflight + 1
  /\ Go(t, "queued")
  /\ UNCHANGED <<router, queue, warmed, locks, op, asked, todo, calls>>

PredictLock(t) ==
  /\ pc[t] = "queued" /\ predictBy = NoOne
  /\ predictBy' = t
  /\ Go(t, "resident")
  /\ UNCHANGED <<router, queue, warmed, inflight, ensureBy, slotBy, workerBy, locals, calls>>

ResidentAgent(t) ==
  /\ pc[t] = "resident"
  /\ RouterLoad(model[t])
  /\ Go(t, "forward")
  /\ UNCHANGED <<queue, warmed, inflight, locks, locals, calls>>

PredictKept  == UNCHANGED predictBy          \* seeded fault: not released
PredictFreed == predictBy' = NoOne

\* The forward pass returned or raised, or the checkpoint could not be loaded:
\* either way the lock is released and then the in-flight count goes down.
PredictUnlock(t) ==
  /\ pc[t] \in {"resident", "forward"}
  /\ PredictFreed
  /\ Go(t, "leave")
  /\ UNCHANGED <<router, queue, warmed, inflight, ensureBy, slotBy, workerBy, locals, calls>>

LeaveCount == inflight' = inflight - 1

Leave(t) ==
  /\ pc[t] = "leave"
  /\ LeaveCount
  /\ Go(t, "idle")
  /\ UNCHANGED <<router, queue, warmed, locks, locals, calls>>

-----------------------------------------------------------------------------
(* Admin load and unload.  A taken slot raises (409) and changes nothing. *)

AdminCall(t, o, ns) ==
  /\ slotBy = NoOne
  /\ Call(t)
  /\ slotBy' = t
  /\ op' = [op EXCEPT ![t] = o]
  /\ asked' = [asked EXCEPT ![t] = ns]
  /\ todo' = [todo EXCEPT ![t] = ns]
  /\ UNCHANGED <<router, queue, warmed, inflight, ensureBy, predictBy, workerBy, model>>

SlotFreed(t) == slotBy' = NoOne

\* Unknown names, too little memory for the ones not resident, or a failed build.
LoadRefused(t) ==
  /\ \/ pc[t] = "check" /\ ~(asked[t] \subseteq loaded)
     \/ pc[t] = "preload" /\ ~(todo[t] \subseteq loaded)
  /\ SlotFreed(t)
  /\ Go(t, "idle")
  /\ UNCHANGED <<router, queue, warmed, inflight, ensureBy, predictBy, workerBy, locals, calls>>

\* Router.preload raises the cap to fit its arguments, then loads one by one.
LoadChecked(t) ==
  /\ pc[t] = "check" /\ asked[t] \subseteq Catalog
  /\ cap' = IF cap < Cardinality(asked[t]) THEN Cardinality(asked[t]) ELSE cap
  /\ Go(t, "preload")
  /\ UNCHANGED <<built, loaded, queue, warmed, inflight, locks, locals, calls>>

LoadOne(t, m) ==
  /\ pc[t] = "preload" /\ m \in todo[t]
  /\ RouterLoad(m)
  /\ todo' = [todo EXCEPT ![t] = @ \ {m}]
  /\ UNCHANGED <<queue, warmed, inflight, locks, pc, model, op, asked, calls>>

UnloadOne(t, m) ==
  /\ pc[t] = "unload" /\ m \in todo[t]
  /\ loaded' = loaded \ {m}
  /\ todo' = [todo EXCEPT ![t] = @ \ {m}]
  /\ UNCHANGED <<built, cap, queue, warmed, inflight, locks, pc, model, op, asked, calls>>

UnloadCancels(t) ==
  /\ pc[t] = "unload" /\ todo[t] = {}
  /\ todo' = [todo EXCEPT ![t] = asked[t]]
  /\ Go(t, "cancel")
  /\ UNCHANGED <<router, queue, warmed, inflight, locks, model, op, asked, calls>>

\* deque.remove: the first occurrence, if any.
Removed(q, m) ==
  IF \E i \in DOMAIN q : q[i] = m
    THEN LET k == CHOOSE i \in DOMAIN q : q[i] = m /\ \A j \in 1 .. (i - 1) : q[j] # m
         IN  [i \in 1 .. (Len(q) - 1) |-> IF i < k THEN q[i] ELSE q[i + 1]]
    ELSE q

CancelOne(t, m) ==
  /\ pc[t] = "cancel" /\ m \in todo[t]
  /\ queue' = Removed(queue, m)
  /\ todo' = [todo EXCEPT ![t] = @ \ {m}]
  /\ UNCHANGED <<router, warmed, inflight, locks, pc, model, op, asked, calls>>

AdminReturn(t) ==
  /\ pc[t] \in {"preload", "cancel"} /\ todo[t] = {}
  /\ slotBy' = NoOne
  /\ Go(t, "idle")
  /\ UNCHANGED <<router, queue, warmed, inflight, ensureBy, predictBy, workerBy, locals, calls>>

-----------------------------------------------------------------------------
(* The startup worker. *)

WorkerTry(w) ==
  /\ pc[w] = "start"
  /\ IF workerBy = NoOne
       THEN workerBy' = w /\ Go(w, "ensure")
       ELSE UNCHANGED workerBy /\ Go(w, "off")
  /\ UNCHANGED <<router, queue, warmed, inflight, ensureBy, slotBy, predictBy, locals, calls>>

\* The end of a run: break, or an exception that is logged.
WorkerEnd(w) ==
  /\ workerBy' = NoOne
  /\ Go(w, "off")

\* _warm_resident: a snapshot of the resident checkpoints not warmed yet.
WarmSnapshot(w) ==
  /\ pc[w] = "warm"
  /\ todo' = [todo EXCEPT ![w] = loaded \ warmed]
  /\ Go(w, "warming")
  /\ UNCHANGED <<router, queue, warmed, inflight, locks, model, op, asked, calls>>

WarmUnlocked(w) == UNCHANGED predictBy       \* seeded fault: warm-up without the lock
WarmLock(w)     == predictBy = NoOne /\ predictBy' = w

WarmStart(w, m) ==
  /\ pc[w] = "warming" /\ m \in todo[w]
  /\ WarmLock(w)
  /\ model' = [model EXCEPT ![w] = m]
  /\ Go(w, "warmload")
  /\ UNCHANGED <<router, queue, warmed, inflight, ensureBy, slotBy, workerBy, op, asked, todo, calls>>

WarmLoad(w) ==
  /\ pc[w] = "warmload"
  /\ RouterLoad(model[w])
  /\ Go(w, "warmforward")
  /\ UNCHANGED <<queue, warmed, inflight, locks, locals, calls>>

WarmDone(w) ==
  /\ pc[w] = "warmforward"
  /\ predictBy' = NoOne
  /\ warmed' = warmed \cup {model[w]}
  /\ todo' = [todo EXCEPT ![w] = @ \ {model[w]}]
  /\ Go(w, "warming")
  /\ UNCHANGED <<router, queue, inflight, ensureBy, slotBy, workerBy, model, op, asked, calls>>

WarmFails(w) ==
  /\ pc[w] \in {"warmload", "warmforward"}
  /\ predictBy' = NoOne
  /\ WorkerEnd(w)
  /\ UNCHANGED <<router, queue, warmed, inflight, ensureBy, slotBy, locals, calls>>

\* The head of the queue is read without a lock.
PrefetchHead(w) ==
  /\ pc[w] = "warming" /\ todo[w] = {}
  /\ queue # <<>>
  /\ model' = [model EXCEPT ![w] = Head(queue)]
  /\ Go(w, "gate")
  /\ UNCHANGED <<router, queue, warmed, inflight, locks, op, asked, todo, calls>>

PrefetchResident(w) ==
  /\ pc[w] = "gate" /\ model[w] \in loaded
  /\ Go(w, "pop")
  /\ UNCHANGED <<router, queue, warmed, inflight, locks, locals, calls>>

\* Nothing staged, or the load average or MemAvailable gate does not hold, or the
\* lifecycle slot, tried without waiting, is taken.
PrefetchStops(w) ==
  /\ \/ pc[w] = "warming" /\ todo[w] = {} /\ queue = <<>>
     \/ pc[w] = "gate" /\ model[w] \notin loaded
  /\ WorkerEnd(w)
  /\ UNCHANGED <<router, queue, warmed, inflight, ensureBy, slotBy, predictBy, locals, calls>>

PrefetchSlot(w) ==
  /\ pc[w] = "gate" /\ model[w] \notin loaded
  /\ slotBy = NoOne
  /\ slotBy' = w
  /\ Go(w, "prefetch")
  /\ UNCHANGED <<router, queue, warmed, inflight, ensureBy, predictBy, workerBy, locals, calls>>

PrefetchLoad(w) ==
  /\ pc[w] = "prefetch"
  /\ RouterLoad(model[w])
  /\ SlotFreed(w)
  /\ Go(w, "pop")
  /\ UNCHANGED <<queue, warmed, inflight, ensureBy, predictBy, workerBy, locals, calls>>

PrefetchFails(w) ==
  /\ pc[w] = "prefetch"
  /\ SlotFreed(w)
  /\ WorkerEnd(w)
  /\ UNCHANGED <<router, queue, warmed, inflight, ensureBy, predictBy, locals, calls>>

\* popleft, whatever is at the head by now; an empty deque raises.
PrefetchPop(w) ==
  /\ pc[w] = "pop"
  /\ IF queue = <<>>
       THEN WorkerEnd(w) /\ UNCHANGED queue
       ELSE queue' = Tail(queue) /\ Go(w, "warm") /\ UNCHANGED workerBy
  /\ UNCHANGED <<router, warmed, inflight, ensureBy, slotBy, predictBy, locals, calls>>

EnsureStep(t) ==
  EnsureFast(t) \/ EnsureLock(t) \/ EnsureFound(t) \/ EnsureBuild(t) \/ EnsureFail(t)

ClientStep(t) ==
  \/ KickQueue(t) \/ KickLock(t) \/ KickGated(t) \/ KickFails(t) \/ Answer(t)
  \/ \E w \in Workers : KickSpawn(t, w)
  \/ \E m \in Models : Decide(t, m)
  \/ PredictLock(t) \/ ResidentAgent(t) \/ PredictUnlock(t) \/ Leave(t)

AdminStep(t) ==
  \/ LoadRefused(t) \/ LoadChecked(t) \/ UnloadCancels(t) \/ AdminReturn(t)
  \/ \E m \in Models : LoadOne(t, m) \/ UnloadOne(t, m) \/ CancelOne(t, m)

WorkerStep(w) ==
  \/ WorkerTry(w) \/ WarmSnapshot(w) \/ WarmLoad(w) \/ WarmDone(w) \/ WarmFails(w)
  \/ \E m \in Models : WarmStart(w, m)
  \/ PrefetchHead(w) \/ PrefetchResident(w) \/ PrefetchStops(w)
  \/ PrefetchSlot(w) \/ PrefetchLoad(w) \/ PrefetchFails(w) \/ PrefetchPop(w)

Next ==
  \/ \E t \in Threads : EnsureStep(t)
  \/ \E t \in Clients : PredictCall(t) \/ ClientStep(t)
  \/ \E t \in Admins, o \in {"load", "unload"}, ns \in SUBSET Models \ {{}} : AdminCall(t, o, ns)
  \/ \E t \in Admins : AdminStep(t)
  \/ \E w \in Workers : WorkerStep(w)

Spec == Init /\ [][Next]_vars

\* The interpreter runs every thread that can take a step; calls need not be made.
\* Weak fairness is enough for the locks: a bounded number of calls takes them a
\* bounded number of times.
ThreadStep(t) ==
  \/ EnsureStep(t)
  \/ t \in Clients /\ ClientStep(t)
  \/ t \in Admins /\ AdminStep(t)
  \/ t \in Workers /\ WorkerStep(t)

Fairness == \A t \in Threads : WF_vars(ThreadStep(t))

FairSpec == Spec /\ Fairness

-----------------------------------------------------------------------------
(* Properties. *)

ClientPlaces == {"idle", "ensure", "building", "kick", "kicklock", "kickhead", "decide",
                 "queued", "resident", "forward", "leave"}
AdminPlaces  == {"idle", "ensure", "building", "check", "preload", "unload", "cancel"}
WorkerPlaces == {"off", "start", "ensure", "building", "warm", "warming", "warmload",
                 "warmforward", "gate", "prefetch", "pop"}

\* Every variable of the adapter keeps its type.
TypeOK ==
  /\ built \in BOOLEAN /\ queue \in Seq(Models) /\ warmed \subseteq Models
  /\ inflight \in Int
  /\ {ensureBy, slotBy, predictBy, workerBy} \subseteq Threads \cup {NoOne}
  /\ loaded \subseteq Models /\ cap \in Nat
  /\ pc \in [Threads -> ClientPlaces \cup AdminPlaces \cup WorkerPlaces]
  /\ \A t \in Clients : pc[t] \in ClientPlaces
  /\ \A t \in Admins : pc[t] \in AdminPlaces
  /\ \A w \in Workers : pc[w] \in WorkerPlaces
  /\ model \in [Threads -> Models]
  /\ op \in [Admins -> {"load", "unload"}]
  /\ asked \in [Admins -> SUBSET Models]
  /\ todo \in [Admins \cup Workers -> SUBSET Models]
  /\ calls \in Nat

Computing(t) == pc[t] \in {"resident", "forward", "warmload", "warmforward"}

\* One forward pass at a time, requests and warm-ups together, and a warm-up or
\* forward that fails gives the lock back to exactly the state it found.
OneForward ==
  /\ \A t, u \in Threads : Computing(t) /\ Computing(u) => t = u
  /\ predictBy # NoOne => Computing(predictBy)

\* The in-flight count that the queue.wait span reports is the number of requests
\* between the decision and their return, failed ones included.
InflightExact ==
  inflight = Cardinality({t \in Clients : pc[t] \in {"queued", "resident", "forward", "leave"}})

\* Forward passes exclude each other and each is counted while it lasts (predict).
ForwardSound == TypeOK /\ OneForward /\ InflightExact

\* However often construction fails and is retried, by however many threads, a
\* configured checkpoint is staged for prefetch at most once per configured name.
StagedOnce ==
  \A m \in Models : Cardinality({i \in DOMAIN queue : queue[i] = m})
                      <= Cardinality({i \in Tail1 : Names[i] = m})

\* The cap raised before staging keeps the router from evicting: with a catalog of
\* configured checkpoints, residents leave through unload alone.
OnlyUnloadEvicts ==
  [][\A m \in loaded \ loaded' : \E t \in Admins : pc[t] = "unload" /\ m \in todo[t]]_vars

\* An English-only deployment never has the multilingual checkpoint resident,
\* whatever clients pin and admins ask for.
EnglishOnlyHolds == EnglishOnly => Multilingual \notin loaded

\* Every call returns and every worker run ends: no thread waits for ever.
CallsReturn ==
  \A t \in Threads : pc[t] # Rest(t) ~> pc[t] = Rest(t)

-----------------------------------------------------------------------------
(* What the documentation says, where the code does otherwise (README, last section). *)

\* RealAdapter.unload: "A successful unload also cancels any pending background
\* prefetch of the same name".  The worker only loads what is still staged.
UnloadCancelsPrefetch ==
  [][\A w \in Workers : pc[w] = "prefetch" /\ pc'[w] = "pop" => model[w] \in Staged]_vars

\* RealAdapter: "correctness never depends on the prefetch queue draining".  A
\* request that saw a staged checkpoint still finds one when it reads the head.
KickFindsHead == \A t \in Clients : pc[t] = "kickhead" => queue # <<>>
=============================================================================
