---------------------------- MODULE EngineProofs ----------------------------
(* Theorems about the engine adapter, for any number of threads, checkpoints *)
(* and calls.                                                                *)
EXTENDS Engine, SequenceTheorems, FiniteSetTheorems, NaturalsInduction,
        WellFoundedInduction, TLAPS

(* What the queue operations return. *)

LEMMA SameInterval ==
  ASSUME NEW a \in Nat, NEW b \in Nat, 1 .. a = 1 .. b
  PROVE  a = b
  <1>1. CASE a < b
    <2>1. b \in 1 .. b /\ b \notin 1 .. a
      BY <1>1
    <2>2. QED BY <2>1
  <1>2. CASE b < a
    <2>1. a \in 1 .. a /\ a \notin 1 .. b
      BY <1>2
    <2>2. QED BY <2>1
  <1>3. QED BY <1>1, <1>2

\* deque.remove keeps a sequence of checkpoints and drops one position, k.
LEMMA NatLeast ==
  ASSUME NEW T \in SUBSET Nat, T # {}
  PROVE  \E n \in T : \A j \in T : n <= j
  <1>1. PICK n \in T : \A j \in T : ~(<<j, n>> \in OpToRel(<, Nat))
    BY NatLessThanWellFounded, WFMin
  <1>2. \A j \in T : ~(j < n)
    BY <1>1 DEF OpToRel
  <1>3. QED BY <1>2

LEMMA RemovedShape ==
  ASSUME NEW q \in Seq(Models), NEW m
  PROVE  \/ Removed(q, m) = q
         \/ \E k \in 1 .. Len(q) :
              /\ Removed(q, m) \in Seq(Models)
              /\ Len(Removed(q, m)) = Len(q) - 1
              /\ \A i \in 1 .. (Len(q) - 1) :
                   Removed(q, m)[i] = IF i < k THEN q[i] ELSE q[i + 1]
  <1>1. Len(q) \in Nat /\ DOMAIN q = 1 .. Len(q) /\ \A i \in 1 .. Len(q) : q[i] \in Models
    BY LenProperties, ElementOfSeq
  <1>2. CASE ~ \E i \in DOMAIN q : q[i] = m
    BY <1>2 DEF Removed
  <1>3. CASE \E i \in DOMAIN q : q[i] = m
    <2> DEFINE P(i) == q[i] = m /\ \A j \in 1 .. (i - 1) : q[j] # m
               k == CHOOSE i \in DOMAIN q : P(i)
               r == [i \in 1 .. (Len(q) - 1) |-> IF i < k THEN q[i] ELSE q[i + 1]]
    <2>1. \E i \in DOMAIN q : P(i)
      <3> DEFINE T == {i \in Nat : i \in DOMAIN q /\ q[i] = m}
      <3>1. T # {} /\ T \in SUBSET Nat
        BY <1>1, <1>3
      <3>2. PICK n \in T : \A j \in T : n <= j
        <4> HIDE DEF T
        <4>1. QED BY <3>1, NatLeast
      <3>3. P(n)
        BY <1>1, <3>2
      <3>4. QED BY <3>2, <3>3
    <2>2. k \in DOMAIN q
      BY <2>1
    <2>3. Removed(q, m) = r
      BY <1>3 DEF Removed
    <2> HIDE DEF k
    <2>4. r \in [1 .. (Len(q) - 1) -> Models] /\ Len(q) - 1 \in Nat
      BY <1>1, <2>2
    <2>5. r \in Seq(Models) /\ Len(r) = Len(q) - 1
      <3> HIDE DEF r
      <3>1. r \in Seq(Models)
        BY <2>4, SeqDef
      <3>2. Len(r) \in Nat /\ DOMAIN r = 1 .. Len(r) /\ DOMAIN r = 1 .. (Len(q) - 1)
        BY <3>1, <2>4, LenProperties
      <3>3. QED BY <3>1, <3>2, <2>4, SameInterval
    <2>6. \A i \in 1 .. (Len(q) - 1) : r[i] = IF i < k THEN q[i] ELSE q[i + 1]
      OBVIOUS
    <2>7. QED BY <2>2, <2>3, <2>5, <2>6, <1>1
  <1>4. QED BY <1>2, <1>3

-----------------------------------------------------------------------------
(* Type correctness. *)

Places == ClientPlaces \cup AdminPlaces \cup WorkerPlaces

\* A program counter that moves within its own kind of thread keeps its type.
PcTyped(p) ==
  /\ p \in [Threads -> Places]
  /\ \A t \in Clients : p[t] \in ClientPlaces
  /\ \A t \in Admins : p[t] \in AdminPlaces
  /\ \A w \in Workers : p[w] \in WorkerPlaces

LocksTyped == {ensureBy, slotBy, predictBy, workerBy} \subseteq Threads \cup {NoOne}

DataTyped ==
  /\ built \in BOOLEAN /\ queue \in Seq(Models) /\ warmed \subseteq Models
  /\ inflight \in Int /\ loaded \subseteq Models /\ cap \in Nat

LocalsTyped ==
  /\ model \in [Threads -> Models]
  /\ op \in [Admins -> {"load", "unload"}]
  /\ asked \in [Admins -> SUBSET Models]
  /\ todo \in [Admins \cup Workers -> SUBSET Models]
  /\ calls \in Nat

LEMMA TypeParts == TypeOK <=> PcTyped(pc) /\ LocksTyped /\ DataTyped /\ LocalsTyped
  BY DEF TypeOK, PcTyped, LocksTyped, DataTyped, LocalsTyped, Places

LEMMA NamesTyped ==
  /\ Names[1] \in Models
  /\ Tail(Names) \in Seq(Models)
  /\ Len(Names) \in Nat /\ Len(Names) > 0
  <1>1. Len(Names) \in Nat /\ Names # <<>>
    BY EngineAssumption, LenProperties, EmptySeq
  <1>2. QED BY <1>1, EngineAssumption, ElementOfSeq, HeadTailProperties

LEMMA MoveTyped ==
  ASSUME NEW p, PcTyped(p), NEW t \in Threads, NEW x \in Places,
         t \in Clients => x \in ClientPlaces,
         t \in Admins => x \in AdminPlaces,
         t \in Workers => x \in WorkerPlaces
  PROVE  PcTyped([p EXCEPT ![t] = x])
  BY EngineAssumption DEF PcTyped, Threads

LEMMA AfterEnsureTyped ==
  ASSUME NEW t \in Threads
  PROVE  /\ AfterEnsure(t) \in Places
         /\ t \in Clients => AfterEnsure(t) \in ClientPlaces
         /\ t \in Admins => AfterEnsure(t) \in AdminPlaces
         /\ t \in Workers => AfterEnsure(t) \in WorkerPlaces
  BY EngineAssumption DEF AfterEnsure, Threads, Places, ClientPlaces, AdminPlaces, WorkerPlaces

\* Every step moves one thread within its places, or a client and the worker it starts.
LEMMA EnsureMoves ==
  ASSUME TypeOK, NEW t \in Threads, EnsureStep(t)
  PROVE  PcTyped(pc')
  <1>1. PcTyped(pc)
    BY TypeParts
  <1>2. CASE EnsureFast(t) \/ EnsureFound(t) \/ EnsureBuild(t)
    <2>1. pc' = [pc EXCEPT ![t] = AfterEnsure(t)]
      BY <1>2 DEF EnsureFast, EnsureFound, EnsureBuild, Go
    <2>2. QED BY <1>1, <2>1, AfterEnsureTyped, MoveTyped
  <1>3. CASE EnsureLock(t)
    <2>1. pc' = [pc EXCEPT ![t] = "building"]
      BY <1>3 DEF EnsureLock, Go
    <2>2. QED BY <1>1, <2>1, MoveTyped DEF Places, ClientPlaces, AdminPlaces, WorkerPlaces
  <1>4. CASE EnsureFail(t)
    <2>1. pc' = [pc EXCEPT ![t] = Rest(t)]
      BY <1>4 DEF EnsureFail, Raise, Go
    <2>2. QED BY <1>1, <2>1, MoveTyped, EngineAssumption DEF Rest, Threads, Places, ClientPlaces, AdminPlaces, WorkerPlaces
  <1>5. QED BY <1>2, <1>3, <1>4 DEF EnsureStep

LEMMA ClientMoves ==
  ASSUME TypeOK, NEW t \in Clients, PredictCall(t) \/ ClientStep(t)
  PROVE  PcTyped(pc')
  <1>1. PcTyped(pc) /\ t \in Threads /\ t \notin Admins /\ t \notin Workers
    BY TypeParts, EngineAssumption DEF Threads
  <1>2. CASE \E w \in Workers : KickSpawn(t, w)
    <2>1. PICK w \in Workers : pc' = [pc EXCEPT ![t] = "decide", ![w] = "start"]
      BY <1>2 DEF KickSpawn
    <2>2. PcTyped([pc EXCEPT ![t] = "decide"])
      BY <1>1, MoveTyped DEF Places, ClientPlaces
    <2>3. w \in Threads /\ w \notin Clients /\ w \notin Admins
      BY EngineAssumption DEF Threads
    <2>4. PcTyped([[pc EXCEPT ![t] = "decide"] EXCEPT ![w] = "start"])
      BY <2>2, <2>3, MoveTyped DEF Places, WorkerPlaces
    <2>5. QED BY <2>1, <2>4
  <1>3. CASE ~ \E w \in Workers : KickSpawn(t, w)
    <2>1. \E x \in ClientPlaces : pc' = [pc EXCEPT ![t] = x]
      BY <1>3 DEF PredictCall, Call, ClientStep, KickQueue, KickLock, KickGated, KickFails,
                  Answer, Decide, PredictLock, ResidentAgent, PredictUnlock, Leave, Go,
                  ClientPlaces
    <2>2. PICK x \in ClientPlaces : pc' = [pc EXCEPT ![t] = x]
      BY <2>1
    <2>3. QED BY <1>1, <2>2, MoveTyped DEF Places
  <1>4. QED BY <1>2, <1>3

LEMMA AdminMoves ==
  ASSUME TypeOK, NEW t \in Admins,
         \/ AdminStep(t)
         \/ \E o \in {"load", "unload"}, ns \in SUBSET Models \ {{}} : AdminCall(t, o, ns)
  PROVE  PcTyped(pc')
  <1>1. PcTyped(pc) /\ t \in Threads /\ t \notin Clients /\ t \notin Workers
    BY TypeParts, EngineAssumption DEF Threads
  <1>2. pc' = pc \/ \E x \in AdminPlaces : pc' = [pc EXCEPT ![t] = x]
    BY DEF AdminStep, AdminCall, Call, LoadRefused, LoadChecked, UnloadCancels, AdminReturn,
           LoadOne, UnloadOne, CancelOne, Go, AdminPlaces
  <1>3. CASE \E x \in AdminPlaces : pc' = [pc EXCEPT ![t] = x]
    <2>1. PICK x \in AdminPlaces : pc' = [pc EXCEPT ![t] = x]
      BY <1>3
    <2>2. QED BY <1>1, <2>1, MoveTyped DEF Places
  <1>4. QED BY <1>1, <1>2, <1>3

LEMMA WorkerMoves ==
  ASSUME TypeOK, NEW w \in Workers, WorkerStep(w)
  PROVE  PcTyped(pc')
  <1>1. PcTyped(pc) /\ w \in Threads /\ w \notin Clients /\ w \notin Admins
    BY TypeParts, EngineAssumption DEF Threads
  <1>2. \E x \in WorkerPlaces : pc' = [pc EXCEPT ![w] = x]
    BY DEF WorkerStep, WorkerTry, WarmSnapshot, WarmLoad, WarmDone, WarmFails, WarmStart,
           PrefetchHead, PrefetchResident, PrefetchStops, PrefetchSlot, PrefetchLoad,
           PrefetchFails, PrefetchPop, WorkerEnd, Go, WorkerPlaces
  <1>3. PICK x \in WorkerPlaces : pc' = [pc EXCEPT ![w] = x]
    BY <1>2
  <1>4. QED BY <1>1, <1>3, MoveTyped DEF Places

\* The router only ever adds the checkpoint it is asked for, and leaves its cap alone.
LEMMA RouterEffect ==
  ASSUME NEW m, RouterLoad(m)
  PROVE  /\ m \in Catalog /\ loaded' \subseteq loaded \cup {m}
         /\ built' = built /\ cap' = cap
  BY DEF RouterLoad

LEMMA CatalogTyped == Catalog \subseteq Models
  BY DEF Catalog

LEMMA CardTyped ==
  ASSUME NEW S \in SUBSET Models
  PROVE  IsFiniteSet(S) /\ Cardinality(S) \in Nat
  BY EngineAssumption, FS_Subset, FS_CardinalityType

LEMMA EnsureData ==
  ASSUME TypeOK, NEW t \in Threads, EnsureStep(t)
  PROVE  LocksTyped' /\ DataTyped' /\ LocalsTyped'
  <1>1. LocksTyped'
    BY TypeParts DEF EnsureStep, EnsureFast, EnsureLock, EnsureFound, EnsureBuild, EnsureFail,
                     Raise, LocksTyped, locks
  <1>2. DataTyped'
    <2>1. CASE EnsureBuild(t)
      <3>1. queue \o Tail(Names) \in Seq(Models)
        BY NamesTyped, TypeParts, ConcatProperties DEF DataTyped
      <3>2. QED BY <2>1, <3>1, NamesTyped, TypeParts DEF EnsureBuild, CapRaised, DataTyped
    <2>2. CASE ~EnsureBuild(t)
      BY <2>2, TypeParts DEF EnsureStep, EnsureFast, EnsureLock, EnsureFound, EnsureFail,
                             StageLate, router, DataTyped
    <2>3. QED BY <2>1, <2>2
  <1>3. LocalsTyped'
    BY TypeParts DEF EnsureStep, EnsureFast, EnsureLock, EnsureFound, EnsureBuild, EnsureFail,
                     LocalsTyped, locals
  <1>4. QED BY <1>1, <1>2, <1>3

LEMMA ClientData ==
  ASSUME TypeOK, NEW t \in Clients, PredictCall(t) \/ ClientStep(t)
  PROVE  LocksTyped' /\ DataTyped' /\ LocalsTyped'
  <1> USE DEF PredictCall, Call, ClientStep, KickQueue, KickLock, KickGated, KickFails,
              Answer, KickSpawn, Decide, PredictLock, ResidentAgent, PredictUnlock, Leave
  <1>1. LocksTyped'
    BY TypeParts DEF PredictFreed, LocksTyped, Threads, locks
  <1>2. DataTyped'
    <2>1. CASE ResidentAgent(t)
      BY <2>1, TypeParts, RouterEffect, CatalogTyped DEF DataTyped
    <2>2. CASE ~ResidentAgent(t)
      BY <2>2, TypeParts DEF LeaveCount, router, DataTyped
    <2>3. QED BY <2>1, <2>2
  <1>3. LocalsTyped'
    BY TypeParts DEF LocalsTyped, locals
  <1>4. QED BY <1>1, <1>2, <1>3

LEMMA AdminData ==
  ASSUME TypeOK, NEW t \in Admins,
         \/ AdminStep(t)
         \/ \E o \in {"load", "unload"}, ns \in SUBSET Models \ {{}} : AdminCall(t, o, ns)
  PROVE  LocksTyped' /\ DataTyped' /\ LocalsTyped'
  <1> USE DEF AdminStep, AdminCall, Call, LoadRefused, LoadChecked, UnloadCancels, AdminReturn,
              LoadOne, UnloadOne, CancelOne
  <1>1. LocksTyped'
    BY TypeParts DEF SlotFreed, LocksTyped, Threads, locks
  <1>2. DataTyped'
    <2>1. CASE \E m \in Models : LoadOne(t, m)
      BY <2>1, TypeParts, RouterEffect, CatalogTyped DEF DataTyped
    <2>2. CASE LoadChecked(t)
      <3>1. Cardinality(asked[t]) \in Nat
        BY TypeParts, CardTyped DEF LocalsTyped
      <3>2. QED BY <2>2, <3>1, TypeParts DEF DataTyped
    <2>3. CASE \E m \in Models : CancelOne(t, m)
      <3>1. PICK m \in Models : queue' = Removed(queue, m)
        BY <2>3
      <3>2. queue' \in Seq(Models)
        BY <3>1, TypeParts, RemovedShape DEF DataTyped
      <3>3. QED BY <2>3, <3>2, TypeParts DEF router, DataTyped
    <2>4. CASE ~LoadChecked(t) /\ ~(\E m \in Models : LoadOne(t, m) \/ CancelOne(t, m))
      BY <2>4, TypeParts DEF router, DataTyped
    <2>5. QED BY <2>1, <2>2, <2>3, <2>4
  <1>3. LocalsTyped'
    BY TypeParts DEF LocalsTyped, locals
  <1>4. QED BY <1>1, <1>2, <1>3

LEMMA WorkerData ==
  ASSUME TypeOK, NEW w \in Workers, WorkerStep(w)
  PROVE  LocksTyped' /\ DataTyped' /\ LocalsTyped'
  <1> USE DEF WorkerStep, WorkerTry, WarmSnapshot, WarmLoad, WarmDone, WarmFails, WarmStart,
              PrefetchHead, PrefetchResident, PrefetchStops, PrefetchSlot, PrefetchLoad,
              PrefetchFails, PrefetchPop, WorkerEnd
  <1>1. LocksTyped'
    BY TypeParts DEF SlotFreed, WarmLock, LocksTyped, Threads, locks
  <1>2. DataTyped'
    <2>1. CASE WarmLoad(w) \/ PrefetchLoad(w)
      BY <2>1, TypeParts, RouterEffect, CatalogTyped DEF DataTyped
    <2>2. CASE PrefetchPop(w)
      <3>1. queue # <<>> => Tail(queue) \in Seq(Models)
        BY TypeParts, HeadTailProperties DEF DataTyped
      <3>2. QED BY <2>2, <3>1, TypeParts DEF router, DataTyped
    <2>3. CASE WarmDone(w)
      BY <2>3, TypeParts DEF router, DataTyped, LocalsTyped, Threads
    <2>4. CASE ~(WarmLoad(w) \/ PrefetchLoad(w) \/ PrefetchPop(w) \/ WarmDone(w))
      BY <2>4, TypeParts DEF router, DataTyped
    <2>5. QED BY <2>1, <2>2, <2>3, <2>4
  <1>3. LocalsTyped'
    <2>1. queue # <<>> => Head(queue) \in Models
      BY TypeParts, HeadTailProperties DEF DataTyped
    <2>2. loaded \ warmed \subseteq Models
      BY TypeParts DEF DataTyped
    <2>3. QED BY <2>1, <2>2, TypeParts DEF LocalsTyped, locals, Threads
  <1>4. QED BY <1>1, <1>2, <1>3

LEMMA InitTypes == Init => TypeOK
  <1> SUFFICES ASSUME Init PROVE TypeOK
    OBVIOUS
  <1>1. PcTyped(pc)
    <2>1. PICK w \in Workers : pc = [t \in Threads |-> IF t = w THEN "start" ELSE Rest(t)]
      BY DEF Init
    <2>2. QED BY <2>1, EngineAssumption DEF PcTyped, Places, ClientPlaces, AdminPlaces,
                                            WorkerPlaces, Rest, Threads
  <1>2. LocksTyped
    BY DEF Init, LocksTyped
  <1>3. DataTyped
    <2>1. <<>> \in Seq(Models)
      BY EmptySeq
    <2>2. built = FALSE /\ queue = <<>> /\ warmed = {} /\ inflight = 0 /\ loaded = {} /\ cap = 1
      BY DEF Init
    <2>3. built \in BOOLEAN
      BY <2>2, Zenon
    <2>4. QED BY <2>1, <2>2, <2>3 DEF DataTyped
  <1>4. LocalsTyped
    <2>1. /\ model = [t \in Threads |-> Names[1]] /\ op = [t \in Admins |-> "load"]
          /\ asked = [t \in Admins |-> {}] /\ todo = [t \in Admins \cup Workers |-> {}]
          /\ calls = 0
      BY DEF Init
    <2>2. QED BY <2>1, NamesTyped DEF LocalsTyped
  <1>5. QED BY <1>1, <1>2, <1>3, <1>4, TypeParts

LEMMA StepTypes == TypeOK /\ [Next]_vars => TypeOK'
  <1> SUFFICES ASSUME TypeOK, [Next]_vars PROVE TypeOK'
    OBVIOUS
  <1> DEFINE Parts == PcTyped(pc') /\ LocksTyped' /\ DataTyped' /\ LocalsTyped'
  <1>1. Parts => TypeOK'
    BY DEF TypeOK, PcTyped, LocksTyped, DataTyped, LocalsTyped, Places
  <1>2. ASSUME NEW t \in Threads, EnsureStep(t) PROVE Parts
    BY <1>2, EnsureMoves, EnsureData
  <1>3. ASSUME NEW t \in Clients, PredictCall(t) \/ ClientStep(t) PROVE Parts
    BY <1>3, ClientMoves, ClientData
  <1>4. ASSUME NEW t \in Admins,
               \/ AdminStep(t)
               \/ \E o \in {"load", "unload"}, ns \in SUBSET Models \ {{}} : AdminCall(t, o, ns)
        PROVE  Parts
    BY <1>4, AdminMoves, AdminData
  <1>5. ASSUME NEW w \in Workers, WorkerStep(w) PROVE Parts
    BY <1>5, WorkerMoves, WorkerData
  <1>6. CASE UNCHANGED vars
    BY <1>6 DEF vars, router, locks, locals, TypeOK
  <1> HIDE DEF Parts
  <1>7. QED BY <1>1, <1>2, <1>3, <1>4, <1>5, <1>6 DEF Next

\* Type correctness of RealAdapter, for any number of threads and checkpoints.
THEOREM TypeCorrect == Spec => []TypeOK
  <1>1. QED BY InitTypes, StepTypes, PTL DEF Spec

-----------------------------------------------------------------------------
(* The predict lock is held exactly while its holder computes. *)

LockInv == \A t \in Threads : Computing(t) <=> predictBy = t

LEMMA LockStep == TypeOK /\ LockInv /\ [Next]_vars => LockInv'
  <1> SUFFICES ASSUME TypeOK, LockInv, [Next]_vars PROVE LockInv'
    OBVIOUS
  <1>1. /\ pc \in [Threads -> Places]
        /\ predictBy \in Threads \cup {NoOne} /\ NoOne \notin Threads
        /\ Clients \subseteq Threads /\ Admins \subseteq Threads /\ Workers \subseteq Threads
    BY EngineAssumption DEF TypeOK, Places, Threads
  <1>2. ASSUME NEW t \in Threads, EnsureStep(t) PROVE LockInv'
    <2>1. AfterEnsure(t) \notin {"resident", "forward", "warmload", "warmforward"}
      BY EngineAssumption DEF AfterEnsure, Threads
    <2>2. QED BY <1>1, <1>2, <2>1 DEF EnsureStep, EnsureFast, EnsureLock, EnsureFound,
                   EnsureBuild, EnsureFail, Raise, Rest, Go, LockInv, Computing, locks
  <1>3. ASSUME NEW t \in Clients, PredictCall(t) \/ ClientStep(t) PROVE LockInv'
    <2>1. CASE \E w \in Workers : KickSpawn(t, w)
      BY <1>1, <2>1 DEF KickSpawn, LockInv, Computing, locks
    <2>2. CASE PredictLock(t) \/ ResidentAgent(t) \/ PredictUnlock(t)
      BY <1>1, <2>2 DEF PredictLock, ResidentAgent, PredictUnlock, PredictFreed, Go, LockInv,
                        Computing, locks
    <2>3. CASE \/ PredictCall(t) \/ KickQueue(t) \/ KickLock(t) \/ KickGated(t) \/ KickFails(t)
               \/ Answer(t) \/ Leave(t) \/ \E m \in Models : Decide(t, m)
      BY <1>1, <2>3 DEF PredictCall, Call, KickQueue, KickLock, KickGated, KickFails, Answer,
                        Leave, Decide, Go, LockInv, Computing, locks
    <2>4. QED BY <1>3, <2>1, <2>2, <2>3 DEF ClientStep
  <1>4. ASSUME NEW t \in Admins,
               \/ AdminStep(t)
               \/ \E o \in {"load", "unload"}, ns \in SUBSET Models \ {{}} : AdminCall(t, o, ns)
        PROVE  LockInv'
    BY <1>1, <1>4 DEF AdminStep, AdminCall, Call, LoadRefused, LoadChecked, UnloadCancels,
         AdminReturn, LoadOne, UnloadOne, CancelOne, Go, LockInv, Computing, locks
  <1>5. ASSUME NEW w \in Workers, WorkerStep(w) PROVE LockInv'
    <2>1. CASE WarmLoad(w) \/ WarmDone(w) \/ WarmFails(w) \/ \E m \in Models : WarmStart(w, m)
      BY <1>1, <2>1 DEF WarmLoad, WarmDone, WarmFails, WarmStart, WarmLock, WorkerEnd, Go,
                        LockInv, Computing, locks
    <2>2. CASE \/ WorkerTry(w) \/ WarmSnapshot(w) \/ PrefetchHead(w) \/ PrefetchResident(w)
               \/ PrefetchStops(w) \/ PrefetchSlot(w) \/ PrefetchLoad(w) \/ PrefetchFails(w)
               \/ PrefetchPop(w)
      BY <1>1, <2>2 DEF WorkerTry, WarmSnapshot, PrefetchHead, PrefetchResident, PrefetchStops,
           PrefetchSlot, PrefetchLoad, PrefetchFails, PrefetchPop, WorkerEnd, Go, LockInv,
           Computing, locks
    <2>3. QED BY <1>5, <2>1, <2>2 DEF WorkerStep
  <1>6. CASE UNCHANGED vars
    BY <1>6 DEF vars, locks, LockInv, Computing
  <1>7. QED BY <1>2, <1>3, <1>4, <1>5, <1>6 DEF Next

LEMMA LockInit == Init => LockInv
  <1> SUFFICES ASSUME Init PROVE LockInv
    OBVIOUS
  <1>1. PICK w \in Workers : pc = [t \in Threads |-> IF t = w THEN "start" ELSE Rest(t)]
    BY DEF Init
  <1>2. QED BY <1>1, EngineAssumption DEF Init, LockInv, Computing, Rest

\* RealAdapter.predict and _warm_resident: whatever interleaves and whatever fails, one
\* thread computes at a time and a held predict lock has a holder that computes.
THEOREM ForwardsExclude == Spec => []OneForward
  <1>1. TypeOK /\ LockInv => OneForward
    BY EngineAssumption DEF TypeOK, LockInv, OneForward
  <1>2. QED BY <1>1, InitTypes, StepTypes, LockInit, LockStep, PTL DEF Spec

-----------------------------------------------------------------------------
(* Nothing happens to the router or the queue before construction, and what is *)
(* resident is in the catalog.                                                 *)

Before == {"idle", "off", "start", "ensure", "building"}

BuiltInv ==
  /\ \A t \in Threads : pc[t] \notin Before => built
  /\ ~built => loaded = {} /\ queue = <<>>
  /\ built => cap >= Len(Names)
  /\ loaded \subseteq Catalog

LEMMA BuiltStep == TypeOK /\ BuiltInv /\ [Next]_vars => BuiltInv'
  <1> SUFFICES ASSUME TypeOK, BuiltInv, [Next]_vars PROVE BuiltInv'
    OBVIOUS
  <1>1. /\ pc \in [Threads -> Places] /\ built \in BOOLEAN /\ cap \in Nat
        /\ Clients \subseteq Threads /\ Admins \subseteq Threads /\ Workers \subseteq Threads
        /\ Len(Names) \in Nat
    BY EngineAssumption, NamesTyped DEF TypeOK, Places, Threads
  <1>2. ASSUME NEW t \in Threads, EnsureStep(t) PROVE BuiltInv'
    <2>1. CASE EnsureBuild(t)
      <3>1. Names[1] \in Catalog
        BY EngineAssumption, NamesTyped DEF Catalog
      <3>2. built' /\ loaded' = {Names[1]} /\ cap' = Len(Names)
        BY <2>1 DEF EnsureBuild, CapRaised
      <3>3. QED BY <1>1, <3>1, <3>2 DEF BuiltInv
    <2>2. CASE EnsureFast(t) \/ EnsureFound(t)
      <3>1. built /\ UNCHANGED <<built, loaded, cap, queue>>
        BY <2>2 DEF EnsureFast, EnsureFound, router
      <3>2. QED BY <3>1, <1>1 DEF BuiltInv
    <2>3. CASE EnsureLock(t) \/ EnsureFail(t)
      BY <1>1, <2>3 DEF EnsureLock, EnsureFail, StageLate, Raise, Rest, Go, Before, BuiltInv,
                        router
    <2>4. QED BY <1>2, <2>1, <2>2, <2>3 DEF EnsureStep
  \* Past construction a step keeps the router built and its cap at least as large.
  <1>3. ASSUME built' = built, cap' >= cap, cap' \in Nat, loaded' \subseteq Catalog, built
        PROVE  BuiltInv'
    BY <1>1, <1>3 DEF BuiltInv
  <1>4. ASSUME NEW t \in Clients, PredictCall(t) \/ ClientStep(t) PROVE BuiltInv'
    <2>1. CASE PredictCall(t)
      BY <1>1, <2>1 DEF PredictCall, Call, Go, Before, BuiltInv, router
    <2>2. CASE ResidentAgent(t)
      <3>1. built /\ RouterLoad(model[t])
        BY <1>1, <2>2 DEF ResidentAgent, BuiltInv, Before
      <3>2. QED BY <1>1, <1>3, <3>1, RouterEffect DEF BuiltInv
    <2>3. CASE ClientStep(t) /\ ~ResidentAgent(t)
      <3>1. pc[t] \notin Before /\ UNCHANGED <<built, loaded, cap>>
        BY <2>3 DEF ClientStep, KickQueue, KickLock, KickGated, KickFails, Answer, KickSpawn,
             Decide, PredictLock, PredictUnlock, Leave, Before, router
      <3>2. QED BY <1>1, <1>3, <3>1 DEF BuiltInv
    <2>4. QED BY <1>4, <2>1, <2>2, <2>3
  <1>5. ASSUME NEW t \in Admins,
               \/ AdminStep(t)
               \/ \E o \in {"load", "unload"}, ns \in SUBSET Models \ {{}} : AdminCall(t, o, ns)
        PROVE  BuiltInv'
    <2>1. CASE \E o \in {"load", "unload"}, ns \in SUBSET Models \ {{}} : AdminCall(t, o, ns)
      BY <1>1, <2>1 DEF AdminCall, Call, Go, Before, BuiltInv, router
    <2>2. CASE LoadChecked(t)
      <3>1. Cardinality(asked[t]) \in Nat
        BY TypeParts, CardTyped DEF LocalsTyped
      <3>2. QED BY <1>1, <1>3, <2>2, <3>1 DEF LoadChecked, BuiltInv, Before
    <2>3. CASE \E m \in Models : LoadOne(t, m)
      <3>1. built /\ \E m \in Models : RouterLoad(m)
        BY <1>1, <2>3 DEF LoadOne, BuiltInv, Before
      <3>2. QED BY <1>1, <1>3, <3>1, RouterEffect DEF BuiltInv
    <2>4. CASE AdminStep(t) /\ ~LoadChecked(t) /\ ~ \E m \in Models : LoadOne(t, m)
      <3>1. pc[t] \notin Before /\ UNCHANGED <<built, cap>> /\ loaded' \subseteq loaded
        BY <2>4 DEF AdminStep, LoadRefused, UnloadCancels, AdminReturn, UnloadOne, CancelOne,
             Before, router
      <3>2. QED BY <1>1, <1>3, <3>1 DEF BuiltInv
    <2>5. QED BY <1>5, <2>1, <2>2, <2>3, <2>4
  <1>6. ASSUME NEW w \in Workers, WorkerStep(w) PROVE BuiltInv'
    <2>1. CASE WorkerTry(w)
      BY <1>1, <2>1 DEF WorkerTry, Go, Before, BuiltInv, router
    <2>2. CASE WarmLoad(w) \/ PrefetchLoad(w)
      <3>1. built /\ RouterLoad(model[w])
        BY <1>1, <2>2 DEF WarmLoad, PrefetchLoad, BuiltInv, Before
      <3>2. QED BY <1>1, <1>3, <3>1, RouterEffect DEF BuiltInv
    <2>3. CASE WorkerStep(w) /\ ~WorkerTry(w) /\ ~WarmLoad(w) /\ ~PrefetchLoad(w)
      <3>1. pc[w] \notin Before /\ UNCHANGED <<built, loaded, cap>>
        BY <2>3 DEF WorkerStep, WarmSnapshot, WarmDone, WarmFails, WarmStart, PrefetchHead,
             PrefetchResident, PrefetchStops, PrefetchSlot, PrefetchFails, PrefetchPop, Before,
             router
      <3>2. QED BY <1>1, <1>3, <3>1 DEF BuiltInv
    <2>4. QED BY <1>6, <2>1, <2>2, <2>3
  <1>7. CASE UNCHANGED vars
    BY <1>7 DEF vars, router, BuiltInv
  <1>8. QED BY <1>2, <1>4, <1>5, <1>6, <1>7 DEF Next

LEMMA BuiltInit == Init => BuiltInv
  <1> SUFFICES ASSUME Init PROVE BuiltInv
    OBVIOUS
  <1>1. PICK w \in Workers : pc = [t \in Threads |-> IF t = w THEN "start" ELSE Rest(t)]
    BY DEF Init
  <1>2. \A t \in Threads : pc[t] \in Before
    BY <1>1 DEF Rest, Before
  <1>3. QED BY <1>2 DEF Init, BuiltInv

LEMMA BuiltAlways == Spec => [](TypeOK /\ BuiltInv)
  <1>1. QED BY InitTypes, StepTypes, BuiltInit, BuiltStep, PTL DEF Spec

\* RealAdapter._ensure pops multilingual before anything is published: no pin, no admin
\* load and no retry of a failed construction makes it resident.
THEOREM EnglishKept == Spec => []EnglishOnlyHolds
  <1>1. BuiltInv => EnglishOnlyHolds
    BY DEF BuiltInv, EnglishOnlyHolds, Catalog
  <1>2. QED BY <1>1, BuiltAlways, PTL

-----------------------------------------------------------------------------
(* With every checkpoint of the catalog configured the cap is never reached. *)

Configured == {Names[i] : i \in 1 .. Len(Names)}

LEMMA UpTo ==
  ASSUME NEW n \in Nat
  PROVE  IsFiniteSet(1 .. n) /\ Cardinality(1 .. n) = n
  <1> DEFINE c == Cardinality(1 .. n)
  <1>1. 1 \in Int /\ n \in Int
    OBVIOUS
  <1>2. IsFiniteSet(1 .. n) /\ c = IF 1 > n THEN 0 ELSE n - 1 + 1
    BY <1>1, FS_Interval, Zenon
  <1> HIDE DEF c
  <1>3. c = n
    BY <1>2
  <1>4. QED BY <1>2, <1>3 DEF c

LEMMA RoomLeft ==
  ASSUME Models \subseteq Configured, NEW S \in SUBSET Models, NEW m \in Models \ S
  PROVE  Cardinality(S) < Len(Names)
  <1>1. Len(Names) \in Nat
    BY NamesTyped
  <1>2. Cardinality(Configured) <= Len(Names) /\ IsFiniteSet(Configured)
    <2>1. IsFiniteSet(1 .. Len(Names)) /\ Cardinality(1 .. Len(Names)) = Len(Names)
      BY <1>1, UpTo
    <2> DEFINE g == [i \in 1 .. Len(Names) |-> Names[i]]
    <2>2. g \in Surjection(1 .. Len(Names), Configured)
      BY DEF Surjection, Configured
    <2>3. QED
      <3> HIDE DEF g
      <3>1. QED BY <2>1, <2>2, FS_Surjection
  <1>3. Cardinality(Models) <= Cardinality(Configured) /\ Cardinality(Configured) \in Nat
    BY <1>2, FS_Subset, FS_CardinalityType
  <1>4. /\ Cardinality(S) <= Cardinality(Models) /\ Cardinality(S) # Cardinality(Models)
        /\ Cardinality(S) \in Nat /\ Cardinality(Models) \in Nat
    BY EngineAssumption, FS_Subset, FS_CardinalityType
  <1>5. QED BY <1>1, <1>2, <1>3, <1>4

\* Router.max_loaded is raised before anything else is loaded, so when every checkpoint of
\* the catalog is configured no load, prefetch or warm-up pushes another one out: residents
\* leave through an admin's unload alone.
THEOREM EvictionsAreUnloads ==
  ASSUME Models \subseteq Configured
  PROVE  Spec => OnlyUnloadEvicts
  <1> DEFINE A == \A m \in loaded \ loaded' : \E t \in Admins : pc[t] = "unload" /\ m \in todo[t]
  <1>1. ASSUME TypeOK, BuiltInv, built, NEW m, RouterLoad(m) PROVE loaded \subseteq loaded'
    <2>1. m \in Models /\ loaded \subseteq Models /\ cap >= Len(Names)
      BY <1>1, RouterEffect, CatalogTyped DEF BuiltInv, TypeOK
    <2>2. m \notin loaded => ~(Cardinality(loaded) >= cap)
      <3>1. m \notin loaded => Cardinality(loaded) < Len(Names)
        BY <2>1, RoomLeft
      <3>2. Cardinality(loaded) \in Nat /\ Len(Names) \in Nat /\ cap \in Nat
        BY <1>1, <2>1, CardTyped, NamesTyped DEF TypeOK
      <3>3. QED BY <2>1, <3>1, <3>2
    <2>3. QED BY <1>1, <2>2 DEF RouterLoad
  <1>2. ASSUME TypeOK, BuiltInv, Next PROVE A
    <2>1. \/ loaded \subseteq loaded'
          \/ \E t \in Admins, m \in Models : UnloadOne(t, m)
          \/ \E m : built /\ RouterLoad(m)
      <3>1. ASSUME NEW t \in Threads, EnsureStep(t) PROVE loaded \subseteq loaded'
        BY <1>2, <3>1 DEF EnsureStep, EnsureFast, EnsureLock, EnsureFound, EnsureBuild,
             EnsureFail, router, BuiltInv
      <3>2. ASSUME NEW t \in Clients, PredictCall(t) \/ ClientStep(t)
            PROVE  loaded \subseteq loaded' \/ \E m : built /\ RouterLoad(m)
        BY <1>2, <3>2 DEF PredictCall, ClientStep, KickQueue, KickLock, KickGated, KickFails,
             Answer, KickSpawn, Decide, PredictLock, ResidentAgent, PredictUnlock, Leave, router,
             BuiltInv, Before, Threads
      <3>3. ASSUME NEW t \in Admins, AdminStep(t)
            PROVE  \/ loaded \subseteq loaded'
                   \/ \E m \in Models : UnloadOne(t, m)
                   \/ \E m : built /\ RouterLoad(m)
        BY <1>2, <3>3 DEF AdminStep, LoadRefused, LoadChecked, UnloadCancels, AdminReturn,
             LoadOne, CancelOne, router, BuiltInv, Before, Threads
      <3>4. ASSUME NEW w \in Workers, WorkerStep(w)
            PROVE  loaded \subseteq loaded' \/ \E m : built /\ RouterLoad(m)
        BY <1>2, <3>4 DEF WorkerStep, WorkerTry, WarmSnapshot, WarmLoad, WarmDone, WarmFails,
             WarmStart, PrefetchHead, PrefetchResident, PrefetchStops, PrefetchSlot,
             PrefetchLoad, PrefetchFails, PrefetchPop, router, BuiltInv, Before, Threads
      <3>5. ASSUME NEW t \in Admins, NEW o, NEW ns, AdminCall(t, o, ns)
            PROVE  loaded \subseteq loaded'
        BY <3>5 DEF AdminCall, router
      <3>6. QED BY <1>2, <3>1, <3>2, <3>3, <3>4, <3>5 DEF Next
    <2>2. CASE \E t \in Admins, m \in Models : UnloadOne(t, m)
      BY <2>2 DEF UnloadOne
    <2>3. QED BY <1>1, <1>2, <2>1, <2>2
  <1>3. TypeOK /\ BuiltInv /\ [Next]_vars => [A]_vars
    BY <1>2
  <1>4. QED BY <1>3, BuiltAlways, PTL DEF Spec, OnlyUnloadEvicts

-----------------------------------------------------------------------------
(* The in-flight count. *)

Held == {t \in Clients : pc[t] \in {"queued", "resident", "forward", "leave"}}

LEMMA HeldFinite == IsFiniteSet(Held) /\ Cardinality(Held) \in Nat
  BY EngineAssumption, FS_Subset, FS_CardinalityType DEF Held, Threads

LEMMA InflightStep == TypeOK /\ InflightExact /\ [Next]_vars => InflightExact'
  <1> SUFFICES ASSUME TypeOK, InflightExact, [Next]_vars PROVE InflightExact'
    OBVIOUS
  <1>1. /\ pc \in [Threads -> Places] /\ Clients \subseteq Threads
        /\ Admins \subseteq Threads /\ Workers \subseteq Threads
        /\ Clients \cap Admins = {} /\ Clients \cap Workers = {}
        /\ inflight = Cardinality(Held) /\ IsFiniteSet(Held)
    BY EngineAssumption, HeldFinite DEF TypeOK, Places, Threads, InflightExact, Held
  <1>2. InflightExact' <=> inflight' = Cardinality(Held')
    BY DEF InflightExact, Held
  <1>3. CASE \E t \in Clients, m \in Models : Decide(t, m)
    <2>1. PICK t \in Clients, m \in Models : Decide(t, m)
      BY <1>3
    <2>2. Held' = Held \cup {t} /\ t \notin Held
      BY <1>1, <2>1 DEF Decide, Go, Held
    <2>3. Cardinality(Held \cup {t}) = Cardinality(Held) + 1
      BY <1>1, <2>2, FS_AddElement
    <2>4. QED BY <1>1, <1>2, <2>1, <2>2, <2>3 DEF Decide
  <1>4. CASE \E t \in Clients : Leave(t)
    <2>1. PICK t \in Clients : Leave(t)
      BY <1>4
    <2>2. Held' = Held \ {t} /\ t \in Held
      BY <1>1, <2>1 DEF Leave, Go, Held
    <2>3. Cardinality(Held \ {t}) = Cardinality(Held) - 1
      BY <1>1, <2>2, FS_RemoveElement
    <2>4. QED BY <1>1, <1>2, <2>1, <2>2, <2>3 DEF Leave, LeaveCount
  <1>5. CASE ~(\E t \in Clients : Leave(t) \/ \E m \in Models : Decide(t, m))
    <2>1. inflight' = inflight /\ Held' = Held
      <3>1. ASSUME NEW t \in Threads, EnsureStep(t) PROVE inflight' = inflight /\ Held' = Held
        <4>1. AfterEnsure(t) \notin {"queued", "resident", "forward", "leave"}
          BY EngineAssumption DEF AfterEnsure, Threads
        <4>2. QED BY <1>1, <3>1, <4>1 DEF EnsureStep, EnsureFast, EnsureLock, EnsureFound,
                       EnsureBuild, EnsureFail, Raise, Rest, Go, Held
      <3>2. ASSUME NEW t \in Clients, PredictCall(t) \/ ClientStep(t)
            PROVE  inflight' = inflight /\ Held' = Held
        BY <1>1, <1>5, <3>2 DEF PredictCall, Call, ClientStep, KickQueue, KickLock, KickGated,
             KickFails, Answer, KickSpawn, PredictLock, ResidentAgent, PredictUnlock, Go, Held
      <3>3. ASSUME NEW t \in Admins,
                   \/ AdminStep(t)
                   \/ \E o \in {"load", "unload"}, ns \in SUBSET Models \ {{}} : AdminCall(t, o, ns)
            PROVE  inflight' = inflight /\ Held' = Held
        BY <1>1, <3>3 DEF AdminStep, AdminCall, Call, LoadRefused, LoadChecked, UnloadCancels,
             AdminReturn, LoadOne, UnloadOne, CancelOne, Go, Held
      <3>4. ASSUME NEW w \in Workers, WorkerStep(w) PROVE inflight' = inflight /\ Held' = Held
        BY <1>1, <3>4 DEF WorkerStep, WorkerTry, WarmSnapshot, WarmLoad, WarmDone, WarmFails,
             WarmStart, PrefetchHead, PrefetchResident, PrefetchStops, PrefetchSlot,
             PrefetchLoad, PrefetchFails, PrefetchPop, WorkerEnd, Go, Held
      <3>5. CASE UNCHANGED vars
        BY <3>5 DEF vars, Held
      <3>6. QED BY <3>1, <3>2, <3>3, <3>4, <3>5 DEF Next
    <2>2. QED BY <1>1, <1>2, <2>1
  <1>6. QED BY <1>3, <1>4, <1>5

\* RealAdapter.predict: the count that queue.wait reports is the number of requests that
\* have decided and not returned, whatever raised on the way.
THEOREM InflightCounted == Spec => []InflightExact
  <1>1. Init => InflightExact
    <2> SUFFICES ASSUME Init PROVE InflightExact
      OBVIOUS
    <2>1. PICK w \in Workers : pc = [t \in Threads |-> IF t = w THEN "start" ELSE Rest(t)]
      BY DEF Init
    <2>2. Held = {}
      BY <2>1 DEF Held, Rest, Threads
    <2>3. QED BY <2>2, FS_EmptySet DEF Init, InflightExact, Held
  <1>2. QED BY <1>1, InitTypes, StepTypes, InflightStep, PTL DEF Spec

\* Forward passes exclude each other and the in-flight count is exact, for any number
\* of request threads, admins and workers (predict).
THEOREM ForwardsAreSound == Spec => []ForwardSound
  <1>1. TypeOK /\ OneForward /\ InflightExact => ForwardSound
    BY DEF ForwardSound
  <1>2. QED BY <1>1, TypeCorrect, ForwardsExclude, InflightCounted, PTL

-----------------------------------------------------------------------------
(* The staged checkpoints are distinct positions of the configured list. *)

Traces(f, q) ==
  /\ f \in [1 .. Len(q) -> Tail1]
  /\ \A i, j \in 1 .. Len(q) : f[i] = f[j] => i = j
  /\ \A i \in 1 .. Len(q) : q[i] = Names[f[i]]

StagedInv == \E f : Traces(f, queue)

\* Dropping one position of a traced queue leaves a traced queue.
LEMMA TraceDrop ==
  ASSUME NEW q \in Seq(Models), NEW f, Traces(f, q), NEW k \in 1 .. Len(q),
         NEW r \in Seq(Models), Len(r) = Len(q) - 1,
         \A i \in 1 .. (Len(q) - 1) : r[i] = IF i < k THEN q[i] ELSE q[i + 1]
  PROVE  \E g : Traces(g, r)
  <1> DEFINE g == [i \in 1 .. Len(r) |-> IF i < k THEN f[i] ELSE f[i + 1]]
  <1>1. Len(q) \in Nat
    BY LenProperties
  <1>2. g \in [1 .. Len(r) -> Tail1]
    BY <1>1 DEF Traces
  <1>3. ASSUME NEW i \in 1 .. Len(r), NEW j \in 1 .. Len(r), g[i] = g[j] PROVE i = j
    BY <1>1, <1>3 DEF Traces
  <1>4. \A i \in 1 .. Len(r) : r[i] = Names[g[i]]
    BY <1>1 DEF Traces
  <1> HIDE DEF g
  <1>5. Traces(g, r)
    BY <1>2, <1>3, <1>4 DEF Traces
  <1>6. QED BY <1>5

LEMMA StagedStep == TypeOK /\ BuiltInv /\ StagedInv /\ [Next]_vars => StagedInv'
  <1> SUFFICES ASSUME TypeOK, BuiltInv, StagedInv, [Next]_vars PROVE StagedInv'
    OBVIOUS
  <1>1. PICK f : Traces(f, queue)
    BY DEF StagedInv
  <1>2. queue \in Seq(Models) /\ Len(queue) \in Nat
    BY LenProperties DEF TypeOK
  <1>3. CASE queue' = queue
    BY <1>1, <1>3 DEF StagedInv
  <1>4. CASE \E t \in Threads : EnsureBuild(t)
    <2>1. queue = <<>> /\ queue' = queue \o Tail(Names)
      BY <1>4 DEF EnsureBuild, BuiltInv
    <2>2. /\ Tail(Names) \in Seq(Models) /\ Len(Tail(Names)) = Len(Names) - 1
          /\ \A i \in 1 .. Len(Tail(Names)) : Tail(Names)[i] = Names[i + 1]
          /\ Len(Names) \in Nat
      <3>1. Names # <<>>
        BY NamesTyped, EmptySeq
      <3>2. QED BY <3>1, EngineAssumption, NamesTyped, HeadTailProperties
    <2>3. queue' = Tail(Names)
      BY <2>1, <2>2, ConcatEmptySeq
    <2> DEFINE g == [i \in 1 .. Len(queue') |-> i + 1]
    <2>4. Traces(g, queue')
      BY <2>2, <2>3 DEF Traces, Tail1
    <2>5. QED
      <3> HIDE DEF g
      <3>1. QED BY <2>4 DEF StagedInv
  <1>5. CASE \E w \in Workers : PrefetchPop(w) /\ queue' # queue
    <2>1. queue # <<>> /\ queue' = Tail(queue)
      BY <1>5 DEF PrefetchPop
    <2>2. /\ queue' \in Seq(Models) /\ Len(queue') = Len(queue) - 1
          /\ \A i \in 1 .. Len(queue') : queue'[i] = queue[i + 1]
      BY <1>2, <2>1, HeadTailProperties
    <2>3. 1 \in 1 .. Len(queue)
      BY <1>2, <2>1, EmptySeq
    <2>4. \A i \in 1 .. (Len(queue) - 1) : queue'[i] = IF i < 1 THEN queue[i] ELSE queue[i + 1]
      BY <1>2, <2>2
    <2>5. QED BY <1>1, <1>2, <2>2, <2>3, <2>4, TraceDrop DEF StagedInv
  <1>6. CASE \E t \in Admins, m \in Models : CancelOne(t, m)
    <2>1. PICK m \in Models : queue' = Removed(queue, m)
      BY <1>6 DEF CancelOne
    <2>2. CASE Removed(queue, m) = queue
      BY <1>3, <2>1, <2>2
    <2>3. CASE \E k \in 1 .. Len(queue) :
                 /\ queue' \in Seq(Models) /\ Len(queue') = Len(queue) - 1
                 /\ \A i \in 1 .. (Len(queue) - 1) :
                      queue'[i] = IF i < k THEN queue[i] ELSE queue[i + 1]
      BY <1>1, <1>2, <2>3, TraceDrop DEF StagedInv
    <2>4. QED BY <1>2, <2>1, <2>2, <2>3, RemovedShape
  <1>7. \/ queue' = queue
        \/ \E t \in Threads : EnsureBuild(t)
        \/ \E w \in Workers : PrefetchPop(w)
        \/ \E t \in Admins, m \in Models : CancelOne(t, m)
    <2>1. ASSUME NEW t \in Threads, EnsureStep(t) PROVE queue' = queue \/ EnsureBuild(t)
      BY <2>1 DEF EnsureStep, EnsureFast, EnsureLock, EnsureFound, EnsureFail, StageLate
    <2>2. ASSUME NEW t \in Clients, PredictCall(t) \/ ClientStep(t) PROVE queue' = queue
      BY <2>2 DEF PredictCall, ClientStep, KickQueue, KickLock, KickGated, KickFails, Answer,
           KickSpawn, Decide, PredictLock, ResidentAgent, PredictUnlock, Leave
    <2>3. ASSUME NEW t \in Admins,
                 \/ AdminStep(t)
                 \/ \E o \in {"load", "unload"}, ns \in SUBSET Models \ {{}} : AdminCall(t, o, ns)
          PROVE  queue' = queue \/ \E m \in Models : CancelOne(t, m)
      BY <2>3 DEF AdminStep, AdminCall, LoadRefused, LoadChecked, UnloadCancels, AdminReturn,
           LoadOne, UnloadOne
    <2>4. ASSUME NEW w \in Workers, WorkerStep(w) PROVE queue' = queue \/ PrefetchPop(w)
      BY <2>4 DEF WorkerStep, WorkerTry, WarmSnapshot, WarmLoad, WarmDone, WarmFails, WarmStart,
           PrefetchHead, PrefetchResident, PrefetchStops, PrefetchSlot, PrefetchLoad,
           PrefetchFails
    <2>5. QED BY <2>1, <2>2, <2>3, <2>4 DEF Next, vars
  <1>8. QED BY <1>3, <1>4, <1>5, <1>6, <1>7

LEMMA StagedCounts ==
  ASSUME TypeOK, StagedInv
  PROVE  StagedOnce
  <1>1. PICK f : Traces(f, queue)
    BY DEF StagedInv
  <1>2. DOMAIN queue = 1 .. Len(queue)
    BY LenProperties DEF TypeOK
  <1>3. ASSUME NEW m \in Models
        PROVE  Cardinality({i \in DOMAIN queue : queue[i] = m})
                 <= Cardinality({i \in Tail1 : Names[i] = m})
    <2> DEFINE S == {i \in DOMAIN queue : queue[i] = m}
               T == {i \in Tail1 : Names[i] = m}
               g == [i \in S |-> f[i]]
    <2>1. g \in Injection(S, T)
      BY <1>1, <1>2 DEF Traces, Injection, IsInjective
    <2>2. IsFiniteSet(T)
      <3>1. IsFiniteSet(Tail1)
        BY NamesTyped, FS_Interval DEF Tail1
      <3>2. QED BY <3>1, FS_Subset
    <2> HIDE DEF S, T, g
    <2>3. Cardinality(S) <= Cardinality(T)
      BY <2>1, <2>2, FS_Injection
    <2>4. QED BY <2>3 DEF S, T
  <1>4. QED BY <1>3 DEF StagedOnce

\* RealAdapter._ensure: however many threads construct, fail and retry, no configured name
\* is staged more often than it is configured, so none is prefetched twice.
THEOREM NeverStagedTwice == Spec => []StagedOnce
  <1>1. Init => StagedInv
    <2> SUFFICES ASSUME Init PROVE StagedInv
      OBVIOUS
    <2> DEFINE f == [i \in 1 .. 0 |-> 2]
    <2>1. queue = <<>> /\ Len(queue) = 0
      BY EmptySeq DEF Init
    <2>2. Traces(f, queue)
      BY <2>1 DEF Traces
    <2>3. QED
      <3> HIDE DEF f
      <3>1. QED BY <2>2 DEF StagedInv
  <1>2. TypeOK /\ StagedInv => StagedOnce
    BY StagedCounts
  <1>3. QED BY <1>1, <1>2, InitTypes, StepTypes, BuiltInit, BuiltStep, StagedStep, PTL DEF Spec
=============================================================================
