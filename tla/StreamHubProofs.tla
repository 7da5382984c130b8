-------------------------- MODULE StreamHubProofs --------------------------
(* Theorems about the live stream, for any number of browsers, stream and   *)
(* timer threads.                                                           *)
EXTENDS StreamHub, ListFacts

Places == StreamPlaces \cup TimerPlaces

\* What the shared pulse needs of the types.
PulseType == computing \in BOOLEAN /\ pc \in [Threads -> Places]

PulseInv == PulseType /\ OneProvider

-----------------------------------------------------------------------------
(* The three things a step may do to the claim. *)

\* Nobody enters or leaves the computation.
LEMMA ClaimUntouched ==
  ASSUME PulseInv, computing' = computing, pc' \in [Threads -> Places],
         \A t \in Threads : pc'[t] = "compute" <=> pc[t] = "compute"
  PROVE  PulseInv'
  BY DEF PulseInv, PulseType, OneProvider

\* One thread goes from one place outside the computation to another.
LEMMA MoveOutside ==
  ASSUME PulseInv, UNCHANGED computing, NEW t \in Threads, NEW p \in Places \ {"compute"},
         pc[t] # "compute", Go(t, p)
  PROVE  PulseInv'
  <1>1. pc' \in [Threads -> Places] /\ \A u \in Threads : pc'[u] = "compute" <=> pc[u] = "compute"
    BY DEF PulseInv, PulseType, Go
  <1>2. QED BY <1>1, ClaimUntouched

\* A thread that finds no claim makes one.
LEMMA Claimed ==
  ASSUME PulseInv, ~computing, computing' = TRUE, NEW t \in Threads, Go(t, "compute")
  PROVE  PulseInv'
  <1>1. \A u \in Threads : pc[u] # "compute"
    BY DEF PulseInv, OneProvider
  <1>2. pc' \in [Threads -> Places] /\ \A u \in Threads : pc'[u] = "compute" <=> u = t
    BY <1>1 DEF PulseInv, PulseType, Go, Places, StreamPlaces
  <1>3. QED BY <1>2 DEF PulseInv, PulseType, OneProvider

\* The one that holds it releases it.
LEMMA Released ==
  ASSUME PulseInv, NEW t \in Threads, _compute_pulse(t)
  PROVE  PulseInv'
  <1>1. pc' \in [Threads -> Places] /\ \A u \in Threads : pc'[u] # "compute"
    BY DEF PulseInv, PulseType, OneProvider, _compute_pulse, Go, Places, StreamPlaces
  <1>2. QED BY <1>1 DEF PulseInv, PulseType, OneProvider, _compute_pulse, ClaimEnds

-----------------------------------------------------------------------------
LEMMA PulseStart == Init => PulseInv
  BY ZenonT(60) DEF Init, PulseInv, PulseType, OneProvider, Places, StreamPlaces

LEMMA ArmKeeps ==
  ASSUME PulseInv, NEW t \in Threads, _arm_prefetch(t)
  PROVE  PulseInv'
  <1> DEFINE next == IF t \in Slots THEN "write" ELSE "off"
  <1>1. next \in Places \ {"compute"} /\ "armed" \in Places
    BY DEF Places, StreamPlaces, TimerPlaces
  <1>2. pc[t] = "arm" /\ UNCHANGED computing
    BY DEF _arm_prefetch
  <1>3. \/ \E n \in Timers : (pc[n] = "off" \/ n = t) /\ pc' = [pc EXCEPT ![t] = next, ![n] = "armed"]
        \/ Go(t, next)
    BY DEF _arm_prefetch
  <1> HIDE DEF next
  <1>4. CASE Go(t, next)
    BY <1>1, <1>2, <1>4, MoveOutside
  <1>5. ASSUME NEW n \in Timers, pc[n] = "off" \/ n = t, pc' = [pc EXCEPT ![t] = next, ![n] = "armed"]
        PROVE  PulseInv'
    <2>1. n \in Threads /\ pc[n] # "compute"
      BY <1>2, <1>5 DEF Threads
    <2>2. pc' \in [Threads -> Places] /\ \A u \in Threads : pc'[u] = "compute" <=> pc[u] = "compute"
      BY <1>1, <1>2, <1>5, <2>1 DEF PulseInv, PulseType
    <2>3. QED BY <2>2, <1>2, ClaimUntouched
  <1>6. QED BY <1>3, <1>4, <1>5

LEMMA StreamKeeps ==
  ASSUME PulseInv, NEW s \in Slots, StreamStep(s)
  PROVE  PulseInv'
  <1>1. s \in Threads
    BY DEF Threads
  <1>2. {"off", "tick", "await", "write"} \subseteq Places \ {"compute"}
    BY DEF Places, StreamPlaces
  <1>3. CASE WriteHead(s) \/ WriteBatch(s)
    <2>1. pc[s] # "compute" /\ Go(s, "tick") /\ UNCHANGED computing
      BY <1>3 DEF WriteHead, WriteBatch, pulse
    <2>2. QED BY <1>1, <1>2, <2>1, MoveOutside
  <1>4. CASE WriteFails(s) \/ Stopped(s)
    <2>1. pc[s] # "compute" /\ Go(s, "off") /\ UNCHANGED computing
      BY <1>4 DEF WriteFails, Stopped, SeesStop, Unregister, pulse
    <2>2. QED BY <1>1, <1>2, <2>1, MoveOutside
  <1>5. CASE TickFresh(s) \/ Awaited(s)
    <2>1. pc[s] # "compute" /\ Go(s, "write") /\ UNCHANGED computing
      BY <1>5 DEF TickFresh, Awaited, Drain, pulse
    <2>2. QED BY <1>1, <1>2, <2>1, MoveOutside
  <1>6. CASE TickAwaits(s)
    <2>1. pc[s] # "compute" /\ Go(s, "await") /\ UNCHANGED computing
      BY <1>6 DEF TickAwaits, Drain, pulse
    <2>2. QED BY <1>1, <1>2, <2>1, MoveOutside
  <1>7. CASE TickClaims(s)
    BY <1>1, <1>7, Claimed DEF TickClaims, ClaimFree
  <1>8. CASE _compute_pulse(s)
    BY <1>1, <1>8, Released
  <1>9. CASE _arm_prefetch(s)
    BY <1>1, <1>9, ArmKeeps
  <1>10. QED BY <1>3, <1>4, <1>5, <1>6, <1>7, <1>8, <1>9 DEF StreamStep

LEMMA TimerKeeps ==
  ASSUME PulseInv, NEW t \in Timers, TimerStep(t)
  PROVE  PulseInv'
  <1>1. t \in Threads /\ "off" \in Places \ {"compute"}
    BY DEF Threads, Places, StreamPlaces
  <1>2. CASE _prefetch(t)
    <2>1. \/ ~computing /\ computing' = TRUE /\ Go(t, "compute")
          \/ pc[t] # "compute" /\ UNCHANGED computing /\ Go(t, "off")
      BY <1>2 DEF _prefetch
    <2>2. QED BY <1>1, <2>1, Claimed, MoveOutside
  <1>3. CASE _compute_pulse(t)
    BY <1>1, <1>3, Released
  <1>4. CASE _arm_prefetch(t)
    BY <1>1, <1>4, ArmKeeps
  <1>5. QED BY <1>2, <1>3, <1>4 DEF TimerStep

\* Browsers, publishers, stop() and a broken connection leave the claim alone; a new
\* process starts without one.
LEMMA OthersKeep ==
  ASSUME PulseInv, UNCHANGED <<computing, pc>>
  PROVE  PulseInv'
  BY DEF PulseInv, PulseType, OneProvider

LEMMA PulseNext == PulseInv /\ [Next]_vars => PulseInv'
  <1> SUFFICES ASSUME PulseInv, [Next]_vars PROVE PulseInv'
    OBVIOUS
  <1>1. ASSUME NEW s \in Slots, StreamStep(s) PROVE PulseInv'
    BY <1>1, StreamKeeps
  <1>2. ASSUME NEW t \in Timers, TimerStep(t) PROVE PulseInv'
    BY <1>2, TimerKeeps
  <1>3. CASE Restart
    <2>1. computing' = FALSE /\ pc' = [t \in Threads |-> "off"]
      BY <1>3 DEF Restart
    <2>2. QED BY <2>1 DEF PulseInv, PulseType, OneProvider, Places, StreamPlaces
  <1>4. CASE publish_trace \/ stop \/ \E s \in Slots : read(s) \/ Notice(s)
    <2>1. UNCHANGED <<computing, pc>>
      BY <1>4 DEF publish_trace, stop, read, Notice, Close, pulse
    <2>2. QED BY <2>1, OthersKeep
  <1>5. ASSUME NEW s \in Slots, NoticeFrees(s) PROVE PulseInv'
    <2>1. s \in Threads /\ "tick" \in Places \ {"compute"}
      BY DEF Threads, Places, StreamPlaces
    <2>2. pc[s] # "compute" /\ Go(s, "tick") /\ UNCHANGED computing
      BY <1>5 DEF NoticeFrees, Close, pulse
    <2>3. QED BY <2>1, <2>2, MoveOutside
  <1>6. ASSUME NEW b \in Browsers,
               \/ BrowserStep(b) \/ Mount(b) \/ Unmount(b) \/ Break(b) \/ Stall(b) \/ Resume(b)
               \/ \E s \in Slots : Receive(b, s)
        PROVE  PulseInv'
    <2>1. CASE \E s \in Slots : _handle(b, s)
      <3>1. PICK s \in Slots : _handle(b, s)
        BY <2>1
      <3>2. s \in Threads /\ "head" \in Places \ {"compute"}
        BY DEF Threads, Places, StreamPlaces
      <3>3. pc[s] # "compute" /\ Go(s, "head") /\ UNCHANGED computing
        BY <3>1 DEF _handle, pulse
      <3>4. QED BY <3>2, <3>3, MoveOutside
    <2>2. CASE ~ \E s \in Slots : _handle(b, s)
      <3>1. UNCHANGED <<computing, pc>>
        BY <1>6, <2>2 DEF BrowserStep, Connect, onopen, Refused, Ended, Mount, Unmount, Break, Stall, Resume,
                              Receive, pulse
      <3>2. QED BY <3>1, OthersKeep
    <2>3. QED BY <2>1, <2>2
  <1>7. CASE UNCHANGED vars
    <2>1. UNCHANGED <<computing, pc>>
      BY <1>7 DEF vars, pulse
    <2>2. QED BY <2>1, OthersKeep
  <1>8. QED BY <1>1, <1>2, <1>3, <1>4, <1>5, <1>6, <1>7 DEF Next

\* At most one pulse provider call runs at a time, and a claim always has the
\* computation that will release it: no waiter is left behind a dead claim.
THEOREM OneProviderCall == Spec => []OneProvider
  <1>1. PulseInv => OneProvider
    BY DEF PulseInv
  <1>2. QED BY <1>1, PulseStart, PulseNext, PTL DEF Spec

-----------------------------------------------------------------------------
(* Types. *)

HubTypes ==
  /\ ring \in Seq(Events) /\ Len(ring) <= Replay /\ nextId \in Nat \ {0} /\ clients \subseteq Slots
  /\ queue \in [Slots -> Seq(Events)] /\ stopping \in BOOLEAN

PlaceTypes ==
  /\ computing \in BOOLEAN /\ timer \in Timers \cup {NoTimer}
  /\ pc \in [Threads -> Places]
  /\ \A s \in Slots : pc[s] \in StreamPlaces
  /\ \A t \in Timers : pc[t] \in TimerPlaces

ConnTypes ==
  /\ batch \in [Slots -> Seq(Events)] /\ sink \in [Slots -> Seq(Events)]
  /\ chunks \in [Slots -> 0 .. Room] /\ stalled \subseteq Slots
  /\ link \in [Slots -> {"up", "lost", "drain", "closed"}] /\ owner \in [Slots -> Browsers \cup {NoBrowser}]
  /\ floor \in [Slots -> Nat]

PageTypes ==
  /\ place \in [Browsers -> {"off", "connecting", "open", "backoff"}]
  /\ lastId \in [Browsers -> Nat] /\ attempts \in [Browsers -> 0 .. 2]
  /\ polling \in [Browsers -> BOOLEAN] /\ lastBoot \in [Browsers -> Nat]

CountTypes == boot \in Nat /\ published \in Nat /\ faults \in Nat

LEMMA HubTypesSplit == TypeOK <=> HubTypes /\ PlaceTypes /\ ConnTypes /\ PageTypes /\ CountTypes
  BY DEF TypeOK, HubTypes, PlaceTypes, ConnTypes, PageTypes, CountTypes, Places

LEMMA HubTypesSplitNext == TypeOK' <=> HubTypes' /\ PlaceTypes' /\ ConnTypes' /\ PageTypes' /\ CountTypes'
  BY DEF TypeOK, HubTypes, PlaceTypes, ConnTypes, PageTypes, CountTypes, Places

LEMMA TypesKept ==
  /\ HubTypes /\ UNCHANGED hub => HubTypes'
  /\ PlaceTypes /\ UNCHANGED <<computing, timer, pc>> => PlaceTypes'
  /\ ConnTypes /\ UNCHANGED conn => ConnTypes'
  /\ PageTypes /\ UNCHANGED page => PageTypes'
  /\ CountTypes /\ UNCHANGED counts => CountTypes'
  BY DEF hub, conn, flow, page, counts, HubTypes, PlaceTypes, ConnTypes, PageTypes, CountTypes

\* A thread moves.
LEMMA SlotMoves ==
  ASSUME PlaceTypes, NEW s \in Slots, NEW p \in StreamPlaces, Go(s, p), computing' \in BOOLEAN,
         UNCHANGED timer
  PROVE  PlaceTypes'
  BY StreamAssumption DEF PlaceTypes, Go, Threads, Places

LEMMA TimerMoves ==
  ASSUME PlaceTypes, NEW t \in Timers, NEW p \in TimerPlaces, Go(t, p), computing' \in BOOLEAN,
         timer' \in Timers \cup {NoTimer}
  PROVE  PlaceTypes'
  BY StreamAssumption DEF PlaceTypes, Go, Threads, Places

LEMMA EventList ==
  /\ <<>> \in Seq(Events)
  /\ \A list \in Seq(Events), e \in Events : Append(list, e) \in Seq(Events) /\ Len(Append(list, e)) = Len(list) + 1
  /\ \A list \in Seq(Events) : Len(list) \in Nat
  /\ \A list \in Seq(Events) : list # <<>> =>
        /\ Tail(list) \in Seq(Events) /\ Len(Tail(list)) = Len(list) - 1 /\ Len(list) # 0
        /\ Head(list) \in Events /\ Head(list) = list[1]
  /\ \A a, b \in Seq(Events) : a \o b \in Seq(Events)
  /\ \A list \in Seq(Events), n \in Nat : Only(list, Later(n)) \in Seq(Events)
  <1>1. <<>> \in Seq(Events)
    BY EmptySeq
  <1>2. \A list \in Seq(Events), e \in Events : Append(list, e) \in Seq(Events) /\ Len(Append(list, e)) = Len(list) + 1
    BY AppendProperties
  <1>3. \A list \in Seq(Events) : Len(list) \in Nat
    BY LenProperties
  <1>4. ASSUME NEW list \in Seq(Events), list # <<>>
        PROVE  /\ Tail(list) \in Seq(Events) /\ Len(Tail(list)) = Len(list) - 1 /\ Len(list) # 0
               /\ Head(list) \in Events /\ Head(list) = list[1]
    BY <1>4, HeadTailProperties, EmptySeq
  <1>5. \A a, b \in Seq(Events) : a \o b \in Seq(Events)
    BY ConcatProperties
  <1>6. \A list \in Seq(Events), n \in Nat : Only(list, Later(n)) \in Seq(Events)
    BY OnlyType
  <1>7. QED BY <1>1, <1>2, <1>3, <1>4, <1>5, <1>6

LEMMA EventParts ==
  /\ \A e \in Events : e.boot \in Nat /\ e.id \in Nat
  /\ \A b \in Nat, i \in Nat : [boot |-> b, id |-> i] \in Events
  BY DEF Events

LEMMA TypeStart == Init => TypeOK
  <1> SUFFICES ASSUME Init PROVE TypeOK
    OBVIOUS
  <1>1. <<>> \in Seq(Events) /\ Len(<<>>) = 0
    BY EmptySeq
  <1>2. HubTypes /\ ConnTypes
    <2>1. ring \in Seq(Events) /\ Len(ring) <= Replay
      BY <1>1, StreamAssumption DEF Init
    <2>2. queue \in [Slots -> Seq(Events)] /\ ConnTypes
      BY <1>1, StreamAssumption DEF Init, ConnTypes
    <2>3. nextId = 1 /\ clients \subseteq Slots
      BY DEF Init
    <2>4. stopping \in BOOLEAN
      BY Zenon DEF Init
    <2>5. QED BY <2>1, <2>2, <2>3, <2>4 DEF HubTypes
  <1>3. PlaceTypes
    BY StreamAssumption DEF Init, PlaceTypes, Threads, Places, StreamPlaces, TimerPlaces
  <1>4. PageTypes /\ CountTypes
    BY DEF Init, PageTypes, CountTypes
  <1>5. QED BY <1>2, <1>3, <1>4, HubTypesSplit

LEMMA PublishTypes ==
  ASSUME TypeOK, publish_trace
  PROVE  TypeOK'
  <1>1. HubTypes /\ PlaceTypes /\ ConnTypes /\ PageTypes /\ CountTypes
    BY HubTypesSplit
  <1>2. PICK e : e = [boot |-> boot, id |-> nextId]
    OBVIOUS
  <1>3. e \in Events /\ Remember(e) /\ FanOut(e)
    BY <1>1, <1>2, EventParts DEF HubTypes, CountTypes, publish_trace
  <1>4. ring \in Seq(Events) /\ Len(ring) \in Nat /\ Len(ring) <= Replay /\ Replay \in Nat \ {0}
    BY <1>1, EventList, StreamAssumption DEF HubTypes
  <1>5. ring' \in Seq(Events) /\ Len(ring') <= Replay
    <2>1. CASE Len(ring) < Replay
      BY <1>3, <1>4, <2>1, EventList DEF Remember
    <2>2. CASE ~(Len(ring) < Replay)
      <3>1. ring # <<>>
        BY <1>4, <2>2, EmptySeq
      <3>2. Tail(ring) \in Seq(Events) /\ Len(Tail(ring)) = Len(ring) - 1
        BY <1>4, <3>1, EventList
      <3>3. QED BY <1>3, <1>4, <2>2, <3>2, EventList DEF Remember
    <2>3. QED BY <2>1, <2>2
  <1>6. queue' \in [Slots -> Seq(Events)]
    BY <1>1, <1>3, EventList DEF HubTypes, FanOut
  <1>7. HubTypes'
    BY <1>1, <1>5, <1>6 DEF HubTypes, publish_trace
  <1>8. PlaceTypes' /\ ConnTypes' /\ PageTypes'
    BY <1>1, TypesKept DEF publish_trace, pulse
  <1>9. CountTypes'
    BY <1>1 DEF CountTypes, publish_trace
  <1>10. QED BY <1>7, <1>8, <1>9, HubTypesSplitNext

LEMMA HandleTypes ==
  ASSUME TypeOK, NEW b \in Browsers, NEW s \in Slots, _handle(b, s)
  PROVE  TypeOK'
  <1>1. HubTypes /\ PlaceTypes /\ ConnTypes /\ PageTypes /\ CountTypes
    BY HubTypesSplit
  <1>2. PICK n, r : n = (IF ring = <<>> THEN nextId ELSE ring[1].id)
                    /\ r = (IF lastId[b] = 0 THEN <<>> ELSE Replayed(lastId[b]))
    OBVIOUS
  <1>3. n \in Nat
    <2>1. ring # <<>> => ring[1] \in Events
      BY <1>1, EventList DEF HubTypes
    <2>2. QED BY <1>1, <1>2, <2>1, EventParts DEF HubTypes
  <1>4. r \in Seq(Events)
    BY <1>1, <1>2, EventList DEF HubTypes, PageTypes, Replayed
  <1>5. /\ queue' = [queue EXCEPT ![s] = <<>>] /\ batch' = [batch EXCEPT ![s] = r]
        /\ floor' = [floor EXCEPT ![s] = n]
    BY <1>2 DEF _handle
  <1>6. HubTypes'
    <2>1. queue' \in [Slots -> Seq(Events)] /\ UNCHANGED <<ring, nextId, stopping>>
      BY <1>1, <1>5, EventList DEF HubTypes, _handle
    <2>2. clients' \subseteq Slots
      BY <1>1 DEF HubTypes, _handle
    <2>3. QED BY <1>1, <2>1, <2>2 DEF HubTypes
  <1>7. ConnTypes'
    BY <1>1, <1>3, <1>4, <1>5, StreamAssumption DEF ConnTypes, _handle
  <1>8. Go(s, "head") /\ "head" \in StreamPlaces /\ UNCHANGED <<computing, timer>>
    BY DEF _handle, StreamPlaces, pulse
  <1>9. PlaceTypes'
    BY <1>1, <1>8, SlotMoves DEF PlaceTypes
  <1>10. PageTypes' /\ CountTypes'
    BY <1>1, TypesKept DEF _handle
  <1>11. QED BY <1>6, <1>7, <1>9, <1>10, HubTypesSplitNext

LEMMA ArmTypes ==
  ASSUME PlaceTypes, NEW t \in Threads, _arm_prefetch(t)
  PROVE  PlaceTypes'
  <1>1. PICK next : next = IF t \in Slots THEN "write" ELSE "off"
    OBVIOUS
  <1>2. UNCHANGED computing
    BY DEF _arm_prefetch
  <1>3. (t \in Slots /\ next \in StreamPlaces) \/ (t \in Timers /\ next \in TimerPlaces)
    BY <1>1 DEF Threads, StreamPlaces, TimerPlaces
  <1>4. CASE Go(t, next) /\ UNCHANGED timer
    BY <1>2, <1>3, <1>4, SlotMoves, TimerMoves DEF PlaceTypes
  <1>5. CASE \E n \in Timers : timer' = n /\ pc' = [pc EXCEPT ![t] = next, ![n] = "armed"]
    <2>1. PICK n \in Timers : timer' = n /\ pc' = [pc EXCEPT ![t] = next, ![n] = "armed"]
      BY <1>5
    <2>2. "armed" \in TimerPlaces
      BY DEF TimerPlaces
    <2>3. QED BY <1>2, <1>3, <2>1, <2>2, StreamAssumption DEF PlaceTypes, Threads, Places
  <1>6. (Go(t, next) /\ UNCHANGED timer)
        \/ \E n \in Timers : timer' = n /\ pc' = [pc EXCEPT ![t] = next, ![n] = "armed"]
    BY <1>1 DEF _arm_prefetch
  <1>7. QED BY <1>4, <1>5, <1>6

\* What a thread that computes or arms leaves alone.
LEMMA PulseOnlyTypes ==
  ASSUME TypeOK, PlaceTypes', UNCHANGED <<hub, conn, page, counts>>
  PROVE  TypeOK'
  BY HubTypesSplit, TypesKept, HubTypesSplitNext

LEMMA StreamTypes ==
  ASSUME TypeOK, NEW s \in Slots, StreamStep(s)
  PROVE  TypeOK'
  <1>1. HubTypes /\ PlaceTypes /\ ConnTypes /\ PageTypes /\ CountTypes /\ s \in Threads
    BY HubTypesSplit DEF Threads
  <1>2. {"off", "tick", "await", "write", "compute", "arm"} \subseteq StreamPlaces
    BY DEF StreamPlaces
  <1>3. CASE WriteHead(s) \/ WriteBatch(s)
    <2>1. PICK w : w = IF link[s] = "up" THEN sink[s] \o batch[s] ELSE sink[s]
      OBVIOUS
    <2>2. w \in Seq(Events)
      BY <1>1, <2>1, EventList DEF ConnTypes
    <2>3. /\ sink' = [sink EXCEPT ![s] = w] /\ batch' = [batch EXCEPT ![s] = <<>>]
          /\ chunks' = [chunks EXCEPT ![s] = chunks[s] + 1] /\ chunks[s] < Room
          /\ UNCHANGED <<link, owner, floor, stalled>>
      BY <1>3, <2>1 DEF WriteHead, WriteBatch, Written
    <2>4. chunks' \in [Slots -> 0 .. Room]
      BY <1>1, <2>3, StreamAssumption DEF ConnTypes
    <2>5. ConnTypes'
      BY <1>1, <2>2, <2>3, <2>4, EventList DEF ConnTypes
    <2>6. PlaceTypes'
      BY <1>1, <1>2, <1>3, SlotMoves DEF WriteHead, WriteBatch, PlaceTypes, pulse
    <2>7. HubTypes' /\ PageTypes' /\ CountTypes'
      BY <1>1, <1>3, TypesKept DEF WriteHead, WriteBatch
    <2>8. QED BY <2>5, <2>6, <2>7, HubTypesSplitNext
  <1>4. CASE WriteFails(s) \/ Stopped(s)
    <2>1. Unregister(s) /\ UNCHANGED <<computing, timer>>
      BY <1>4 DEF WriteFails, Stopped, pulse
    <2>2. HubTypes'
      BY <1>1, <2>1, EventList DEF Unregister, HubTypes
    <2>3. ConnTypes'
      BY <1>1, <2>1, EventList DEF Unregister, ConnTypes, flow
    <2>4. PlaceTypes'
      BY <1>1, <1>2, <2>1, SlotMoves DEF Unregister, PlaceTypes
    <2>5. PageTypes' /\ CountTypes'
      BY <1>1, <2>1, TypesKept DEF Unregister
    <2>6. QED BY <2>2, <2>3, <2>4, <2>5, HubTypesSplitNext
  <1>5. CASE TickFresh(s) \/ TickClaims(s) \/ TickAwaits(s)
    <2>1. Drain(s) /\ UNCHANGED timer /\ computing' \in BOOLEAN
          /\ (Go(s, "write") \/ Go(s, "compute") \/ Go(s, "await"))
      BY <1>1, <1>5 DEF TickFresh, TickClaims, TickAwaits, pulse, PlaceTypes
    <2>2. HubTypes'
      BY <1>1, <2>1, EventList DEF Drain, HubTypes
    <2>3. ConnTypes'
      BY <1>1, <2>1, EventList DEF Drain, ConnTypes, HubTypes, flow
    <2>4. PlaceTypes'
      BY <1>1, <1>2, <2>1, SlotMoves
    <2>5. PageTypes' /\ CountTypes'
      BY <1>1, <2>1, TypesKept DEF Drain
    <2>6. QED BY <2>2, <2>3, <2>4, <2>5, HubTypesSplitNext
  <1>6. CASE Awaited(s) \/ _compute_pulse(s)
    <2>1. UNCHANGED <<hub, conn, page, counts, timer>> /\ computing' \in BOOLEAN
          /\ (Go(s, "write") \/ Go(s, "arm"))
      BY <1>1, <1>6 DEF Awaited, _compute_pulse, ClaimEnds, pulse, PlaceTypes
    <2>2. PlaceTypes'
      BY <1>1, <1>2, <2>1, SlotMoves
    <2>3. QED BY <2>1, <2>2, PulseOnlyTypes
  <1>7. CASE _arm_prefetch(s)
    BY <1>1, <1>7, ArmTypes, PulseOnlyTypes DEF _arm_prefetch
  <1>8. QED BY <1>3, <1>4, <1>5, <1>6, <1>7 DEF StreamStep

LEMMA TimerTypes ==
  ASSUME TypeOK, NEW t \in Timers, TimerStep(t)
  PROVE  TypeOK'
  <1>1. PlaceTypes /\ t \in Threads
    BY HubTypesSplit DEF Threads
  <1>2. {"off", "compute", "arm"} \subseteq TimerPlaces
    BY DEF TimerPlaces
  <1>3. CASE _prefetch(t) \/ _compute_pulse(t)
    <2>1. UNCHANGED <<hub, conn, page, counts>> /\ computing' \in BOOLEAN
          /\ timer' \in Timers \cup {NoTimer} /\ (Go(t, "off") \/ Go(t, "compute") \/ Go(t, "arm"))
      BY <1>1, <1>3 DEF _prefetch, _compute_pulse, ClaimEnds, PlaceTypes
    <2>2. PlaceTypes'
      BY <1>1, <1>2, <2>1, TimerMoves
    <2>3. QED BY <2>1, <2>2, PulseOnlyTypes
  <1>4. CASE _arm_prefetch(t)
    BY <1>1, <1>4, ArmTypes, PulseOnlyTypes DEF _arm_prefetch
  <1>5. QED BY <1>3, <1>4 DEF TimerStep

\* Closing a connection, and what the browser does about it.
LEMMA HangupTypes ==
  ASSUME ConnTypes, NEW b \in Browsers, Hangup(b), UNCHANGED <<batch, chunks, owner, floor>>
  PROVE  ConnTypes'
  BY EventList DEF ConnTypes, Hangup

LEMMA ErrorTypes ==
  ASSUME PageTypes, NEW b \in Browsers, onerror(b)
  PROVE  PageTypes'
  <1>1. PICK n : n = IF attempts[b] < 2 THEN attempts[b] + 1 ELSE 2
    OBVIOUS
  <1>2. n \in 0 .. 2
    BY <1>1 DEF PageTypes
  <1>3. PICK p : p = (polling[b] \/ n >= 2)
    OBVIOUS
  <1>4. p \in BOOLEAN
    BY <1>3 DEF PageTypes
  <1>5. /\ place' = [place EXCEPT ![b] = "backoff"] /\ attempts' = [attempts EXCEPT ![b] = n]
        /\ polling' = [polling EXCEPT ![b] = p] /\ UNCHANGED <<lastId, lastBoot>>
    BY <1>1, <1>3 DEF onerror, PageTypes
  <1>6. QED BY <1>2, <1>4, <1>5 DEF PageTypes

LEMMA BrowserTypes ==
  ASSUME TypeOK, NEW b \in Browsers,
         \/ Connect(b) \/ Mount(b) \/ onopen(b) \/ Refused(b) \/ Ended(b) \/ Unmount(b) \/ Break(b)
  PROVE  TypeOK'
  <1>1. HubTypes /\ PlaceTypes /\ ConnTypes /\ PageTypes /\ CountTypes
    BY HubTypesSplit
  <1>2. HubTypes' /\ PlaceTypes'
    BY <1>1, TypesKept DEF Connect, Mount, onopen, Refused, Ended, Unmount, Break, pulse
  <1>3. ConnTypes'
    BY <1>1, TypesKept, HangupTypes DEF Connect, Mount, onopen, Refused, Ended, Unmount, Break
  <1>4. CountTypes'
    <2>1. CASE Unmount(b) \/ Break(b)
      BY <1>1, <2>1 DEF Unmount, Break, CountTypes
    <2>2. CASE ~(Unmount(b) \/ Break(b))
      BY <1>1, <2>2, TypesKept DEF Connect, Mount, onopen, Refused, Ended
    <2>3. QED BY <2>1, <2>2
  <1>5. PageTypes'
    <2>1. CASE onerror(b)
      BY <1>1, <2>1, ErrorTypes
    <2>2. CASE Connect(b) \/ Mount(b)
      BY <1>1, <2>2 DEF Connect, Mount, PageTypes
    <2>3. CASE onopen(b) \/ Unmount(b)
      <3>1. PICK p, n : p \in {"open", "off"} /\ n \in 0 .. 2 /\ place' = [place EXCEPT ![b] = p]
                        /\ attempts' = [attempts EXCEPT ![b] = n]
        <4>1. CASE onopen(b)
          <5>1. place' = [place EXCEPT ![b] = "open"] /\ attempts' = [attempts EXCEPT ![b] = 0]
            BY <4>1 DEF onopen
          <5>2. "open" \in {"open", "off"} /\ 0 \in 0 .. 2
            OBVIOUS
          <5>3. QED BY <5>1, <5>2, Zenon
        <4>2. CASE Unmount(b)
          <5>1. attempts' = [attempts EXCEPT ![b] = attempts[b]] /\ attempts[b] \in 0 .. 2
            BY <1>1, <4>2 DEF Unmount, PageTypes
          <5>2. QED BY <4>2, <5>1 DEF Unmount
        <4>3. QED BY <2>3, <4>1, <4>2
      <3>2. polling' = [polling EXCEPT ![b] = FALSE] /\ UNCHANGED <<lastId, lastBoot>>
        BY <2>3 DEF onopen, Unmount
      <3>3. QED BY <1>1, <3>1, <3>2 DEF PageTypes
    <2>4. QED BY <2>1, <2>2, <2>3 DEF Refused, Ended, Break
  <1>6. QED BY <1>2, <1>3, <1>4, <1>5, HubTypesSplitNext

\* What only changes how far a response has been read.
LEMMA FlowTypes ==
  ASSUME TypeOK, ConnTypes', CountTypes', UNCHANGED <<hub, pulse, pc, page>>
  PROVE  TypeOK'
  BY HubTypesSplit, TypesKept, HubTypesSplitNext DEF pulse

LEMMA ReadTypes ==
  ASSUME TypeOK, NEW s \in Slots, read(s)
  PROVE  TypeOK'
  <1>1. ConnTypes /\ CountTypes
    BY HubTypesSplit
  <1>2. chunks' = [chunks EXCEPT ![s] = chunks[s] - 1] /\ chunks[s] > 0
        /\ UNCHANGED <<hub, pulse, pc, batch, sink, stalled, link, owner, floor, page, counts>>
    BY DEF read
  <1>3. chunks' \in [Slots -> 0 .. Room]
    BY <1>1, <1>2, StreamAssumption DEF ConnTypes
  <1>4. ConnTypes' /\ CountTypes'
    BY <1>1, <1>2, <1>3, TypesKept DEF ConnTypes
  <1>5. QED BY <1>2, <1>4, FlowTypes

LEMMA StallTypes ==
  ASSUME TypeOK, NEW b \in Browsers, Stall(b) \/ Resume(b)
  PROVE  TypeOK'
  <1>1. ConnTypes /\ CountTypes /\ Open(b) \subseteq Slots
    BY HubTypesSplit DEF Open
  <1>2. ConnTypes'
    BY <1>1 DEF Stall, Resume, ConnTypes
  <1>3. CountTypes'
    BY <1>1 DEF Stall, Resume, CountTypes, counts
  <1>4. UNCHANGED <<hub, pulse, pc, page>>
    BY DEF Stall, Resume
  <1>5. QED BY <1>2, <1>3, <1>4, FlowTypes

LEMMA ReceiveTypes ==
  ASSUME TypeOK, NEW b \in Browsers, NEW s \in Slots, Receive(b, s)
  PROVE  TypeOK'
  <1>1. HubTypes /\ PlaceTypes /\ ConnTypes /\ PageTypes /\ CountTypes
    BY HubTypesSplit
  <1>2. PICK e, rest : e = Head(sink[s]) /\ rest = Tail(sink[s])
    OBVIOUS
  <1>3. e \in Events /\ rest \in Seq(Events)
    BY <1>1, <1>2, EventList DEF ConnTypes, Receive
  <1>4. e.id \in Nat /\ e.boot \in Nat
    BY <1>3, EventParts
  <1>5. /\ lastId' = [lastId EXCEPT ![b] = e.id] /\ lastBoot' = [lastBoot EXCEPT ![b] = e.boot]
        /\ sink' = [sink EXCEPT ![s] = rest]
    BY <1>2 DEF Receive
  <1>6. PageTypes'
    BY <1>1, <1>4, <1>5 DEF PageTypes, Receive
  <1>7. ConnTypes'
    BY <1>1, <1>3, <1>5 DEF ConnTypes, Receive, flow
  <1>8. HubTypes' /\ PlaceTypes' /\ CountTypes'
    BY <1>1, TypesKept DEF Receive, pulse
  <1>9. QED BY <1>6, <1>7, <1>8, HubTypesSplitNext

LEMMA ServerTypes ==
  ASSUME TypeOK, stop \/ Restart \/ \E s \in Slots : Notice(s) \/ NoticeFrees(s)
  PROVE  TypeOK'
  <1>1. HubTypes /\ PlaceTypes /\ ConnTypes /\ PageTypes /\ CountTypes
    BY HubTypesSplit
  <1>2. CASE stop
    <2>1. HubTypes'
      BY <1>1, <1>2 DEF stop, HubTypes
    <2>2. PlaceTypes'
      BY <1>1, <1>2 DEF stop, PlaceTypes
    <2>3. ConnTypes' /\ PageTypes' /\ CountTypes'
      BY <1>1, <1>2, TypesKept DEF stop
    <2>4. QED BY <2>1, <2>2, <2>3, HubTypesSplitNext
  <1>3. CASE Restart
    <2>1. <<>> \in Seq(Events) /\ Len(<<>>) = 0
      BY EmptySeq
    <2>2. HubTypes'
      <3>1. ring' \in Seq(Events) /\ Len(ring') <= Replay
        BY <1>3, <2>1, StreamAssumption DEF Restart
      <3>2. queue' \in [Slots -> Seq(Events)]
        BY <1>3, <2>1 DEF Restart
      <3>3. nextId' = 1 /\ clients' \subseteq Slots
        BY <1>3 DEF Restart
      <3>4. stopping' \in BOOLEAN
        BY <1>3, Zenon DEF Restart
      <3>5. QED BY <3>1, <3>2, <3>3, <3>4 DEF HubTypes
    <2>3. ConnTypes'
      BY <1>1, <1>3, <2>1, StreamAssumption DEF Restart, ConnTypes
    <2>4. PlaceTypes'
      BY <1>3, StreamAssumption DEF Restart, PlaceTypes, Threads, Places, StreamPlaces, TimerPlaces
    <2>5. PageTypes' /\ CountTypes'
      <3>1. PageTypes'
        BY <1>1, <1>3, TypesKept DEF Restart
      <3>2. CountTypes'
        BY <1>1, <1>3 DEF Restart, CountTypes
      <3>3. QED BY <3>1, <3>2
    <2>6. QED BY <2>2, <2>3, <2>4, <2>5, HubTypesSplitNext
  <1>4. ASSUME NEW s \in Slots, Notice(s) \/ NoticeFrees(s) PROVE TypeOK'
    <2>1. Close(s) /\ (UNCHANGED batch \/ batch' = [batch EXCEPT ![s] = <<>>])
          /\ (UNCHANGED pc \/ Go(s, "tick"))
      BY <1>4 DEF Notice, NoticeFrees
    <2>2. ConnTypes'
      <3>1. batch' \in [Slots -> Seq(Events)]
        BY <1>1, <2>1, EventList DEF ConnTypes
      <3>2. chunks' \in [Slots -> 0 .. Room]
        BY <1>1, <2>1, StreamAssumption DEF Close, ConnTypes
      <3>3. QED BY <1>1, <2>1, <3>1, <3>2 DEF Close, ConnTypes
    <2>3. UNCHANGED <<computing, timer>> /\ "tick" \in StreamPlaces
      BY <2>1 DEF Close, pulse, StreamPlaces
    <2>4. PlaceTypes'
      BY <1>1, <2>1, <2>3, TypesKept, SlotMoves DEF PlaceTypes
    <2>5. HubTypes' /\ PageTypes' /\ CountTypes'
      BY <1>1, <2>1, TypesKept DEF Close
    <2>6. QED BY <2>2, <2>4, <2>5, HubTypesSplitNext
  <1>5. QED BY <1>2, <1>3, <1>4

LEMMA TypeNext == TypeOK /\ [Next]_vars => TypeOK'
  <1> SUFFICES ASSUME TypeOK, [Next]_vars PROVE TypeOK'
    OBVIOUS
  <1>1. CASE publish_trace
    BY <1>1, PublishTypes
  <1>2. CASE stop \/ Restart \/ \E s \in Slots : Notice(s) \/ NoticeFrees(s)
    BY <1>2, ServerTypes
  <1>3. ASSUME NEW s \in Slots, StreamStep(s) PROVE TypeOK'
    BY <1>3, StreamTypes
  <1>4. ASSUME NEW t \in Timers, TimerStep(t) PROVE TypeOK'
    BY <1>4, TimerTypes
  <1>5. ASSUME NEW b \in Browsers, BrowserStep(b) \/ Mount(b) \/ Unmount(b) \/ Break(b) PROVE TypeOK'
    BY <1>5, BrowserTypes, HandleTypes DEF BrowserStep
  <1>6. ASSUME NEW b \in Browsers, NEW s \in Slots, Receive(b, s) PROVE TypeOK'
    BY <1>6, ReceiveTypes
  <1>7. CASE (\E s \in Slots : read(s)) \/ \E b \in Browsers : Stall(b) \/ Resume(b)
    BY <1>7, ReadTypes, StallTypes
  <1>8. CASE UNCHANGED vars
    <2>1. UNCHANGED <<hub, computing, timer, pc, conn, page, counts>>
      BY <1>8 DEF vars, pulse
    <2>2. QED BY <2>1, HubTypesSplit, TypesKept, HubTypesSplitNext
  <1>9. QED BY <1>1, <1>2, <1>3, <1>4, <1>5, <1>6, <1>7, <1>8 DEF Next

\* Every field of the hub, of the connections and of the browsers keeps its type, and
\* the replay ring never holds more than `replay` events, for every number of streams.
THEOREM StreamTypesKept == Spec => []TypeOK
  <1>1. QED BY TypeStart, TypeNext, PTL DEF Spec

\* What the run checks of the hub: types, the ring's bound and one provider call.
THEOREM HubIsSound == Spec => []HubSound
  <1>1. TypeOK /\ OneProvider => HubSound
    BY DEF HubSound
  <1>2. QED BY <1>1, StreamTypesKept, OneProviderCall, PTL

-----------------------------------------------------------------------------
(* Lists of consecutive traces. *)

\* Consecutive ids given by server process bt, the first being f.
Runs(list, bt, f) == \A i \in 1 .. Len(list) : list[i] = [boot |-> bt, id |-> f + (i - 1)]

LEMMA RunsEmpty ==
  ASSUME NEW bt, NEW f
  PROVE  Runs(<<>>, bt, f)
  <1>1. 1 .. Len(<<>>) = {}
    BY EmptySeq
  <1>2. QED BY <1>1 DEF Runs

\* The next trace is added at the end.
LEMMA RunsAppend ==
  ASSUME NEW list \in Seq(Events), NEW bt \in Nat, NEW f \in Nat, Runs(list, bt, f), NEW e \in Events,
         e = [boot |-> bt, id |-> f + Len(list)]
  PROVE  Runs(Append(list, e), bt, f)
  <1>1. PICK n \in Nat : n = Len(list)
    BY LenProperties
  <1>2. PICK more : more = Append(list, e)
    OBVIOUS
  <1>3. Len(more) = n + 1 /\ more[n + 1] = e /\ \A i \in 1 .. n : more[i] = list[i]
    BY <1>1, <1>2, AppendProperties
  <1>4. ASSUME NEW i \in 1 .. (n + 1) PROVE more[i] = [boot |-> bt, id |-> f + (i - 1)]
    <2>1. CASE i = n + 1
      <3>1. f + (i - 1) = f + n
        BY <2>1
      <3>2. QED BY <1>1, <1>3, <2>1, <3>1
    <2>2. CASE i # n + 1
      <3>1. i \in 1 .. n
        BY <1>4, <2>2
      <3>2. QED BY <1>1, <1>3, <3>1 DEF Runs
    <2>3. QED BY <2>1, <2>2
  <1>5. QED BY <1>2, <1>3, <1>4 DEF Runs

\* The oldest is taken off.
LEMMA RunsTail ==
  ASSUME NEW list \in Seq(Events), list # <<>>, NEW bt \in Nat, NEW f \in Nat, Runs(list, bt, f)
  PROVE  Runs(Tail(list), bt, f + 1) /\ Head(list) = [boot |-> bt, id |-> f] /\ list[1].id = f
  <1>1. PICK n \in Nat : n = Len(list) /\ n >= 1
    BY EmptySeq
  <1>2. PICK rest : rest = Tail(list)
    OBVIOUS
  <1>3. Len(rest) = n - 1 /\ \A i \in 1 .. (n - 1) : rest[i] = list[i + 1]
    BY <1>1, <1>2, HeadTailProperties
  <1>4. ASSUME NEW i \in 1 .. (n - 1) PROVE rest[i] = [boot |-> bt, id |-> (f + 1) + (i - 1)]
    <2>1. i + 1 \in 1 .. n /\ f + ((i + 1) - 1) = (f + 1) + (i - 1)
      BY <1>1, <1>4
    <2>2. list[i + 1] = [boot |-> bt, id |-> f + ((i + 1) - 1)]
      BY <1>1, <2>1 DEF Runs
    <2>3. QED BY <1>3, <1>4, <2>1, <2>2
  <1>5. Runs(rest, bt, f + 1)
    BY <1>3, <1>4 DEF Runs
  <1>6. list[1] = [boot |-> bt, id |-> f]
    <2>1. 1 \in 1 .. n /\ f + (1 - 1) = f
      BY <1>1
    <2>2. list[1] = [boot |-> bt, id |-> f + (1 - 1)]
      BY <1>1, <2>1 DEF Runs
    <2>3. QED BY <2>1, <2>2
  <1>7. Head(list) = list[1]
    BY EventList
  <1>8. list[1].id = f
    BY <1>6
  <1>9. QED BY <1>2, <1>5, <1>6, <1>7, <1>8

\* What is left when the end is thrown away.
LEMMA RunsPrefix ==
  ASSUME NEW a \in Seq(Events), NEW b \in Seq(Events), NEW bt, NEW f, Runs(a \o b, bt, f)
  PROVE  Runs(a, bt, f)
  <1>0. PICK n \in Nat, m \in Nat : n = Len(a) /\ m = Len(b)
    BY LenProperties
  <1>1. PICK ab : ab = a \o b
    OBVIOUS
  <1>2. Len(ab) = n + m /\ \A i \in 1 .. (n + m) : ab[i] = IF i <= n THEN a[i] ELSE b[i - n]
    BY <1>0, <1>1, ConcatProperties
  <1>3. ASSUME NEW i \in 1 .. n PROVE a[i] = [boot |-> bt, id |-> f + (i - 1)]
    <2>1. i \in 1 .. (n + m) /\ i <= n
      BY <1>3
    <2>2. QED BY <1>0, <1>1, <1>2, <2>1 DEF Runs
  <1>4. QED BY <1>0, <1>1, <1>3 DEF Runs

\* How many of n consecutive ids from g on are later than last.
LaterCount(last, g, n) == IF last < g THEN n ELSE IF last >= g + n THEN 0 ELSE (g + n) - (last + 1)

\* The replay of a run is its end: as many traces as there are later ones.
LEMMA ReplayRuns ==
  ASSUME NEW bt \in Nat, NEW g \in Nat, NEW last \in Nat, NEW list \in Seq(Events), Runs(list, bt, g)
  PROVE  /\ Len(Only(list, Later(last))) = LaterCount(last, g, Len(list))
         /\ Runs(Only(list, Later(last)), bt, (g + Len(list)) - LaterCount(last, g, Len(list)))
  <1> DEFINE Good(s) == /\ Len(Only(s, Later(last))) = LaterCount(last, g, Len(s))
                        /\ Runs(Only(s, Later(last)), bt, (g + Len(s)) - LaterCount(last, g, Len(s)))
             M == {s \in Seq(Events) : Runs(s, bt, g) => Good(s)}
  <1>1. <<>> \in M
    <2>1. LaterCount(last, g, 0) = 0
      BY DEF LaterCount
    <2>2. Only(<<>>, Later(last)) = <<>>
      BY OnlyEmpty
    <2>3. Good(<<>>)
      BY <2>1, <2>2, EmptySeq, RunsEmpty
    <2>4. QED BY <2>3, EmptySeq
  <1>2. ASSUME NEW s \in Seq(Events), NEW x \in Events, s \in M PROVE Append(s, x) \in M
    <2> SUFFICES ASSUME Runs(Append(s, x), bt, g) PROVE Good(Append(s, x))
      BY AppendProperties
    <2>0. PICK n \in Nat : n = Len(s)
      BY LenProperties
    <2>1. PICK more : more = Append(s, x)
      OBVIOUS
    <2>2. more \in Seq(Events) /\ Len(more) = n + 1 /\ more[n + 1] = x /\ \A i \in 1 .. n : more[i] = s[i]
      BY <2>0, <2>1, AppendProperties
    <2>3. Runs(s, bt, g)
      <3>1. ASSUME NEW i \in 1 .. n PROVE s[i] = [boot |-> bt, id |-> g + (i - 1)]
        <4>1. i \in 1 .. (n + 1)
          OBVIOUS
        <4>2. QED BY <2>0, <2>1, <2>2, <4>1 DEF Runs
      <3>2. QED BY <2>0, <2>1, <3>1 DEF Runs
    <2>4. x = [boot |-> bt, id |-> g + n]
      <3>1. n + 1 \in 1 .. (n + 1) /\ g + ((n + 1) - 1) = g + n
        OBVIOUS
      <3>2. more[n + 1] = [boot |-> bt, id |-> g + ((n + 1) - 1)]
        BY <2>0, <2>1, <2>2, <3>1 DEF Runs
      <3>3. QED BY <2>2, <3>1, <3>2
    <2>5. PICK R, k : R = Only(s, Later(last)) /\ k = LaterCount(last, g, n)
      OBVIOUS
    <2>6. R \in Seq(Events) /\ Len(R) = k /\ Runs(R, bt, (g + n) - k)
      BY <1>2, <2>0, <2>1, <2>3, <2>5, OnlyType
    <2>7. k \in Nat /\ k <= n
      BY <2>5 DEF LaterCount
    <2>8. Only(more, Later(last)) = IF x \in Later(last) THEN Append(R, x) ELSE R
      BY <2>0, <2>1, <2>5, OnlyAppend
    <2>9. x.id = g + n
      BY <2>4
    <2>10. CASE g + n > last
      <3>1. x \in Later(last)
        BY <2>9, <2>10 DEF Later
      <3>2. LaterCount(last, g, n + 1) = k + 1
        BY <2>5, <2>10 DEF LaterCount
      <3>3. PICK f \in Nat : f = (g + n) - k
        BY <2>7
      <3>4. x = [boot |-> bt, id |-> f + k]
        <4>1. f + k = g + n
          BY <2>7, <3>3
        <4>2. QED BY <2>4, <4>1
      <3>5. Runs(Append(R, x), bt, f) /\ Len(Append(R, x)) = k + 1
        BY <2>6, <3>3, <3>4, RunsAppend, AppendProperties, ZenonT(60)
      <3>6. (g + (n + 1)) - (k + 1) = f
        BY <2>7, <3>3
      <3>7. QED BY <2>0, <2>1, <2>2, <2>8, <3>1, <3>2, <3>5, <3>6
    <2>11. CASE ~(g + n > last)
      <3>1. x \notin Later(last)
        BY <2>9, <2>11 DEF Later
      <3>2. LaterCount(last, g, n + 1) = 0 /\ k = 0
        BY <2>5, <2>11 DEF LaterCount
      <3>3. R = <<>>
        BY <2>6, <3>2, EmptySeq
      <3>4. QED BY <2>0, <2>1, <2>2, <2>8, <3>1, <3>2, <3>3, RunsEmpty, EmptySeq
    <2>12. QED BY <2>10, <2>11
  <1> HIDE DEF M
  <1>3. Seq(Events) \subseteq M
    BY <1>1, <1>2, ListInduction
  <1>4. QED BY <1>3 DEF M

-----------------------------------------------------------------------------
(* The inductive invariant of the stream: what a connection still holds for  *)
(* its browser is a run of traces that continues where the browser stands.   *)

\* The ring is the newest part of what this process has published.
RingRuns ==
  /\ boot >= 1 /\ Len(ring) < nextId /\ Runs(ring, boot, nextId - Len(ring))
  /\ ring = <<>> => nextId = 1

\* A browser has heard nothing of a later process, and nothing that was not published.
Heard(b) ==
  /\ lastBoot[b] <= boot
  /\ lastBoot[b] = boot => lastId[b] >= 1 /\ lastId[b] < nextId

AllHeard == \A b \in Browsers : Heard(b)

\* All that a stream still holds for its browser, oldest first.
Line(s) == (sink[s] \o batch[s]) \o queue[s]

Reading(s) == link[s] \in {"up", "drain"}

\* f is what a browser that has heard li of process lb may hear next of process bt,
\* on a stream that registered when fl was the oldest trace in the ring.
Follows(f, bt, lb, li, fl) == lb = bt => f = li + 1 \/ (f = fl /\ f > li)

\* A line that continues where the browser stands; a live one ends with the newest trace.
Fed(list, lk, bt, nx, lb, li, fl) ==
  \E f \in Nat \ {0} : /\ Runs(list, bt, f) /\ f + Len(list) <= nx
                       /\ lk = "up" => f + Len(list) = nx
                       /\ Follows(f, bt, lb, li, fl)

LineRuns(s) ==
  Reading(s) => Fed(Line(s), link[s], boot, nextId, lastBoot[owner[s]], lastId[owner[s]], floor[s])

AllLines == \A s \in Slots : LineRuns(s)

\* Where a connection, its thread and its registration stand.
Connected(s) ==
  /\ s \in clients <=> pc[s] # "off"
  /\ pc[s] \in {"off", "tick"} => batch[s] = <<>>
  /\ s \notin clients => queue[s] = <<>>
  /\ link[s] = "up" => s \in clients
  /\ link[s] = "drain" => s \notin clients
  /\ Reading(s) => owner[s] \in Browsers
  /\ ~Reading(s) => sink[s] = <<>>

AllConnected == \A s \in Slots : Connected(s)

\* A browser reads one stream at a time.
OneEach == \A s, u \in Slots : (Reading(s) /\ Reading(u) /\ owner[s] = owner[u]) => s = u

LinesInv == RingRuns /\ AllHeard /\ OneEach /\ AllConnected /\ AllLines

HubInv == TypeOK /\ LinesInv

LEMMA LineTypes ==
  ASSUME TypeOK, NEW s \in Slots
  PROVE  /\ sink[s] \in Seq(Events) /\ batch[s] \in Seq(Events) /\ queue[s] \in Seq(Events)
         /\ Line(s) \in Seq(Events)
  <1>1. sink[s] \in Seq(Events) /\ batch[s] \in Seq(Events) /\ queue[s] \in Seq(Events)
    BY DEF TypeOK
  <1>2. QED BY <1>1, EventList DEF Line

\* What a step leaves alone stays true.
LEMMA LinesKept ==
  /\ RingRuns /\ UNCHANGED <<ring, nextId, boot>> => RingRuns'
  /\ AllHeard /\ UNCHANGED <<nextId, boot, lastId, lastBoot>> => AllHeard'
  /\ OneEach /\ UNCHANGED <<link, owner>> => OneEach'
  /\ AllConnected /\ UNCHANGED <<clients, pc, batch, queue, link, owner, sink>> => AllConnected'
  /\ AllLines /\ UNCHANGED <<sink, batch, queue, link, owner, floor, boot, nextId, lastId, lastBoot>> => AllLines'
  <1>1. RingRuns /\ UNCHANGED <<ring, nextId, boot>> => RingRuns'
    BY DEF RingRuns
  <1>2. AllHeard /\ UNCHANGED <<nextId, boot, lastId, lastBoot>> => AllHeard'
    BY DEF AllHeard, Heard
  <1>3. OneEach /\ UNCHANGED <<link, owner>> => OneEach'
    BY DEF OneEach, Reading
  <1>4. AllConnected /\ UNCHANGED <<clients, pc, batch, queue, link, owner, sink>> => AllConnected'
    BY DEF AllConnected, Connected, Reading
  <1>5. AllLines /\ UNCHANGED <<sink, batch, queue, link, owner, floor, boot, nextId, lastId, lastBoot>> => AllLines'
    BY DEF AllLines, LineRuns, Line, Reading
  <1>6. QED BY <1>1, <1>2, <1>3, <1>4, <1>5

\* A line that keeps its contents, its connection and its browser.
LEMMA LineSame ==
  ASSUME NEW s \in Slots, LineRuns(s), Line(s)' = Line(s), link'[s] = link[s], owner'[s] = owner[s],
         floor'[s] = floor[s], UNCHANGED <<boot, nextId>>,
         lastId'[owner[s]] = lastId[owner[s]], lastBoot'[owner[s]] = lastBoot[owner[s]]
  PROVE  LineRuns(s)'
  BY DEF LineRuns, Reading

\* A connection whose own fields a step leaves alone.
LEMMA ConnectedSame ==
  ASSUME NEW s \in Slots, Connected(s), s \in clients' <=> s \in clients, pc'[s] = pc[s],
         batch'[s] = batch[s], queue'[s] = queue[s], link'[s] = link[s], owner'[s] = owner[s],
         sink'[s] = sink[s]
  PROVE  Connected(s)'
  BY DEF Connected, Reading

LEMMA LinesStart == Init => LinesInv
  <1> SUFFICES ASSUME Init PROVE LinesInv
    OBVIOUS
  <1>1. RingRuns
    BY RunsEmpty, EmptySeq DEF Init, RingRuns
  <1>2. AllHeard
    BY DEF Init, AllHeard, Heard
  <1>3. ASSUME NEW s \in Slots PROVE ~Reading(s) /\ Connected(s)
    BY DEF Init, Connected, Reading, Threads
  <1>4. QED BY <1>1, <1>2, <1>3 DEF LinesInv, OneEach, AllConnected, AllLines, LineRuns

\* Nothing of the stream moves: stop(), and what the browser does between connections.
LEMMA QuietKeeps ==
  ASSUME LinesInv,
         UNCHANGED <<ring, nextId, clients, queue, pc, batch, sink, link, owner, floor, lastId, lastBoot,
                     boot>>
  PROVE  LinesInv'
  BY LinesKept DEF LinesInv

\* Only threads move, none of a stream that starts, ends or is about to collect.
LEMMA ThreadsKeep ==
  ASSUME LinesInv, UNCHANGED <<hub, conn, page, counts>>,
         \A s \in Slots : pc'[s] = pc[s] \/ (pc[s] # "off" /\ pc'[s] \notin {"off", "tick"})
  PROVE  LinesInv'
  <1>1. UNCHANGED <<ring, nextId, clients, queue, batch, sink, link, owner, floor, lastId, lastBoot, boot>>
    BY DEF hub, conn, page, counts
  <1>2. AllConnected'
    BY <1>1 DEF LinesInv, AllConnected, Connected, Reading
  <1>3. QED BY <1>1, <1>2, LinesKept DEF LinesInv

\* The server learns that nobody reads the stream; its thread may have written once more.
LEMMA NoticeKeeps ==
  ASSUME HubInv, NEW s \in Slots, Notice(s) \/ NoticeFrees(s)
  PROVE  LinesInv'
  <1>1. /\ link \in [Slots -> {"up", "lost", "drain", "closed"}] /\ batch \in [Slots -> Seq(Events)]
        /\ pc \in [Threads -> Places] /\ s \in Threads /\ Slots \subseteq Threads /\ LinesInv
    BY DEF HubInv, TypeOK, Threads, Places
  <1>2. /\ link[s] = "lost" /\ link' = [link EXCEPT ![s] = "closed"]
        /\ UNCHANGED <<ring, nextId, clients, queue, sink, owner, floor, lastId, lastBoot, boot>>
    BY DEF Notice, NoticeFrees, Close, hub, page, counts
  <1>3. \/ UNCHANGED <<pc, batch>>
        \/ pc[s] = "write" /\ pc' = [pc EXCEPT ![s] = "tick"] /\ batch' = [batch EXCEPT ![s] = <<>>]
    BY DEF Notice, NoticeFrees, Go
  <1>4. \A u \in Slots : link'[u] = link[u] \/ (link[u] = "lost" /\ link'[u] = "closed")
    BY <1>1, <1>2
  <1>5. \A u \in Slots : u # s => pc'[u] = pc[u] /\ batch'[u] = batch[u]
    BY <1>1, <1>3
  <1>6. /\ pc'[s] = "off" <=> pc[s] = "off"
        /\ pc'[s] \in {"off", "tick"} => pc[s] = "write" \/ pc[s] \in {"off", "tick"}
        /\ batch'[s] = <<>> \/ (pc'[s] = pc[s] /\ batch'[s] = batch[s])
    BY <1>1, <1>3
  <1>7. \A u \in Slots : (Reading(u)' <=> Reading(u)) /\ (Reading(u) => link'[u] = link[u])
    BY <1>4 DEF Reading
  <1>8. OneEach'
    BY <1>1, <1>2, <1>7 DEF LinesInv, OneEach
  <1>9. ASSUME NEW u \in Slots PROVE Connected(u)'
    <2>1. CASE u = s
      BY <1>1, <1>2, <1>6, <2>1 DEF LinesInv, AllConnected, Connected, Reading
    <2>2. CASE u # s
      BY <1>1, <1>2, <1>5, <2>2, ConnectedSame DEF LinesInv, AllConnected
    <2>3. QED BY <2>1, <2>2
  <1>10. ASSUME NEW u \in Slots PROVE LineRuns(u)'
    <2>1. CASE Reading(u)
      <3>1. u # s /\ batch'[u] = batch[u]
        BY <1>2, <1>5, <2>1 DEF Reading
      <3>2. QED BY <1>1, <1>2, <1>7, <2>1, <3>1, LineSame DEF LinesInv, AllLines, Line
    <2>2. CASE ~Reading(u)
      BY <1>7, <2>2 DEF LineRuns
    <2>3. QED BY <2>1, <2>2
  <1>11. QED BY <1>1, <1>2, <1>8, <1>9, <1>10, LinesKept DEF LinesInv, AllConnected, AllLines

\* The browser leaves: what its stream held reaches nobody.
LEMMA HangupKeeps ==
  ASSUME HubInv, NEW b \in Browsers, Hangup(b),
         UNCHANGED <<ring, nextId, clients, queue, pc, batch, owner, floor, lastId, lastBoot, boot>>
  PROVE  LinesInv'
  <1>1. /\ link \in [Slots -> {"up", "lost", "drain", "closed"}] /\ sink \in [Slots -> Seq(Events)]
        /\ LinesInv
    BY DEF HubInv, TypeOK
  <1>2. \A u \in Slots : u \notin Open(b) => link'[u] = link[u] /\ sink'[u] = sink[u]
    BY DEF Hangup
  <1>3. \A u \in Open(b) : link'[u] \in {"lost", "closed"} /\ sink'[u] = <<>> /\ u \in Slots
    BY DEF Hangup, Open
  <1>4. \A u \in Slots : Reading(u)' => u \notin Open(b)
    BY <1>3 DEF Reading
  <1>5. \A u \in Slots : Reading(u)' => Reading(u)
    BY <1>2, <1>4 DEF Reading
  <1>6. OneEach'
    BY <1>1, <1>5 DEF LinesInv, OneEach
  <1>7. ASSUME NEW u \in Slots PROVE Connected(u)'
    <2>1. CASE u \in Open(b)
      BY <1>1, <1>3, <2>1 DEF LinesInv, AllConnected, Connected, Reading
    <2>2. CASE u \notin Open(b)
      BY <1>1, <1>2, <2>2, ConnectedSame DEF LinesInv, AllConnected
    <2>3. QED BY <2>1, <2>2
  <1>8. ASSUME NEW u \in Slots PROVE LineRuns(u)'
    <2>1. CASE u \in Open(b)
      BY <1>4, <2>1 DEF LineRuns
    <2>2. CASE u \notin Open(b)
      BY <1>1, <1>2, <2>2, LineSame DEF LinesInv, AllLines, Line
    <2>3. QED BY <2>1, <2>2
  <1>9. QED BY <1>1, <1>6, <1>7, <1>8, LinesKept DEF LinesInv, AllConnected, AllLines

\* A new process: no stream, an empty ring, and every browser has heard of an earlier one.
LEMMA RestartKeeps ==
  ASSUME HubInv, Restart
  PROVE  LinesInv'
  <1>1. boot \in Nat /\ boot >= 1 /\ AllHeard /\ lastBoot \in [Browsers -> Nat]
    BY DEF HubInv, TypeOK, LinesInv, RingRuns
  <1>2. RingRuns'
    <2>1. ring' = <<>> /\ nextId' = 1 /\ boot' = boot + 1
      BY DEF Restart
    <2>2. QED BY <1>1, <2>1, RunsEmpty, EmptySeq DEF RingRuns
  <1>3. AllHeard'
    <2>1. boot' = boot + 1 /\ lastBoot' = lastBoot
      BY DEF Restart, page
    <2>2. QED BY <1>1, <2>1 DEF AllHeard, Heard
  <1>4. ASSUME NEW s \in Slots PROVE ~Reading(s)' /\ Connected(s)'
    <2>1. /\ link'[s] = "closed" /\ sink'[s] = <<>> /\ batch'[s] = <<>> /\ queue'[s] = <<>>
          /\ clients' = {} /\ pc'[s] = "off"
      BY DEF Restart, Threads
    <2>2. QED BY <2>1 DEF Reading, Connected
  <1>5. QED BY <1>2, <1>3, <1>4 DEF LinesInv, OneEach, AllConnected, AllLines, LineRuns

\* What a thread holds passes to the response, in order.
LEMMA WriteKeeps ==
  ASSUME HubInv, NEW s \in Slots, WriteHead(s) \/ WriteBatch(s)
  PROVE  LinesInv'
  <1>1. /\ sink \in [Slots -> Seq(Events)] /\ batch \in [Slots -> Seq(Events)] /\ pc \in [Threads -> Places]
        /\ LinesInv /\ s \in Threads
    BY DEF HubInv, TypeOK, Threads, Places
  <1>2. UNCHANGED <<ring, nextId, clients, queue, link, owner, floor, lastId, lastBoot, boot>>
    BY DEF WriteHead, WriteBatch, hub, page, counts
  <1>3. /\ pc[s] \in {"head", "write"} /\ pc' = [pc EXCEPT ![s] = "tick"]
        /\ batch' = [batch EXCEPT ![s] = <<>>] /\ Written(s)
    BY DEF WriteHead, WriteBatch, Go
  <1>4. \A u \in Slots : u # s => sink'[u] = sink[u] /\ batch'[u] = batch[u] /\ pc'[u] = pc[u]
    BY <1>1, <1>3 DEF Written, Threads
  <1>5. /\ pc'[s] = "tick" /\ batch'[s] = <<>>
        /\ sink'[s] = IF link[s] = "up" THEN sink[s] \o batch[s] ELSE sink[s]
    BY <1>1, <1>3 DEF Written
  <1>6. ASSUME NEW u \in Slots PROVE Connected(u)'
    <2>1. CASE u = s
      BY <1>1, <1>2, <1>3, <1>5, <2>1 DEF LinesInv, AllConnected, Connected, Reading
    <2>2. CASE u # s
      BY <1>1, <1>2, <1>4, <2>2, ConnectedSame DEF LinesInv, AllConnected
    <2>3. QED BY <2>1, <2>2
  <1>7. ASSUME NEW u \in Slots PROVE LineRuns(u)'
    <2>1. CASE u = s /\ link[s] = "up"
      <3>1. Line(s)' = ((sink[s] \o batch[s]) \o <<>>) \o queue[s]
        BY <1>2, <1>5, <2>1 DEF Line
      <3>2. sink[s] \o batch[s] \in Seq(Events)
        BY <1>1, EventList
      <3>3. Line(s)' = Line(s)
        BY <3>1, <3>2, ConcatEmptySeq DEF Line
      <3>4. QED BY <1>1, <1>2, <2>1, <3>3, LineSame DEF LinesInv, AllLines
    <2>2. CASE u = s /\ link[s] # "up"
      <3>1. ~Reading(s)
        BY <1>1, <1>3, <2>2 DEF LinesInv, AllConnected, Connected, Reading
      <3>2. QED BY <1>2, <2>2, <3>1 DEF LineRuns, Reading
    <2>3. CASE u # s
      BY <1>1, <1>2, <1>4, <2>3, LineSame DEF LinesInv, AllLines, Line
    <2>4. QED BY <2>1, <2>2, <2>3
  <1>8. QED BY <1>1, <1>2, <1>6, <1>7, LinesKept DEF LinesInv, AllConnected, AllLines

\* A thread takes the queue: it had written everything it took before.
LEMMA DrainKeeps ==
  ASSUME HubInv, NEW s \in Slots, Drain(s), Go(s, "write") \/ Go(s, "compute") \/ Go(s, "await")
  PROVE  LinesInv'
  <1>1. /\ queue \in [Slots -> Seq(Events)] /\ batch \in [Slots -> Seq(Events)] /\ pc \in [Threads -> Places]
        /\ LinesInv /\ s \in Threads /\ sink[s] \in Seq(Events)
    BY DEF HubInv, TypeOK, Threads, Places
  <1>2. UNCHANGED <<ring, nextId, clients, sink, link, owner, floor, lastId, lastBoot, boot>>
    BY DEF Drain, page, counts
  <1>3. /\ batch' = [batch EXCEPT ![s] = queue[s]] /\ queue' = [queue EXCEPT ![s] = <<>>]
        /\ pc[s] = "tick"
    BY DEF Drain
  <1>4. \A u \in Slots : u # s => queue'[u] = queue[u] /\ batch'[u] = batch[u] /\ pc'[u] = pc[u]
    BY <1>1, <1>3 DEF Go, Threads
  <1>5. pc'[s] \in {"write", "compute", "await"} /\ batch'[s] = queue[s] /\ queue'[s] = <<>>
    BY <1>1, <1>3 DEF Go
  <1>6. batch[s] = <<>> /\ s \in clients
    BY <1>1, <1>3 DEF LinesInv, AllConnected, Connected
  <1>7. ASSUME NEW u \in Slots PROVE Connected(u)'
    <2>1. CASE u = s
      BY <1>1, <1>2, <1>5, <1>6, <2>1 DEF LinesInv, AllConnected, Connected, Reading
    <2>2. CASE u # s
      BY <1>1, <1>2, <1>4, <2>2, ConnectedSame DEF LinesInv, AllConnected
    <2>3. QED BY <2>1, <2>2
  <1>8. ASSUME NEW u \in Slots PROVE LineRuns(u)'
    <2>1. CASE u = s
      <3>1. Line(s)' = (sink[s] \o queue[s]) \o <<>> /\ Line(s) = (sink[s] \o <<>>) \o queue[s]
        BY <1>2, <1>5, <1>6 DEF Line
      <3>2. sink[s] \o queue[s] \in Seq(Events)
        BY <1>1, EventList
      <3>3. Line(s)' = Line(s)
        BY <1>1, <3>1, <3>2, ConcatEmptySeq
      <3>4. QED BY <1>1, <1>2, <2>1, <3>3, LineSame DEF LinesInv, AllLines
    <2>2. CASE u # s
      BY <1>1, <1>2, <1>4, <2>2, LineSame DEF LinesInv, AllLines, Line
    <2>3. QED BY <2>1, <2>2
  <1>9. QED BY <1>1, <1>2, <1>7, <1>8, LinesKept DEF LinesInv, AllConnected, AllLines

\* A line that loses its end and its thread.
LEMMA FedDrained ==
  ASSUME NEW a \in Seq(Events), NEW c \in Seq(Events), NEW lk, NEW bt \in Nat, NEW nx \in Nat, NEW lb,
         NEW li, NEW fl, Fed(a \o c, lk, bt, nx, lb, li, fl)
  PROVE  Fed(a, "drain", bt, nx, lb, li, fl)
  <1>1. PICK f \in Nat \ {0} : /\ Runs(a \o c, bt, f) /\ f + Len(a \o c) <= nx
                               /\ Follows(f, bt, lb, li, fl)
    BY DEF Fed
  <1>2. Len(a \o c) = Len(a) + Len(c) /\ Len(a) \in Nat /\ Len(c) \in Nat
    BY ConcatProperties, LenProperties
  <1>3. Runs(a, bt, f)
    BY <1>1, RunsPrefix
  <1>4. f + Len(a) <= nx
    BY <1>1, <1>2
  <1>5. QED BY <1>1, <1>3, <1>4 DEF Fed

\* A stream ends: its browser still reads what was written.
LEMMA UnregisterKeeps ==
  ASSUME HubInv, NEW s \in Slots, Unregister(s), pc[s] # "off"
  PROVE  LinesInv'
  <1>1. /\ queue \in [Slots -> Seq(Events)] /\ batch \in [Slots -> Seq(Events)] /\ pc \in [Threads -> Places]
        /\ link \in [Slots -> {"up", "lost", "drain", "closed"}]
        /\ LinesInv /\ s \in Threads /\ sink[s] \in Seq(Events)
    BY DEF HubInv, TypeOK, Threads, Places
  <1>2. UNCHANGED <<ring, nextId, sink, owner, floor, lastId, lastBoot, boot>>
    BY DEF Unregister, page, counts
  <1>3. /\ clients' = clients \ {s} /\ queue' = [queue EXCEPT ![s] = <<>>]
        /\ batch' = [batch EXCEPT ![s] = <<>>] /\ pc' = [pc EXCEPT ![s] = "off"]
        /\ link' = [link EXCEPT ![s] = IF link[s] = "up" THEN "drain" ELSE "closed"]
    BY DEF Unregister, Go
  <1>4. \A u \in Slots : u # s => /\ queue'[u] = queue[u] /\ batch'[u] = batch[u] /\ pc'[u] = pc[u]
                                  /\ link'[u] = link[u] /\ (u \in clients' <=> u \in clients)
    BY <1>1, <1>3 DEF Threads
  <1>5. /\ pc'[s] = "off" /\ batch'[s] = <<>> /\ queue'[s] = <<>> /\ s \notin clients'
        /\ link'[s] = IF link[s] = "up" THEN "drain" ELSE "closed"
    BY <1>1, <1>3
  <1>6. link[s] # "drain" /\ (link[s] # "up" => ~Reading(s))
    BY <1>1 DEF LinesInv, AllConnected, Connected, Reading
  <1>7. \A u \in Slots : Reading(u)' => Reading(u)
    BY <1>4, <1>5 DEF Reading
  <1>8. OneEach'
    BY <1>1, <1>2, <1>7 DEF LinesInv, OneEach
  <1>9. ASSUME NEW u \in Slots PROVE Connected(u)'
    <2>1. CASE u = s
      BY <1>1, <1>2, <1>5, <1>6, <2>1 DEF LinesInv, AllConnected, Connected, Reading
    <2>2. CASE u # s
      BY <1>1, <1>2, <1>4, <2>2, ConnectedSame DEF LinesInv, AllConnected
    <2>3. QED BY <2>1, <2>2
  <1>10. ASSUME NEW u \in Slots PROVE LineRuns(u)'
    <2>1. CASE u = s /\ link[s] = "up"
      <3>1. PICK a, c : a = sink[s] /\ c = batch[s] \o queue[s]
        OBVIOUS
      <3>2. a \in Seq(Events) /\ c \in Seq(Events) /\ Line(s) = a \o c
        <4>1. PICK q \in Seq(Events), r \in Seq(Events) : q = batch[s] /\ r = queue[s]
          BY <1>1
        <4>2. a \in Seq(Events) /\ c = q \o r /\ Line(s) = (a \o q) \o r
          BY <1>1, <3>1, <4>1 DEF Line
        <4>3. (a \o q) \o r = a \o (q \o r)
          BY <4>2, ConcatAssociative, SMTT(30)
        <4>4. q \o r \in Seq(Events)
          BY EventList
        <4>5. QED BY <4>2, <4>3, <4>4
      <3>3. Line(s)' = a
        BY <1>1, <1>2, <1>5, <3>1, <3>2, ConcatEmptySeq DEF Line
      <3>4. boot \in Nat /\ nextId \in Nat
        BY DEF HubInv, TypeOK
      <3>5. Fed(a \o c, "up", boot, nextId, lastBoot[owner[s]], lastId[owner[s]], floor[s])
        BY <1>1, <2>1, <3>2 DEF LinesInv, AllLines, LineRuns, Reading
      <3>6. Fed(a, "drain", boot, nextId, lastBoot[owner[s]], lastId[owner[s]], floor[s])
        BY <3>2, <3>4, <3>5, FedDrained
      <3>7. QED BY <1>2, <1>5, <2>1, <3>3, <3>6 DEF LineRuns
    <2>2. CASE u = s /\ link[s] # "up"
      BY <1>5, <2>2 DEF LineRuns, Reading
    <2>3. CASE u # s
      BY <1>1, <1>2, <1>4, <2>3, LineSame DEF LinesInv, AllLines, Line
    <2>4. QED BY <2>1, <2>2, <2>3
  <1>11. QED BY <1>1, <1>2, <1>8, <1>9, <1>10, LinesKept DEF LinesInv, AllConnected, AllLines

\* The ring takes the next trace, and lets the oldest go when it is full.
LEMMA RingGrows ==
  ASSUME HubInv, publish_trace
  PROVE  RingRuns'
  <1>1. /\ ring \in Seq(Events) /\ nextId \in Nat /\ boot \in Nat /\ Replay \in Nat \ {0}
        /\ boot >= 1 /\ Len(ring) < nextId /\ Runs(ring, boot, nextId - Len(ring)) /\ Len(ring) \in Nat
    BY StreamAssumption, EventList DEF HubInv, TypeOK, LinesInv, RingRuns
  <1>2. PICK e : e = [boot |-> boot, id |-> nextId]
    OBVIOUS
  <1>3. e \in Events /\ Remember(e) /\ nextId' = nextId + 1 /\ boot' = boot
    BY <1>1, <1>2, EventParts DEF publish_trace
  <1>4. PICK n \in Nat, g \in Nat : n = Len(ring) /\ g = nextId - n /\ g + n = nextId /\ g >= 1
    <2>1. nextId - Len(ring) \in Nat /\ (nextId - Len(ring)) + Len(ring) = nextId /\ nextId - Len(ring) >= 1
      BY <1>1
    <2>2. QED BY <1>1, <2>1
  <1>5. CASE n < Replay
    <2>1. ring' = Append(ring, e)
      BY <1>3, <1>4, <1>5 DEF Remember
    <2>2. Len(ring') = n + 1 /\ ring' # <<>>
      BY <1>1, <1>3, <1>4, <2>1, AppendProperties, EmptySeq
    <2>3. Runs(ring', boot, g)
      BY <1>1, <1>2, <1>3, <1>4, <2>1, RunsAppend
    <2>4. nextId' - Len(ring') = g /\ Len(ring') < nextId'
      BY <1>1, <1>3, <1>4, <2>2
    <2>5. QED BY <1>1, <1>3, <2>2, <2>3, <2>4 DEF RingRuns
  <1>6. CASE ~(n < Replay)
    <2>1. PICK rest : rest = Tail(ring)
      OBVIOUS
    <2>2. ring # <<>> /\ ring' = Append(rest, e)
      BY <1>1, <1>3, <1>4, <1>6, <2>1, EmptySeq DEF Remember
    <2>3. rest \in Seq(Events) /\ Len(rest) = n - 1 /\ Runs(rest, boot, g + 1)
      BY <1>1, <1>4, <2>1, <2>2, RunsTail, EventList
    <2>4. n >= 1 /\ (g + 1) + (n - 1) = nextId
      BY <1>1, <1>4, <1>6
    <2>5. Runs(ring', boot, g + 1)
      <3>1. PICK f \in Nat : f = g + 1
        OBVIOUS
      <3>2. e = [boot |-> boot, id |-> f + Len(rest)]
        <4>1. f + Len(rest) = nextId
          BY <2>3, <2>4, <3>1
        <4>2. QED BY <1>2, <4>1
      <3>3. Runs(Append(rest, e), boot, f)
        BY <1>1, <1>3, <2>3, <3>1, <3>2, RunsAppend
      <3>4. QED BY <2>2, <3>1, <3>3
    <2>6. Len(ring') = n /\ ring' # <<>>
      <3>1. ring' \in Seq(Events) /\ Len(ring') = Len(rest) + 1
        BY <1>3, <2>2, <2>3, AppendProperties
      <3>2. Len(ring') = n /\ n # 0
        BY <1>4, <2>3, <2>4, <3>1
      <3>3. QED BY <3>2, EmptySeq
    <2>7. nextId' - Len(ring') = g + 1 /\ Len(ring') < nextId'
      BY <1>1, <1>3, <1>4, <2>6
    <2>8. QED BY <1>1, <1>3, <2>5, <2>6, <2>7 DEF RingRuns
  <1>7. QED BY <1>5, <1>6

\* A line of a registered stream takes it too.
LEMMA FedGrows ==
  ASSUME NEW list \in Seq(Events), NEW bt \in Nat, NEW nx \in Nat, NEW lb, NEW li, NEW fl, NEW e \in Events,
         e = [boot |-> bt, id |-> nx], Fed(list, "up", bt, nx, lb, li, fl)
  PROVE  Fed(Append(list, e), "up", bt, nx + 1, lb, li, fl)
  <1>1. PICK f \in Nat \ {0} : /\ Runs(list, bt, f) /\ f + Len(list) = nx
                               /\ Follows(f, bt, lb, li, fl)
    BY DEF Fed
  <1>2. Runs(Append(list, e), bt, f)
    BY <1>1, RunsAppend
  <1>3. Len(Append(list, e)) = Len(list) + 1 /\ Len(list) \in Nat
    BY EventList
  <1>4. f + Len(Append(list, e)) = nx + 1
    BY <1>1, <1>3
  <1>5. QED BY <1>1, <1>2, <1>4 DEF Fed

\* A stream that has ended does not.
LEMMA FedWaits ==
  ASSUME NEW list \in Seq(Events), NEW bt \in Nat, NEW nx \in Nat, NEW lb, NEW li, NEW fl,
         Fed(list, "drain", bt, nx, lb, li, fl)
  PROVE  Fed(list, "drain", bt, nx + 1, lb, li, fl)
  <1>1. PICK f \in Nat \ {0} : /\ Runs(list, bt, f) /\ f + Len(list) <= nx
                               /\ Follows(f, bt, lb, li, fl)
    BY DEF Fed
  <1>2. f + Len(list) <= nx + 1
    BY <1>1, LenProperties
  <1>3. QED BY <1>1, <1>2 DEF Fed

LEMMA AppendToEnd ==
  ASSUME NEW w \in Seq(Events), NEW q \in Seq(Events), NEW e \in Events
  PROVE  w \o Append(q, e) = Append(w \o q, e)
  <1>1. PICK n \in Nat, m \in Nat : n = Len(w) /\ m = Len(q)
    BY LenProperties
  <1>2. PICK qe, wq : qe = Append(q, e) /\ wq = w \o q
    OBVIOUS
  <1>3. PICK l, r : l = w \o qe /\ r = Append(wq, e)
    OBVIOUS
  <1>4. qe \in Seq(Events) /\ Len(qe) = m + 1 /\ qe[m + 1] = e /\ \A i \in 1 .. m : qe[i] = q[i]
    BY <1>1, <1>2, AppendProperties
  <1>5. /\ wq \in Seq(Events) /\ Len(wq) = n + m
        /\ \A i \in 1 .. (n + m) : wq[i] = IF i <= n THEN w[i] ELSE q[i - n]
    BY <1>1, <1>2, ConcatProperties
  <1>6. /\ l \in Seq(Events) /\ Len(l) = n + (m + 1)
        /\ \A i \in 1 .. (n + (m + 1)) : l[i] = IF i <= n THEN w[i] ELSE qe[i - n]
    <2>1. PICK k \in Nat : k = m + 1 /\ k = Len(qe)
      BY <1>4
    <2>2. /\ l \in Seq(Events) /\ Len(l) = n + k
          /\ \A i \in 1 .. (n + k) : l[i] = IF i <= n THEN w[i] ELSE qe[i - n]
      <3>1. /\ w \o qe \in Seq(Events) /\ Len(w \o qe) = Len(w) + Len(qe)
            /\ \A i \in 1 .. Len(w) + Len(qe) : (w \o qe)[i] = IF i <= Len(w) THEN w[i] ELSE qe[i - Len(w)]
        BY <1>4, ConcatProperties
      <3>2. QED BY <1>1, <1>3, <2>1, <3>1
    <2>3. QED BY <2>1, <2>2
  <1>7. /\ r \in Seq(Events) /\ Len(r) = (n + m) + 1 /\ r[(n + m) + 1] = e
        /\ \A i \in 1 .. (n + m) : r[i] = wq[i]
    BY <1>3, <1>5, AppendProperties
  <1>8. ASSUME NEW i \in 1 .. (n + (m + 1)) PROVE l[i] = r[i]
    <2>1. CASE i = (n + m) + 1
      <3>1. i - n = m + 1 /\ ~(i <= n)
        BY <2>1
      <3>2. QED BY <1>4, <1>6, <1>7, <1>8, <2>1, <3>1
    <2>2. CASE i # (n + m) + 1
      <3>1. i \in 1 .. (n + m) /\ (~(i <= n) => i - n \in 1 .. m)
        BY <1>8, <2>2
      <3>2. QED BY <1>4, <1>5, <1>6, <1>7, <1>8, <3>1
    <2>3. QED BY <2>1, <2>2
  <1>9. Len(l) = Len(r)
    BY <1>6, <1>7
  <1>10. l = r
    BY <1>6, <1>7, <1>8, <1>9, SeqEqual
  <1>11. QED BY <1>2, <1>3, <1>10

LEMMA PublishKeeps ==
  ASSUME HubInv, publish_trace
  PROVE  LinesInv'
  <1>1. /\ nextId \in Nat /\ boot \in Nat /\ lastId \in [Browsers -> Nat] /\ LinesInv
        /\ queue \in [Slots -> Seq(Events)]
    BY DEF HubInv, TypeOK
  <1>2. UNCHANGED <<clients, pc, batch, sink, link, owner, floor, lastId, lastBoot, boot>>
    BY DEF publish_trace, conn, page
  <1>3. PICK e : e = [boot |-> boot, id |-> nextId]
    OBVIOUS
  <1>4. e \in Events /\ FanOut(e) /\ nextId' = nextId + 1
    BY <1>1, <1>3, EventParts DEF publish_trace
  <1>5. AllHeard'
    BY <1>1, <1>2, <1>4 DEF LinesInv, AllHeard, Heard
  <1>6. ASSUME NEW u \in Slots PROVE Connected(u)'
    <2>1. u \notin clients => queue'[u] = queue[u]
      BY <1>4 DEF FanOut
    <2>2. QED BY <1>1, <1>2, <2>1 DEF LinesInv, AllConnected, Connected, Reading
  <1>7. ASSUME NEW u \in Slots PROVE LineRuns(u)'
    <2>1. PICK w, q : w = sink[u] \o batch[u] /\ q = queue[u]
      OBVIOUS
    <2>2. w \in Seq(Events) /\ q \in Seq(Events) /\ Line(u) = w \o q /\ Line(u) \in Seq(Events)
      BY <2>1, LineTypes, EventList DEF HubInv, Line
    <2>3. CASE link[u] = "up"
      <3>1. u \in clients
        BY <1>1, <2>3 DEF LinesInv, AllConnected, Connected
      <3>2. queue'[u] = Append(q, e)
        BY <1>4, <2>1, <3>1 DEF FanOut
      <3>3. Line(u)' = w \o Append(q, e)
        BY <1>2, <2>1, <3>2 DEF Line
      <3>4. w \o Append(q, e) = Append(w \o q, e)
        BY <1>4, <2>2, AppendToEnd
      <3>5. Fed(w \o q, "up", boot, nextId, lastBoot[owner[u]], lastId[owner[u]], floor[u])
        BY <1>1, <2>2, <2>3 DEF LinesInv, AllLines, LineRuns, Reading
      <3>6. Fed(Append(w \o q, e), "up", boot, nextId + 1, lastBoot[owner[u]], lastId[owner[u]], floor[u])
        BY <1>1, <1>3, <1>4, <2>2, <3>5, FedGrows
      <3>7. QED BY <1>2, <1>4, <2>3, <3>3, <3>4, <3>6 DEF LineRuns
    <2>4. CASE link[u] = "drain"
      <3>1. u \notin clients
        BY <1>1, <2>4 DEF LinesInv, AllConnected, Connected
      <3>2. Line(u)' = Line(u)
        BY <1>2, <1>4, <3>1 DEF Line, FanOut
      <3>3. Fed(Line(u), "drain", boot, nextId, lastBoot[owner[u]], lastId[owner[u]], floor[u])
        BY <1>1, <2>4 DEF LinesInv, AllLines, LineRuns, Reading
      <3>4. Fed(Line(u), "drain", boot, nextId + 1, lastBoot[owner[u]], lastId[owner[u]], floor[u])
        BY <1>1, <2>2, <3>3, FedWaits
      <3>5. QED BY <1>2, <1>4, <2>4, <3>2, <3>4 DEF LineRuns
    <2>5. CASE ~Reading(u)
      BY <1>2, <2>5 DEF LineRuns, Reading
    <2>6. QED BY <2>3, <2>4, <2>5 DEF Reading
  <1>8. QED BY <1>1, <1>2, <1>5, <1>6, <1>7, RingGrows, LinesKept DEF LinesInv, AllConnected, AllLines

\* A new stream starts with the replay: what is later than the browser's last trace, or,
\* if the ring has lost some of that, all of the ring.
LEMMA FedReplay ==
  ASSUME NEW rg \in Seq(Events), NEW bt \in Nat, NEW nx \in Nat, Len(rg) < nx, Runs(rg, bt, nx - Len(rg)),
         NEW lb \in Nat, NEW li \in Nat, lb = bt => li >= 1 /\ li < nx,
         NEW r, r = IF li = 0 THEN <<>> ELSE Only(rg, Later(li)),
         NEW fl, fl = IF rg = <<>> THEN nx ELSE rg[1].id
  PROVE  Fed(r, "up", bt, nx, lb, li, fl)
  <1>1. PICK n \in Nat, g \in Nat : n = Len(rg) /\ g = nx - n /\ g + n = nx /\ g >= 1
    <2>1. Len(rg) \in Nat
      BY EventList
    <2>2. nx - Len(rg) \in Nat /\ (nx - Len(rg)) + Len(rg) = nx /\ nx - Len(rg) >= 1
      BY <2>1
    <2>3. QED BY <2>1, <2>2
  <1>2. fl = g
    <2>1. CASE rg = <<>>
      <3>1. n = 0
        BY <1>1, <2>1, EmptySeq
      <3>2. QED BY <1>1, <2>1, <3>1
    <2>2. CASE rg # <<>>
      BY <1>1, <2>2, RunsTail
    <2>3. QED BY <2>1, <2>2
  <1>3. CASE li = 0
    <2>1. r = <<>> /\ Len(r) = 0 /\ Runs(r, bt, nx) /\ nx \in Nat \ {0}
      BY <1>1, <1>3, EmptySeq, RunsEmpty
    <2>2. Follows(nx, bt, lb, li, fl)
      BY <1>3 DEF Follows
    <2>3. nx + Len(r) = nx
      BY <2>1
    <2>4. QED BY <2>1, <2>2, <2>3 DEF Fed
  <1>4. CASE li # 0
    <2>1. PICK k : k = LaterCount(li, g, n)
      OBVIOUS
    <2>2. k \in Nat /\ k <= n
      BY <2>1 DEF LaterCount
    <2>3. Len(r) = k /\ Runs(r, bt, nx - k)
      BY <1>1, <1>4, <2>1, ReplayRuns
    <2>4. PICK f \in Nat \ {0} : f = nx - k
      BY <1>1, <2>2
    <2>5. f + Len(r) = nx
      BY <2>2, <2>3, <2>4
    <2>6. Follows(f, bt, lb, li, fl)
      <3> SUFFICES ASSUME lb = bt PROVE f = li + 1 \/ (f = fl /\ f > li)
        BY DEF Follows
      <3>1. li < g + n
        BY <1>1
      <3>2. CASE li < g
        <4>1. k = n
          BY <2>1, <3>2 DEF LaterCount
        <4>2. QED BY <1>1, <1>2, <2>4, <3>2, <4>1
      <3>3. CASE ~(li < g)
        <4>1. k = (g + n) - (li + 1)
          BY <2>1, <3>1, <3>3 DEF LaterCount
        <4>2. QED BY <1>1, <2>4, <4>1
      <3>4. QED BY <3>2, <3>3
    <2>7. QED BY <2>3, <2>4, <2>5, <2>6 DEF Fed
  <1>5. QED BY <1>3, <1>4

LEMMA HandleKeeps ==
  ASSUME HubInv, NEW b \in Browsers, NEW s \in Slots, _handle(b, s)
  PROVE  LinesInv'
  <1>1. /\ queue \in [Slots -> Seq(Events)] /\ batch \in [Slots -> Seq(Events)] /\ pc \in [Threads -> Places]
        /\ link \in [Slots -> {"up", "lost", "drain", "closed"}] /\ floor \in [Slots -> Nat]
        /\ owner \in [Slots -> Browsers \cup {NoBrowser}] /\ LinesInv /\ s \in Threads
    BY DEF HubInv, TypeOK, Threads, Places
  <1>2. UNCHANGED <<ring, nextId, sink, lastId, lastBoot, boot>>
    BY DEF _handle, page, counts
  <1>3. PICK r, fl : r = (IF lastId[b] = 0 THEN <<>> ELSE Replayed(lastId[b]))
                     /\ fl = (IF ring = <<>> THEN nextId ELSE ring[1].id)
    OBVIOUS
  <1>4. /\ clients' = clients \cup {s} /\ queue' = [queue EXCEPT ![s] = <<>>]
        /\ batch' = [batch EXCEPT ![s] = r] /\ floor' = [floor EXCEPT ![s] = fl]
        /\ link' = [link EXCEPT ![s] = "up"] /\ owner' = [owner EXCEPT ![s] = b]
        /\ pc' = [pc EXCEPT ![s] = "head"]
        /\ link[s] = "closed" /\ Open(b) = {}
    BY <1>3 DEF _handle, Go
  <1>5. \A u \in Slots : u # s => /\ queue'[u] = queue[u] /\ batch'[u] = batch[u] /\ pc'[u] = pc[u]
                                  /\ link'[u] = link[u] /\ owner'[u] = owner[u] /\ floor'[u] = floor[u]
                                  /\ (u \in clients' <=> u \in clients)
    BY <1>1, <1>4 DEF Threads
  <1>6. /\ pc'[s] = "head" /\ batch'[s] = r /\ queue'[s] = <<>> /\ s \in clients' /\ link'[s] = "up"
        /\ owner'[s] = b /\ floor'[s] = fl
    BY <1>1, <1>4
  <1>7. ~Reading(s) /\ sink[s] = <<>>
    BY <1>1, <1>4 DEF LinesInv, AllConnected, Connected, Reading
  <1>8. OneEach'
    <2>1. \A u \in Slots : u # s => (Reading(u)' <=> Reading(u)) /\ (Reading(u) => owner[u] # b)
      BY <1>4, <1>5 DEF Reading, Open
    <2>2. QED BY <1>1, <1>5, <1>6, <2>1 DEF LinesInv, OneEach
  <1>9. ASSUME NEW u \in Slots PROVE Connected(u)'
    <2>1. CASE u = s
      BY <1>2, <1>6, <2>1 DEF Connected, Reading
    <2>2. CASE u # s
      BY <1>1, <1>2, <1>5, <2>2, ConnectedSame DEF LinesInv, AllConnected
    <2>3. QED BY <2>1, <2>2
  <1>10. ASSUME NEW u \in Slots PROVE LineRuns(u)'
    <2>1. CASE u = s
      <3>1. /\ ring \in Seq(Events) /\ boot \in Nat /\ nextId \in Nat /\ Len(ring) < nextId
            /\ Runs(ring, boot, nextId - Len(ring)) /\ lastBoot[b] \in Nat /\ lastId[b] \in Nat
        BY DEF HubInv, TypeOK, LinesInv, RingRuns
      <3>2. lastBoot[b] = boot => lastId[b] >= 1 /\ lastId[b] < nextId
        BY <1>1 DEF LinesInv, AllHeard, Heard
      <3>3. r = IF lastId[b] = 0 THEN <<>> ELSE Only(ring, Later(lastId[b]))
        BY <1>3 DEF Replayed
      <3>4. r \in Seq(Events)
        BY <3>1, <3>3, EventList
      <3>5. Line(s)' = (<<>> \o r) \o <<>>
        BY <1>2, <1>6, <1>7 DEF Line
      <3>6. Line(s)' = r
        BY <3>4, <3>5, ConcatEmptySeq
      <3>7. Fed(r, "up", boot, nextId, lastBoot[b], lastId[b], fl)
        BY <1>3, <3>1, <3>2, <3>3, FedReplay
      <3>8. QED BY <1>2, <1>6, <2>1, <3>6, <3>7 DEF LineRuns
    <2>2. CASE u # s
      BY <1>1, <1>2, <1>5, <2>2, LineSame DEF LinesInv, AllLines, Line
    <2>3. QED BY <2>1, <2>2
  <1>11. QED BY <1>1, <1>2, <1>8, <1>9, <1>10, LinesKept DEF LinesInv, AllConnected, AllLines

\* The browser takes the first trace of the line: it is new to it, in order and without
\* a gap, and the rest of the line continues from there.
LEMMA FedTaken ==
  ASSUME NEW list \in Seq(Events), list # <<>>, NEW lk, NEW bt \in Nat, NEW nx \in Nat, NEW lb \in Nat,
         NEW li \in Nat, NEW fl, Fed(list, lk, bt, nx, lb, li, fl), lb <= bt,
         NEW e, e = Head(list)
  PROVE  /\ e.boot = bt /\ e.id \in Nat /\ e.id >= 1 /\ e.id < nx
         /\ Fed(Tail(list), lk, bt, nx, e.boot, e.id, fl)
         /\ e.boot > lb \/ (e.boot = lb /\ e.id > li)
         /\ e.boot = lb => e.id <= li + 1 \/ e.id = fl
  <1>1. PICK f \in Nat \ {0} : /\ Runs(list, bt, f) /\ f + Len(list) <= nx
                               /\ lk = "up" => f + Len(list) = nx
                               /\ Follows(f, bt, lb, li, fl)
    BY DEF Fed
  <1>2. e = [boot |-> bt, id |-> f] /\ Runs(Tail(list), bt, f + 1)
    BY <1>1, RunsTail
  <1>3. e.boot = bt /\ e.id = f
    BY <1>2
  <1>4. Len(list) \in Nat /\ Len(list) >= 1 /\ Len(Tail(list)) = Len(list) - 1
    BY EventList
  <1>5. f < nx
    BY <1>1, <1>4
  <1>6. Fed(Tail(list), lk, bt, nx, e.boot, e.id, fl)
    <2>1. PICK k \in Nat \ {0} : k = f + 1
      OBVIOUS
    <2>2. k + Len(Tail(list)) = f + Len(list)
      BY <1>4, <2>1
    <2>3. Follows(k, bt, e.boot, e.id, fl)
      BY <1>3, <2>1 DEF Follows
    <2>4. QED BY <1>1, <1>2, <2>1, <2>2, <2>3 DEF Fed
  <1>7. (bt > lb \/ (bt = lb /\ f > li)) /\ (bt = lb => f <= li + 1 \/ f = fl)
    BY <1>1 DEF Follows
  <1>8. QED BY <1>3, <1>5, <1>6, <1>7

LEMMA FrontOfConcat ==
  ASSUME NEW a \in Seq(Events), NEW c \in Seq(Events), a # <<>>
  PROVE  a \o c # <<>> /\ Head(a \o c) = Head(a) /\ Tail(a \o c) = Tail(a) \o c
  <1>1. PICK n \in Nat, m \in Nat : n = Len(a) /\ m = Len(c) /\ n >= 1
    BY EmptySeq, LenProperties
  <1>2. PICK ac, ta : ac = a \o c /\ ta = Tail(a)
    OBVIOUS
  <1>3. /\ ac \in Seq(Events) /\ Len(ac) = n + m
        /\ \A i \in 1 .. (n + m) : ac[i] = IF i <= n THEN a[i] ELSE c[i - n]
    BY <1>1, <1>2, ConcatProperties
  <1>4. ac # <<>>
    BY <1>1, <1>3, EmptySeq
  <1>5. ta \in Seq(Events) /\ Len(ta) = n - 1 /\ \A i \in 1 .. (n - 1) : ta[i] = a[i + 1]
    BY <1>1, <1>2, HeadTailProperties
  <1>6. PICK l, r : l = Tail(ac) /\ r = ta \o c
    OBVIOUS
  <1>7. l \in Seq(Events) /\ Len(l) = (n + m) - 1 /\ \A i \in 1 .. ((n + m) - 1) : l[i] = ac[i + 1]
    BY <1>3, <1>4, <1>6, HeadTailProperties
  <1>8. PICK k \in Nat : k = n - 1 /\ k = Len(ta)
    <2>1. n - 1 \in Nat
      BY <1>1
    <2>2. QED BY <1>5, <2>1
  <1>9. /\ r \in Seq(Events) /\ Len(r) = k + m
        /\ \A i \in 1 .. (k + m) : r[i] = IF i <= k THEN ta[i] ELSE c[i - k]
    <2>1. /\ ta \o c \in Seq(Events) /\ Len(ta \o c) = Len(ta) + Len(c)
          /\ \A i \in 1 .. Len(ta) + Len(c) : (ta \o c)[i] = IF i <= Len(ta) THEN ta[i] ELSE c[i - Len(ta)]
      BY <1>5, ConcatProperties
    <2>2. QED BY <1>1, <1>6, <1>8, <2>1
  <1>10. Len(l) = k + m
    BY <1>1, <1>7, <1>8
  <1>11. ASSUME NEW i \in 1 .. (k + m) PROVE l[i] = r[i]
    <2>1. i \in 1 .. ((n + m) - 1) /\ i + 1 \in 1 .. (n + m)
      BY <1>8, <1>11
    <2>2. l[i] = ac[i + 1]
      BY <1>7, <2>1
    <2>3. CASE i <= k
      <3>1. i \in 1 .. (n - 1) /\ i + 1 <= n
        BY <1>8, <1>11, <2>3
      <3>2. QED BY <1>3, <1>5, <1>9, <1>11, <2>1, <2>2, <2>3, <3>1
    <2>4. CASE ~(i <= k)
      <3>1. ~(i + 1 <= n) /\ (i + 1) - n = i - k
        BY <1>8, <1>11, <2>4
      <3>2. QED BY <1>3, <1>9, <1>11, <2>1, <2>2, <2>4, <3>1
    <2>5. QED BY <2>3, <2>4
  <1>12. l = r
    BY <1>7, <1>9, <1>10, <1>11, SeqEqual
  <1>13. Head(ac) = Head(a)
    <2>1. Head(ac) = ac[1] /\ Head(a) = a[1]
      BY <1>3, <1>4, EventList
    <2>2. 1 \in 1 .. (n + m) /\ 1 <= n
      BY <1>1
    <2>3. QED BY <1>3, <2>1, <2>2
  <1>14. QED BY <1>2, <1>4, <1>6, <1>12, <1>13

\* What a browser takes off a stream, and the line that is left.
LEMMA Taken ==
  ASSUME HubInv, NEW b \in Browsers, NEW s \in Slots, Receive(b, s), NEW e, e = Head(sink[s])
  PROVE  /\ Reading(s) /\ owner[s] = b
         /\ e.boot = boot /\ e.id \in Nat /\ e.id >= 1 /\ e.id < nextId
         /\ Fed(Line(s)', link[s], boot, nextId, e.boot, e.id, floor[s])
         /\ e.boot > lastBoot[b] \/ (e.boot = lastBoot[b] /\ e.id > lastId[b])
         /\ e.boot = lastBoot[b] => e.id <= lastId[b] + 1 \/ e.id = floor[s]
  <1>1. /\ boot \in Nat /\ nextId \in Nat /\ lastBoot[b] \in Nat /\ lastId[b] \in Nat
        /\ sink \in [Slots -> Seq(Events)] /\ LinesInv /\ TypeOK
    BY DEF HubInv, TypeOK
  <1>2. owner[s] = b /\ Reading(s) /\ sink[s] # <<>>
    BY DEF Receive, Open, Reading
  <1>3. PICK a, q, r : a = sink[s] /\ q = batch[s] /\ r = queue[s]
    OBVIOUS
  <1>4. a \in Seq(Events) /\ q \in Seq(Events) /\ r \in Seq(Events) /\ a # <<>> /\ a \o q \in Seq(Events)
    BY <1>1, <1>2, <1>3, LineTypes, EventList
  <1>5. PICK list : list = (a \o q) \o r
    OBVIOUS
  <1>6. list = Line(s) /\ list \in Seq(Events)
    BY <1>1, <1>3, <1>5, LineTypes DEF Line
  <1>7. a \o q # <<>> /\ Head(a \o q) = Head(a) /\ Tail(a \o q) = Tail(a) \o q
    BY <1>4, FrontOfConcat
  <1>8. list # <<>> /\ Head(list) = Head(a \o q) /\ Tail(list) = Tail(a \o q) \o r
    BY <1>4, <1>5, <1>7, FrontOfConcat
  <1>9. e = Head(list)
    BY <1>3, <1>7, <1>8
  <1>10. Line(s)' = Tail(list)
    <2>1. sink'[s] = Tail(a) /\ batch' = batch /\ queue' = queue
      BY <1>1, <1>3 DEF Receive, hub
    <2>2. QED BY <1>3, <1>7, <1>8, <2>1 DEF Line
  <1>11. Fed(list, link[s], boot, nextId, lastBoot[b], lastId[b], floor[s])
    BY <1>1, <1>2, <1>6 DEF LinesInv, AllLines, LineRuns
  <1>12. lastBoot[b] <= boot
    BY <1>1 DEF LinesInv, AllHeard, Heard
  <1>13. PICK lk, bt, nx, lb, li, fl :
           lk = link[s] /\ bt = boot /\ nx = nextId /\ lb = lastBoot[b] /\ li = lastId[b] /\ fl = floor[s]
    OBVIOUS
  <1>14. bt \in Nat /\ nx \in Nat /\ lb \in Nat /\ li \in Nat /\ lb <= bt /\ Fed(list, lk, bt, nx, lb, li, fl)
    BY <1>1, <1>11, <1>12, <1>13
  <1>15. /\ e.boot = bt /\ e.id \in Nat /\ e.id >= 1 /\ e.id < nx
         /\ Fed(Tail(list), lk, bt, nx, e.boot, e.id, fl)
         /\ e.boot > lb \/ (e.boot = lb /\ e.id > li)
         /\ e.boot = lb => e.id <= li + 1 \/ e.id = fl
    BY <1>6, <1>8, <1>9, <1>14, FedTaken, SMTT(30)
  <1>16. QED BY <1>2, <1>10, <1>13, <1>15

LEMMA ReceiveKeeps ==
  ASSUME HubInv, NEW b \in Browsers, NEW s \in Slots, Receive(b, s)
  PROVE  LinesInv'
  <1>1. /\ sink \in [Slots -> Seq(Events)] /\ lastId \in [Browsers -> Nat] /\ lastBoot \in [Browsers -> Nat]
        /\ boot \in Nat /\ LinesInv
    BY DEF HubInv, TypeOK
  <1>2. UNCHANGED <<ring, nextId, clients, queue, pc, batch, link, owner, floor, boot>>
    BY DEF Receive, hub, counts
  <1>3. PICK e : e = Head(sink[s])
    OBVIOUS
  <1>4. /\ Reading(s) /\ owner[s] = b
        /\ e.boot = boot /\ e.id \in Nat /\ e.id >= 1 /\ e.id < nextId
        /\ Fed(Line(s)', link[s], boot, nextId, e.boot, e.id, floor[s])
    BY <1>3, Taken
  <1>5. /\ lastId' = [lastId EXCEPT ![b] = e.id] /\ lastBoot' = [lastBoot EXCEPT ![b] = e.boot]
        /\ sink' = [sink EXCEPT ![s] = Tail(sink[s])] /\ sink[s] # <<>>
    BY <1>3 DEF Receive
  <1>6. lastId'[b] = e.id /\ lastBoot'[b] = e.boot
    BY <1>1, <1>5
  <1>7. AllHeard'
    <2>1. ASSUME NEW d \in Browsers PROVE Heard(d)'
      <3>1. CASE d = b
        BY <1>1, <1>2, <1>4, <1>6, <3>1 DEF Heard
      <3>2. CASE d # b
        BY <1>1, <1>2, <1>5, <3>2 DEF LinesInv, AllHeard, Heard
      <3>3. QED BY <3>1, <3>2
    <2>2. QED BY <2>1 DEF AllHeard
  <1>8. ASSUME NEW u \in Slots PROVE Connected(u)'
    <2>1. CASE u = s
      BY <1>1, <1>2, <1>4, <2>1 DEF LinesInv, AllConnected, Connected, Reading
    <2>2. CASE u # s
      BY <1>1, <1>2, <1>5, <2>2, ConnectedSame DEF LinesInv, AllConnected
    <2>3. QED BY <2>1, <2>2
  <1>9. ASSUME NEW u \in Slots PROVE LineRuns(u)'
    <2>1. CASE u = s
      BY <1>2, <1>4, <1>6, <2>1 DEF LineRuns
    <2>2. CASE u # s /\ Reading(u)
      <3>1. owner[u] # b /\ owner[u] \in Browsers
        BY <1>1, <1>4, <2>2 DEF LinesInv, OneEach, AllConnected, Connected
      <3>2. lastId'[owner[u]] = lastId[owner[u]] /\ lastBoot'[owner[u]] = lastBoot[owner[u]]
        BY <1>1, <1>5, <3>1
      <3>3. Line(u)' = Line(u)
        BY <1>1, <1>2, <1>5, <2>2 DEF Line
      <3>4. QED BY <1>1, <1>2, <3>2, <3>3, LineSame DEF LinesInv, AllLines
    <2>3. CASE ~Reading(u)
      BY <1>2, <2>3 DEF LineRuns, Reading
    <2>4. QED BY <2>1, <2>2, <2>3
  <1>10. QED BY <1>1, <1>2, <1>7, <1>8, <1>9, LinesKept DEF LinesInv, AllConnected, AllLines

-----------------------------------------------------------------------------
(* The step, and what a browser is given. *)

LEMMA StreamLines ==
  ASSUME HubInv, NEW s \in Slots, StreamStep(s)
  PROVE  LinesInv'
  <1>1. LinesInv /\ pc \in [Threads -> Places] /\ s \in Threads /\ Slots \cap Timers = {}
    BY StreamAssumption DEF HubInv, TypeOK, Places, Threads
  <1>2. CASE WriteHead(s) \/ WriteBatch(s)
    BY <1>2, WriteKeeps
  <1>3. CASE WriteFails(s) \/ Stopped(s)
    BY <1>3, UnregisterKeeps DEF WriteFails, Stopped, SeesStop
  <1>4. CASE TickFresh(s) \/ TickClaims(s) \/ TickAwaits(s)
    BY <1>4, DrainKeeps DEF TickFresh, TickClaims, TickAwaits
  <1>5. CASE Awaited(s) \/ _compute_pulse(s)
    <2>1. UNCHANGED <<hub, conn, page, counts>> /\ pc[s] # "off" /\ (Go(s, "write") \/ Go(s, "arm"))
      BY <1>5 DEF Awaited, _compute_pulse
    <2>2. \A u \in Slots : pc'[u] = pc[u] \/ (pc[u] # "off" /\ pc'[u] \notin {"off", "tick"})
      BY <1>1, <2>1 DEF Go, Threads
    <2>3. QED BY <1>1, <2>1, <2>2, ThreadsKeep
  <1>6. CASE _arm_prefetch(s)
    <2>1. UNCHANGED <<hub, conn, page, counts>> /\ pc[s] # "off"
      BY <1>6 DEF _arm_prefetch
    <2>2. Go(s, "write") \/ \E n \in Timers : pc' = [pc EXCEPT ![s] = "write", ![n] = "armed"]
      BY <1>6 DEF _arm_prefetch
    <2>3. \A u \in Slots : pc'[u] = pc[u] \/ (pc[u] # "off" /\ pc'[u] \notin {"off", "tick"})
      BY <1>1, <2>1, <2>2 DEF Go, Threads
    <2>4. QED BY <1>1, <2>1, <2>3, ThreadsKeep
  <1>7. QED BY <1>2, <1>3, <1>4, <1>5, <1>6 DEF StreamStep

LEMMA TimerLines ==
  ASSUME HubInv, NEW t \in Timers, TimerStep(t)
  PROVE  LinesInv'
  <1>1. LinesInv /\ pc \in [Threads -> Places] /\ t \in Threads /\ Slots \cap Timers = {}
    BY StreamAssumption DEF HubInv, TypeOK, Places, Threads
  <1>2. UNCHANGED <<hub, conn, page, counts>>
    BY DEF TimerStep, _prefetch, _compute_pulse, _arm_prefetch
  <1>3. \/ \E p \in Places : Go(t, p)
        \/ \E n \in Timers, p \in Places : pc' = [pc EXCEPT ![t] = p, ![n] = "armed"]
    <2>1. "off" \in Places /\ "compute" \in Places /\ "arm" \in Places /\ "write" \in Places
      BY DEF Places, StreamPlaces
    <2>2. CASE _prefetch(t) \/ _compute_pulse(t)
      BY <2>1, <2>2 DEF _prefetch, _compute_pulse
    <2>3. CASE _arm_prefetch(t)
      <3>1. PICK next \in Places : next = IF t \in Slots THEN "write" ELSE "off"
        BY <2>1
      <3>2. Go(t, next) \/ \E n \in Timers : pc' = [pc EXCEPT ![t] = next, ![n] = "armed"]
        BY <2>3, <3>1 DEF _arm_prefetch
      <3>3. QED BY <3>2
    <2>4. QED BY <2>2, <2>3 DEF TimerStep
  <1>4. \A u \in Slots : pc'[u] = pc[u]
    BY <1>1, <1>3 DEF Go, Threads
  <1>5. QED BY <1>1, <1>2, <1>4, ThreadsKeep

LEMMA BrowserLines ==
  ASSUME HubInv, NEW b \in Browsers,
         BrowserStep(b) \/ Mount(b) \/ Unmount(b) \/ Break(b) \/ Stall(b) \/ Resume(b)
  PROVE  LinesInv'
  <1>1. CASE \E s \in Slots : _handle(b, s)
    BY <1>1, HandleKeeps
  <1>2. CASE Ended(b) \/ Unmount(b) \/ Break(b)
    <2>1. /\ Hangup(b)
          /\ UNCHANGED <<ring, nextId, clients, queue, pc, batch, owner, floor, lastId, lastBoot, boot>>
      BY <1>2 DEF Ended, Unmount, Break, onerror, hub, counts
    <2>2. QED BY <2>1, HangupKeeps
  <1>3. CASE Connect(b) \/ Mount(b) \/ onopen(b) \/ Refused(b) \/ Stall(b) \/ Resume(b)
    <2>1. UNCHANGED <<ring, nextId, clients, queue, pc, batch, sink, link, owner, floor, lastId, lastBoot, boot>>
      BY <1>3 DEF Connect, Mount, onopen, Refused, Stall, Resume, onerror, hub, conn, page, counts
    <2>2. QED BY <2>1, QuietKeeps DEF HubInv
  <1>4. QED BY <1>1, <1>2, <1>3 DEF BrowserStep

LEMMA HubStart == Init => HubInv
  BY TypeStart, LinesStart DEF HubInv

LEMMA HubNext == HubInv /\ [Next]_vars => HubInv'
  <1> SUFFICES ASSUME HubInv, [Next]_vars PROVE HubInv'
    OBVIOUS
  <1>1. TypeOK'
    BY TypeNext DEF HubInv
  <1>2. LinesInv'
    <2>1. CASE publish_trace
      BY <2>1, PublishKeeps
    <2>2. CASE stop \/ UNCHANGED vars \/ \E s \in Slots : read(s)
      <3>1. UNCHANGED <<ring, nextId, clients, queue, pc, batch, sink, link, owner, floor, lastId, lastBoot, boot>>
        BY <2>2 DEF stop, read, vars, hub, conn, page, counts
      <3>2. QED BY <3>1, QuietKeeps DEF HubInv
    <2>3. CASE Restart
      BY <2>3, RestartKeeps
    <2>4. ASSUME NEW s \in Slots, StreamStep(s) \/ Notice(s) \/ NoticeFrees(s) PROVE LinesInv'
      BY <2>4, StreamLines, NoticeKeeps
    <2>5. ASSUME NEW t \in Timers, TimerStep(t) PROVE LinesInv'
      BY <2>5, TimerLines
    <2>6. ASSUME NEW b \in Browsers,
                 BrowserStep(b) \/ Mount(b) \/ Unmount(b) \/ Break(b) \/ Stall(b) \/ Resume(b)
          PROVE  LinesInv'
      BY <2>6, BrowserLines
    <2>7. ASSUME NEW b \in Browsers, NEW s \in Slots, Receive(b, s) PROVE LinesInv'
      BY <2>7, ReceiveKeeps
    <2>8. QED BY <2>1, <2>2, <2>3, <2>4, <2>5, <2>6, <2>7 DEF Next
  <1>3. QED BY <1>1, <1>2 DEF HubInv

\* What a connection still holds for its browser - the response, the batch its thread is
\* about to write and its queue - is always one run of consecutive traces that continues
\* where the browser stands, and a live one ends with the newest trace published.
THEOREM HubInvariant == Spec => []HubInv
  <1>1. QED BY HubStart, HubNext, PTL DEF Spec

\* A browser is given every trace at most once and in order, through reconnects, replays,
\* slow streams and restarts, for any number of browsers, streams, traces and faults.
THEOREM TracesInOrderOnce == Spec => InOrderOnce
  <1> DEFINE Good == \A b \in Browsers, s \in Slots : Receive(b, s) =>
                       LET e == Head(sink[s])
                       IN  e.boot > lastBoot[b] \/ (e.boot = lastBoot[b] /\ e.id > lastId[b])
  <1>1. HubInv => Good
    <2> SUFFICES ASSUME HubInv, NEW b \in Browsers, NEW s \in Slots, Receive(b, s),
                        NEW e, e = Head(sink[s])
                 PROVE  e.boot > lastBoot[b] \/ (e.boot = lastBoot[b] /\ e.id > lastId[b])
      OBVIOUS
    <2>1. QED BY Taken
  <1>2. HubInv /\ [Next]_vars => [Good]_vars
    BY <1>1
  <1>3. QED BY <1>2, HubInvariant, PTL DEF Spec, InOrderOnce

\* And without a gap, unless the ring had dropped what was missed when the stream registered.
THEOREM TracesWithoutGap == Spec => NoGap
  <1> DEFINE Good == \A b \in Browsers, s \in Slots : Receive(b, s) =>
                       LET e == Head(sink[s])
                       IN  e.boot = lastBoot[b] => e.id <= lastId[b] + 1 \/ e.id = floor[s]
  <1>1. HubInv => Good
    <2> SUFFICES ASSUME HubInv, NEW b \in Browsers, NEW s \in Slots, Receive(b, s),
                        NEW e, e = Head(sink[s])
                 PROVE  e.boot = lastBoot[b] => e.id <= lastId[b] + 1 \/ e.id = floor[s]
      OBVIOUS
    <2>1. QED BY Taken
  <1>2. HubInv /\ [Next]_vars => [Good]_vars
    BY <1>1
  <1>3. QED BY <1>2, HubInvariant, PTL DEF Spec, NoGap

=============================================================================
