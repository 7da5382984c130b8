--------------------------- MODULE RequestsProofs ---------------------------
(* Theorems about the request lifecycle and the recorder, for any number of  *)
(* calls and workers and any ring size.                                      *)
EXTENDS Requests, ListFacts

(***************************************************************************)
(* The inductive invariant.                                                *)
(***************************************************************************)

\* Where a call holds a worker, and where its own context must be the one resolved.
OnWorker == {"auth", "parse", "handler", "reply", "closing", "deliver", "loading"}
Bound    == {"auth", "parse", "handler", "reply"}

\* A call holds a worker exactly while code of it runs, and nobody else holds that one.
Held(c) ==
    /\ at[c] # Nobody <=> pc[c] \in OnWorker
    /\ \A d \in Calls : (d # c /\ at[c] = at[d]) => at[c] = Nobody

\* Which kinds of call take which steps.
Kind(c) ==
    /\ pc[c] \in {"auth", "sent"} => c \in Engines
    /\ pc[c] \in {"parse", "handler", "reply", "closing", "deliver"} => c \notin Admins
    /\ pc[c] = "loading" => c \in Admins

\* The worker of a traced call resolves to that call.
Resolves(c) ==
    /\ (c \in Engines /\ pc[c] \in Bound) => proxy[at[c]] = c
    /\ (c \in Plays /\ pc[c] \in Bound \cup {"closing"}) => proxy[at[c]] = Nobody /\ current[at[c]] = c

\* The proxy is bound only while a call of the engine paths runs on that worker.
ProxySound(w) ==
    proxy[w] # Nobody => /\ proxy[w] \in Engines /\ at[proxy[w]] = w /\ pc[proxy[w]] \in Bound

\* What the state of the trace says of where the call is.
TraceAt(c) ==
    /\ c \in Admins => trace[c] = "none"
    /\ pc[c] \in {"idle", "waiting"} => trace[c] = "none" /\ answer[c] = "none"
    /\ pc[c] \in Bound \cup {"sent", "closing"} => trace[c] = "open"
    /\ pc[c] = "deliver" => trace[c] = "finished"
    /\ trace[c] = "open" => pc[c] \in Bound \cup {"sending", "sent", "closing", "lost"}
    /\ (c \in Engines /\ pc[c] = "sending") => trace[c] = "open"
    /\ (c \in Engines /\ trace[c] = "finished") => pc[c] \in {"deliver", "done"}
    /\ (c \in Plays /\ pc[c] \in {"sending", "done", "lost"}) => trace[c] # "open"
    /\ trace[c] = "none" => obs[c] = <<>>
    /\ Len(delivered[c]) = IF trace[c] = "finished" THEN 1 ELSE 0
    /\ pc[c] \in {"auth", "parse", "handler"} => answer[c] = "none"
    /\ pc[c] = "loading" => answer[c] = "none"

\* The assembled traces are the finished ones.
OrderSound == \A i \in 1..Len(order) : trace[order[i]] = "finished"

\* A trace that must be kept is sampled, and is in the ring behind no more traces than
\* have finished since.
KeptAt(i) ==
    /\ (answer[order[i]] = "error" \/ order[i] \in Plays) => delivered[order[i]][1].sampled
    /\ delivered[order[i]][1].sampled =>
          \/ \E j \in 1..Len(ring) : ring[j] = order[i] /\ Len(ring) - j <= Len(order) - i
          \/ Len(order) - i >= RingSize

\* Observations in the documented order, the first being http.receive.
Rising(list) ==
    /\ list # <<>> /\ list[1].name = "receive"
    /\ \A i \in 1..(Len(list) - 1) : Rank[list[i].name] < Rank[list[i + 1].name]

Failed(list) == \E i \in 1..Len(list) : list[i].name = "error"
Latest(list) == list[Len(list)].name

\* They have come no further than k, with an error event or without.
Formed(list, k, failed) == Rising(list) /\ Rank[Latest(list)] <= k /\ (failed <=> Failed(list))

\* How far the names of a call at p have come, and what they are with answer a.
Reach(p) == CASE p = "auth" -> 1 [] p = "parse" -> 2 [] p = "handler" -> 3 [] p = "reply" -> 5 [] OTHER -> 6

Shaped(list, p, a) ==
    /\ Formed(list, Reach(p), a = "error")
    /\ p \notin Bound => Latest(list) = "send"

Shape(c) == trace[c] # "none" => Shaped(Mine(c), pc[c], answer[c])

PlacesInv == \A c \in Calls : Held(c) /\ Kind(c) /\ Resolves(c) /\ TraceAt(c)

RingInv == OrderSound /\ \A i \in 1..Len(order) : KeptAt(i)

SpansInv == OwnSpansStay /\ \A c \in Calls : Shape(c)

ReqInv == TypeOK /\ PlacesInv /\ (\A w \in Workers : ProxySound(w)) /\ RingInv /\ SpansInv

-----------------------------------------------------------------------------
(* Types. *)

CallTypes ==
    /\ pc \in [Calls -> PCs] /\ at \in [Calls -> Workers \cup {Nobody}]
    /\ answer \in [Calls -> {"none", "ok", "error"}] /\ code \in [Calls -> BOOLEAN]
    /\ trace \in [Calls -> {"none", "open", "finished"}]
    /\ current \in [Workers -> Calls \cup {Nobody}] /\ proxy \in [Workers -> Calls \cup {Nobody}]

SpanTypes == obs \in [Calls -> Seq(Obs)] /\ stack \in [Calls -> Seq(Obs)]

Samples == [sampled : BOOLEAN, sunk : BOOLEAN]

RingTypes ==
    /\ ring \in Seq(Calls) /\ Len(ring) <= RingSize /\ order \in Seq(Calls)
    /\ delivered \in [Calls -> Seq(Samples)]

LEMMA TypesSplit == TypeOK <=> CallTypes /\ SpanTypes /\ RingTypes
  BY DEF TypeOK, CallTypes, SpanTypes, RingTypes, Samples

LEMMA TypesSplitNext == TypeOK' <=> CallTypes' /\ SpanTypes' /\ RingTypes'
  BY DEF TypeOK, CallTypes, SpanTypes, RingTypes, Samples

LEMMA Kinds ==
  /\ Nobody \notin Calls /\ Nobody \notin Workers /\ RingSize \in Nat \ {0}
  /\ \A c \in Engines : c \in Calls /\ c \notin Plays /\ c \notin Admins
  /\ \A c \in Plays : c \in Calls /\ c \notin Engines /\ c \notin Admins
  /\ \A c \in Admins : c \in Calls /\ c \notin Engines /\ c \notin Plays
  /\ \A c \in Calls : c \in Engines \/ c \in Plays \/ c \in Admins
  BY RequestsAssumption DEF Calls

\* A handler's context is its own.
LEMMA HandlerContext ==
  ASSUME ReqInv, NEW c \in Calls, pc[c] = "handler"
  PROVE  Resolved(at[c]) = c /\ c \notin Admins
  <1>1. Kind(c) /\ Resolves(c)
    BY DEF ReqInv, PlacesInv
  <1>2. c \notin Admins
    BY <1>1 DEF Kind
  <1>3. CASE c \in Engines
    BY <1>1, <1>2, <1>3, Kinds DEF Resolves, Resolved, Bound
  <1>4. CASE c \in Plays
    BY <1>1, <1>2, <1>4, Kinds DEF Resolves, Resolved, Bound
  <1>5. QED BY <1>2, <1>3, <1>4, Kinds

\* What Handle records.
LEMMA HandleRecords ==
  ASSUME ReqInv, NEW c \in Calls, Handle(c)
  PROVE  \/ /\ Record(c, c, "engine") /\ answer' = [answer EXCEPT ![c] = "ok"]
         \/ /\ \/ Record(c, c, "error")
               \/ obs' = [obs EXCEPT ![c] = Noted(Noted(obs[c], c, "engine"), c, "error")]
            /\ answer' = [answer EXCEPT ![c] = "error"]
  <1>1. Resolved(at[c]) = c
    BY HandlerContext DEF Handle
  <1>2. PICK ran : ran = [obs EXCEPT ![c] = Noted(obs[c], c, "engine")]
    OBVIOUS
  <1>3. \/ obs' = ran /\ answer' = [answer EXCEPT ![c] = "ok"]
        \/ /\ \E o \in {obs, ran} : obs' = [o EXCEPT ![c] = Noted(o[c], c, "error")]
           /\ answer' = [answer EXCEPT ![c] = "error"]
    BY <1>1, <1>2 DEF Handle
  <1>4. ASSUME obs' = ran PROVE Record(c, c, "engine")
    BY <1>2, <1>4 DEF Record
  <1>5. ASSUME obs' = [obs EXCEPT ![c] = Noted(obs[c], c, "error")] PROVE Record(c, c, "error")
    BY <1>5 DEF Record
  <1>6. ASSUME obs' = [ran EXCEPT ![c] = Noted(ran[c], c, "error")]
        PROVE  obs' = [obs EXCEPT ![c] = Noted(Noted(obs[c], c, "engine"), c, "error")]
    <2>1. obs \in [Calls -> Seq(Obs)]
      BY DEF ReqInv, TypeOK
    <2>2. ran[c] = Noted(obs[c], c, "engine")
      BY <1>2, <2>1
    <2>3. QED BY <1>2, <1>6, <2>1, <2>2
  <1>7. QED BY <1>3, <1>4, <1>5, <1>6

LEMMA NotedType ==
  ASSUME NEW list \in Seq(Obs), NEW c \in Calls, NEW name \in Names
  PROVE  Noted(list, c, name) \in Seq(Obs)
  <1>1. [by |-> c, name |-> name] \in Obs
    BY DEF Obs
  <1>2. QED BY <1>1, AppendProperties DEF Noted

\* Every step writes observations in one context at most: the call's own, or the one a
\* load resolves to.
Writes(c) ==
    \/ obs' = obs
    \/ \E name \in Names \ {"load"} : Record(c, c, name)
    \/ \E name \in Names \ {"load"} :
          obs' = [obs EXCEPT ![c] = Noted(Noted(obs[c], c, name), c, "error")]
    \/ /\ c \in Admins
       /\ \E d \in Calls : trace[d] = "open" /\ Record(d, c, "load")

LEMMA StepWrites ==
  ASSUME ReqInv, NEW c \in Calls, Arrive(c) \/ Serve(c)
  PROVE  Writes(c)
  <1>1. {"receive", "auth", "parse", "engine", "error", "send"} \subseteq Names \ {"load"}
    BY DEF Names
  <1>2. ASSUME NEW w \in Workers, StartEngine(c, w) \/ StartPlayground(c, w) PROVE Writes(c)
    <2>1. Record(c, c, "receive")
      BY <1>2 DEF StartEngine, StartPlayground, Open
    <2>2. QED BY <1>1, <2>1 DEF Writes
  <1>3. ASSUME NEW w \in Workers, LoadTraced(c, w) PROVE Writes(c)
    <2>1. /\ c \in Admins /\ Resolved(w) \in Calls /\ trace[Resolved(w)] = "open"
          /\ Record(Resolved(w), c, "load")
      BY <1>3 DEF LoadTraced, Resolved, ReqInv, TypeOK
    <2>2. QED BY <2>1 DEF Writes
  <1>4. ASSUME NEW list, Fail(c, list), NEW name \in Names \ {"load"}, list = Noted(obs[c], c, name)
        PROVE  Writes(c)
    BY <1>4 DEF Fail, Writes
  <1>5. ASSUME VerifyAuth(c) PROVE Writes(c)
    <2>1. Record(c, c, "auth") \/ Fail(c, Noted(obs[c], c, "auth"))
      BY <1>5 DEF VerifyAuth
    <2>2. QED BY <1>1, <1>4, <2>1 DEF Writes
  <1>6. ASSUME ParseBody(c) \/ Probe(c) PROVE Writes(c)
    <2>1. Record(c, c, "parse") \/ Fail(c, Noted(obs[c], c, "parse")) \/ Fail(c, obs[c])
      BY <1>6 DEF ParseBody, Probe
    <2>2. Fail(c, obs[c]) => Record(c, c, "error")
      BY DEF Fail, Record
    <2>3. QED BY <1>1, <1>4, <2>1, <2>2 DEF Writes
  <1>7. ASSUME Handle(c) PROVE Writes(c)
    BY <1>1, <1>7, HandleRecords DEF Writes
  <1>8. ASSUME Reply(c) \/ ClosePlayground(c) PROVE Writes(c)
    BY <1>1, <1>8 DEF Reply, ClosePlayground, Writes
  <1>9. ASSUME obs' = obs PROVE Writes(c)
    BY <1>9 DEF Writes
  <1>10. QED
    BY <1>2, <1>3, <1>5, <1>6, <1>7, <1>8, <1>9
    DEF Serve, Arrive, Refuse, LoadQuietly, LoadRefused, Fire, Send, HangUp, Finish, Deliver, Loaded

LEMMA ObsTyped ==
  ASSUME ReqInv, NEW c \in Calls, Writes(c)
  PROVE  obs' \in [Calls -> Seq(Obs)]
  <1>1. obs \in [Calls -> Seq(Obs)] /\ "load" \in Names /\ "error" \in Names
    BY DEF ReqInv, TypeOK, Names
  <1>2. ASSUME NEW d \in Calls, NEW name \in Names, Record(d, c, name) PROVE obs' \in [Calls -> Seq(Obs)]
    BY <1>1, <1>2, NotedType DEF Record
  <1>3. ASSUME NEW name \in Names,
               obs' = [obs EXCEPT ![c] = Noted(Noted(obs[c], c, name), c, "error")]
        PROVE  obs' \in [Calls -> Seq(Obs)]
    <2>1. Noted(Noted(obs[c], c, name), c, "error") \in Seq(Obs)
      BY <1>1, <1>3, NotedType
    <2>2. QED BY <1>1, <1>3, <2>1
  <1>4. QED BY <1>1, <1>2, <1>3 DEF Writes

LEMMA StackTyped ==
  ASSUME ReqInv, NEW c \in Calls, Arrive(c) \/ Serve(c)
  PROVE  stack' \in [Calls -> Seq(Obs)]
  <1>1. stack \in [Calls -> Seq(Obs)] /\ {"send", "load"} \subseteq Names
    BY DEF ReqInv, TypeOK, Names
  <1>2. ASSUME stack' = stack PROVE stack' \in [Calls -> Seq(Obs)]
    BY <1>1, <1>2
  <1>3. ASSUME NEW d \in Calls, NEW o, Exit(d, o) PROVE stack' \in [Calls -> Seq(Obs)]
    <2>1. ASSUME NEW list \in Seq(Obs), list # <<>> PROVE SubSeq(list, 1, Len(list) - 1) \in Seq(Obs)
      <3>1. Len(list) \in Nat /\ Len(list) # 0
        BY <2>1, EmptySeq, LenProperties
      <3>2. /\ 1 \in 1..(Len(list) + 1) /\ Len(list) - 1 \in (1 - 1)..Len(list)
        BY <3>1
      <3>3. QED BY <2>1, <3>2, SubSeqProperties
    <2>2. QED BY <1>1, <1>3, <2>1 DEF Exit
  <1>4. ASSUME NEW d \in Calls, NEW name \in Names, stack' = [stack EXCEPT ![d] = Noted(stack[d], c, name)]
        PROVE  stack' \in [Calls -> Seq(Obs)]
    BY <1>1, <1>4, NotedType
  <1>5. ASSUME NEW w \in Workers, Fire(c, w) PROVE stack' \in [Calls -> Seq(Obs)]
    BY <1>3, <1>5 DEF Fire
  <1>6. ASSUME Loaded(c) PROVE stack' \in [Calls -> Seq(Obs)]
    BY <1>3, <1>6 DEF Loaded
  <1>7. ASSUME Reply(c) PROVE stack' \in [Calls -> Seq(Obs)]
    BY <1>1, <1>4, <1>7 DEF Reply
  <1>8. ASSUME NEW w \in Workers, LoadTraced(c, w) PROVE stack' \in [Calls -> Seq(Obs)]
    <2>1. Resolved(w) \in Calls
      BY <1>8 DEF LoadTraced, Resolved, ReqInv, TypeOK
    <2>2. PICK d \in Calls : d = Resolved(w)
      BY <2>1
    <2>3. stack' = [stack EXCEPT ![d] = Noted(stack[d], c, "load")]
      BY <1>8, <2>2 DEF LoadTraced
    <2>4. QED BY <1>1, <1>4, <2>3
  <1>9. ASSUME Finish(c) PROVE stack' \in [Calls -> Seq(Obs)]
    BY <1>1, <1>9, EmptySeq DEF Finish
  <1>10. QED
    BY <1>2, <1>5, <1>6, <1>7, <1>8, <1>9
    DEF Serve, Arrive, StartEngine, StartPlayground, Refuse, LoadQuietly, LoadRefused, VerifyAuth,
        ParseBody, Probe, Handle, ClosePlayground, Send, HangUp, Deliver

\* Only finishing and delivering touch the recorder.
LEMMA RecorderStep ==
  ASSUME NEW c \in Calls, Arrive(c) \/ Serve(c)
  PROVE  Finish(c) \/ Deliver(c) \/ UNCHANGED Recorder
  BY DEF Serve, Arrive, StartEngine, StartPlayground, Refuse, LoadQuietly, LoadRefused, LoadTraced, Fire,
         VerifyAuth, ParseBody, Probe, Handle, Reply, ClosePlayground, Send, HangUp, Loaded, Recorder

\* What delivering changes of the sample.
LEMMA DeliverIs ==
  ASSUME ReqInv, NEW c \in Calls, Deliver(c)
  PROVE  /\ delivered' \in [Calls -> Seq(Samples)]
         /\ Len(delivered'[c]) = Len(delivered[c])
         /\ \A d \in Calls : d # c => delivered'[d] = delivered[d]
         /\ delivered'[c][1].sampled = delivered[c][1].sampled
  <1>1. /\ delivered \in [Calls -> Seq(Samples)] /\ Len(delivered[c]) = 1 /\ pc[c] = "deliver"
        /\ delivered' = [delivered EXCEPT ![c][1].sunk = TRUE]
    BY DEF ReqInv, PlacesInv, TraceAt, Deliver, TypeOK, Samples
  <1>2. PICK old : old = delivered[c][1]
    OBVIOUS
  <1>3. delivered[c] \in Seq(Samples) /\ 1 \in 1..Len(delivered[c]) /\ old \in Samples
    <2>1. delivered[c] \in Seq(Samples) /\ 1 \in 1..Len(delivered[c])
      BY <1>1
    <2>2. QED BY <1>2, <2>1, ElementOfSeq
  <1>4. PICK new : new = [old EXCEPT !.sunk = TRUE]
    OBVIOUS
  <1>5. new \in Samples /\ new.sampled = old.sampled
    BY <1>3, <1>4 DEF Samples
  <1>6. PICK list : list = [delivered[c] EXCEPT ![1] = new]
    OBVIOUS
  <1>7. list \in Seq(Samples) /\ Len(list) = Len(delivered[c]) /\ list[1] = new
    <2>1. list \in Seq(Samples) /\ Len(list) = Len(delivered[c])
      BY <1>3, <1>5, <1>6, ExceptSeq
    <2>2. list[1] = new
      BY <1>3, <1>6
    <2>3. QED BY <2>1, <2>2
  <1>8. delivered' = [delivered EXCEPT ![c] = list]
    BY <1>1, <1>2, <1>4, <1>6
  <1>9. QED BY <1>1, <1>2, <1>5, <1>7, <1>8

LEMMA NewestIs ==
  ASSUME NEW s \in Seq(Calls), Len(s) <= RingSize + 1
  PROVE  /\ Newest(s) \in Seq(Calls)
         /\ Len(s) <= RingSize => Newest(s) = s
         /\ Len(s) = RingSize + 1 => /\ Len(Newest(s)) = RingSize
                                     /\ \A j \in 1..RingSize : Newest(s)[j] = s[j + 1]
         /\ Len(Newest(s)) <= RingSize
  <1>0. RingSize \in Nat \ {0} /\ Len(s) \in Nat
    BY Kinds, LenProperties
  <1>1. CASE Len(s) <= RingSize
    <2>1. ~(Len(s) > RingSize) /\ Len(s) # RingSize + 1
      BY <1>0, <1>1
    <2>2. Newest(s) = SubSeq(s, 1, Len(s))
      BY <2>1 DEF Newest
    <2>3. SubSeq(s, 1, Len(s)) = s
      BY SubSeqFull
    <2>4. Newest(s) = s
      BY <2>2, <2>3
    <2>5. QED BY <1>1, <2>1, <2>4
  <1>2. CASE ~(Len(s) <= RingSize)
    <2>1. Len(s) = RingSize + 1 /\ Len(s) > RingSize
      BY <1>0, <1>2
    <2>2. Newest(s) = SubSeq(s, 2, Len(s))
      <3>1. Len(s) - RingSize + 1 = 2
        BY <1>0, <2>1
      <3>2. QED BY <2>1, <3>1 DEF Newest
    <2>3. 2 <= Len(s) /\ \A i \in 2..Len(s) : s[i] \in Calls
      BY <1>0, <2>1, ElementOfSeq
    <2>4. /\ Newest(s) \in Seq(Calls) /\ Len(Newest(s)) = Len(s) - 2 + 1
          /\ \A j \in 1..(Len(s) - 2 + 1) : Newest(s)[j] = s[2 + j - 1]
      BY <1>0, <2>2, <2>3, SubSeqProperties
    <2>5. Len(s) - 2 + 1 = RingSize
      BY <1>0, <2>1
    <2>6. \A j \in 1..RingSize : 2 + j - 1 = j + 1
      BY <1>0
    <2>7. QED BY <1>0, <1>2, <2>1, <2>4, <2>5, <2>6
  <1>3. QED BY <1>1, <1>2

\* Finishing: the trace was open.
LEMMA FinishIs ==
  ASSUME ReqInv, NEW c \in Calls, Finish(c)
  PROVE  /\ pc[c] = "closing" /\ trace[c] = "open" /\ Len(delivered[c]) = 0
         /\ trace' = [trace EXCEPT ![c] = "finished"] /\ order' = Append(order, c)
         /\ current' = [w \in Workers |-> IF w = at[c] /\ current[w] = c THEN Nobody ELSE current[w]]
         /\ \E keep \in BOOLEAN :
               /\ (answer[c] = "error" \/ c \in Plays) => keep
               /\ ring' = IF keep THEN Newest(Append(ring, c)) ELSE ring
               /\ delivered' = [delivered EXCEPT ![c] =
                                  Append(delivered[c], [sampled |-> keep, sunk |-> FALSE])]
  <1>1. pc[c] = "closing" /\ trace[c] = "open"
    BY DEF ReqInv, PlacesInv, TraceAt, Finish
  <1>2. Len(delivered[c]) = 0
    BY <1>1 DEF ReqInv, PlacesInv, TraceAt
  <1>3. QED BY <1>1, <1>2 DEF Finish, AlwaysKeep

LEMMA RingTyped ==
  ASSUME ReqInv, NEW c \in Calls, Arrive(c) \/ Serve(c)
  PROVE  RingTypes'
  <1>0. RingTypes /\ RingSize \in Nat
    BY TypesSplit, Kinds DEF ReqInv
  <1>1. CASE Finish(c)
    <2>1. PICK keep \in BOOLEAN :
             /\ ring' = IF keep THEN Newest(Append(ring, c)) ELSE ring
             /\ delivered' = [delivered EXCEPT ![c] =
                                Append(delivered[c], [sampled |-> keep, sunk |-> FALSE])]
      BY <1>1, FinishIs
    <2>2. order' \in Seq(Calls)
      <3>1. order' = Append(order, c) /\ order \in Seq(Calls)
        BY <1>0, <1>1, FinishIs DEF RingTypes
      <3>2. QED BY <3>1, AppendProperties
    <2>3. /\ Append(ring, c) \in Seq(Calls) /\ Len(Append(ring, c)) = Len(ring) + 1
      BY <1>0, AppendProperties DEF RingTypes
    <2>4. Len(Append(ring, c)) <= RingSize + 1
      BY <1>0, <2>3 DEF RingTypes
    <2>5. ring' \in Seq(Calls) /\ Len(ring') <= RingSize
      BY <1>0, <2>1, <2>3, <2>4, NewestIs DEF RingTypes
    <2>6. [sampled |-> keep, sunk |-> FALSE] \in Samples
      BY DEF Samples
    <2>7. Append(delivered[c], [sampled |-> keep, sunk |-> FALSE]) \in Seq(Samples)
      BY <1>0, <2>6, AppendProperties DEF RingTypes
    <2>8. delivered' \in [Calls -> Seq(Samples)]
      BY <1>0, <2>1, <2>7 DEF RingTypes
    <2>9. QED BY <2>2, <2>5, <2>8 DEF RingTypes, Samples
  <1>2. CASE Deliver(c)
    <2>1. delivered' \in [Calls -> Seq(Samples)] /\ ring' = ring /\ order' = order
      BY <1>2, DeliverIs DEF Deliver
    <2>2. QED BY <1>0, <2>1 DEF RingTypes, Samples
  <1>3. CASE UNCHANGED Recorder
    BY <1>0, <1>3 DEF RingTypes, Recorder, Samples
  <1>4. QED BY <1>1, <1>2, <1>3, RecorderStep

LEMMA CallsTyped ==
  ASSUME ReqInv, NEW c \in Calls, Arrive(c) \/ Serve(c)
  PROVE  CallTypes'
  <1>0. CallTypes /\ \A p \in {"waiting", "auth", "parse", "handler", "reply", "sending", "sent",
                               "closing", "deliver", "loading", "done", "lost"} : p \in PCs
    BY TypesSplit DEF ReqInv, PCs
  <1>1. ASSUME NEW w \in Workers, StartEngine(c, w) PROVE CallTypes'
    BY <1>0, <1>1 DEF StartEngine, Open, CallTypes
  <1>2. ASSUME NEW w \in Workers, StartPlayground(c, w) PROVE CallTypes'
    BY <1>0, <1>2 DEF StartPlayground, Open, CallTypes
  <1>3. ASSUME NEW w \in Workers,
               Refuse(c, w) \/ LoadQuietly(c, w) \/ LoadRefused(c, w) \/ LoadTraced(c, w) \/ Fire(c, w)
        PROVE  CallTypes'
    BY <1>0, <1>3 DEF Refuse, LoadQuietly, LoadRefused, LoadTraced, Fire, CallTypes
  <1>4. ASSUME VerifyAuth(c) \/ ParseBody(c) \/ Probe(c) PROVE CallTypes'
    <2>1. ASSUME NEW list, Fail(c, list) PROVE pc' \in [Calls -> PCs]
             /\ answer' \in [Calls -> {"none", "ok", "error"}] /\ code' \in [Calls -> BOOLEAN]
      BY <1>0, <2>1 DEF Fail, CallTypes
    <2>2. /\ pc' \in [Calls -> PCs]
          /\ answer' \in [Calls -> {"none", "ok", "error"}] /\ code' \in [Calls -> BOOLEAN]
      BY <1>0, <1>4, <2>1 DEF VerifyAuth, ParseBody, Probe, CallTypes
    <2>3. QED BY <1>0, <1>4, <2>2 DEF VerifyAuth, ParseBody, Probe, CallTypes
  <1>5. ASSUME Handle(c) PROVE CallTypes'
    <2>1. code' = code \/ code' = [code EXCEPT ![c] = TRUE]
      BY <1>5 DEF Handle
    <2>2. answer' = [answer EXCEPT ![c] = "ok"] \/ answer' = [answer EXCEPT ![c] = "error"]
      BY <1>5 DEF Handle
    <2>3. pc' = [pc EXCEPT ![c] = "reply"] /\ UNCHANGED <<at, trace, current, proxy>>
      BY <1>5 DEF Handle
    <2>4. QED BY <1>0, <2>1, <2>2, <2>3 DEF CallTypes
  <1>6. ASSUME Reply(c) \/ ClosePlayground(c) \/ Send(c) \/ HangUp(c) PROVE CallTypes'
    BY <1>0, <1>6 DEF Reply, ClosePlayground, Send, HangUp, CallTypes
  <1>7. ASSUME Finish(c) PROVE CallTypes'
    <2>1. UNCHANGED <<at, answer, code, proxy>> /\ pc' = [pc EXCEPT ![c] = "deliver"]
      BY <1>7 DEF Finish
    <2>2. QED BY <1>0, <1>7, <2>1, FinishIs DEF CallTypes
  <1>8. ASSUME Deliver(c) PROVE CallTypes'
    BY <1>0, <1>8 DEF Deliver, CallTypes
  <1>9. ASSUME Loaded(c) PROVE CallTypes'
    BY <1>0, <1>9 DEF Loaded, CallTypes
  <1>10. ASSUME Arrive(c) PROVE CallTypes'
    <2>1. \/ pc' = [pc EXCEPT ![c] = "done"] /\ answer' = [answer EXCEPT ![c] = "error"]
          \/ pc' = [pc EXCEPT ![c] = "waiting"] /\ answer' = answer
      BY <1>10 DEF Arrive
    <2>2. UNCHANGED <<at, code, trace, current, proxy>>
      BY <1>10 DEF Arrive
    <2>3. QED BY <1>0, <2>1, <2>2 DEF CallTypes
  <1>11. QED
    BY <1>1, <1>2, <1>3, <1>4, <1>5, <1>6, <1>7, <1>8, <1>9, <1>10 DEF Serve

LEMMA TypeStep ==
  ASSUME ReqInv, NEW c \in Calls, Arrive(c) \/ Serve(c)
  PROVE  TypeOK'
  <1>1. SpanTypes'
    BY StepWrites, ObsTyped, StackTyped DEF SpanTypes
  <1>2. QED BY <1>1, CallsTyped, RingTyped, TypesSplitNext

-----------------------------------------------------------------------------
(* Workers and the contexts bound on them. *)

Places == \A c \in Calls : Held(c) /\ Kind(c) /\ Resolves(c)
Proxies == \A w \in Workers : ProxySound(w)

\* The steps a call of its kind may be in.
Allows(c, p) ==
    /\ p \in {"auth", "sent"} => c \in Engines
    /\ p \in {"parse", "handler", "reply", "closing", "deliver"} => c \notin Admins
    /\ p = "loading" => c \in Admins

LEMMA PlacesOf ==
  ASSUME ReqInv
  PROVE  /\ Places /\ Proxies /\ pc \in [Calls -> PCs] /\ at \in [Calls -> Workers \cup {Nobody}]
         /\ current \in [Workers -> Calls \cup {Nobody}] /\ proxy \in [Workers -> Calls \cup {Nobody}]
         /\ \A c \in Calls : pc[c] \in OnWorker => at[c] \in Workers
  <1>1. /\ pc \in [Calls -> PCs] /\ at \in [Calls -> Workers \cup {Nobody}]
        /\ current \in [Workers -> Calls \cup {Nobody}] /\ proxy \in [Workers -> Calls \cup {Nobody}]
    BY DEF ReqInv, TypeOK
  <1>2. Places /\ Proxies
    BY DEF ReqInv, PlacesInv, Places, Proxies
  <1>3. \A c \in Calls : pc[c] \in OnWorker => at[c] \in Workers
    BY <1>1, <1>2 DEF Places, Held
  <1>4. QED BY <1>1, <1>2, <1>3

LEMMA BoundOnWorker ==
  /\ \A p \in Bound : p \in OnWorker
  /\ "closing" \in OnWorker /\ "deliver" \in OnWorker /\ "loading" \in OnWorker
  /\ "auth" \in Bound /\ "parse" \in Bound /\ "handler" \in Bound /\ "reply" \in Bound
  /\ \A p \in {"idle", "waiting", "sending", "sent", "done", "lost"} : p \notin OnWorker
  /\ \A p \in {"closing", "deliver", "loading"} : p \notin Bound
  BY DEF Bound, OnWorker

\* A step on the call's worker, or on no worker.
LEMMA Stays ==
  ASSUME ReqInv, NEW c \in Calls, NEW p, pc' = [pc EXCEPT ![c] = p], UNCHANGED <<at, proxy, current>>,
         Allows(c, p), p \in OnWorker <=> pc[c] \in OnWorker, p \in Bound => pc[c] \in Bound,
         (c \in Engines /\ pc[c] \in Bound) => p \in Bound,
         p = "closing" => pc[c] \in Bound
  PROVE  Places' /\ Proxies'
  <1>0. /\ Places /\ Proxies /\ pc \in [Calls -> PCs]
        /\ proxy \in [Workers -> Calls \cup {Nobody}]
    BY PlacesOf
  <1>1. pc'[c] = p /\ \A d \in Calls : d # c => pc'[d] = pc[d]
    BY <1>0
  <1>2. ASSUME NEW d \in Calls PROVE Held(d)' /\ Kind(d)' /\ Resolves(d)'
    <2>1. Held(d) /\ Kind(d) /\ Resolves(d)
      BY <1>0 DEF Places
    <2>2. CASE d = c
      <3>1. Held(d)'
        BY <1>1, <2>1, <2>2 DEF Held, OnWorker
      <3>2. Kind(d)'
        BY <1>1, <2>2 DEF Kind, Allows
      <3>3. Resolves(d)'
        BY <1>1, <2>1, <2>2 DEF Resolves, Bound
      <3>4. QED BY <3>1, <3>2, <3>3
    <2>3. CASE d # c
      BY <1>1, <2>1, <2>3 DEF Held, Kind, Resolves, OnWorker, Bound
    <2>4. QED BY <2>2, <2>3
  <1>3. ASSUME NEW w \in Workers PROVE ProxySound(w)'
    <2>1. ProxySound(w) /\ proxy[w] \in Calls \cup {Nobody}
      BY <1>0 DEF Proxies
    <2>2. CASE proxy[w] = c
      BY <1>1, <2>1, <2>2 DEF ProxySound, Bound
    <2>3. CASE proxy[w] # c
      BY <1>1, <2>1, <2>3 DEF ProxySound, Bound
    <2>4. QED BY <2>2, <2>3
  <1>4. QED BY <1>2, <1>3 DEF Places, Proxies

\* Nothing is bound on a free worker.
LEMMA FreeUnbound ==
  ASSUME ReqInv, NEW w \in Workers, Free(w)
  PROVE  proxy[w] = Nobody /\ \A d \in Calls : at[d] # w
  <1>1. ProxySound(w) /\ \A d \in Engines : d \in Calls
    BY PlacesOf, Kinds DEF Proxies
  <1>2. QED BY <1>1 DEF Free, ProxySound

\* A call that takes a free worker.
LEMMA Takes ==
  ASSUME ReqInv, NEW c \in Calls, NEW w \in Workers, Free(w), NEW p \in OnWorker,
         pc[c] \notin OnWorker, pc' = [pc EXCEPT ![c] = p], at' = [at EXCEPT ![c] = w], Allows(c, p),
         proxy' = IF c \in Engines /\ p \in Bound THEN [proxy EXCEPT ![w] = c] ELSE proxy,
         \/ current' = [current EXCEPT ![w] = c]
         \/ current' = current /\ (c \in Plays => p \notin Bound /\ p # "closing")
  PROVE  Places' /\ Proxies'
  <1>0. /\ Places /\ Proxies /\ pc \in [Calls -> PCs] /\ at \in [Calls -> Workers \cup {Nobody}]
        /\ current \in [Workers -> Calls \cup {Nobody}] /\ proxy \in [Workers -> Calls \cup {Nobody}]
        /\ \A d \in Calls : pc[d] \in OnWorker => at[d] \in Workers
    BY PlacesOf
  <1>1. /\ pc'[c] = p /\ at'[c] = w /\ \A d \in Calls : d # c => pc'[d] = pc[d] /\ at'[d] = at[d]
    BY <1>0
  <1>2. proxy[w] = Nobody /\ \A d \in Calls : at[d] # w
    BY FreeUnbound
  <1>3. /\ \A v \in Workers : v # w => proxy'[v] = proxy[v] /\ current'[v] = current[v]
        /\ proxy'[w] = IF c \in Engines /\ p \in Bound THEN c ELSE Nobody
        /\ (c \in Plays /\ (p \in Bound \/ p = "closing")) => current'[w] = c
    BY <1>0, <1>2
  <1>4. w # Nobody /\ (c \in Plays => c \notin Engines) /\ c # Nobody
    BY Kinds
  <1>5. ASSUME NEW d \in Calls PROVE Held(d)' /\ Kind(d)' /\ Resolves(d)'
    <2>1. Held(d) /\ Kind(d) /\ Resolves(d) /\ Held(c)
      BY <1>0 DEF Places
    <2>2. CASE d = c
      <3>1. Held(d)'
        BY <1>1, <1>2, <1>4, <2>2 DEF Held, OnWorker
      <3>2. Kind(d)'
        BY <1>1, <2>2 DEF Kind, Allows
      <3>3. Resolves(d)'
        BY <1>1, <1>3, <1>4, <2>2 DEF Resolves, Bound
      <3>4. QED BY <3>1, <3>2, <3>3
    <2>3. CASE d # c
      <3>1. Held(d)'
        BY <1>1, <1>2, <2>1, <2>3 DEF Held, OnWorker
      <3>2. Kind(d)'
        BY <1>1, <2>1, <2>3 DEF Kind
      <3>3. Resolves(d)'
        <4>1. ASSUME pc[d] \in Bound \cup {"closing"}
              PROVE  at[d] \in Workers /\ proxy'[at[d]] = proxy[at[d]] /\ current'[at[d]] = current[at[d]]
          BY <1>0, <1>2, <1>3, <4>1, BoundOnWorker
        <4>2. QED BY <1>1, <2>1, <2>3, <4>1 DEF Resolves, Bound
      <3>4. QED BY <3>1, <3>2, <3>3
    <2>4. QED BY <2>2, <2>3
  <1>6. ASSUME NEW v \in Workers PROVE ProxySound(v)'
    <2>1. CASE v = w
      BY <1>1, <1>3, <1>4, <2>1 DEF ProxySound, Bound
    <2>2. CASE v # w
      <3>1. ProxySound(v) /\ proxy'[v] = proxy[v] /\ proxy[v] \in Calls \cup {Nobody}
        BY <1>0, <1>3, <2>2 DEF Proxies
      <3>2. CASE proxy[v] = Nobody
        BY <3>1, <3>2 DEF ProxySound
      <3>3. CASE proxy[v] # Nobody
        <4>1. proxy[v] # c /\ proxy[v] \in Calls
          BY <3>1, <3>3, BoundOnWorker DEF ProxySound
        <4>2. QED BY <1>1, <3>1, <4>1 DEF ProxySound, Bound
      <3>4. QED BY <3>2, <3>3
    <2>3. QED BY <2>1, <2>2
  <1>7. QED BY <1>5, <1>6 DEF Places, Proxies

\* A call that gives its worker back, unbound.
LEMMA Leaves ==
  ASSUME ReqInv, NEW c \in Calls, NEW p, p \notin OnWorker, pc[c] \in OnWorker,
         pc' = [pc EXCEPT ![c] = p], at' = [at EXCEPT ![c] = Nobody], Allows(c, p), current' = current,
         \/ proxy' = [proxy EXCEPT ![at[c]] = Nobody]
         \/ proxy' = proxy /\ c \notin Engines
  PROVE  Places' /\ Proxies'
  <1>0. /\ Places /\ Proxies /\ pc \in [Calls -> PCs] /\ at \in [Calls -> Workers \cup {Nobody}]
        /\ current \in [Workers -> Calls \cup {Nobody}] /\ proxy \in [Workers -> Calls \cup {Nobody}]
        /\ \A d \in Calls : pc[d] \in OnWorker => at[d] \in Workers
    BY PlacesOf
  <1>1. /\ pc'[c] = p /\ at'[c] = Nobody /\ \A d \in Calls : d # c => pc'[d] = pc[d] /\ at'[d] = at[d]
    BY <1>0
  <1>2. at[c] \in Workers /\ at[c] # Nobody /\ \A d \in Calls : d # c => at[d] # at[c]
    BY <1>0, Kinds DEF Places, Held
  <1>3. \A v \in Workers : v # at[c] => proxy'[v] = proxy[v]
    BY <1>0
  <1>4. ASSUME NEW d \in Calls PROVE Held(d)' /\ Kind(d)' /\ Resolves(d)'
    <2>1. Held(d) /\ Kind(d) /\ Resolves(d)
      BY <1>0 DEF Places
    <2>2. CASE d = c
      <3>1. Held(d)'
        BY <1>1, <2>2 DEF Held, OnWorker
      <3>2. Kind(d)'
        BY <1>1, <2>2 DEF Kind, Allows
      <3>3. Resolves(d)'
        BY <1>1, <2>2, BoundOnWorker DEF Resolves, Bound
      <3>4. QED BY <3>1, <3>2, <3>3
    <2>3. CASE d # c
      <3>1. Held(d)'
        BY <1>1, <1>2, <2>1, <2>3 DEF Held, OnWorker
      <3>2. Kind(d)'
        BY <1>1, <2>1, <2>3 DEF Kind
      <3>3. Resolves(d)'
        <4>1. ASSUME pc[d] \in Bound \cup {"closing"}
              PROVE  at[d] \in Workers /\ proxy'[at[d]] = proxy[at[d]]
          BY <1>0, <1>2, <1>3, <2>3, <4>1, BoundOnWorker
        <4>2. QED BY <1>1, <2>1, <2>3, <4>1 DEF Resolves, Bound
      <3>4. QED BY <3>1, <3>2, <3>3
    <2>4. QED BY <2>2, <2>3
  <1>5. ASSUME NEW v \in Workers PROVE ProxySound(v)'
    <2>1. ProxySound(v) /\ proxy[v] \in Calls \cup {Nobody}
      BY <1>0 DEF Proxies
    <2>2. CASE proxy'[v] = Nobody
      BY <2>2 DEF ProxySound
    <2>3. CASE proxy'[v] # Nobody
      <3>1. proxy'[v] = proxy[v]
        BY <1>0, <1>2, <1>3, <2>3
      <3>2. proxy[v] # c /\ proxy[v] \in Calls
        BY <1>0, <1>2, <2>1, <2>3, <3>1 DEF ProxySound
      <3>3. QED BY <1>1, <2>1, <3>1, <3>2 DEF ProxySound, Bound
    <2>4. QED BY <2>2, <2>3
  <1>6. QED BY <1>4, <1>5 DEF Places, Proxies

LEMMA PlacesStep ==
  ASSUME ReqInv, NEW c \in Calls, Arrive(c) \/ Serve(c)
  PROVE  Places' /\ Proxies'
  <1>0. /\ Kind(c) /\ (c \in Engines => c \notin Plays /\ c \notin Admins)
        /\ (c \in Plays => c \notin Engines /\ c \notin Admins)
        /\ (c \in Admins => c \notin Plays /\ c \notin Engines)
        /\ (c \in Engines \/ c \in Plays \/ c \in Admins)
    BY PlacesOf, Kinds DEF Places
  <1>1. ASSUME NEW p, pc' = [pc EXCEPT ![c] = p], UNCHANGED <<at, proxy, current>>, Allows(c, p),
               \/ /\ pc[c] \in {"idle", "waiting", "sending"} /\ p \in {"done", "waiting", "sending", "sent", "lost"}
               \/ /\ pc[c] \in {"auth", "parse", "handler"} /\ p \in {"parse", "handler", "reply"}
               \/ pc[c] = "reply" /\ p = "closing" /\ c \notin Engines
        PROVE  Places' /\ Proxies'
    BY <1>1, Stays, BoundOnWorker
  <1>2. ASSUME Arrive(c) PROVE Places' /\ Proxies'
    <2>1. PICK p \in {"done", "waiting"} : pc' = [pc EXCEPT ![c] = p]
      BY <1>2 DEF Arrive
    <2>2. pc[c] = "idle" /\ UNCHANGED <<at, proxy, current>> /\ Allows(c, p)
      BY <1>2, <2>1 DEF Arrive, Allows
    <2>3. QED BY <1>1, <2>1, <2>2
  <1>3. ASSUME NEW w \in Workers, Refuse(c, w) \/ LoadQuietly(c, w) \/ LoadRefused(c, w)
        PROVE  Places' /\ Proxies'
    <2>1. pc[c] = "waiting" /\ pc' = [pc EXCEPT ![c] = "sending"] /\ UNCHANGED <<at, proxy, current>>
      BY <1>3 DEF Refuse, LoadQuietly, LoadRefused
    <2>2. Allows(c, "sending")
      BY DEF Allows
    <2>3. QED BY <1>1, <2>1, <2>2
  <1>4. ASSUME Send(c) \/ HangUp(c) PROVE Places' /\ Proxies'
    <2>1. PICK p \in {"sent", "done", "lost"} :
             pc' = [pc EXCEPT ![c] = p] /\ (p = "sent" => c \in Engines)
      BY <1>4 DEF Send, HangUp
    <2>2. pc[c] = "sending" /\ UNCHANGED <<at, proxy, current>> /\ Allows(c, p)
      BY <1>4, <2>1 DEF Send, HangUp, Allows
    <2>3. QED BY <1>1, <2>1, <2>2
  <1>5. ASSUME VerifyAuth(c) \/ ParseBody(c) \/ Probe(c) \/ Handle(c) PROVE Places' /\ Proxies'
    <2>1. PICK p \in {"parse", "handler", "reply"} : pc' = [pc EXCEPT ![c] = p]
      BY <1>5 DEF VerifyAuth, ParseBody, Probe, Handle, Fail
    <2>2. pc[c] \in {"auth", "parse", "handler"} /\ UNCHANGED <<at, proxy, current>>
      BY <1>5 DEF VerifyAuth, ParseBody, Probe, Handle
    <2>3. Allows(c, p)
      BY <1>0, <2>1, <2>2 DEF Kind, Allows
    <2>4. QED BY <1>1, <2>1, <2>2, <2>3
  <1>6. ASSUME ClosePlayground(c) PROVE Places' /\ Proxies'
    <2>1. pc[c] = "reply" /\ c \in Plays /\ pc' = [pc EXCEPT ![c] = "closing"] /\ UNCHANGED <<at, proxy, current>>
      BY <1>6 DEF ClosePlayground
    <2>2. Allows(c, "closing") /\ c \notin Engines
      BY <1>0, <2>1 DEF Allows
    <2>3. QED BY <1>1, <2>1, <2>2
  <1>7. ASSUME NEW w \in Workers, StartEngine(c, w) PROVE Places' /\ Proxies'
    <2>1. /\ pc[c] = "waiting" /\ c \in Engines /\ Free(w) /\ pc' = [pc EXCEPT ![c] = "auth"]
          /\ at' = [at EXCEPT ![c] = w] /\ proxy' = [proxy EXCEPT ![w] = c]
          /\ current' = [current EXCEPT ![w] = c]
      BY <1>7 DEF StartEngine, Open
    <2>2. Allows(c, "auth") /\ "auth" \in OnWorker /\ "auth" \in Bound /\ pc[c] \notin OnWorker
      BY <2>1, BoundOnWorker DEF Allows
    <2>3. QED BY <2>1, <2>2, Takes
  <1>8. ASSUME NEW w \in Workers, StartPlayground(c, w) PROVE Places' /\ Proxies'
    <2>1. /\ pc[c] = "waiting" /\ c \notin Engines /\ Free(w) /\ pc' = [pc EXCEPT ![c] = "parse"]
          /\ at' = [at EXCEPT ![c] = w] /\ proxy' = proxy /\ current' = [current EXCEPT ![w] = c]
          /\ c \notin Admins
      BY <1>0, <1>8 DEF StartPlayground, Open
    <2>2. Allows(c, "parse") /\ "parse" \in OnWorker /\ pc[c] \notin OnWorker
      BY <2>1, BoundOnWorker DEF Allows
    <2>3. QED BY <2>1, <2>2, Takes
  <1>9. ASSUME NEW w \in Workers, LoadTraced(c, w) PROVE Places' /\ Proxies'
    <2>1. /\ pc[c] = "waiting" /\ c \notin Engines /\ c \notin Plays /\ c \in Admins /\ Free(w)
          /\ pc' = [pc EXCEPT ![c] = "loading"]
          /\ at' = [at EXCEPT ![c] = w] /\ proxy' = proxy /\ current' = current
      BY <1>0, <1>9 DEF LoadTraced
    <2>2. Allows(c, "loading") /\ "loading" \in OnWorker /\ pc[c] \notin OnWorker
      BY <2>1, BoundOnWorker DEF Allows
    <2>3. QED BY <2>1, <2>2, Takes
  <1>10. ASSUME NEW w \in Workers, Fire(c, w) PROVE Places' /\ Proxies'
    <2>1. /\ pc[c] = "sent" /\ c \in Engines /\ c \notin Plays /\ c \notin Admins /\ Free(w)
          /\ pc' = [pc EXCEPT ![c] = "closing"]
          /\ at' = [at EXCEPT ![c] = w] /\ proxy' = proxy /\ current' = current
      BY <1>0, <1>10 DEF Fire, Kind
    <2>2. Allows(c, "closing") /\ "closing" \in OnWorker /\ "closing" \notin Bound /\ pc[c] \notin OnWorker
      BY <2>1, BoundOnWorker DEF Allows
    <2>3. QED BY <2>1, <2>2, Takes
  <1>11. ASSUME Reply(c) PROVE Places' /\ Proxies'
    <2>1. /\ pc[c] = "reply" /\ pc' = [pc EXCEPT ![c] = "sending"] /\ at' = [at EXCEPT ![c] = Nobody]
          /\ proxy' = [proxy EXCEPT ![at[c]] = Nobody] /\ current' = current
      BY <1>11 DEF Reply
    <2>2. Allows(c, "sending") /\ "sending" \notin OnWorker /\ pc[c] \in OnWorker
      BY <2>1, BoundOnWorker DEF Allows
    <2>3. QED BY <2>1, <2>2, Leaves
  <1>12. ASSUME Deliver(c) PROVE Places' /\ Proxies'
    <2>1. PICK p \in {"done", "sending"} : pc' = [pc EXCEPT ![c] = p]
      BY <1>12 DEF Deliver
    <2>2. /\ pc[c] = "deliver" /\ at' = [at EXCEPT ![c] = Nobody] /\ current' = current
          /\ \/ proxy' = [proxy EXCEPT ![at[c]] = Nobody]
             \/ proxy' = proxy /\ c \notin Engines
      BY <1>12 DEF Deliver
    <2>3. Allows(c, p) /\ p \notin OnWorker /\ pc[c] \in OnWorker
      BY <2>1, <2>2, BoundOnWorker DEF Allows
    <2>4. QED BY <2>1, <2>2, <2>3, Leaves
  <1>13. ASSUME Loaded(c) PROVE Places' /\ Proxies'
    <2>1. /\ pc[c] = "loading" /\ pc' = [pc EXCEPT ![c] = "sending"] /\ at' = [at EXCEPT ![c] = Nobody]
          /\ proxy' = proxy /\ current' = current /\ c \notin Engines
      BY <1>0, <1>13 DEF Loaded, Kind
    <2>2. Allows(c, "sending") /\ "sending" \notin OnWorker /\ pc[c] \in OnWorker
      BY <2>1, BoundOnWorker DEF Allows
    <2>3. QED BY <2>1, <2>2, Leaves
  <1>14. ASSUME Finish(c) PROVE Places' /\ Proxies'
    <2>1. /\ Places /\ Proxies /\ pc \in [Calls -> PCs]
          /\ proxy \in [Workers -> Calls \cup {Nobody}]
          /\ \A d \in Calls : pc[d] \in OnWorker => at[d] \in Workers
      BY PlacesOf
    <2>2. /\ pc[c] = "closing" /\ pc' = [pc EXCEPT ![c] = "deliver"] /\ at' = at /\ proxy' = proxy
          /\ \A w \in Workers : current[w] # c => current'[w] = current[w]
      BY <1>14, FinishIs DEF Finish
    <2>3. pc'[c] = "deliver" /\ \A d \in Calls : d # c => pc'[d] = pc[d]
      BY <2>1, <2>2
    <2>4. ASSUME NEW d \in Calls PROVE Held(d)' /\ Kind(d)' /\ Resolves(d)'
      <3>1. Held(d) /\ Kind(d) /\ Resolves(d)
        BY <2>1 DEF Places
      <3>2. CASE d = c
        BY <2>2, <2>3, <3>1, <3>2 DEF Held, Kind, Resolves, OnWorker, Bound
      <3>3. CASE d # c
        <4>1. Held(d)' /\ Kind(d)'
          BY <2>2, <2>3, <3>1, <3>3 DEF Held, Kind, OnWorker
        <4>2. ASSUME d \in Plays, pc[d] \in Bound \cup {"closing"} PROVE current'[at[d]] = d
          <5>1. at[d] \in Workers /\ current[at[d]] = d
            BY <2>1, <3>1, <4>2, BoundOnWorker DEF Resolves
          <5>2. QED BY <2>2, <3>3, <5>1
        <4>3. Resolves(d)'
          BY <2>2, <2>3, <3>1, <3>3, <4>2 DEF Resolves, Bound
        <4>4. QED BY <4>1, <4>3
      <3>4. QED BY <3>2, <3>3
    <2>5. ASSUME NEW w \in Workers PROVE ProxySound(w)'
      <3>1. ProxySound(w) /\ proxy[w] \in Calls \cup {Nobody}
        BY <2>1 DEF Proxies
      <3>2. proxy[w] # c
        BY <2>2, <3>1, Kinds DEF ProxySound, Bound
      <3>3. QED BY <2>2, <2>3, <3>1, <3>2 DEF ProxySound, Bound
    <2>6. QED BY <2>4, <2>5 DEF Places, Proxies
  <1>15. QED
    BY <1>2, <1>3, <1>4, <1>5, <1>6, <1>7, <1>8, <1>9, <1>10, <1>11, <1>12, <1>13, <1>14 DEF Serve

-----------------------------------------------------------------------------
(* The life of a trace. *)

Others(c) ==
    \A d \in Calls : d # c => /\ pc'[d] = pc[d] /\ trace'[d] = trace[d] /\ answer'[d] = answer[d]
                            /\ delivered'[d] = delivered[d]

LEMMA OthersKept ==
  ASSUME ReqInv, NEW c \in Calls, Arrive(c) \/ Serve(c)
  PROVE  Others(c)
  <1>0. CallTypes /\ RingTypes
    BY TypesSplit DEF ReqInv
  <1>1. ASSUME NEW w \in Workers, StartEngine(c, w) \/ StartPlayground(c, w) PROVE Others(c)
    BY <1>0, <1>1 DEF StartEngine, StartPlayground, Open, CallTypes, Others, Recorder
  <1>2. ASSUME NEW w \in Workers, Refuse(c, w) \/ LoadQuietly(c, w) \/ LoadRefused(c, w)
                                 \/ LoadTraced(c, w) \/ Fire(c, w)
        PROVE  Others(c)
    BY <1>0, <1>2 DEF Refuse, LoadQuietly, LoadRefused, LoadTraced, Fire, CallTypes, Others, Recorder
  <1>3. ASSUME VerifyAuth(c) \/ ParseBody(c) \/ Probe(c) PROVE Others(c)
    BY <1>0, <1>3 DEF VerifyAuth, ParseBody, Probe, Fail, CallTypes, Others, Recorder
  <1>4. ASSUME Handle(c) PROVE Others(c)
    <2>1. /\ answer' = [answer EXCEPT ![c] = "ok"] \/ answer' = [answer EXCEPT ![c] = "error"]
          /\ pc' = [pc EXCEPT ![c] = "reply"] /\ UNCHANGED <<trace, delivered>>
      BY <1>4 DEF Handle, Recorder
    <2>2. QED BY <1>0, <2>1 DEF CallTypes, Others
  <1>5. ASSUME Reply(c) \/ ClosePlayground(c) \/ Send(c) \/ HangUp(c) PROVE Others(c)
    BY <1>0, <1>5 DEF Reply, ClosePlayground, Send, HangUp, CallTypes, Others, Recorder
  <1>6. ASSUME Finish(c) PROVE Others(c)
    <2>1. /\ trace' = [trace EXCEPT ![c] = "finished"] /\ pc' = [pc EXCEPT ![c] = "deliver"]
          /\ answer' = answer /\ \E x : delivered' = [delivered EXCEPT ![c] = x]
      BY <1>6, FinishIs DEF Finish
    <2>2. QED BY <1>0, <2>1 DEF CallTypes, RingTypes, Others
  <1>7. ASSUME Deliver(c) PROVE Others(c)
    <2>1. /\ \A d \in Calls : d # c => delivered'[d] = delivered[d]
          /\ trace' = trace /\ answer' = answer /\ \E p : pc' = [pc EXCEPT ![c] = p]
      BY <1>7, DeliverIs DEF Deliver
    <2>2. QED BY <1>0, <2>1 DEF CallTypes, Others
  <1>8. ASSUME Loaded(c) PROVE Others(c)
    <2>1. /\ \E a : answer' = [answer EXCEPT ![c] = a] /\ pc' = [pc EXCEPT ![c] = "sending"]
          /\ UNCHANGED <<trace, delivered>>
      BY <1>8 DEF Loaded, Recorder
    <2>2. pc' = [pc EXCEPT ![c] = "sending"] /\ UNCHANGED <<trace, delivered>>
      BY <2>1
    <2>3. QED BY <1>0, <2>1, <2>2 DEF CallTypes, Others
  <1>9. ASSUME Arrive(c) PROVE Others(c)
    <2>1. /\ \E p : pc' = [pc EXCEPT ![c] = p]
          /\ answer' = answer \/ answer' = [answer EXCEPT ![c] = "error"]
          /\ UNCHANGED <<trace, delivered>>
      BY <1>9 DEF Arrive
    <2>2. QED BY <1>0, <2>1 DEF CallTypes, Others
  <1>10. QED
    BY <1>1, <1>2, <1>3, <1>4, <1>5, <1>6, <1>7, <1>8, <1>9 DEF Serve

\* A context that is not open is not written.
LEMMA WritesOpen ==
  ASSUME ReqInv, NEW c \in Calls, Writes(c), NEW d \in Calls, d # c, trace[d] # "open"
  PROVE  obs'[d] = obs[d]
  <1>1. obs \in [Calls -> Seq(Obs)]
    BY DEF ReqInv, TypeOK
  <1>2. ASSUME NEW x \in Calls, x # d, NEW list, obs' = [obs EXCEPT ![x] = list] PROVE obs'[d] = obs[d]
    BY <1>1, <1>2
  <1>3. ASSUME NEW x \in Calls, x # d, NEW name, Record(x, c, name) PROVE obs'[d] = obs[d]
    BY <1>2, <1>3 DEF Record
  <1>4. QED BY <1>2, <1>3 DEF Writes

LEMMA TraceStep ==
  ASSUME ReqInv, NEW c \in Calls, Arrive(c) \/ Serve(c)
  PROVE  \A d \in Calls : TraceAt(d)'
  <1>0. Others(c) /\ Writes(c) /\ \A d \in Calls : TraceAt(d)
    BY OthersKept, StepWrites DEF ReqInv, PlacesInv
  <1>1. ASSUME NEW d \in Calls, d # c PROVE TraceAt(d)'
    <2>1. /\ pc'[d] = pc[d] /\ trace'[d] = trace[d] /\ answer'[d] = answer[d]
          /\ delivered'[d] = delivered[d] /\ TraceAt(d)
      BY <1>0, <1>1 DEF Others
    <2>2. trace[d] = "none" => obs'[d] = obs[d]
      BY <1>0, <1>1, WritesOpen
    <2>3. QED BY <2>1, <2>2 DEF TraceAt, Bound
  <1>2. /\ CallTypes /\ RingTypes /\ TraceAt(c) /\ Kind(c)
        /\ (c \in Engines => c \notin Plays /\ c \notin Admins)
        /\ (c \in Plays => c \notin Engines /\ c \notin Admins)
        /\ (c \in Admins => c \notin Plays /\ c \notin Engines)
    BY <1>0, TypesSplit, Kinds DEF ReqInv, PlacesInv
  <1> DEFINE Goal == TraceAt(c)'
  <1>3. ASSUME Arrive(c) PROVE Goal
    <2>1. /\ pc[c] = "idle" /\ UNCHANGED <<trace, obs, delivered>>
          /\ \/ pc'[c] = "done" /\ answer'[c] = "error"
             \/ pc'[c] = "waiting" /\ answer'[c] = answer[c]
      BY <1>2, <1>3 DEF Arrive, CallTypes
    <2>2. QED BY <1>2, <2>1 DEF TraceAt, Bound
  <1>4. ASSUME NEW w \in Workers, Refuse(c, w) \/ LoadQuietly(c, w) \/ LoadRefused(c, w) PROVE Goal
    <2>1. /\ pc[c] = "waiting" /\ UNCHANGED <<trace, obs, delivered>> /\ pc'[c] = "sending" /\ c \notin Engines
      BY <1>2, <1>4 DEF Refuse, LoadQuietly, LoadRefused, CallTypes, Recorder
    <2>2. QED BY <1>2, <2>1 DEF TraceAt, Bound
  <1>5. ASSUME NEW w \in Workers, StartEngine(c, w) \/ StartPlayground(c, w) PROVE Goal
    <2>1. /\ pc[c] = "waiting" /\ UNCHANGED <<answer, delivered>> /\ trace'[c] = "open" /\ c \notin Admins
          /\ pc'[c] \in {"auth", "parse"}
      BY <1>2, <1>5 DEF StartEngine, StartPlayground, Open, CallTypes, Recorder
    <2>2. QED BY <1>2, <2>1 DEF TraceAt, Bound
  <1>6. ASSUME NEW w \in Workers, LoadTraced(c, w) PROVE Goal
    <2>1. /\ pc[c] = "waiting" /\ c \in Admins /\ UNCHANGED <<answer, trace, delivered>> /\ pc'[c] = "loading"
          /\ trace[c] = "none" /\ obs[c] = <<>>
      BY <1>2, <1>6 DEF LoadTraced, CallTypes, Recorder, TraceAt
    <2>2. PICK d \in Calls : trace[d] = "open" /\ obs' = [obs EXCEPT ![d] = Noted(obs[d], c, "load")]
      BY <1>6 DEF LoadTraced, Resolved, Record, ReqInv, TypeOK
    <2>3. obs'[c] = obs[c]
      BY <2>1, <2>2 DEF ReqInv, TypeOK
    <2>4. QED BY <1>2, <2>1, <2>3 DEF TraceAt, Bound
  <1>7. ASSUME NEW w \in Workers, Fire(c, w) PROVE Goal
    <2>1. /\ pc[c] = "sent" /\ UNCHANGED <<answer, trace, obs, delivered>> /\ pc'[c] = "closing"
      BY <1>2, <1>7 DEF Fire, CallTypes, Recorder
    <2>2. QED BY <1>2, <2>1 DEF TraceAt, Bound, Kind
  <1>8. ASSUME VerifyAuth(c) \/ ParseBody(c) \/ Probe(c) PROVE Goal
    <2>1. /\ pc[c] \in {"auth", "parse"} /\ UNCHANGED <<trace, delivered>>
          /\ \/ pc'[c] \in {"parse", "handler"} /\ answer'[c] = answer[c]
             \/ pc'[c] = "reply"
      BY <1>2, <1>8 DEF VerifyAuth, ParseBody, Probe, Fail, CallTypes, Recorder
    <2>2. QED BY <1>2, <2>1 DEF TraceAt, Bound, Kind
  <1>9. ASSUME Handle(c) PROVE Goal
    <2>1. pc[c] = "handler" /\ UNCHANGED <<trace, delivered>> /\ pc' = [pc EXCEPT ![c] = "reply"]
      BY <1>9 DEF Handle, Recorder
    <2>2. pc'[c] = "reply"
      BY <1>2, <2>1 DEF CallTypes
    <2>3. QED BY <1>2, <2>1, <2>2 DEF TraceAt, Bound, Kind
  <1>10. ASSUME Reply(c) \/ ClosePlayground(c) PROVE Goal
    <2>1. /\ pc[c] = "reply" /\ UNCHANGED <<answer, trace, delivered>>
          /\ \/ pc'[c] = "sending" /\ c \in Engines
             \/ pc'[c] = "closing" /\ c \in Plays
      BY <1>2, <1>10 DEF Reply, ClosePlayground, CallTypes, Recorder
    <2>2. QED BY <1>2, <2>1 DEF TraceAt, Bound, Kind
  <1>11. ASSUME Send(c) \/ HangUp(c) PROVE Goal
    <2>1. /\ pc[c] = "sending" /\ UNCHANGED <<answer, trace, obs, delivered>>
          /\ pc'[c] \in {"sent", "done", "lost"} /\ (pc'[c] = "sent" => c \in Engines)
          /\ (c \in Engines => pc'[c] # "done")
      BY <1>2, <1>11 DEF Send, HangUp, CallTypes, Recorder
    <2>2. trace[c] = "open" => c \in Engines
      BY <1>2, <2>1, Kinds DEF TraceAt
    <2>3. QED BY <1>2, <2>1, <2>2 DEF TraceAt, Bound, Kind
  <1>12. ASSUME Finish(c) PROVE Goal
    <2>1. /\ pc[c] = "closing" /\ trace'[c] = "finished" /\ pc'[c] = "deliver" /\ answer' = answer
      BY <1>2, <1>12, FinishIs DEF Finish, CallTypes
    <2>2. PICK x \in Samples : delivered' = [delivered EXCEPT ![c] = Append(delivered[c], x)]
      <3>1. PICK keep \in BOOLEAN :
               delivered' = [delivered EXCEPT ![c] = Append(delivered[c], [sampled |-> keep, sunk |-> FALSE])]
        BY <1>12, FinishIs
      <3>2. [sampled |-> keep, sunk |-> FALSE] \in Samples
        BY DEF Samples
      <3>3. QED BY <3>1, <3>2
    <2>3. delivered[c] \in Seq(Samples) /\ Len(delivered[c]) = 0 /\ delivered'[c] = Append(delivered[c], x)
      BY <1>2, <1>12, <2>2, FinishIs DEF RingTypes
    <2>4. Len(delivered'[c]) = 1
      BY <2>2, <2>3, AppendProperties
    <2>5. QED BY <1>2, <2>1, <2>4 DEF TraceAt, Bound, Kind
  <1>13. ASSUME Deliver(c) PROVE Goal
    <2>1. /\ pc[c] = "deliver" /\ UNCHANGED <<answer, trace, obs>>
          /\ pc'[c] = IF c \in Engines THEN "done" ELSE "sending"
      BY <1>2, <1>13 DEF Deliver, CallTypes
    <2>2. Len(delivered'[c]) = Len(delivered[c])
      BY <1>13, DeliverIs
    <2>3. QED BY <1>2, <2>1, <2>2 DEF TraceAt, Bound, Kind
  <1>14. ASSUME Loaded(c) PROVE Goal
    <2>1. pc[c] = "loading" /\ UNCHANGED <<trace, obs, delivered>> /\ pc' = [pc EXCEPT ![c] = "sending"]
      BY <1>14 DEF Loaded, Recorder
    <2>2. pc'[c] = "sending" /\ c \in Admins /\ c \notin Engines /\ c \notin Plays
      BY <1>2, <2>1 DEF CallTypes, Kind
    <2>3. QED BY <1>2, <2>1, <2>2 DEF TraceAt, Bound, Kind
  <1>15. Goal
    BY <1>3, <1>4, <1>5, <1>6, <1>7, <1>8, <1>9, <1>10, <1>11, <1>12, <1>13, <1>14 DEF Serve
  <1>16. QED BY <1>1, <1>15

-----------------------------------------------------------------------------
(* The ring. *)

\* A trace put in the ring is its last; every other moves one place back, and only the
\* oldest of a full ring goes.
LEMMA RingPushed ==
  ASSUME NEW r \in Seq(Calls), Len(r) <= RingSize, NEW c \in Calls, NEW new, new = Newest(Append(r, c))
  PROVE  /\ new \in Seq(Calls) /\ Len(new) \in 1..Len(new) /\ new[Len(new)] = c
         /\ \A j \in 1..Len(r) :
               \/ \E k \in 1..Len(new) : new[k] = r[j] /\ Len(new) - k = Len(r) + 1 - j
               \/ Len(r) + 1 - j >= RingSize
  <1>0. RingSize \in Nat \ {0} /\ Len(r) \in Nat
    BY Kinds, LenProperties
  <1>1. PICK s : s = Append(r, c)
    OBVIOUS
  <1>2. /\ s \in Seq(Calls) /\ Len(s) = Len(r) + 1 /\ s[Len(r) + 1] = c
        /\ \A j \in 1..Len(r) : s[j] = r[j]
    BY <1>1, AppendProperties
  <1>3. Len(s) <= RingSize + 1
    BY <1>0, <1>2
  <1>4. CASE Len(r) < RingSize
    <2>1. Len(s) <= RingSize
      BY <1>0, <1>2, <1>4
    <2>2. new = s
      BY <1>1, <1>2, <1>3, <2>1, NewestIs
    <2>3. Len(new) = Len(r) + 1 /\ Len(new) \in 1..Len(new)
      BY <1>0, <1>2, <2>2
    <2>4. ASSUME NEW j \in 1..Len(r)
          PROVE  \E k \in 1..Len(new) : new[k] = r[j] /\ Len(new) - k = Len(r) + 1 - j
      <3>1. j \in 1..Len(new)
        BY <1>0, <2>3, <2>4
      <3>2. new[j] = r[j] /\ Len(new) - j = Len(r) + 1 - j
        BY <1>2, <2>2, <2>3, <2>4
      <3>3. QED BY <3>1, <3>2
    <2>5. new \in Seq(Calls) /\ new[Len(new)] = c
      BY <1>2, <2>2, <2>3
    <2>6. QED BY <2>3, <2>4, <2>5
  <1>5. CASE ~(Len(r) < RingSize)
    <2>1. Len(r) = RingSize /\ Len(s) = RingSize + 1
      BY <1>0, <1>2, <1>5
    <2>2. new \in Seq(Calls) /\ Len(new) = RingSize /\ \A j \in 1..RingSize : new[j] = s[j + 1]
      <3>1. new = Newest(s)
        BY <1>1
      <3>2. /\ Newest(s) \in Seq(Calls) /\ Len(Newest(s)) = RingSize
            /\ \A j \in 1..RingSize : Newest(s)[j] = s[j + 1]
        BY <1>2, <1>3, <2>1, NewestIs
      <3>3. QED BY <3>1, <3>2
    <2>3. RingSize \in 1..RingSize
      BY <1>0
    <2>4. new[Len(new)] = c /\ Len(new) \in 1..Len(new)
      BY <1>2, <2>1, <2>2, <2>3
    <2>5. ASSUME NEW j \in 1..Len(r)
          PROVE  \/ \E k \in 1..Len(new) : new[k] = r[j] /\ Len(new) - k = Len(r) + 1 - j
                 \/ Len(r) + 1 - j >= RingSize
      <3>1. CASE j = 1
        <4>1. Len(r) + 1 - j >= RingSize
          BY <1>0, <2>1, <3>1
        <4>2. QED BY <4>1
      <3>2. CASE j # 1
        <4>1. j \in Int /\ j - 1 \in 1..RingSize /\ (j - 1) + 1 = j
          BY <1>0, <2>1, <2>5, <3>2
        <4>2. new[j - 1] = r[j]
          BY <1>2, <2>2, <2>5, <4>1
        <4>3. Len(new) - (j - 1) = Len(r) + 1 - j
          BY <1>0, <2>1, <2>2, <4>1
        <4>4. QED BY <2>2, <4>1, <4>2, <4>3
      <3>3. QED BY <3>1, <3>2
    <2>6. QED BY <2>2, <2>4, <2>5
  <1>6. QED BY <1>4, <1>5

\* What a call whose trace has finished may still do.
LEMMA FinishedSteps ==
  ASSUME ReqInv, NEW c \in Calls, Arrive(c) \/ Serve(c), trace[c] = "finished"
  PROVE  Send(c) \/ HangUp(c) \/ Deliver(c)
  <1>1. pc[c] \notin {"idle", "waiting", "auth", "parse", "handler", "reply", "sent", "closing"}
    BY DEF ReqInv, PlacesInv, TraceAt, Bound
  <1>2. pc[c] # "loading"
    <2>1. Kind(c) /\ TraceAt(c)
      BY DEF ReqInv, PlacesInv
    <2>2. QED BY <2>1 DEF Kind, TraceAt
  <1>3. QED
    BY <1>1, <1>2 DEF Serve, Arrive, StartEngine, StartPlayground, Refuse, LoadQuietly, LoadRefused,
       LoadTraced, Fire, VerifyAuth, ParseBody, Probe, Handle, Reply, ClosePlayground, Finish, Loaded

LEMMA FinishedQuiet ==
  ASSUME ReqInv, NEW c \in Calls, Arrive(c) \/ Serve(c), trace[c] = "finished"
  PROVE  obs'[c] = obs[c] /\ Len(delivered'[c]) = Len(delivered[c])
  <1>1. obs' = obs /\ (delivered' = delivered \/ Deliver(c))
    BY FinishedSteps DEF Send, HangUp, Deliver, Recorder
  <1>2. QED BY <1>1, DeliverIs

\* A finished trace stays finished, its answer and its sample stay as they were.
LEMMA FinishedKept ==
  ASSUME ReqInv, NEW c \in Calls, Arrive(c) \/ Serve(c), NEW d \in Calls, trace[d] = "finished"
  PROVE  /\ trace'[d] = "finished" /\ answer'[d] = answer[d]
         /\ delivered'[d][1].sampled = delivered[d][1].sampled
  <1>1. CASE d # c
    BY <1>1, OthersKept DEF Others
  <1>2. CASE d = c
    <2>1. UNCHANGED <<trace, answer>> /\ (delivered' = delivered \/ Deliver(c))
      BY <1>2, FinishedSteps DEF Send, HangUp, Deliver, Recorder
    <2>2. delivered'[d][1].sampled = delivered[d][1].sampled
      BY <1>2, <2>1, DeliverIs
    <2>3. QED BY <2>1, <2>2
  <1>3. QED BY <1>1, <1>2

LEMMA RingStep ==
  ASSUME ReqInv, NEW c \in Calls, Arrive(c) \/ Serve(c)
  PROVE  RingInv'
  <1>0. /\ order \in Seq(Calls) /\ ring \in Seq(Calls) /\ Len(ring) <= RingSize
        /\ Len(order) \in Nat /\ Len(ring) \in Nat /\ RingSize \in Nat
        /\ \A i \in 1..Len(order) : order[i] \in Calls
        /\ OrderSound /\ \A i \in 1..Len(order) : KeptAt(i)
    BY Kinds, LenProperties, ElementOfSeq DEF ReqInv, RingInv, TypeOK
  <1>1. \A i \in 1..Len(order) :
           /\ trace[order[i]] = "finished" /\ trace'[order[i]] = "finished"
           /\ answer'[order[i]] = answer[order[i]]
           /\ delivered'[order[i]][1].sampled = delivered[order[i]][1].sampled
    BY <1>0, FinishedKept DEF OrderSound
  <1>2. CASE ring' = ring /\ order' = order
    <2>1. OrderSound'
      BY <1>1, <1>2 DEF OrderSound
    <2>2. ASSUME NEW i \in 1..Len(order) PROVE KeptAt(i)'
      BY <1>0, <1>1, <1>2 DEF KeptAt
    <2>3. QED BY <1>2, <2>1, <2>2 DEF RingInv
  <1>3. CASE Finish(c)
    <2>1. PICK keep \in BOOLEAN :
             /\ (answer[c] = "error" \/ c \in Plays) => keep
             /\ ring' = IF keep THEN Newest(Append(ring, c)) ELSE ring
             /\ delivered' = [delivered EXCEPT ![c] =
                                Append(delivered[c], [sampled |-> keep, sunk |-> FALSE])]
      BY <1>3, FinishIs
    <2>2. /\ order' = Append(order, c) /\ trace' = [trace EXCEPT ![c] = "finished"]
          /\ Len(delivered[c]) = 0 /\ answer' = answer
      BY <1>3, FinishIs DEF Finish
    <2>3. /\ Len(order') = Len(order) + 1 /\ order'[Len(order) + 1] = c
          /\ \A i \in 1..Len(order) : order'[i] = order[i]
      BY <1>0, <2>2, AppendProperties
    <2>4. trace'[c] = "finished" /\ delivered'[c][1].sampled = keep
      <3>1. trace'[c] = "finished"
        BY <2>2 DEF ReqInv, TypeOK
      <3>2. [sampled |-> keep, sunk |-> FALSE] \in Samples /\ [sampled |-> keep, sunk |-> FALSE].sampled = keep
        BY DEF Samples
      <3>3. delivered \in [Calls -> Seq(Samples)]
        BY DEF ReqInv, TypeOK, Samples
      <3>4. /\ Append(delivered[c], [sampled |-> keep, sunk |-> FALSE])[1] = [sampled |-> keep, sunk |-> FALSE]
        BY <2>2, <3>2, <3>3, AppendProperties
      <3>5. delivered'[c][1] = [sampled |-> keep, sunk |-> FALSE]
        BY <2>1, <3>3, <3>4
      <3>6. QED BY <3>1, <3>2, <3>5
    <2>5. OrderSound'
      <3>1. ASSUME NEW i \in 1..(Len(order) + 1) PROVE trace'[order'[i]] = "finished"
        <4>1. CASE i = Len(order) + 1
          BY <2>3, <2>4, <4>1
        <4>2. CASE i # Len(order) + 1
          <5>1. i \in 1..Len(order)
            BY <1>0, <4>2
          <5>2. QED BY <1>1, <2>3, <5>1
        <4>3. QED BY <4>1, <4>2
      <3>2. QED BY <2>3, <3>1 DEF OrderSound
    <2>6. ASSUME NEW i \in 1..Len(order) PROVE KeptAt(i)'
      <3>1. KeptAt(i) /\ order'[i] = order[i]
        BY <1>0, <2>3
      <3>2. (answer'[order'[i]] = "error" \/ order'[i] \in Plays) => delivered'[order'[i]][1].sampled
        BY <1>1, <3>1 DEF KeptAt
      <3>3. ASSUME delivered[order[i]][1].sampled
            PROVE  \/ \E j \in 1..Len(ring') : ring'[j] = order[i] /\ Len(ring') - j <= Len(order) + 1 - i
                   \/ Len(order) + 1 - i >= RingSize
        <4>1. CASE Len(order) - i >= RingSize
          <5>1. Len(order) + 1 - i >= RingSize
            BY <1>0, <4>1
          <5>2. QED BY <5>1
        <4>2. CASE ~(Len(order) - i >= RingSize)
          <5>1. PICK j \in 1..Len(ring) : ring[j] = order[i] /\ Len(ring) - j <= Len(order) - i
            BY <3>1, <3>3, <4>2 DEF KeptAt
          <5>2. CASE ~keep
            <6>1. ring' = ring /\ Len(ring) - j <= Len(order) + 1 - i
              BY <1>0, <2>1, <5>1, <5>2
            <6>2. QED BY <5>1, <6>1
          <5>3. CASE keep
            <6>1. \/ \E k \in 1..Len(ring') : ring'[k] = ring[j] /\ Len(ring') - k = Len(ring) + 1 - j
                  \/ Len(ring) + 1 - j >= RingSize
              BY <1>0, <2>1, <5>3, RingPushed
            <6>2. Len(ring) + 1 - j <= Len(order) + 1 - i
              BY <1>0, <5>1
            <6>3. CASE Len(ring) + 1 - j >= RingSize
              <7>1. Len(order) + 1 - i >= RingSize
                BY <1>0, <5>1, <6>2, <6>3
              <7>2. QED BY <7>1
            <6>4. CASE \E k \in 1..Len(ring') : ring'[k] = ring[j] /\ Len(ring') - k = Len(ring) + 1 - j
              BY <5>1, <6>2, <6>4
            <6>5. QED BY <6>1, <6>3, <6>4
          <5>4. QED BY <5>2, <5>3
        <4>3. QED BY <4>1, <4>2
      <3>4. QED BY <1>1, <2>3, <3>1, <3>2, <3>3 DEF KeptAt
    <2>7. ASSUME NEW n, n = Len(order) + 1 PROVE KeptAt(n)'
      <3>1. order'[n] = c /\ Len(order') = n
        BY <2>3, <2>7
      <3>2. ASSUME keep PROVE \E j \in 1..Len(ring') : ring'[j] = c /\ Len(ring') - j <= n - n
        <4>1. Len(ring') \in 1..Len(ring') /\ ring'[Len(ring')] = c
          BY <1>0, <2>1, <3>2, RingPushed
        <4>2. Len(ring') - Len(ring') <= n - n
          BY <1>0, <2>7, <4>1
        <4>3. QED BY <4>1, <4>2
      <3>3. QED BY <2>1, <2>2, <2>4, <3>1, <3>2 DEF KeptAt
    <2>8. ASSUME NEW i \in 1..Len(order') PROVE KeptAt(i)'
      <3>1. CASE i \in 1..Len(order)
        BY <2>6, <3>1
      <3>2. CASE i \notin 1..Len(order)
        <4>1. i = Len(order) + 1
          BY <1>0, <2>3, <3>2
        <4>2. QED BY <2>7, <4>1
      <3>3. QED BY <3>1, <3>2
    <2>9. QED BY <2>5, <2>8 DEF RingInv
  <1>4. QED
    BY <1>2, <1>3, RecorderStep DEF Deliver, Recorder

-----------------------------------------------------------------------------
(* Observations. *)

\* What may stand in the trace of d.
Fit(d) == {o \in Obs : o.by \notin Admins => o.by = d}

LEMMA ObsParts ==
  /\ \A o \in Obs : o.by \in Calls /\ o.name \in Names
  /\ \A c \in Calls, n \in Names : [by |-> c, name |-> n] \in Obs /\ [by |-> c, name |-> n].name = n
  BY DEF Obs

LEMMA StaysIsFit ==
  ASSUME obs \in [Calls -> Seq(Obs)]
  PROVE  OwnSpansStay <=> \A d \in Calls : obs[d] \in Seq(Fit(d))
  <1>1. ASSUME NEW d \in Calls, NEW i \in 1..Len(obs[d]) PROVE obs[d][i] \in Obs /\ obs[d][i].by \in Calls
    <2>1. obs[d][i] \in Obs
      BY <1>1, ElementOfSeq
    <2>2. QED BY <2>1, ObsParts
  <1>2. ASSUME OwnSpansStay, NEW d \in Calls PROVE obs[d] \in Seq(Fit(d))
    <2>1. \A i \in 1..Len(obs[d]) : obs[d][i] \in Fit(d)
      BY <1>1, <1>2 DEF OwnSpansStay, Fit
    <2>2. PICK list : list = obs[d]
      OBVIOUS
    <2>3. list \in Seq(Obs) /\ \A i \in 1..Len(list) : list[i] \in Fit(d)
      BY <2>1, <2>2
    <2>4. list \in Seq(Fit(d))
      BY <2>3, SMT
    <2>5. QED BY <2>2, <2>4
  <1>3. ASSUME \A d \in Calls : obs[d] \in Seq(Fit(d)) PROVE OwnSpansStay
    <2>1. ASSUME NEW d \in Calls, NEW i \in 1..Len(obs[d]) PROVE obs[d][i] \in Fit(d)
      BY <1>3, ElementOfSeq
    <2>2. QED BY <2>1 DEF OwnSpansStay, Fit
  <1>4. QED BY <1>2, <1>3

LEMMA StaysIsFitNext ==
  ASSUME obs' \in [Calls -> Seq(Obs)], \A d \in Calls : obs'[d] \in Seq(Fit(d))
  PROVE  OwnSpansStay'
  <1>1. ASSUME NEW d \in Calls, NEW i \in 1..Len(obs'[d]) PROVE obs'[d][i] \in Fit(d)
    BY ElementOfSeq
  <1>2. QED BY <1>1 DEF OwnSpansStay, Fit

LEMMA NotedFits ==
  ASSUME NEW d \in Calls, NEW list \in Seq(Fit(d)), NEW c \in Calls, c \in Admins \/ c = d, NEW name \in Names
  PROVE  Noted(list, c, name) \in Seq(Fit(d))
  <1>1. [by |-> c, name |-> name] \in Fit(d)
    BY DEF Fit, Obs
  <1>2. QED BY <1>1, AppendProperties DEF Noted

LEMMA StayStep ==
  ASSUME ReqInv, NEW c \in Calls, Arrive(c) \/ Serve(c)
  PROVE  OwnSpansStay'
  <1>1. /\ obs \in [Calls -> Seq(Obs)] /\ Writes(c) /\ obs' \in [Calls -> Seq(Obs)]
        /\ {"error", "load"} \subseteq Names
    BY StepWrites, ObsTyped DEF ReqInv, TypeOK, Names
  <1>2. \A d \in Calls : obs[d] \in Seq(Fit(d))
    BY <1>1, StaysIsFit DEF ReqInv, SpansInv
  <1>3. ASSUME NEW x \in Calls, NEW list \in Seq(Fit(x)), obs' = [obs EXCEPT ![x] = list]
        PROVE  \A d \in Calls : obs'[d] \in Seq(Fit(d))
    BY <1>1, <1>2, <1>3
  <1>4. ASSUME NEW x \in Calls, NEW name \in Names, c \in Admins \/ c = x, Record(x, c, name)
        PROVE  \A d \in Calls : obs'[d] \in Seq(Fit(d))
    <2>1. Noted(obs[x], c, name) \in Seq(Fit(x)) /\ obs' = [obs EXCEPT ![x] = Noted(obs[x], c, name)]
      BY <1>2, <1>4, NotedFits DEF Record
    <2>2. QED BY <1>3, <2>1
  <1>5. ASSUME NEW name \in Names, obs' = [obs EXCEPT ![c] = Noted(Noted(obs[c], c, name), c, "error")]
        PROVE  \A d \in Calls : obs'[d] \in Seq(Fit(d))
    <2>1. Noted(obs[c], c, name) \in Seq(Fit(c))
      BY <1>2, NotedFits
    <2>2. Noted(Noted(obs[c], c, name), c, "error") \in Seq(Fit(c))
      BY <1>1, <2>1, NotedFits
    <2>3. QED BY <1>3, <1>5, <2>2
  <1>6. \A d \in Calls : obs'[d] \in Seq(Fit(d))
    BY <1>1, <1>2, <1>4, <1>5 DEF Writes
  <1>7. QED BY <1>1, <1>6, StaysIsFitNext

\* What a note adds to the observations of d by d itself.
MineOf(list, d) == Only(list, [by : {d}, name : Names])

LEMMA MineNoted ==
  ASSUME NEW list \in Seq(Obs), NEW c \in Calls, NEW d \in Calls, NEW name \in Names
  PROVE  /\ MineOf(list, d) \in Seq(Obs)
         /\ MineOf(Noted(list, c, name), d) =
               IF c = d THEN Noted(MineOf(list, d), c, name) ELSE MineOf(list, d)
  <1>1. PICK o \in Obs : o = [by |-> c, name |-> name]
    BY ObsParts
  <1>2. o \in [by : {d}, name : Names] <=> c = d
    BY <1>1
  <1>3. Only(Append(list, o), [by : {d}, name : Names]) =
           IF o \in [by : {d}, name : Names] THEN Append(Only(list, [by : {d}, name : Names]), o)
           ELSE Only(list, [by : {d}, name : Names])
    BY OnlyAppend, ZenonT(60)
  <1>4. QED BY <1>1, <1>2, <1>3, OnlyType DEF MineOf, Noted

LEMMA Ranks ==
  /\ Rank["receive"] = 1 /\ Rank["auth"] = 2 /\ Rank["parse"] = 3 /\ Rank["engine"] = 4
  /\ Rank["error"] = 5 /\ Rank["send"] = 6
  /\ \A n \in Names : Rank[n] \in 1..6
  <1>1. {"receive", "auth", "parse", "engine", "load", "error", "send"} = Names
    BY DEF Names
  <1>2. Rank["receive"] = 1
    BY <1>1 DEF Rank
  <1>3. Rank["auth"] = 2
    BY <1>1 DEF Rank
  <1>4. Rank["parse"] = 3
    BY <1>1 DEF Rank
  <1>5. Rank["engine"] = 4
    BY <1>1 DEF Rank
  <1>6. Rank["load"] = 4
    BY <1>1 DEF Rank
  <1>7. Rank["error"] = 5
    BY <1>1 DEF Rank
  <1>8. Rank["send"] = 6
    BY <1>1 DEF Rank
  <1>9. ASSUME NEW n \in Names PROVE Rank[n] \in 1..6
    <2>1. \/ n = "receive" \/ n = "auth" \/ n = "parse" \/ n = "engine" \/ n = "load" \/ n = "error"
          \/ n = "send"
      BY <1>1
    <2>2. QED BY <1>2, <1>3, <1>4, <1>5, <1>6, <1>7, <1>8, <2>1
  <1>10. QED BY <1>2, <1>3, <1>4, <1>5, <1>7, <1>8, <1>9

\* A name of a higher rank may follow.
LEMMA FormedNoted ==
  ASSUME NEW list \in Seq(Obs), NEW k \in Nat, NEW f \in BOOLEAN, Formed(list, k, f),
         NEW c \in Calls, NEW name \in Names, k < Rank[name]
  PROVE  /\ Formed(Noted(list, c, name), Rank[name], f \/ name = "error")
         /\ Latest(Noted(list, c, name)) = name
  <1>1. PICK o \in Obs : o = [by |-> c, name |-> name] /\ o.name = name
    BY ObsParts
  <1>2. PICK new : new = Append(list, o)
    OBVIOUS
  <1>3. /\ new = Noted(list, c, name) /\ new \in Seq(Obs) /\ new # <<>> /\ Len(new) = Len(list) + 1
        /\ new[Len(list) + 1] = o /\ \A i \in 1..Len(list) : new[i] = list[i]
    BY <1>1, <1>2, AppendProperties DEF Noted
  <1>4. /\ Len(list) \in Nat /\ Len(list) # 0 /\ list[1].name = "receive"
        /\ \A i \in 1..(Len(list) - 1) : Rank[list[i].name] < Rank[list[i + 1].name]
        /\ Rank[Latest(list)] <= k /\ (f <=> Failed(list))
    BY EmptySeq, LenProperties DEF Formed, Rising
  <1>5. \A i \in 1..Len(list) : list[i] \in Obs /\ list[i].name \in Names
    BY ElementOfSeq, ObsParts
  <1>6. 1 \in 1..Len(list) /\ Len(list) \in 1..Len(list)
    BY <1>4
  <1>7. Latest(list) \in Names /\ Rank[Latest(list)] \in Int /\ Rank[name] \in Int
    BY <1>5, <1>6, Ranks DEF Latest
  <1>8. Latest(new) = name
    BY <1>1, <1>3 DEF Latest
  <1>9. ASSUME NEW i \in 1..Len(list) PROVE Rank[new[i].name] < Rank[new[i + 1].name]
    <2>1. CASE i = Len(list)
      <3>1. new[i].name = Latest(list) /\ new[i + 1].name = name
        BY <1>1, <1>3, <1>6, <2>1 DEF Latest
      <3>2. QED BY <1>4, <1>7, <3>1
    <2>2. CASE i # Len(list)
      <3>1. i \in 1..(Len(list) - 1) /\ i + 1 \in 1..Len(list)
        BY <1>4, <2>2
      <3>2. QED BY <1>3, <1>4, <3>1
    <2>3. QED BY <2>1, <2>2
  <1>10. Rising(new)
    <2>1. new[1].name = "receive"
      BY <1>3, <1>4, <1>6
    <2>2. Len(new) - 1 = Len(list)
      BY <1>3, <1>4
    <2>3. QED BY <1>3, <1>9, <2>1, <2>2 DEF Rising
  <1>11. Failed(new) <=> (Failed(list) \/ name = "error")
    <2>1. ASSUME NEW i \in 1..Len(new), new[i].name = "error" PROVE Failed(list) \/ name = "error"
      <3>1. CASE i = Len(list) + 1
        BY <1>1, <1>3, <2>1, <3>1
      <3>2. CASE i # Len(list) + 1
        <4>1. i \in 1..Len(list)
          BY <1>3, <1>4, <3>2
        <4>2. QED BY <1>3, <2>1, <4>1 DEF Failed
      <3>3. QED BY <3>1, <3>2
    <2>2. ASSUME NEW i \in 1..Len(list), list[i].name = "error" PROVE Failed(new)
      <3>1. i \in 1..Len(new) /\ new[i] = list[i]
        BY <1>3, <1>4
      <3>2. QED BY <2>2, <3>1 DEF Failed
    <2>3. ASSUME name = "error" PROVE Failed(new)
      <3>1. Len(list) + 1 \in 1..Len(new) /\ new[Len(list) + 1].name = "error"
        BY <1>1, <1>3, <1>4, <2>3
      <3>2. QED BY <3>1 DEF Failed
    <2>4. QED BY <2>1, <2>2, <2>3 DEF Failed
  <1>12. Rank[Latest(new)] <= Rank[name]
    BY <1>7, <1>8
  <1>13. Formed(new, Rank[name], f \/ name = "error")
    BY <1>4, <1>10, <1>11, <1>12 DEF Formed
  <1>14. QED BY <1>3, <1>8, <1>13

\* The first observation of a trace.
LEMMA FormedFirst ==
  ASSUME NEW c \in Calls, NEW k \in Nat, k >= 1
  PROVE  Formed(Noted(<<>>, c, "receive"), k, FALSE)
  <1>0. PICK o : o = [by |-> c, name |-> "receive"]
    OBVIOUS
  <1>1. o.name = "receive"
    BY <1>0
  <1>2. PICK new : new = Append(<<>>, o)
    OBVIOUS
  <1>3. new = Noted(<<>>, c, "receive") /\ Len(new) = 1 /\ new[1] = o /\ new # <<>>
    BY <1>0, <1>2 DEF Noted
  <1>4. Rising(new)
    BY <1>1, <1>3 DEF Rising
  <1>5. ~Failed(new)
    <2>1. \A i \in 1..1 : i = 1
      OBVIOUS
    <2>2. QED BY <1>1, <1>3, <2>1 DEF Failed
  <1>6. Rank[Latest(new)] <= k
    BY <1>1, <1>3, Ranks DEF Latest
  <1>7. QED BY <1>3, <1>4, <1>5, <1>6 DEF Formed

LEMMA FormedWider ==
  ASSUME NEW list \in Seq(Obs), NEW k \in Nat, NEW m \in Nat, k <= m, NEW f \in BOOLEAN, Formed(list, k, f)
  PROVE  Formed(list, m, f)
  <1>1. list # <<>> /\ Rank[Latest(list)] <= k
    BY DEF Formed, Rising
  <1>2. Len(list) \in 1..Len(list)
    <2>1. Len(list) \in Nat /\ Len(list) # 0
      BY <1>1, EmptySeq, LenProperties
    <2>2. QED BY <2>1
  <1>3. Latest(list) \in Names
    <2>1. list[Len(list)] \in Obs
      BY <1>2, ElementOfSeq
    <2>2. QED BY <2>1, ObsParts DEF Latest
  <1>4. Rank[Latest(list)] <= m
    BY <1>1, <1>3, Ranks
  <1>5. QED BY <1>4 DEF Formed

LEMMA Reaches ==
  /\ \A p \in PCs : Reach(p) \in 1..6 /\ (p \notin Bound => Reach(p) = 6)
  /\ Reach("auth") = 1 /\ Reach("parse") = 2 /\ Reach("handler") = 3 /\ Reach("reply") = 5
  BY DEF Reach, PCs, Bound

\* A phase that succeeds, and the response.
LEMMA GoesOn ==
  ASSUME NEW list \in Seq(Obs), NEW p \in PCs, NEW a, Shaped(list, p, a), NEW c \in Calls,
         NEW name \in Names, NEW q \in PCs, NEW b, Reach(p) < Rank[name], Rank[name] <= Reach(q),
         name # "error", (a = "error") <=> (b = "error"), q \in Bound \/ name = "send"
  PROVE  Shaped(Noted(list, c, name), q, b)
  <1>1. PICK f \in BOOLEAN : f <=> (a = "error")
    OBVIOUS
  <1>2. PICK k \in Nat : k = Reach(p)
    BY Reaches
  <1>3. PICK m \in Nat : m = Reach(q)
    BY Reaches
  <1>4. PICK n \in Nat : n = Rank[name]
    BY Ranks
  <1>5. Formed(list, k, f)
    BY <1>1, <1>2 DEF Shaped, Formed
  <1>6. /\ Formed(Noted(list, c, name), n, f \/ name = "error") /\ Latest(Noted(list, c, name)) = name
    BY <1>2, <1>4, <1>5, FormedNoted
  <1>7. Noted(list, c, name) \in Seq(Obs)
    BY NotedType
  <1>8. Formed(Noted(list, c, name), n, f)
    BY <1>6 DEF Formed
  <1>9. Formed(Noted(list, c, name), m, f)
    BY <1>3, <1>4, <1>7, <1>8, FormedWider
  <1>10. QED BY <1>1, <1>3, <1>6, <1>9 DEF Shaped, Formed

\* A phase that fails, before its span or inside it.
LEMMA GoesWrong ==
  ASSUME NEW list \in Seq(Obs), NEW p \in PCs, NEW a, Shaped(list, p, a), NEW c \in Calls
  PROVE  /\ Reach(p) < 5 => Shaped(Noted(list, c, "error"), "reply", "error")
         /\ \A name \in Names : (Reach(p) < Rank[name] /\ Rank[name] < 5) =>
               Shaped(Noted(Noted(list, c, name), c, "error"), "reply", "error")
  <1>1. PICK f \in BOOLEAN : f <=> (a = "error")
    OBVIOUS
  <1>2. PICK k \in Nat : k = Reach(p)
    BY Reaches
  <1>3. Formed(list, k, f)
    BY <1>1, <1>2 DEF Shaped, Formed
  <1>4. "error" \in Names /\ Rank["error"] = 5 /\ Reach("reply") = 5 /\ "reply" \in Bound
    BY Ranks, Reaches DEF Names, Bound
  <1>5. ASSUME NEW l \in Seq(Obs), NEW n \in Nat, n < 5, NEW g \in BOOLEAN, Formed(l, n, g)
        PROVE  Shaped(Noted(l, c, "error"), "reply", "error")
    <2>1. Formed(Noted(l, c, "error"), Rank["error"], g \/ "error" = "error")
      BY <1>4, <1>5, FormedNoted
    <2>2. QED BY <1>4, <2>1 DEF Shaped, Formed
  <1>6. ASSUME Reach(p) < 5 PROVE Shaped(Noted(list, c, "error"), "reply", "error")
    BY <1>2, <1>3, <1>5, <1>6
  <1>7. ASSUME NEW name \in Names, Reach(p) < Rank[name], Rank[name] < 5
        PROVE  Shaped(Noted(Noted(list, c, name), c, "error"), "reply", "error")
    <2>1. PICK n \in Nat : n = Rank[name]
      BY Ranks
    <2>2. PICK g \in BOOLEAN : g <=> (f \/ name = "error")
      OBVIOUS
    <2>3. Formed(Noted(list, c, name), Rank[name], f \/ name = "error")
      BY <1>2, <1>3, <1>7, FormedNoted
    <2>4. Formed(Noted(list, c, name), n, g)
      BY <2>1, <2>2, <2>3 DEF Formed
    <2>5. Noted(list, c, name) \in Seq(Obs)
      BY NotedType
    <2>6. QED BY <1>5, <1>7, <2>1, <2>4, <2>5
  <1>8. QED BY <1>6, <1>7

\* Away from the phases only the answer matters.
LEMMA ShapedOutside ==
  ASSUME NEW list, NEW p \in PCs \ Bound, NEW q \in PCs \ Bound, NEW a, Shaped(list, p, a)
  PROVE  Shaped(list, q, a)
  BY Reaches DEF Shaped

\* What a call recorded in its own trace changes by its own steps only.
LEMMA OthersMine ==
  ASSUME ReqInv, NEW c \in Calls, Writes(c), NEW d \in Calls, d # c
  PROVE  MineOf(obs'[d], d) = MineOf(obs[d], d)
  <1>1. obs \in [Calls -> Seq(Obs)] /\ "load" \in Names
    BY DEF ReqInv, TypeOK, Names
  <1>2. ASSUME NEW x \in Calls, NEW name \in Names, Record(x, c, name)
        PROVE  MineOf(obs'[d], d) = MineOf(obs[d], d)
    <2>1. obs'[d] = IF x = d THEN Noted(obs[d], c, name) ELSE obs[d]
      BY <1>1, <1>2 DEF Record
    <2>2. obs[d] \in Seq(Obs)
      BY <1>1
    <2>3. MineOf(Noted(obs[d], c, name), d) = MineOf(obs[d], d)
      BY <2>2, MineNoted
    <2>4. QED BY <2>1, <2>3
  <1>3. ASSUME NEW list, obs' = [obs EXCEPT ![c] = list] PROVE MineOf(obs'[d], d) = MineOf(obs[d], d)
    BY <1>1, <1>3
  <1>4. QED BY <1>1, <1>2, <1>3 DEF Writes

\* The call's own list after its step.
Grows(c, list) == obs'[c] = list

LEMMA MineGrows ==
  ASSUME ReqInv, NEW c \in Calls, NEW name \in Names, NEW list, list = MineOf(obs[c], c)
  PROVE  /\ list \in Seq(Obs)
         /\ Grows(c, Noted(obs[c], c, name)) => MineOf(obs'[c], c) = Noted(list, c, name)
         /\ Grows(c, Noted(Noted(obs[c], c, name), c, "error"))
               => MineOf(obs'[c], c) = Noted(Noted(list, c, name), c, "error")
  <1>1. obs[c] \in Seq(Obs) /\ "error" \in Names
    BY DEF ReqInv, TypeOK, Names
  <1>2. PICK old \in Seq(Obs) : old = obs[c]
    BY <1>1
  <1>3. list \in Seq(Obs) /\ MineOf(Noted(old, c, name), c) = Noted(list, c, name)
    BY <1>2, MineNoted
  <1>4. Noted(old, c, name) \in Seq(Obs)
    BY NotedType
  <1>5. MineOf(Noted(Noted(old, c, name), c, "error"), c) = Noted(Noted(list, c, name), c, "error")
    BY <1>1, <1>3, <1>4, MineNoted
  <1>6. QED BY <1>2, <1>3, <1>5 DEF Grows

LEMMA ShapeStep ==
  ASSUME ReqInv, NEW c \in Calls, Arrive(c) \/ Serve(c)
  PROVE  \A d \in Calls : Shape(d)'
  <1>0. /\ Others(c) /\ Writes(c) /\ \A d \in Calls : Shape(d)
        /\ CallTypes /\ SpanTypes /\ TraceAt(c) /\ Kind(c)
    BY OthersKept, StepWrites, TypesSplit DEF ReqInv, PlacesInv, SpansInv
  <1>1. ASSUME NEW d \in Calls, d # c PROVE Shape(d)'
    <2>1. pc'[d] = pc[d] /\ trace'[d] = trace[d] /\ answer'[d] = answer[d] /\ Shape(d)
      BY <1>0, <1>1 DEF Others
    <2>2. MineOf(obs'[d], d) = MineOf(obs[d], d)
      BY <1>0, <1>1, OthersMine
    <2>3. QED BY <2>1, <2>2 DEF Shape, Mine, MineOf
  <1>2. PICK list : list = MineOf(obs[c], c)
    OBVIOUS
  <1>3. PICK p \in PCs, a \in {"none", "ok", "error"} : p = pc[c] /\ a = answer[c]
    BY <1>0 DEF CallTypes
  <1>4. list \in Seq(Obs) /\ (trace[c] # "none" => Shaped(list, p, a))
    <2>1. obs[c] \in Seq(Obs) /\ "load" \in Names
      BY <1>0 DEF SpanTypes, Names
    <2>2. list \in Seq(Obs)
      BY <1>2, <2>1, MineGrows
    <2>3. QED BY <1>0, <1>2, <1>3, <2>2 DEF Shape, Mine, MineOf
  <1>5. ASSUME NEW new, MineOf(obs'[c], c) = new, NEW q, pc'[c] = q, NEW b, answer'[c] = b, Shaped(new, q, b)
        PROVE  Shape(c)'
    BY <1>5 DEF Shape, Mine, MineOf
  <1>6. ASSUME trace'[c] = "none" PROVE Shape(c)'
    BY <1>6 DEF Shape
  <1>7. {"receive", "auth", "parse", "engine", "error", "send"} \subseteq Names
    BY DEF Names
  <1>8. {"auth", "parse", "handler", "reply", "sending", "closing", "sent", "lost", "done", "deliver"} \subseteq PCs
        /\ {"auth", "parse", "handler", "reply"} = Bound
    BY DEF PCs, Bound
  <1>9. ASSUME Arrive(c) PROVE Shape(c)'
    <2>1. trace'[c] = "none"
      BY <1>0, <1>9 DEF Arrive, TraceAt
    <2>2. QED BY <1>6, <2>1
  <1>10. ASSUME NEW w \in Workers, Refuse(c, w) \/ LoadQuietly(c, w) \/ LoadRefused(c, w) \/ LoadTraced(c, w)
         PROVE  Shape(c)'
    <2>1. trace'[c] = "none"
      BY <1>0, <1>10 DEF Refuse, LoadQuietly, LoadRefused, LoadTraced, TraceAt
    <2>2. QED BY <1>6, <2>1
  <1>11. ASSUME Loaded(c) PROVE Shape(c)'
    <2>1. trace'[c] = "none"
      BY <1>0, <1>11 DEF Loaded, TraceAt, Kind
    <2>2. QED BY <1>6, <2>1
  <1>12. ASSUME NEW w \in Workers, StartEngine(c, w) \/ StartPlayground(c, w) PROVE Shape(c)'
    <2>1. /\ pc[c] = "waiting" /\ UNCHANGED answer /\ pc'[c] \in {"auth", "parse"}
          /\ obs' = [obs EXCEPT ![c] = Noted(obs[c], c, "receive")]
      BY <1>0, <1>12 DEF StartEngine, StartPlayground, Open, Record, CallTypes
    <2>2. obs[c] = <<>> /\ answer'[c] = "none"
      BY <1>0, <2>1 DEF TraceAt
    <2>3. Grows(c, Noted(obs[c], c, "receive"))
      BY <1>0, <2>1 DEF Grows, SpanTypes
    <2>4. list = <<>>
      BY <1>2, <2>2, OnlyEmpty DEF MineOf
    <2>5. MineOf(obs'[c], c) = Noted(<<>>, c, "receive")
      BY <1>2, <1>7, <2>3, <2>4, MineGrows
    <2>6. PICK q \in Bound : q = pc'[c] /\ Reach(q) \in Nat /\ Reach(q) >= 1
      BY <1>8, <2>1, Reaches
    <2>7. Formed(Noted(<<>>, c, "receive"), Reach(q), FALSE)
      BY <2>6, FormedFirst
    <2>8. Shaped(Noted(<<>>, c, "receive"), q, "none")
      BY <2>6, <2>7 DEF Shaped, Formed
    <2>9. QED BY <1>5, <2>2, <2>5, <2>6, <2>8
  <1>13. ASSUME NEW name \in Names, Record(c, c, name), NEW q \in PCs, pc'[c] = q, NEW b, answer'[c] = b,
                trace[c] # "none", Reach(p) < Rank[name], Rank[name] <= Reach(q), name # "error",
                (a = "error") <=> (b = "error"), q \in Bound \/ name = "send"
         PROVE  Shape(c)'
    <2>1. Grows(c, Noted(obs[c], c, name))
      BY <1>0, <1>13 DEF Record, Grows, SpanTypes
    <2>2. MineOf(obs'[c], c) = Noted(list, c, name)
      BY <1>2, <1>13, <2>1, MineGrows
    <2>3. Shaped(Noted(list, c, name), q, b)
      BY <1>4, <1>13, GoesOn
    <2>4. QED BY <1>5, <1>13, <2>2, <2>3
  <1>14. ASSUME trace[c] # "none", pc'[c] = "reply", answer'[c] = "error", Reach(p) < 5,
                \/ Record(c, c, "error")
                \/ \E name \in Names :
                      /\ obs' = [obs EXCEPT ![c] = Noted(Noted(obs[c], c, name), c, "error")]
                      /\ Reach(p) < Rank[name] /\ Rank[name] < 5
         PROVE  Shape(c)'
    <2>1. CASE Record(c, c, "error")
      <3>1. Grows(c, Noted(obs[c], c, "error"))
        BY <1>0, <2>1 DEF Record, Grows, SpanTypes
      <3>2. MineOf(obs'[c], c) = Noted(list, c, "error")
        BY <1>2, <1>7, <3>1, MineGrows
      <3>3. Shaped(Noted(list, c, "error"), "reply", "error")
        BY <1>4, <1>14, GoesWrong
      <3>4. QED BY <1>5, <1>14, <3>2, <3>3
    <2>2. CASE \E name \in Names :
                  /\ obs' = [obs EXCEPT ![c] = Noted(Noted(obs[c], c, name), c, "error")]
                  /\ Reach(p) < Rank[name] /\ Rank[name] < 5
      <3>1. PICK name \in Names :
               /\ obs' = [obs EXCEPT ![c] = Noted(Noted(obs[c], c, name), c, "error")]
               /\ Reach(p) < Rank[name] /\ Rank[name] < 5
        BY <2>2
      <3>2. Grows(c, Noted(Noted(obs[c], c, name), c, "error"))
        BY <1>0, <3>1 DEF Grows, SpanTypes
      <3>3. MineOf(obs'[c], c) = Noted(Noted(list, c, name), c, "error")
        BY <1>2, <3>2, MineGrows
      <3>4. Shaped(Noted(Noted(list, c, name), c, "error"), "reply", "error")
        BY <1>4, <1>14, <3>1, GoesWrong
      <3>5. QED BY <1>5, <1>14, <3>3, <3>4
    <2>3. QED BY <1>14, <2>1, <2>2
  <1>15. ASSUME VerifyAuth(c) PROVE Shape(c)'
    <2>1. p = "auth" /\ trace[c] # "none" /\ a = "none"
      BY <1>0, <1>3, <1>15 DEF VerifyAuth, TraceAt, Bound
    <2>2. \/ Record(c, c, "auth") /\ pc'[c] = "parse" /\ answer'[c] = a
          \/ /\ obs' = [obs EXCEPT ![c] = Noted(Noted(obs[c], c, "auth"), c, "error")]
             /\ pc'[c] = "reply" /\ answer'[c] = "error"
      BY <1>0, <1>3, <1>15 DEF VerifyAuth, Fail, CallTypes
    <2>3. Reach(p) < Rank["auth"] /\ Rank["auth"] <= Reach("parse") /\ Reach(p) < 5 /\ Rank["auth"] < 5
      BY <2>1, Reaches, Ranks
    <2>4. QED BY <1>7, <1>8, <1>13, <1>14, <2>1, <2>2, <2>3
  <1>16. ASSUME ParseBody(c) \/ Probe(c) PROVE Shape(c)'
    <2>1. p = "parse" /\ trace[c] # "none" /\ a = "none"
      BY <1>0, <1>3, <1>16 DEF ParseBody, Probe, TraceAt, Bound
    <2>2. \/ Record(c, c, "parse") /\ pc'[c] = "handler" /\ answer'[c] = a
          \/ /\ \/ obs' = [obs EXCEPT ![c] = Noted(Noted(obs[c], c, "parse"), c, "error")]
                \/ Record(c, c, "error")
             /\ pc'[c] = "reply" /\ answer'[c] = "error"
      BY <1>0, <1>3, <1>16 DEF ParseBody, Probe, Fail, Record, CallTypes
    <2>3. Reach(p) < Rank["parse"] /\ Rank["parse"] <= Reach("handler") /\ Reach(p) < 5 /\ Rank["parse"] < 5
      BY <2>1, Reaches, Ranks
    <2>4. QED BY <1>7, <1>8, <1>13, <1>14, <2>1, <2>2, <2>3
  <1>17. ASSUME Handle(c) PROVE Shape(c)'
    <2>1. p = "handler" /\ trace[c] # "none" /\ a = "none" /\ pc'[c] = "reply"
      BY <1>0, <1>3, <1>17 DEF Handle, TraceAt, Bound, CallTypes
    <2>2. \/ Record(c, c, "engine") /\ answer'[c] = "ok"
          \/ /\ \/ obs' = [obs EXCEPT ![c] = Noted(Noted(obs[c], c, "engine"), c, "error")]
                \/ Record(c, c, "error")
             /\ answer'[c] = "error"
      <3>1. answer \in [Calls -> {"none", "ok", "error"}]
        BY <1>0 DEF CallTypes
      <3>2. QED BY <1>17, <3>1, HandleRecords
    <2>3. Reach(p) < Rank["engine"] /\ Rank["engine"] <= Reach("reply") /\ Reach(p) < 5 /\ Rank["engine"] < 5
      BY <2>1, Reaches, Ranks
    <2>4. QED BY <1>7, <1>8, <1>13, <1>14, <2>1, <2>2, <2>3
  <1>18. ASSUME Reply(c) \/ ClosePlayground(c) PROVE Shape(c)'
    <2>1. p = "reply" /\ trace[c] # "none"
      BY <1>0, <1>3, <1>18 DEF Reply, ClosePlayground, TraceAt, Bound
    <2>2. PICK q \in {"sending", "closing"} : pc'[c] = q
      BY <1>0, <1>18 DEF Reply, ClosePlayground, CallTypes
    <2>3. Record(c, c, "send") /\ answer'[c] = a
      BY <1>3, <1>18 DEF Reply, ClosePlayground
    <2>4. Reach(p) < Rank["send"] /\ Rank["send"] <= Reach(q) /\ q \in PCs
      BY <1>8, <2>1, <2>2, Reaches, Ranks
    <2>5. QED BY <1>7, <1>13, <2>1, <2>2, <2>3, <2>4
  <1>19. ASSUME NEW q \in PCs \ Bound, pc'[c] = q, p \in PCs \ Bound, UNCHANGED <<obs, answer>>,
                trace'[c] # "none" => trace[c] # "none"
         PROVE  Shape(c)'
    <2>1. MineOf(obs'[c], c) = list /\ answer'[c] = a
      BY <1>2, <1>3, <1>19
    <2>2. CASE trace[c] # "none"
      <3>1. Shaped(list, q, a)
        BY <1>4, <1>19, <2>2, ShapedOutside
      <3>2. QED BY <1>5, <1>19, <2>1, <3>1
    <2>3. CASE trace[c] = "none"
      BY <1>6, <1>19, <2>3
    <2>4. QED BY <2>2, <2>3
  <1>20. ASSUME Send(c) \/ HangUp(c) \/ Deliver(c) PROVE Shape(c)'
    <2>1. /\ p \in {"sending", "deliver"} /\ pc'[c] \in {"sent", "done", "lost", "sending"}
          /\ UNCHANGED <<obs, answer, trace>>
      BY <1>0, <1>3, <1>20 DEF Send, HangUp, Deliver, CallTypes
    <2>2. QED BY <1>8, <1>19, <2>1
  <1>21. ASSUME NEW w \in Workers, Fire(c, w) PROVE Shape(c)'
    <2>1. p = "sent" /\ pc'[c] = "closing" /\ UNCHANGED <<obs, answer, trace>>
      BY <1>0, <1>3, <1>21 DEF Fire, CallTypes
    <2>2. QED BY <1>8, <1>19, <2>1
  <1>22. ASSUME Finish(c) PROVE Shape(c)'
    <2>1. p = "closing" /\ pc'[c] = "deliver" /\ UNCHANGED <<obs, answer>>
      BY <1>0, <1>3, <1>22 DEF Finish, CallTypes
    <2>2. trace[c] # "none"
      BY <1>22, FinishIs
    <2>3. QED BY <1>8, <1>19, <2>1, <2>2
  <1>23. Shape(c)'
    BY <1>9, <1>10, <1>11, <1>12, <1>15, <1>16, <1>17, <1>18, <1>20, <1>21, <1>22 DEF Serve
  <1>24. QED BY <1>1, <1>23

-----------------------------------------------------------------------------
(* The invariant holds, and what it says. *)

LEMMA ReqInit == Init => ReqInv
  <1> SUFFICES ASSUME Init PROVE ReqInv
    OBVIOUS
  <1>1. /\ "idle" \in PCs /\ "idle" \notin OnWorker /\ "idle" \notin Bound
    BY DEF PCs, OnWorker, Bound
  <1>2. <<>> \in Seq(Calls) /\ <<>> \in Seq(Obs) /\ <<>> \in Seq(Samples) /\ Len(<<>>) = 0
    BY EmptySeq
  <1>3. CallTypes /\ SpanTypes
    BY <1>1, <1>2 DEF Init, CallTypes, SpanTypes
  <1>4. RingTypes
    BY <1>2, Kinds DEF Init, RingTypes
  <1>5. ASSUME NEW c \in Calls PROVE Held(c) /\ Kind(c) /\ Resolves(c) /\ TraceAt(c)
    BY <1>1, <1>2 DEF Init, Held, Kind, Resolves, TraceAt, Bound, OnWorker
  <1>6. \A w \in Workers : ProxySound(w)
    BY DEF Init, ProxySound
  <1>7. RingInv
    BY <1>2 DEF Init, RingInv, OrderSound, KeptAt
  <1>8. OwnSpansStay
    BY <1>2 DEF Init, OwnSpansStay
  <1>9. \A c \in Calls : Shape(c)
    BY DEF Init, Shape
  <1>10. QED BY <1>3, <1>4, <1>5, <1>6, <1>7, <1>8, <1>9, TypesSplit DEF ReqInv, PlacesInv, SpansInv

LEMMA ReqStep == ReqInv /\ [Next]_vars => ReqInv'
  <1> SUFFICES ASSUME ReqInv, [Next]_vars PROVE ReqInv'
    OBVIOUS
  <1>1. ASSUME NEW c \in Calls, Arrive(c) \/ Serve(c) PROVE ReqInv'
    <2>1. TypeOK' /\ Places' /\ Proxies'
      BY <1>1, TypeStep, PlacesStep
    <2>2. \A d \in Calls : TraceAt(d)'
      BY <1>1, TraceStep
    <2>3. RingInv' /\ OwnSpansStay' /\ \A d \in Calls : Shape(d)'
      BY <1>1, RingStep, StayStep, ShapeStep
    <2>4. QED BY <2>1, <2>2, <2>3 DEF ReqInv, PlacesInv, SpansInv, Places, Proxies
  <1>2. CASE UNCHANGED vars
    BY <1>2 DEF vars, ReqInv, TypeOK, PlacesInv, Held, Kind, Resolves, TraceAt, ProxySound, RingInv,
       OrderSound, KeptAt, SpansInv, OwnSpansStay, Shape, Mine
  <1>3. QED BY <1>1, <1>2 DEF Next

\* The invariant of the request lifecycle holds in every behaviour: who holds which worker,
\* what the thread-locals resolve to, where each trace is, what the ring keeps and which
\* spans each trace has (instrument.handle, recorder, playground.run, models.mutate).
THEOREM RequestsInvariant == Spec => []ReqInv
  BY ReqInit, ReqStep, PTL DEF Spec

\* What a traced call records is found in its own trace, for any number of calls and workers
\* and whatever earlier calls left bound (recorder.start, ThreadLocalSpans).
THEOREM SpansStayOwn == Spec => []OwnSpansStay
  <1>1. ReqInv => OwnSpansStay
    BY DEF ReqInv, SpansInv
  <1>2. QED BY <1>1, RequestsInvariant, PTL

\* A finished trace has its spans in the documented order, the error event exactly when the
\* response is an error.
LEMMA OrderDocumented ==
  ASSUME ReqInv
  PROVE  DocumentedOrder
  <1> SUFFICES ASSUME NEW c \in Calls, trace[c] = "finished"
               PROVE  /\ Own(c)[1] = "receive" /\ Own(c)[Len(Own(c))] = "send"
                      /\ \A i \in 1..(Len(Own(c)) - 1) : Rank[Own(c)[i]] < Rank[Own(c)[i + 1]]
                      /\ (answer[c] = "error") <=> (\E i \in 1..Len(Own(c)) : Own(c)[i] = "error")
    BY DEF DocumentedOrder
  <1>1. Shape(c) /\ TraceAt(c) /\ obs[c] \in Seq(Obs) /\ "load" \in Names
    BY DEF ReqInv, SpansInv, PlacesInv, TypeOK, Names
  <1>2. pc[c] \notin Bound
    BY <1>1 DEF TraceAt
  <1>3. PICK list : list = Mine(c)
    OBVIOUS
  <1>4. list \in Seq(Obs)
    BY <1>1, <1>3, MineGrows DEF Mine, MineOf
  <1>5. Formed(list, Reach(pc[c]), answer[c] = "error") /\ Latest(list) = "send"
    BY <1>1, <1>2, <1>3 DEF Shape, Shaped
  <1>6. PICK own : own = [i \in 1..Len(list) |-> list[i].name]
    OBVIOUS
  <1>7. own = Own(c)
    BY <1>3, <1>6 DEF Own
  <1>8. Len(list) \in Nat /\ Len(list) # 0
    BY <1>4, <1>5, EmptySeq, LenProperties DEF Formed, Rising
  <1>9. Len(own) = Len(list)
    BY <1>6, <1>8
  <1>10. \A i \in 1..Len(list) : own[i] = list[i].name
    BY <1>6
  <1>11. 1 \in 1..Len(list) /\ Len(list) \in 1..Len(list)
    BY <1>8
  <1>12. own[1] = "receive" /\ own[Len(own)] = "send"
    BY <1>5, <1>9, <1>10, <1>11 DEF Formed, Rising, Latest
  <1>13. ASSUME NEW i \in 1..(Len(own) - 1) PROVE Rank[own[i]] < Rank[own[i + 1]]
    <2>1. i \in 1..Len(list) /\ i + 1 \in 1..Len(list) /\ i \in 1..(Len(list) - 1)
      BY <1>8, <1>9, <1>13
    <2>2. Rank[list[i].name] < Rank[list[i + 1].name]
      BY <1>5, <2>1 DEF Formed, Rising
    <2>3. QED BY <1>10, <2>1, <2>2
  <1>14. (answer[c] = "error") <=> (\E i \in 1..Len(own) : own[i] = "error")
    BY <1>5, <1>9, <1>10 DEF Formed, Failed
  <1>15. QED BY <1>7, <1>12, <1>13, <1>14

\* What the recorder promises of a finished trace, for any number of calls and workers and
\* any ring size: spans in the documented order, an engine trace closed once and after its
\* response was written, an error or a playground run kept until RingSize traces finished
\* after it (Context.finish, instrument.handle, sent).
THEOREM TracesAreSound == Spec => []TraceSound
  <1>1. ASSUME ReqInv PROVE TraceSound
    <2>1. FinishedAfterWrite
      <3>1. ASSUME NEW c \in Engines
            PROVE  Len(delivered[c]) <= 1 /\ (trace[c] = "finished" => pc[c] \in {"deliver", "done"})
        <4>1. c \in Calls /\ TraceAt(c)
          BY <1>1, <3>1, Kinds DEF ReqInv, PlacesInv
        <4>2. QED BY <3>1, <4>1 DEF TraceAt
      <3>2. QED BY <3>1 DEF FinishedAfterWrite
    <2>2. ErrorsKept
      <3>1. ASSUME NEW i \in 1..Len(order), answer[order[i]] = "error" \/ order[i] \in Plays
            PROVE  /\ delivered[order[i]][1].sampled
                   /\ \/ \E j \in 1..Len(ring) : ring[j] = order[i]
                      \/ Len(order) - i >= RingSize
        <4>1. KeptAt(i)
          BY <1>1 DEF ReqInv, RingInv
        <4>2. QED BY <3>1, <4>1 DEF KeptAt
      <3>2. QED BY <3>1 DEF ErrorsKept
    <2>3. QED BY <1>1, <2>1, <2>2, OrderDocumented DEF TraceSound, ReqInv
  <1>2. QED BY <1>1, RequestsInvariant, PTL

\* A trace that was assembled is final: a context left bound on a worker that finishes no
\* trace cannot be written through it (Context._check_active, finish).
THEOREM FinishedTracesAreFinal == Spec => FinishedIsFinal
  <1> DEFINE Final == \A c \in Calls : trace[c] = "finished" =>
                        /\ trace'[c] = "finished" /\ obs'[c] = obs[c] /\ answer'[c] = answer[c]
                        /\ Len(delivered'[c]) = Len(delivered[c])
  <1>1. ASSUME ReqInv, [Next]_vars PROVE Final \/ UNCHANGED vars
    <2>1. CASE UNCHANGED vars
      BY <2>1
    <2>2. ASSUME NEW c \in Calls, Arrive(c) \/ Serve(c), NEW d \in Calls, trace[d] = "finished"
          PROVE  /\ trace'[d] = "finished" /\ obs'[d] = obs[d] /\ answer'[d] = answer[d]
                 /\ Len(delivered'[d]) = Len(delivered[d])
      <3>1. trace'[d] = "finished" /\ answer'[d] = answer[d]
        BY <1>1, <2>2, FinishedKept
      <3>2. CASE d # c
        <4>1. Others(c) /\ Writes(c)
          BY <1>1, <2>2, OthersKept, StepWrites
        <4>2. obs'[d] = obs[d]
          BY <1>1, <2>2, <3>2, <4>1, WritesOpen
        <4>3. QED BY <2>2, <3>1, <3>2, <4>1, <4>2 DEF Others
      <3>3. CASE d = c
        <4>1. obs'[c] = obs[c] /\ Len(delivered'[c]) = Len(delivered[c])
          BY <1>1, <2>2, <3>3, FinishedQuiet
        <4>2. QED BY <3>1, <3>3, <4>1
      <3>4. QED BY <3>2, <3>3
    <2>3. QED BY <1>1, <2>1, <2>2 DEF Next
  <1>2. QED BY <1>1, RequestsInvariant, PTL DEF Spec, FinishedIsFinal

=============================================================================
