------------------------------ MODULE Requests ------------------------------
(***************************************************************************)
(* One HTTP exchange from the event loop (app.py) through the instrumented *)
(* dispatch on a pooled worker thread (http/middleware.py), the trace      *)
(* recorder (obs/recorder.py) and the on_sent hook, which runs on whichever*)
(* worker the loop finds free.  Three kinds of call share the workers:     *)
(*   engine      /predict and /route, traced by the middleware,            *)
(*   playground  a console run that opens and closes its own trace,        *)
(*   admin       POST /api/v1/models, not traced, whose adapter call opens *)
(*               a model.load span through the same thread-local proxy.    *)
(***************************************************************************)
EXTENDS Integers, Sequences, FiniteSets, FiniteSetsExt, Functions, Lists

CONSTANTS
    Engines,    \* calls of /predict and /route
    Plays,      \* calls of the playground
    Admins,     \* calls of POST /api/v1/models
    Workers,    \* threads of the pool behind to_thread.run_sync
    Nobody,     \* no context bound, no worker taken
    RingSize,   \* Recorder.ring_size
    Cap,        \* max_body_bytes
    Uploads     \* sizes of the messages an upload may arrive in

Calls == Engines \cup Plays \cup Admins

ASSUME RequestsAssumption ==
    /\ Nobody \notin Calls \cup Workers
    /\ Engines \cap Plays = {} /\ Engines \cap Admins = {} /\ Plays \cap Admins = {}
    /\ RingSize \in Nat \ {0}
    /\ Cap \in Nat
    /\ Uploads \subseteq Seq(Nat) \ {<<>>}

VARIABLES
    pc,         \* where each call is
    at,         \* the worker running code of the call, or Nobody
    answer,     \* the response: "none", "ok" or "error" (status >= 400)
    code,       \* Context error_code set
    trace,      \* Context: "none", "open" or "finished"
    obs,        \* Context._observations, with the call that recorded each
    stack,      \* Context._stack
    current,    \* recorder._local.ctx of each worker
    proxy,      \* ThreadLocalSpans._local.ctx of each worker
    ring,       \* Recorder._ring
    order,      \* calls in the order their traces were assembled (history)
    delivered   \* what on_trace received for each call

vars == <<pc, at, answer, code, trace, obs, stack, current, proxy,
          ring, order, delivered>>

Names  == {"receive", "auth", "parse", "engine", "load", "error", "send"}
Obs    == [by : Calls, name : Names]
PCs    == {"idle", "waiting", "auth", "parse", "handler", "reply", "sending",
           "sent", "closing", "deliver", "loading", "done", "lost"}

Init ==
    /\ pc = [c \in Calls |-> "idle"]
    /\ at = [c \in Calls |-> Nobody]
    /\ answer = [c \in Calls |-> "none"]
    /\ code = [c \in Calls |-> FALSE]
    /\ trace = [c \in Calls |-> "none"]
    /\ obs = [c \in Calls |-> <<>>]
    /\ stack = [c \in Calls |-> <<>>]
    /\ current = [w \in Workers |-> Nobody]
    /\ proxy = [w \in Workers |-> Nobody]
    /\ ring = <<>>
    /\ order = <<>>
    /\ delivered = [c \in Calls |-> <<>>]

-----------------------------------------------------------------------------
\* The body, read on the loop.

\* Bytes held when reading stops: at the first total of at least `limit`, or at
\* the last message.
Received(up, limit) ==
    LET total[i \in 0..Len(up)] == IF i = 0 THEN 0 ELSE total[i - 1] + up[i]
        enough == {i \in 1..Len(up) : total[i] >= limit}
    IN  total[IF enough = {} THEN Len(up) ELSE Min(enough)]

\* _read_body of an upload whose length was declared, and of one that was not.
ReadDeclared(up, declared) ==
    IF up[1] >= declared THEN declared ELSE Received(up, declared)

ReadChunked(up) == Received(up, Cap + 1)

\* Content-Length may be absent or not a number; a refusal has no body.
Absent  == -1
Invalid == -2
Refused == -3

\* app.handle reads the body: 400, 413 or 411 before a byte is read, 413 in the
\* middle of a chunked upload, or the length of the body it hands to dispatch.
Read(length, chunked, up) ==
    CASE length = Invalid -> Refused
      [] length = Absent  -> IF ~chunked \/ ReadChunked(up) > Cap THEN Refused
                             ELSE ReadChunked(up)
      [] OTHER            -> IF length > Cap THEN Refused ELSE ReadDeclared(up, length)

\* A request reaches the loop; what was read decides whether it is dispatched.
Arrive(c) ==
    /\ pc[c] = "idle"
    /\ \E length \in {Absent, Invalid} \cup 0..(Cap + 1), chunked \in BOOLEAN, up \in Uploads :
          IF Read(length, chunked, up) = Refused
          THEN /\ pc' = [pc EXCEPT ![c] = "done"]
               /\ answer' = [answer EXCEPT ![c] = "error"]
          ELSE /\ pc' = [pc EXCEPT ![c] = "waiting"]
               /\ UNCHANGED answer
    /\ UNCHANGED <<at, code, trace, obs, stack, current, proxy, ring, order, delivered>>

-----------------------------------------------------------------------------
\* Contexts and spans.

Free(w) == \A c \in Calls : at[c] # w

\* The context ThreadLocalSpans resolves on a worker.
Resolved(w) == IF proxy[w] # Nobody THEN proxy[w] ELSE current[w]

\* An observation of call c at the end of a list of them.
Noted(list, c, name) == Append(list, [by |-> c, name |-> name])

\* A span opened and closed without another step in between, or an event.
Record(ctx, c, name) == obs' = [obs EXCEPT ![ctx] = Noted(@, c, name)]

\* Recorder.start on worker w, and the http.receive span that follows it.
Open(c, w) ==
    /\ at' = [at EXCEPT ![c] = w]
    /\ trace' = [trace EXCEPT ![c] = "open"]
    /\ current' = [current EXCEPT ![w] = c]
    /\ Record(c, c, "receive")

\* Variables of the recorder that no step before Finish touches.
Recorder == <<ring, order, delivered>>

\* Mutant: the error event is forgotten.
FailSilent(c, list) ==
    /\ answer' = [answer EXCEPT ![c] = "error"]
    /\ code' = [code EXCEPT ![c] = TRUE]
    /\ obs' = [obs EXCEPT ![c] = list]
    /\ pc' = [pc EXCEPT ![c] = "reply"]

\* The phase fails: envelope, error event and error_code, recorded in the trace behind
\* the span of the phase.
Fail(c, list) ==
    /\ answer' = [answer EXCEPT ![c] = "error"]
    /\ code' = [code EXCEPT ![c] = TRUE]
    /\ obs' = [obs EXCEPT ![c] = Noted(list, c, "error")]
    /\ pc' = [pc EXCEPT ![c] = "reply"]

\* instrument.handle for an engine path: start, bind, http.receive.
StartEngine(c, w) ==
    /\ pc[c] = "waiting" /\ c \in Engines /\ Free(w)
    /\ Open(c, w)
    /\ proxy' = [proxy EXCEPT ![w] = c]
    /\ pc' = [pc EXCEPT ![c] = "auth"]
    /\ UNCHANGED <<answer, code, stack, Recorder>>

\* _verify_auth: the span is recorded whether or not the credential holds.
VerifyAuth(c) ==
    /\ pc[c] = "auth"
    /\ \/ /\ Record(c, c, "auth")
          /\ pc' = [pc EXCEPT ![c] = "parse"]
          /\ UNCHANGED <<answer, code>>
       \/ Fail(c, Noted(obs[c], c, "auth"))
    /\ UNCHANGED <<at, trace, stack, current, proxy, Recorder>>

\* _parse_body: a body that is empty, cut short or not JSON fails inside the span.
ParseBody(c) ==
    /\ pc[c] = "parse" /\ c \in Engines
    /\ \/ /\ Record(c, c, "parse")
          /\ pc' = [pc EXCEPT ![c] = "handler"]
          /\ UNCHANGED <<answer, code>>
       \/ Fail(c, Noted(obs[c], c, "parse"))
    /\ UNCHANGED <<at, trace, stack, current, proxy, Recorder>>

\* router.dispatch into the handler: refused before the engine is asked, or the
\* adapter's spans go to the resolved context and the call succeeds or fails.
Handle(c) ==
    LET ctx == Resolved(at[c])
        ran == [obs EXCEPT ![ctx] = Noted(@, c, "engine")]
    IN  /\ pc[c] = "handler"
        /\ \/ /\ obs' = ran
              /\ answer' = [answer EXCEPT ![c] = "ok"]
              /\ UNCHANGED code
           \/ /\ \E o \in {obs, ran} : obs' = [o EXCEPT ![c] = Noted(@, c, "error")]
              /\ answer' = [answer EXCEPT ![c] = "error"]
              /\ code' \in IF c \in Engines THEN {[code EXCEPT ![c] = TRUE]}
                           ELSE {code, [code EXCEPT ![c] = TRUE]}
        /\ pc' = [pc EXCEPT ![c] = "reply"]
        /\ UNCHANGED <<at, trace, stack, current, proxy, Recorder>>

\* Mutant: the finally does not unbind the proxy.
ReplyBound(c) ==
    /\ pc[c] = "reply" /\ c \in Engines
    /\ Record(c, c, "send")
    /\ stack' = [stack EXCEPT ![c] = Noted(@, c, "send")]
    /\ at' = [at EXCEPT ![c] = Nobody]
    /\ pc' = [pc EXCEPT ![c] = "sending"]
    /\ UNCHANGED <<answer, code, trace, current, proxy, Recorder>>

\* _attach_send_hook and the finally of handle: response.send stays open, the proxy
\* is unbound on this worker, the worker returns to the pool.
Reply(c) ==
    /\ pc[c] = "reply" /\ c \in Engines
    /\ Record(c, c, "send")
    /\ stack' = [stack EXCEPT ![c] = Noted(@, c, "send")]
    /\ proxy' = [proxy EXCEPT ![at[c]] = Nobody]
    /\ at' = [at EXCEPT ![c] = Nobody]
    /\ pc' = [pc EXCEPT ![c] = "sending"]
    /\ UNCHANGED <<answer, code, trace, current, Recorder>>

\* The loop writes the response; the background task follows a write that succeeds.
Send(c) ==
    /\ pc[c] = "sending"
    /\ pc' = [pc EXCEPT ![c] = IF c \in Engines THEN "sent" ELSE "done"]
    /\ UNCHANGED <<at, answer, code, trace, obs, stack, current, proxy, Recorder>>

\* The write raises because the client is gone: the background task is skipped.
HangUp(c) ==
    /\ pc[c] = "sending"
    /\ pc' = [pc EXCEPT ![c] = "lost"]
    /\ UNCHANGED <<at, answer, code, trace, obs, stack, current, proxy, Recorder>>

\* _Span.__exit__: the observation leaves the stack only when it is on top.
Exit(ctx, o) ==
    stack' = [stack EXCEPT ![ctx] = IF @ # <<>> /\ @[Len(@)] = o
                                    THEN SubSeq(@, 1, Len(@) - 1) ELSE @]

\* fire runs on any free worker; sent() first closes the response.send span.
Fire(c, w) ==
    /\ pc[c] = "sent" /\ Free(w)
    /\ Exit(c, [by |-> c, name |-> "send"])
    /\ at' = [at EXCEPT ![c] = w]
    /\ pc' = [pc EXCEPT ![c] = "closing"]
    /\ UNCHANGED <<answer, code, trace, obs, current, proxy, Recorder>>

\* Context.finish keeps errors, refusals and playground runs whatever the draw.
AlwaysKeep(c) == answer[c] = "error" \/ code[c] \/ c \in Plays

Newest(s) == SubSeq(s, IF Len(s) > RingSize THEN Len(s) - RingSize + 1 ELSE 1, Len(s))

\* Context.finish up to the ring, which does nothing the second time: the thread-local
\* is cleared only when it is bound on the worker that finishes.
Finish(c) ==
    /\ pc[c] = "closing"
    /\ pc' = [pc EXCEPT ![c] = "deliver"]
    /\ IF trace[c] = "finished" THEN UNCHANGED <<trace, current, stack, Recorder>>
       ELSE /\ trace' = [trace EXCEPT ![c] = "finished"]
            /\ current' = [w \in Workers |->
                             IF w = at[c] /\ current[w] = c THEN Nobody ELSE current[w]]
            /\ stack' = [stack EXCEPT ![c] = <<>>]
            /\ order' = Append(order, c)
            /\ \E keep \in BOOLEAN :
                  /\ AlwaysKeep(c) => keep
                  /\ ring' = IF keep THEN Newest(Append(ring, c)) ELSE ring
                  /\ delivered' = [delivered EXCEPT ![c] =
                                     Append(@, [sampled |-> keep, sunk |-> FALSE])]
    /\ UNCHANGED <<at, answer, code, obs, proxy>>

\* Mutant: a sampled-out trace does not reach the sink.
DeliverKept(c) ==
    /\ pc[c] = "deliver"
    /\ delivered' = [delivered EXCEPT ![c][1].sunk = delivered[c][1].sampled]
    /\ proxy' = IF c \in Engines THEN [proxy EXCEPT ![at[c]] = Nobody] ELSE proxy
    /\ at' = [at EXCEPT ![c] = Nobody]
    /\ pc' = [pc EXCEPT ![c] = IF c \in Engines THEN "done" ELSE "sending"]
    /\ UNCHANGED <<answer, code, trace, obs, stack, current, ring, order>>

\* on_trace, then sent() unbinds the proxy of its own worker; a playground run
\* returns its response instead.
Deliver(c) ==
    /\ pc[c] = "deliver"
    /\ delivered' = [delivered EXCEPT ![c][1].sunk = TRUE]
    /\ proxy' = IF c \in Engines THEN [proxy EXCEPT ![at[c]] = Nobody] ELSE proxy
    /\ at' = [at EXCEPT ![c] = Nobody]
    /\ pc' = [pc EXCEPT ![c] = IF c \in Engines THEN "done" ELSE "sending"]
    /\ UNCHANGED <<answer, code, trace, obs, stack, current, ring, order>>

-----------------------------------------------------------------------------
\* Calls the middleware does not trace.

\* enforce_browser_session or the handler's gate refuses: no worker state is left.
Refuse(c, w) ==
    /\ pc[c] = "waiting" /\ c \notin Engines /\ Free(w)
    /\ answer' = [answer EXCEPT ![c] = "error"]
    /\ pc' = [pc EXCEPT ![c] = "sending"]
    /\ UNCHANGED <<at, code, trace, obs, stack, current, proxy, Recorder>>

\* playground.run: gate, recorder.start, http.receive.
StartPlayground(c, w) ==
    /\ pc[c] = "waiting" /\ c \in Plays /\ Free(w)
    /\ Open(c, w)
    /\ pc' = [pc EXCEPT ![c] = "parse"]
    /\ UNCHANGED <<answer, code, stack, proxy, Recorder>>

\* _probe: a body that is not JSON fails before the span opens, a body of the wrong
\* shape inside it.
Probe(c) ==
    /\ pc[c] = "parse" /\ c \in Plays
    /\ \/ /\ Record(c, c, "parse")
          /\ pc' = [pc EXCEPT ![c] = "handler"]
          /\ UNCHANGED <<answer, code>>
       \/ Fail(c, Noted(obs[c], c, "parse"))
       \/ Fail(c, obs[c])
    /\ UNCHANGED <<at, trace, stack, current, proxy, Recorder>>

\* The finally of playground.run opens and closes response.send, then finishes.
ClosePlayground(c) ==
    /\ pc[c] = "reply" /\ c \in Plays
    /\ Record(c, c, "send")
    /\ pc' = [pc EXCEPT ![c] = "closing"]
    /\ UNCHANGED <<at, answer, code, trace, stack, current, proxy, Recorder>>

\* models.mutate calls adapter.load or unload, whose _ensure opens model.load while
\* it builds the router.  Built already, or nothing bound: no span.
LoadQuietly(c, w) ==
    /\ pc[c] = "waiting" /\ c \in Admins /\ Free(w)
    /\ answer' = [answer EXCEPT ![c] = "ok"]
    /\ pc' = [pc EXCEPT ![c] = "sending"]
    /\ UNCHANGED <<at, code, trace, obs, stack, current, proxy, Recorder>>

\* The span resolves to a context that has finished: _check_active raises
\* RuntimeError, which _apply maps to 409 load_in_progress.
LoadRefused(c, w) ==
    /\ pc[c] = "waiting" /\ c \in Admins /\ Free(w)
    /\ Resolved(w) # Nobody
    /\ trace[Resolved(w)] = "finished"
    /\ answer' = [answer EXCEPT ![c] = "error"]
    /\ pc' = [pc EXCEPT ![c] = "sending"]
    /\ UNCHANGED <<at, code, trace, obs, stack, current, proxy, Recorder>>

\* Mutant: a span may be entered in a context that has finished (no _check_active).
LoadTracedLate(c, w) ==
    /\ pc[c] = "waiting" /\ c \in Admins /\ Free(w)
    /\ Resolved(w) # Nobody
    /\ Record(Resolved(w), c, "load")
    /\ stack' = [stack EXCEPT ![Resolved(w)] = Noted(@, c, "load")]
    /\ at' = [at EXCEPT ![c] = w]
    /\ pc' = [pc EXCEPT ![c] = "loading"]
    /\ UNCHANGED <<answer, code, trace, current, proxy, Recorder>>

\* The span resolves to a context that is still open.
LoadTraced(c, w) ==
    /\ pc[c] = "waiting" /\ c \in Admins /\ Free(w)
    /\ Resolved(w) # Nobody
    /\ trace[Resolved(w)] = "open"
    /\ Record(Resolved(w), c, "load")
    /\ stack' = [stack EXCEPT ![Resolved(w)] = Noted(@, c, "load")]
    /\ at' = [at EXCEPT ![c] = w]
    /\ pc' = [pc EXCEPT ![c] = "loading"]
    /\ UNCHANGED <<answer, code, trace, current, proxy, Recorder>>

\* Mutant: the worker is not given back.
LoadedHeld(c) ==
    /\ pc[c] = "loading"
    /\ answer' = [answer EXCEPT ![c] = "ok"]
    /\ pc' = [pc EXCEPT ![c] = "sending"]
    /\ UNCHANGED <<at, code, trace, obs, stack, current, proxy, Recorder>>

\* The load ends, with success or a memory refusal; the span leaves the context it
\* was entered in.
Loaded(c) ==
    /\ pc[c] = "loading"
    /\ \E ctx \in Calls :
          /\ \E i \in 1..Len(obs[ctx]) : obs[ctx][i] = [by |-> c, name |-> "load"]
          /\ Exit(ctx, [by |-> c, name |-> "load"])
    /\ \E a \in {"ok", "error"} : answer' = [answer EXCEPT ![c] = a]
    /\ at' = [at EXCEPT ![c] = Nobody]
    /\ pc' = [pc EXCEPT ![c] = "sending"]
    /\ UNCHANGED <<code, trace, obs, current, proxy, Recorder>>

-----------------------------------------------------------------------------
\* What the server does for a call that has arrived.
Serve(c) ==
    \/ \E w \in Workers : StartEngine(c, w) \/ StartPlayground(c, w) \/ Refuse(c, w)
                          \/ LoadQuietly(c, w) \/ LoadRefused(c, w) \/ LoadTraced(c, w)
                          \/ Fire(c, w)
    \/ VerifyAuth(c) \/ ParseBody(c) \/ Probe(c) \/ Handle(c)
    \/ Reply(c) \/ ClosePlayground(c) \/ Send(c) \/ HangUp(c)
    \/ Finish(c) \/ Deliver(c) \/ Loaded(c)

Next == \E c \in Calls : Arrive(c) \/ Serve(c)

Spec == Init /\ [][Next]_vars

\* The loop and the pool keep running; clients need not call.
FairSpec == Spec /\ \A c \in Calls : WF_vars(Serve(c))

-----------------------------------------------------------------------------
\* Types of the recorder, of the workers' thread-locals and of the calls.
TypeOK ==
    /\ pc \in [Calls -> PCs]
    /\ at \in [Calls -> Workers \cup {Nobody}]
    /\ answer \in [Calls -> {"none", "ok", "error"}]
    /\ code \in [Calls -> BOOLEAN]
    /\ trace \in [Calls -> {"none", "open", "finished"}]
    /\ obs \in [Calls -> Seq(Obs)]
    /\ stack \in [Calls -> Seq(Obs)]
    /\ current \in [Workers -> Calls \cup {Nobody}]
    /\ proxy \in [Workers -> Calls \cup {Nobody}]
    /\ ring \in Seq(Calls) /\ Len(ring) <= RingSize
    /\ order \in Seq(Calls)
    /\ delivered \in [Calls -> Seq([sampled : BOOLEAN, sunk : BOOLEAN])]

\* What a traced call records is found in its own trace, whichever contexts earlier
\* calls left bound on its worker (recorder.start, ThreadLocalSpans).
OwnSpansStay ==
    \A c, d \in Calls : \A i \in 1..Len(obs[d]) :
        (obs[d][i].by = c /\ c \notin Admins) => c = d

\* What a call recorded in its own trace, in order, and the names.
Mine(c) == Only(obs[c], [by : {c}, name : Names])
Own(c)  == [i \in 1..Len(Mine(c)) |-> Mine(c)[i].name]

\* The documented order of the names.
Rank == [n \in Names |-> CASE n = "receive" -> 1 [] n = "auth" -> 2 [] n = "parse" -> 3
                            [] n = "engine" -> 4 [] n = "load" -> 4 [] n = "error" -> 5
                            [] n = "send" -> 6]

\* Spans come in the documented order with the error event in front of
\* response.send exactly when the response is an error (middleware docstring).
DocumentedOrder ==
    \A c \in Calls : trace[c] = "finished" =>
        LET own == Own(c)
        IN  /\ own[1] = "receive" /\ own[Len(own)] = "send"
            /\ \A i \in 1..(Len(own) - 1) : Rank[own[i]] < Rank[own[i + 1]]
            /\ (answer[c] = "error") <=> (\E i \in 1..Len(own) : own[i] = "error")

\* An engine trace finishes once, and only after its response was written, so span
\* and trace cover the write (middleware docstring, close_on_sent).
FinishedAfterWrite ==
    \A c \in Engines :
        /\ Len(delivered[c]) <= 1
        /\ trace[c] = "finished" => pc[c] \in {"deliver", "done"}

\* An error, a refusal or a playground run is never sampled out: it is in the ring
\* until RingSize traces finished after it (Context.finish).
ErrorsKept ==
    \A i \in 1..Len(order) :
        LET c == order[i]
        IN  (answer[c] = "error" \/ c \in Plays) =>
              /\ delivered[c][1].sampled
              /\ \/ \E j \in 1..Len(ring) : ring[j] = c
                 \/ Len(order) - i >= RingSize

\* What the recorder promises of a finished trace: spans in order, closed once and after
\* the write, errors kept (Context.finish, instrument.handle, sent).
TraceSound == TypeOK /\ DocumentedOrder /\ FinishedAfterWrite /\ ErrorsKept

\* A trace that was assembled is final: whoever still finds its context on a worker adds
\* nothing to it, it is not assembled twice and its response stays (Context._check_active,
\* finish).
FinishedIsFinal ==
    [][\A c \in Calls : trace[c] = "finished" =>
          /\ trace'[c] = "finished" /\ obs'[c] = obs[c] /\ answer'[c] = answer[c]
          /\ Len(delivered'[c]) = Len(delivered[c])]_vars

\* Reading a chunked upload holds all of it when it fits the cap, and otherwise stops
\* with the message that passes the cap (_read_body).
NeverBufferedWhole ==
    \A up \in Uploads :
        LET whole == FoldFunction(LAMBDA a, b : a + b, 0, up)
            held  == ReadChunked(up)
        IN  IF whole <= Cap THEN held = whole
            ELSE \E i \in 1..Len(up) : held > Cap /\ held - up[i] <= Cap

\* No observation of one call appears in the trace of another: adapter spans "are
\* no-ops outside a trace" (middleware docstring).
NoForeignSpans ==
    \A c \in Calls : \A i \in 1..Len(obs[c]) : obs[c][i].by = c

\* A trace whose response was written reaches the sink, whichever worker its hook
\* finds (app.fire, sent).
SentIsRecorded ==
    \A c \in Calls : (pc[c] = "sent") ~> (\E i \in 1..Len(delivered[c]) : delivered[c][i].sunk)

\* Every call that arrived is answered or its client hung up; no worker is kept.
CallsEnd ==
    \A c \in Calls : (pc[c] # "idle") ~> (pc[c] \in {"done", "lost"} /\ at[c] = Nobody)
=============================================================================
