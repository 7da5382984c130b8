------------------------------- MODULE Router -------------------------------
(***************************************************************************)
(* http/router.py and the envelope of http/types.py, as operators: which   *)
(* handler a request reaches and what dispatch makes of its answer.  The   *)
(* table is filled before the server starts and never changes, so a        *)
(* dispatch shares nothing with another.  A path is a sequence of          *)
(* characters; a pattern is a path, or a path with a trailing star.        *)
(***************************************************************************)
EXTENDS Integers, Sequences, FiniteSets, FiniteSetsExt, SequencesExt

CONSTANTS
    Letters,    \* characters of a path
    Methods,    \* methods a request may have
    MaxPath     \* bound on the length of a path

ASSUME RouterAssumption ==
    /\ IsFiniteSet(Letters) /\ MaxPath \in Nat
    /\ {"GET", "HEAD", "OPTIONS"} \subseteq Methods /\ IsFiniteSet(Methods)

Paths    == UNION {[1..n -> Letters] : n \in 0..MaxPath}
Patterns == [path : Paths, star : BOOLEAN]

\* Router._exact and Router._prefixes: the methods each registered pattern has.
NoRoute == [p \in Patterns |-> {}]
add(table, method, pattern) == [table EXCEPT ![pattern] = @ \cup {method}]

\* The pattern that serves a path, as a set of at most one: the exact one, or the
\* longest prefix.
_match(table, path) ==
    LET exact    == {p \in Patterns : ~p.star /\ p.path = path /\ table[p] # {}}
        prefixes == {p \in Patterns : p.star /\ table[p] # {} /\ IsPrefix(p.path, path)}
        longest  == Max({Len(p.path) : p \in prefixes} \cup {-1})
    IN  IF exact # {} THEN exact ELSE {p \in prefixes : Len(p.path) = longest}

\* HEAD where there is a GET, and OPTIONS always.
_allow(methods) ==
    methods \cup {"OPTIONS"} \cup (IF "GET" \in methods THEN {"HEAD"} ELSE {})

-----------------------------------------------------------------------------
\* A response: the Content-Length it declares, or None, the bytes it holds and its Allow
\* header.  `raised` tells the envelope of an exception from an answer.

None == -1

Response(status, length, body, allow) ==
    [status |-> status, length |-> length, body |-> body, allow |-> allow, raised |-> FALSE]

\* error_response, a body without a length; not_found, _not_allowed and exceptions use it.
Envelope(status, allow) == Response(status, None, 3, allow)

\* What a handler may do: answer with or without a length of its own, raise HttpError, or
\* fail otherwise, which dispatch turns into a 500.
Outcomes ==
    {Response(status, length, body, {}) : status \in {200, 204, 304, 400},
                                          length \in {None, 5}, body \in {0, 2}}
        \cup {[Envelope(status, {}) EXCEPT !.raised = TRUE] : status \in {404, 500}}

\* HEAD through the handler of GET: the length is taken before the body is dropped.  An
\* exception passes by, and its envelope keeps the body.
Headed(answer) ==
    IF answer.raised THEN answer
    ELSE [answer EXCEPT !.length = IF @ = None THEN answer.body ELSE @, !.body = 0]

\* _route, for a handler of the matched pattern that would answer `ran`.
_route(table, method, path, ran) ==
    LET found   == _match(table, path)
        methods == UNION {table[p] : p \in found}
    IN  CASE found = {} -> Envelope(404, {})
          [] found # {} /\ method = "OPTIONS" ->
                IF method \in methods THEN ran
                ELSE Response(204, None, 0, _allow(methods))
          [] found # {} /\ method = "HEAD" ->
                IF methods \cap {"HEAD", "GET"} # {} THEN Headed(ran)
                ELSE Envelope(405, _allow(methods))
          [] OTHER -> IF method \in methods THEN ran ELSE Envelope(405, _allow(methods))

\* dispatch: every response but 204 and 304 leaves with a length, those two without one.
dispatch(table, method, path, ran) ==
    LET answer == _route(table, method, path, ran)
    IN  [answer EXCEPT !.length = IF answer.status \in {204, 304} THEN None
                                  ELSE IF @ = None THEN answer.body ELSE @]

-----------------------------------------------------------------------------
\* Tables of two registrations, which may share a pattern or shadow each other.
Registered == {"GET", "POST", "OPTIONS"} \cap Methods
Tables     == {add(add(NoRoute, m, p), n, q) : m, n \in Registered, p, q \in Patterns}

\* What 405 and OPTIONS answers list in Allow is exactly what the path then accepts
\* (_allow beside _route).
AllowIsTrue ==
    \A table \in Tables, path \in Paths, method, other \in Methods :
        LET ok     == Response(200, None, 2, {})
            answer == dispatch(table, method, path, ok)
        IN  answer.allow # {} =>
               (other \in answer.allow <=> dispatch(table, other, path, ok).status # 405)

\* A path that has GET and no HEAD answers both with the same status and length, whatever
\* the handler does (_route, dispatch).
HeadMirrorsGet ==
    \A ran \in Outcomes, own \in {{"GET"}, {"GET", "POST"}} : \A path \in Paths :
        LET table == [NoRoute EXCEPT ![[path |-> path, star |-> FALSE]] = own]
            get   == dispatch(table, "GET", path, ran)
            head  == dispatch(table, "HEAD", path, ran)
        IN  head.status = get.status /\ head.length = get.length

\* A registered pattern is hidden from a path only by a pattern that names more of it:
\* every route is reached by some path, its own for an exact one (_match).
RoutesReachable ==
    \A table \in Tables : \A p \in Patterns : table[p] # {} =>
        \/ p \in _match(table, p.path)
        \/ p.star /\ table[[p EXCEPT !.star = FALSE]] # {}
=============================================================================
