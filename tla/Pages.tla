-------------------------------- MODULE Pages -------------------------------
(***************************************************************************)
(* The read side: a client pages through the traces, the logs or the audit *)
(* log by keyset cursors (store/queries.py, api/traces.py, api/logs.py,    *)
(* api/audit.py) while the writer inserts rows that lie behind the page    *)
(* already shown, users tag, score and delete traces, and retention prunes.*)
(* A request runs several statements outside a transaction, so other       *)
(* commits fall between them.  The table is the one the client pages: a    *)
(* row is a trace, a log line or an audit entry, and its tags stand for    *)
(* whatever the client filters by.                                         *)
(***************************************************************************)
EXTENDS Integers, Sequences, FiniteSets, FiniteSetsExt

CONSTANTS
    Traces,     \* ids, numbers in the order of the id column
    Started,    \* ts_start (ts) of each
    Duration,   \* duration_ms of each
    Tags,       \* tags
    Filters,    \* tag sets a row is recorded with; the client filters by one
    Windows,    \* pairs of since and until a client may give
    MaxTags,    \* _MAX_TAGS
    Limit,      \* page size
    ExportCap,  \* _EXPORT_LIMIT
    Users,      \* request threads that tag or score
    MaxEdits    \* bound on tag, score and delete requests

ASSUME PagesAssumption ==
    /\ Traces \subseteq Nat /\ IsFiniteSet(Traces)
    /\ Started \in [Traces -> Nat] /\ Duration \in [Traces -> Nat]
    /\ Filters \subseteq SUBSET Tags /\ \A f \in Filters : Cardinality(f) <= MaxTags
    /\ Windows \subseteq Nat \X Nat
    /\ {MaxTags, MaxEdits, ExportCap} \subseteq Nat /\ Limit \in Nat \ {0}

Orders == {"newest", "slowest"}
Tables == {"traces", "logs", "audit"}

VARIABLES
    written,    \* rows the writer has inserted
    rows,       \* rows in the table
    tags,       \* tags column of each
    scores,     \* traces with a row in scores
    scroll,     \* the client that pages
    steady,     \* traces that matched from its first page on (history)
    user,       \* the tag or score request of each thread
    edits

pagesVars == <<written, rows, tags, scores, scroll, steady, user, edits>>

NoUser == [op |-> "idle", trace |-> 0, tags |-> {}]

\* A client has a table, an order, a window, a filter (a tag, or all), everything it was
\* shown (the last row is its cursor), and the state of its request.
PagesInit ==
    /\ written = {} /\ rows = {} /\ scores = {}
    /\ tags = [t \in Traces |-> {}]
    /\ \E table \in Tables, order \in Orders, want \in Filters, window \in Windows,
          export \in BOOLEAN :
          /\ table # "traces" => order = "newest"
          /\ export => table = "logs" /\ want = {}
          /\ scroll = [table |-> table, order |-> order, want |-> want, window |-> window,
                       export |-> export, shown |-> <<>>, step |-> "new", more |-> FALSE,
                       total |-> 0]
    /\ steady = {}
    /\ user = [u \in Users |-> NoUser]
    /\ edits = 0

-----------------------------------------------------------------------------
\* Pages.

\* _ORDER_SQL, and the cursor predicate, which selects what comes after the key.
Before(order, a, b) ==
    IF order = "newest"
    THEN Started[a] > Started[b] \/ (Started[a] = Started[b] /\ a > b)
    ELSE \/ Duration[a] > Duration[b]
         \/ Duration[a] = Duration[b] /\ Started[a] > Started[b]
         \/ Duration[a] = Duration[b] /\ Started[a] = Started[b] /\ a < b

\* The first rows of S in the order: a page of it.
Place(order, S, t) == Cardinality({u \in S : Before(order, u, t)}) + 1
Page(order, S) ==
    [i \in 1 .. Min({Limit, Cardinality(S)}) |-> CHOOSE t \in S : Place(order, S, t) = i]

\* Mutant: until is included.
InWindowClosed(t) == scroll.window[1] <= Started[t] /\ Started[t] <= scroll.window[2]

\* resolve_window: since is included, until is not.
InWindow(t) == scroll.window[1] <= Started[t] /\ Started[t] < scroll.window[2]

Matches(t) == t \in rows /\ scroll.want \subseteq tags[t] /\ InWindow(t)

\* Mutant: the cursor predicate includes its own row.
SelectedFrom ==
    {t \in rows : /\ Matches(t)
                  /\ scroll.shown # <<>> =>
                        ~Before(scroll.order, t, scroll.shown[Len(scroll.shown)])}

\* Rows the query selects: the filter, and behind the last row of the page before.
Selected ==
    {t \in rows : /\ Matches(t)
                  /\ scroll.shown # <<>> =>
                        Before(scroll.order, scroll.shown[Len(scroll.shown)], t)}

\* Mutant: the SELECT fetches limit rows, not limit + 1.
MoreOnFull(S) == Min({Limit, Cardinality(S)}) > Limit

\* LIMIT limit + 1: one row more than the page means there is another page.
HasMore(S) == Cardinality(S) > Limit

\* The SELECT of a page.  A cursor that comes with another order is a 400 and changes
\* nothing; without a cursor the scroll begins.
NextPage ==
    /\ \/ scroll.step = "new"
       \/ scroll.step = "asked" /\ scroll.more
    /\ scroll' = [scroll EXCEPT !.shown = @ \o Page(scroll.order, Selected),
                                !.more = HasMore(Selected),
                                !.step = "selected"]
    /\ steady' = IF scroll.step = "new" THEN {t \in Traces : Matches(t)} ELSE steady
    /\ UNCHANGED <<written, rows, tags, scores, user, edits>>

list_traces == scroll.table = "traces" /\ NextPage
logs_list   == scroll.table = "logs" /\ NextPage
list_audit  == scroll.table = "audit" /\ NextPage

\* Mutant: a missing next_cursor is not taken for the end.
AnswerOpen ==
    /\ scroll.step = "selected"
    /\ scroll' = [scroll EXCEPT !.total = Cardinality({t \in rows : Matches(t)}),
                                !.step = "asked"]
    /\ UNCHANGED <<written, rows, tags, scores, steady, user, edits>>

\* export asks for pages until it has its cap, and cuts what it has.
Capped(shown) == scroll.export /\ Len(shown) >= ExportCap
Cut(shown)    == IF Capped(shown) THEN SubSeq(shown, 1, ExportCap) ELSE shown

\* The COUNT, a statement of its own; next_cursor goes out only when there is more.
Answer ==
    /\ scroll.step = "selected"
    /\ scroll' = [scroll EXCEPT !.total = Cardinality({t \in rows : Matches(t)}),
                                !.shown = Cut(@),
                                !.step = IF ~scroll.more \/ Capped(scroll.shown)
                                         THEN "end" ELSE "asked"]
    /\ UNCHANGED <<written, rows, tags, scores, steady, user, edits>>

-----------------------------------------------------------------------------
\* Commits of the others.

\* Requests that change traces, while the client pages through them.
OnTraces == scroll.table = "traces" /\ edits < MaxEdits

\* The scroll's steady rows after the table became r with tags g.
Steady(r, g) == {t \in steady : t \in r /\ scroll.want \subseteq g[t]}

\* The writer inserts a finished trace or a log line, or a handler an audit entry: any
\* start, tagged or not.
insert_trace(t) ==
    /\ t \notin written
    /\ written' = written \cup {t}
    /\ rows' = rows \cup {t}
    /\ \E g \in Filters : tags' = [tags EXCEPT ![t] = g]
    /\ UNCHANGED <<scores, scroll, steady, user, edits>>

\* DELETE FROM traces cascades to observations and scores.
Delete(S) ==
    /\ rows' = rows \ S
    /\ scores' = scores \ S
    /\ steady' = Steady(rows \ S, tags)
    /\ UNCHANGED <<written, tags, scroll, user>>

\* One trace; an unknown id is a 404.
delete_trace(t) == OnTraces /\ t \in rows /\ edits' = edits + 1 /\ Delete({t})

\* The traces of a window.
delete_range(since, until) ==
    /\ OnTraces /\ since < until
    /\ edits' = edits + 1
    /\ Delete({t \in rows : since <= Started[t] /\ Started[t] < until})

\* Retention's age cap takes log lines; what it does to traces is a delete_range, and the
\* audit log is never pruned.
_prune_logs(until) ==
    /\ scroll.table = "logs" /\ edits < MaxEdits
    /\ edits' = edits + 1
    /\ Delete({t \in rows : Started[t] < until})

\* _tags and _scores read the trace first; an unknown one is a 404.
ReadTrace(u, op, t) ==
    /\ OnTraces /\ user[u] = NoUser /\ t \in rows
    /\ edits' = edits + 1
    /\ user' = [user EXCEPT ![u] = [op |-> op, trace |-> t, tags |-> tags[t]]]
    /\ UNCHANGED <<written, rows, tags, scores, scroll, steady>>

Fits(g) == Cardinality(g) <= MaxTags

\* _tags writes the array it computed from what it had read, over whatever is stored; too
\* many tags are a 400, and the row may be gone.
set_trace_tags(u, add, remove) ==
    LET c == user[u]
        g == (c.tags \ remove) \cup add
    IN  /\ c.op = "tag"
        /\ tags' = IF Fits(g) /\ c.trace \in rows THEN [tags EXCEPT ![c.trace] = g] ELSE tags
        /\ steady' = Steady(rows, tags')
        /\ user' = [user EXCEPT ![u] = NoUser]
        /\ UNCHANGED <<written, rows, scores, scroll, edits>>

\* _scores inserts; the foreign key refuses a trace deleted meanwhile (a 500).
insert_scores(u) ==
    /\ user[u].op = "score"
    /\ scores' = IF user[u].trace \in rows THEN scores \cup {user[u].trace} ELSE scores
    /\ user' = [user EXCEPT ![u] = NoUser]
    /\ UNCHANGED <<written, rows, tags, scroll, steady, edits>>

PagesNext ==
    \/ list_traces \/ logs_list \/ list_audit \/ Answer
    \/ \E t \in Traces : insert_trace(t) \/ delete_trace(t)
    \/ \E until \in {Started[t] + 1 : t \in Traces} :
          \/ \E since \in {0} \cup {Started[t] : t \in Traces} : delete_range(since, until)
          \/ _prune_logs(until)
    \/ \E u \in Users :
          \/ \E op \in {"tag", "score"}, t \in Traces : ReadTrace(u, op, t)
          \/ \E add, remove \in {{}} \cup {{g} : g \in Tags} : set_trace_tags(u, add, remove)
          \/ insert_scores(u)

PagesSpec == PagesInit /\ [][PagesNext]_pagesVars

\* The console asks for the next page and the server answers; nobody else need act.
PagesFairSpec == PagesSpec /\ WF_pagesVars(list_traces \/ logs_list \/ list_audit \/ Answer)

-----------------------------------------------------------------------------
\* Types; a trace never carries more tags than the ceiling, whatever was stored when the
\* request that wrote them had read it.
PagesTypeOK ==
    /\ written \subseteq Traces /\ rows \subseteq written
    /\ tags \in [Traces -> SUBSET Tags]
    /\ \A t \in Traces : Cardinality(tags[t]) <= MaxTags
    /\ scores \subseteq Traces
    /\ scroll.table \in Tables /\ scroll.order \in Orders /\ scroll.step \in {"new", "selected", "asked", "end"}
    /\ scroll.shown \in Seq(Traces) /\ scroll.total \in Nat
    /\ steady \subseteq rows
    /\ user \in [Users -> [op : {"idle", "tag", "score"}, trace : Traces \cup {0},
                           tags : SUBSET Tags]]
    /\ edits \in 0..MaxEdits

\* What a client was shown is in the order it asked for, no row twice, however rows came
\* and went between its pages (list_traces).
ShownInOrder ==
    \A i, j \in 1..Len(scroll.shown) :
        i < j => Before(scroll.order, scroll.shown[i], scroll.shown[j])

\* A scroll that ran to its end has shown every row that matched from the first page to
\* the last; only export's cap cuts it short, and then what is missing comes after all it
\* has shown (list_traces, logs_list, list_audit, export).
Shown(t) == \E i \in 1..Len(scroll.shown) : scroll.shown[i] = t
Beyond(t) == \A i \in 1..Len(scroll.shown) : Before(scroll.order, scroll.shown[i], t)
NothingSkipped ==
    scroll.step = "end" =>
        \A t \in steady : Shown(t) \/ (Capped(scroll.shown) /\ Beyond(t))

\* No score outlives its trace, also when the trace is deleted after the request looked
\* it up (_scores, ON DELETE CASCADE).
NoOrphanScore == scores \subseteq rows

\* What a listing shows is sound at every moment: in order, without repetition, of rows
\* whose tags keep to the ceiling and whose scores have a trace.
ListingSound == PagesTypeOK /\ ShownInOrder /\ NoOrphanScore

\* A scroll ends though traces keep arriving: each page moves the cursor (next_cursor).
ScrollEnds == (scroll.step = "asked") ~> (scroll.step = "end")
=============================================================================
