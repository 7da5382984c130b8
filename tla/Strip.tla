-------------------------------- MODULE Strip -------------------------------
(* The listing of Pages beside the summary strip of Series, over the same rows. *)
EXTENDS Pages, Series

\* The stored traces as the strip reads them.
Stored == LET ids == SetToSeq(rows)
          IN  [i \in 1..Len(ids) |-> [ts |-> Started[ids[i]], model |-> Unnamed, status |-> 200]]

\* The strip over a window and a full listing of the same window agree: the strip counts
\* no trace that a client who paged to the end was not shown, unless it came after the
\* first page, and while no request changed the table it counts them all
\* (metrics_summary, list_traces, resolve_window).
StripAgreesWithListing ==
    (/\ scroll.table = "traces" /\ scroll.want = {}
     /\ scroll.step = "end" /\ ~scroll.more
     /\ steady = {t \in Traces : Matches(t)}) =>
        LET since == scroll.window[1]
            until == scroll.window[2]
            strip == metrics_summary(Stored, until - since, until).cur
        IN  /\ strip.requests <= Len(scroll.shown)
            /\ edits = 0 => strip.requests = Len(scroll.shown)
=============================================================================
