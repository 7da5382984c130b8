------------------------------- MODULE Series -------------------------------
(***************************************************************************)
(* The arithmetic behind the charts (obs/rollup.py and the metrics part of *)
(* store/queries.py) as operators over bounded samples.  A value is a      *)
(* number of milliseconds, a quantile is a number of hundredths, and an    *)
(* average is kept as its numerator: the code's floats round, nothing here *)
(* depends on how.                                                         *)
(***************************************************************************)
EXTENDS Integers, Sequences, FiniteSets, FiniteSetsExt, SequencesExt, Lists

CONSTANTS
    Values,     \* durations
    MaxSample,  \* longest sample examined
    Quantiles,  \* _PERCENTILES, in hundredths
    Steps,      \* ROLLUP_STEPS
    Reach,      \* the longest window step_for_range gives each step
    Named,      \* models a trace may name
    Codes,      \* statuses a trace may have
    Horizon     \* largest end of a window examined

Unnamed == ""   \* the model of a trace that named none

ASSUME SeriesAssumption ==
    /\ Values \subseteq Nat /\ IsFiniteSet(Values)
    /\ MaxSample \in Nat /\ Horizon \in Nat
    /\ Quantiles \subseteq 1..100 /\ Steps \subseteq Nat \ {0}
    /\ Reach \in [Steps -> Nat] /\ \E step \in Steps : Reach[step] >= Horizon
    /\ Codes \subseteq Nat /\ Unnamed \notin Named

Samples == UNION {[1..n -> Values] : n \in 0..MaxSample}
Sum(s)  == FoldSeq(LAMBDA a, b : a + b, 0, s)

-----------------------------------------------------------------------------
\* ceil(q * n).
Rank(n, q) == (q * n + 99) \div 100

\* Nearest rank in the sorted sample; 0 for an empty one.
percentile(s, q) ==
    IF s = <<>> THEN 0 ELSE SortSeq(s, LAMBDA a, b : a < b)[Rank(Len(s), q)]

\* summarize, without the percentiles the caller does not name.
summarize(s) ==
    [count |-> Len(s), sum |-> Sum(s),
     min |-> IF s = <<>> THEN 0 ELSE Min(Range(s)),
     max |-> IF s = <<>> THEN 0 ELSE Max(Range(s)),
     p |-> [q \in Quantiles |-> percentile(s, q)]]

\* Children that hold no event give no minimum and no maximum.
Full(children) == {i \in 1..Len(children) : children[i].count > 0}

\* merge_rows; p holds the sum of percentile times count, which the code divides by count.
merge_rows(children) ==
    LET I == Full(children)
    IN  [count |-> Sum([i \in 1..Len(children) |-> children[i].count]),
         sum   |-> Sum([i \in 1..Len(children) |-> children[i].sum]),
         min   |-> IF I = {} THEN 0 ELSE Min({children[i].min : i \in I}),
         max   |-> IF I = {} THEN 0 ELSE Max({children[i].max : i \in I}),
         p     |-> [q \in Quantiles |-> Sum([i \in 1..Len(children) |-> children[i].p[q] * children[i].count])]]

-----------------------------------------------------------------------------
floor_bucket(ts, step) == (ts \div step) * step

\* The points metrics_series and metrics_models emit.
BucketsBetween(since, until, step) ==
    {b \in floor_bucket(since, step)..(until - 1) : b % step = 0}

-----------------------------------------------------------------------------
(* Rollup rows and the charts made of them.  A rate is kept as its count,  *)
(* an average as the pair of sum and count.                                *)

Calls == [ts : 0..(Horizon - 1), model : Named \cup {Unnamed}, status : Codes]
Loads == UNION {[1..n -> Calls] : n \in 0..2}

\* _accumulate: errors have a row per status, the others a row per model.
RowKey(metric, e, step) ==
    [bucket |-> floor_bucket(e.ts, step),
     model  |-> IF metric = "errors" THEN Unnamed ELSE e.model,
     status |-> IF metric = "errors" THEN e.status ELSE 0]

counter_stats(n) == [count |-> n, sum |-> n, min |-> 1, max |-> 1, p |-> [q \in Quantiles |-> 0]]

\* metric_rollup for one metric and step, every bucket closed: the stats of each key.
\* A call that started at ts takes ts ms here.  (The code merges the coarser rows from the
\* finer ones: their counts and sums are these, their percentiles merge_rows' estimates.)
Rolled(load, metric, step) ==
    LET counted == SelectSeq(load, LAMBDA e : metric = "errors" => e.status >= 400)
        of(key) == SelectSeq(counted, LAMBDA e : RowKey(metric, e, step) = key)
        ms(key) == [i \in 1..Len(of(key)) |-> of(key)[i].ts]
    IN  [key \in {RowKey(metric, counted[i], step) : i \in 1..Len(counted)} |->
            IF metric \in {"requests", "errors"} THEN counter_stats(Len(of(key)))
            ELSE summarize(ms(key))]

\* The count of the given keys' rows.
Count(table, keys) == FoldSet(LAMBDA k, n : table[k].count + n, 0, keys)

\* _bucket_point over the keys of one bucket; an empty bucket gives zeros.
_bucket_point(metric, table, keys) ==
    LET order == SetToSeq(keys)
        m     == merge_rows([i \in 1..Len(order) |-> table[order[i]]])
    IN  CASE metric \in {"requests", "errors"} -> Count(table, keys)
          [] metric = "queue"   -> <<m.sum, m.count>>
          [] metric = "latency" -> IF Len(order) = 1 THEN table[order[1]].p ELSE m.p

\* errors rows have no model, so a filter leaves them alone.
Filtered(metric, key, model) == model = Unnamed \/ metric = "errors" \/ key.model = model

\* metrics_series of one metric, optionally of one model.
metrics_series(load, metric, since, until, step, model) ==
    LET table == Rolled(load, metric, step)
    IN  [b \in BucketsBetween(since, until, step) |->
            _bucket_point(metric, table, {k \in DOMAIN table : k.bucket = b /\ Filtered(metric, k, model)})]

step_for_range(n) == Min({step \in Steps : n <= Reach[step]})

\* metrics_models: counts of the named models, and their total.
metrics_models(load, since, until) ==
    LET step == step_for_range(until - since)
        table == Rolled(load, "requests", step)
        keys == {k \in DOMAIN table : /\ k.model # Unnamed
                                     /\ floor_bucket(since, step) <= k.bucket /\ k.bucket < until}
    IN  [step |-> step, total |-> Count(table, keys),
         counts |-> [b \in BucketsBetween(since, until, step) |-> [m \in Named |->
                        Count(table, {k \in keys : k.bucket = b /\ k.model = m})]]]

\* ts_start >= ? AND ts_start < ?
During(load, from, to) == Only(load, {e \in Range(load) : from <= e.ts /\ e.ts < to})

\* _window_stats of the calls of one window.
_window_stats(calls) ==
    LET ms == [i \in 1..Len(calls) |-> calls[i].ts]
        by == [c \in {c \in Codes : c >= 400} |->
                  Cardinality({i \in 1..Len(calls) : calls[i].status = c})]
    IN  [requests |-> Len(calls), by |-> by,
         errors |-> FoldSet(LAMBDA c, n : by[c] + n, 0, DOMAIN by),
         p |-> [q \in Quantiles |-> percentile(ms, q)], queue |-> <<Sum(ms), Len(calls)>>]

\* metrics_summary: the window, the one before it, and their differences.
metrics_summary(load, range, now) ==
    LET cur  == _window_stats(During(load, now - range, now))
        prev == _window_stats(During(load, now - 2 * range, now - range))
    IN  [cur |-> cur, prev |-> prev, delta |-> cur.errors - prev.errors, total |-> Len(load)]

-----------------------------------------------------------------------------
\* The percentile is the least value with at least q of the sample at or below it.
PercentileIsNearestRank ==
    \A s \in Samples \ {<<>>} : \A q \in Quantiles :
        LET below(v) == Cardinality({i \in 1..Len(s) : s[i] <= v})
        IN  percentile(s, q) = Min({v \in Range(s) : below(v) * 100 >= q * Len(s)})

\* Merged buckets count, add and bound exactly like the bucket of all their events, empty
\* children included, and a merged percentile lies between minimum and maximum.
MergeIsExact ==
    \A s, t \in Samples :
        LET m == merge_rows(<<summarize(s), summarize(t)>>)
            w == summarize(s \o t)
        IN  /\ m.count = w.count /\ m.sum = w.sum /\ m.min = w.min /\ m.max = w.max
            /\ \A q \in Quantiles : m.min * m.count <= m.p[q] /\ m.p[q] <= m.max * m.count

\* Every event of the window falls in exactly one emitted bucket, and the buckets leave
\* no gap (metrics_series).
SeriesHasNoGap ==
    \A until \in 1..Horizon : \A since \in 0..(until - 1) : \A step \in Steps :
        LET bs == BucketsBetween(since, until, step)
        IN  /\ \A ts \in since..(until - 1) : floor_bucket(ts, step) \in bs
            /\ \A b \in bs : b + step < until => b + step \in bs

Points(f) == FoldSet(LAMBDA b, n : f[b] + n, 0, DOMAIN f)

\* The charts made of rollup rows and the strip made of traces agree on a window whose
\* ends are bucket boundaries; elsewhere a chart holds its first bucket whole.  A model
\* filter splits the requests and leaves the errors; the model mix adds up to its total,
\* the requests that named a model (metrics_series, metrics_models, metrics_summary).
ChartsAgreeWithTraces ==
    \A load \in Loads : \A until \in 1..Horizon : \A since \in 0..(until - 1) : \A step \in Steps :
        LET chart(metric, m) == Points(metrics_series(load, metric, since, until, step, m))
            strip == metrics_summary(load, until - since, until).cur
            mix   == metrics_models(load, since, until)
        IN  /\ chart("requests", Unnamed) >= strip.requests
            /\ chart("errors", Unnamed) >= strip.errors
            /\ (since % step = 0 /\ until % step = 0) =>
                  /\ chart("requests", Unnamed) = strip.requests
                  /\ chart("errors", Unnamed) = strip.errors
            /\ \A m \in Named : chart("errors", m) = chart("errors", Unnamed)
            /\ mix.total = Points([b \in DOMAIN mix.counts |-> Points(mix.counts[b])])
            /\ step = mix.step => mix.total = Points([m \in Named |-> chart("requests", m)])

\* Window and previous window meet without overlap: together they count what one window
\* of twice the range counts (metrics_summary).
WindowsMeet ==
    \A load \in Loads : \A now \in 1..Horizon : \A range \in 1..Horizon :
        LET s == metrics_summary(load, range, now)
            w == metrics_summary(load, 2 * range, now).cur
        IN  /\ s.cur.requests + s.prev.requests = w.requests
            /\ \A c \in DOMAIN w.by : s.cur.by[c] + s.prev.by[c] = w.by[c]
=============================================================================
