----------------------------- MODULE Retention -----------------------------
(***************************************************************************)
(* store/retention.py beside the writer's rollup buckets.                  *)
(*                                                                         *)
(* Time counts 10 s buckets; ages are in buckets too.  One rollup key      *)
(* stands for all: metrics, models, routes and statuses never mix, and the *)
(* 60 s and 3600 s parents are built alike, so there is one parent step.   *)
(* A rollup row is its count, 0 when there is none.  Each SELECT before a  *)
(* pass's first write is a transaction of its own; from that write to the  *)
(* commit the pass holds SQLite's write lock.  The writer's batches are    *)
(* single traces here: Writer has the batches.                             *)
(***************************************************************************)
EXTENDS Integers, FiniteSets, FiniteSetsExt

CONSTANTS Width,        \* 10 s buckets per parent
          Late,         \* how many buckets ago a trace committed now may have started
          AgeAfter,     \* max_age_days
          RollAfter,    \* rollup_days
          Cap,          \* max_traces
          Chunk,        \* _DELETE_CHUNK
          MaxNow,       \* bound: buckets of time
          MaxArrivals,  \* bound: traces
          MaxFaults     \* bound: failed passes and crashes

ASSUME RetentionAssumption ==
  /\ {Width, Late, Chunk, Cap} \subseteq Nat \ {0}
  /\ AgeAfter \in Nat /\ RollAfter \in Nat
  /\ MaxNow \in Nat /\ MaxArrivals \in Nat /\ MaxFaults \in Nat

Buckets     == 0 .. MaxNow
ParentOf(b) == b \div Width
Parents     == 0 .. ParentOf(MaxNow)
Children(p) == {b \in Buckets : ParentOf(b) = p}
Total(f, S) ==
  LET sum[n \in 0 .. (MaxNow + 1)] ==
        IF n = 0 THEN 0 ELSE sum[n - 1] + (IF n - 1 \in S THEN f[n - 1] ELSE 0)
  IN  sum[MaxNow + 1]
None        == [b \in Buckets |-> 0]

VARIABLES
  now, arrivals, faults,
  traces,                  \* rows of the traces table: id and bucket
  ten, parent,             \* metric_rollup: counts of the 10 s and of the parent rows
  open,                    \* the writer's open buckets
  rpc,                     \* where the retention thread is in apply
  cut, pending, todo, key, want,  \* its locals: now, the keys, those left, the current one, its count
  fed, lost,               \* for the properties: traces counted by the writer; counts lost in crashes
  excess,                  \* for the properties: the traces over the cap when the pass looked
  strained                 \* for the properties: one of them was in a parent still being written

db     == <<traces, ten, parent>>
pass   == <<rpc, cut, pending, todo, key, want>>
bounds == <<now, arrivals, faults>>
ghosts == <<fed, lost, excess, strained>>
vars   == <<bounds, db, open, pass, ghosts>>

Init ==
  /\ now = 0 /\ arrivals = 0 /\ faults = 0
  /\ traces = {} /\ ten = None /\ parent = [p \in Parents |-> 0] /\ open = None
  /\ rpc = "idle" /\ cut = 0 /\ pending = {} /\ todo = {} /\ key = 0 /\ want = 0
  /\ fed = None /\ lost = None /\ excess = {} /\ strained = FALSE

-----------------------------------------------------------------------------
(* The writer's commits. *)

\* Every due bucket closes, or every bucket on flush and stop; its count is added to
\* the 10 s row and to the parent.
Close(work, all) ==
  LET due == {b \in Buckets : work[b] > 0 /\ (all \/ b + 1 <= now)}
  IN  /\ ten' = [b \in Buckets |-> IF b \in due THEN ten[b] + work[b] ELSE ten[b]]
      /\ parent' = [p \in Parents |-> parent[p] + Total(work, due \cap Children(p))]
      /\ open' = [b \in Buckets |-> IF b \in due THEN 0 ELSE work[b]]

\* A trace that started in this bucket or up to Late buckets ago; sampled-out traces are
\* counted and not stored.
CommitTrace(b, kept, all) ==
  /\ arrivals < MaxArrivals /\ b \in (now - Late) .. now
  /\ arrivals' = arrivals + 1
  /\ traces' = IF kept THEN traces \cup {[id |-> arrivals, at |-> b]} ELSE traces
  /\ Close([open EXCEPT ![b] = @ + 1], all)
  /\ fed' = [fed EXCEPT ![b] = @ + 1]
  /\ UNCHANGED <<now, faults, pass, lost, excess, strained>>

CommitIdle(all) ==
  /\ \E b \in Buckets : open[b] > 0 /\ (all \/ b + 1 <= now)
  /\ Close(open, all)
  /\ UNCHANGED <<bounds, traces, pass, ghosts>>

\* The writer wakes when a bucket is due: none stays open for a second bucket of time.
Tick ==
  /\ now < MaxNow /\ \A b \in Buckets : open[b] > 0 => b >= now
  /\ now' = now + 1
  /\ UNCHANGED <<arrivals, faults, db, open, pass, ghosts>>

\* DELETE /traces: rollups stay.
delete_traces ==
  /\ \E t \in traces : traces' = traces \ {t}
  /\ UNCHANGED <<bounds, ten, parent, open, pass, ghosts>>

-----------------------------------------------------------------------------
(* One pass: the keys. *)

At(b)       == Cardinality({t \in traces : t.at = b})
Newer(u, t) == u.at > t.at \/ (u.at = t.at /\ u.id > t.id)
Over        == {t \in traces : Cardinality({u \in traces : Newer(u, t)}) >= Cap}

\* The writer adds to a parent until Late buckets after its end.  CapSpares: the count cap
\* has reached none that it still adds to.
ParentSettled(p) == (p + 1) * Width + Late <= now
CapSpares        == \A t \in Over : ParentSettled(ParentOf(t.at))

AgedNever(when) == {}                                     \* seeded fault: no age predicate
Aged(when)      == {t \in traces : t.at + AgeAfter < when}

KeysAged(T) == {t.at : t \in T \cap Aged(cut)}            \* seeded fault: only the age cap
Keys(T)     == {t.at : t \in {u \in T : u.at + RollAfter >= cut}}

\* apply returns or raises: its locals are gone.
Returns ==
  /\ rpc' = "idle" /\ cut' = 0 /\ pending' = {} /\ todo' = {} /\ key' = 0 /\ want' = 0
  /\ excess' = {}

Start ==
  /\ rpc = "idle"
  /\ rpc' = "aged" /\ cut' = now
  /\ UNCHANGED <<bounds, db, open, pending, todo, key, want, ghosts>>

PendingAged ==
  /\ rpc = "aged"
  /\ pending' = Keys(Aged(cut))
  /\ rpc' = "over"
  /\ UNCHANGED <<bounds, db, open, cut, todo, key, want, ghosts>>

PendingOver ==
  /\ rpc = "over"
  /\ pending' = pending \cup Keys(Over) /\ todo' = pending'
  /\ rpc' = "load"
  /\ excess' = Over /\ strained' = (strained \/ ~CapSpares)
  /\ UNCHANGED <<bounds, db, open, cut, key, want, fed, lost>>

-----------------------------------------------------------------------------
(* One pass: missing rows, then parents, until the first write. *)

HasRow(b) == ten[b] > 0

load_rollup_row ==
  /\ rpc = "load" /\ todo # {}
  /\ LET b == Min(todo)
     IN  IF HasRow(b) THEN todo' = todo \ {b} /\ UNCHANGED <<rpc, key>>
                      ELSE rpc' = "gather" /\ key' = b /\ UNCHANGED todo
  /\ UNCHANGED <<bounds, db, open, cut, pending, want, ghosts>>

_gather_stats ==
  /\ rpc = "gather"
  /\ want' = At(key)
  /\ IF want' = 0 THEN rpc' = "load" /\ todo' = todo \ {key}
                  ELSE rpc' = "build" /\ UNCHANGED todo
  /\ UNCHANGED <<bounds, db, open, cut, pending, key, ghosts>>

NothingBuilt ==
  /\ rpc = "load" /\ todo = {}
  /\ rpc' = "children" /\ todo' = {ParentOf(b) : b \in pending}
  /\ UNCHANGED <<bounds, db, open, cut, pending, key, want, ghosts>>

\* The children are read in one statement, the parent in the next.
ReadChildren ==
  /\ rpc = "children" /\ todo # {}
  /\ key' = Min(todo) /\ want' = Total(ten, Children(key'))
  /\ IF want' = 0 THEN todo' = todo \ {key'} /\ UNCHANGED rpc
                  ELSE rpc' = "parent" /\ UNCHANGED todo
  /\ UNCHANGED <<bounds, db, open, cut, pending, ghosts>>

ReadParent ==
  /\ rpc = "parent"
  /\ IF parent[key] = want THEN rpc' = "children" /\ todo' = todo \ {key}
                           ELSE rpc' = "rebuild" /\ UNCHANGED todo
  /\ UNCHANGED <<bounds, db, open, cut, pending, key, want, ghosts>>

NothingRebuilt ==
  /\ rpc = "children" /\ todo = {}
  /\ rpc' = "prune"
  /\ UNCHANGED <<bounds, db, open, cut, pending, todo, key, want, ghosts>>

-----------------------------------------------------------------------------
(* One pass: from the first write to the commit. *)

\* The first row is written from what was read before the transaction, whatever the row
\* is now; the rest of the loop reads inside it.
\* Seeded fault: rows of the keys that have one are added to.
BuildAdded     == [b \in Buckets |-> IF b \in pending THEN ten[b] + At(b) ELSE ten[b]]
_build_pending == [b \in Buckets |-> IF b = key THEN want
                                     ELSE IF b \in todo /\ ~HasRow(b) THEN At(b) ELSE ten[b]]

\* Seeded fault: a parent that exists is taken for complete.
CascadeMissing(rows, S) == [p \in Parents |->
  LET sum == Total(rows, Children(p)) IN IF p \in S /\ parent[p] = 0 THEN sum ELSE parent[p]]
_cascade_parents(rows, S) == [p \in Parents |->
  LET sum == Total(rows, Children(p)) IN IF p \in S /\ sum > 0 THEN sum ELSE parent[p]]

WriteRows ==
  /\ rpc \in {"build", "rebuild"}
  /\ ten' = IF rpc = "build" THEN _build_pending ELSE ten
  /\ parent' = IF rpc = "build" THEN _cascade_parents(ten', {ParentOf(b) : b \in pending})
               ELSE [_cascade_parents(ten, todo) EXCEPT ![key] = want]
  /\ rpc' = "prune"
  /\ UNCHANGED <<bounds, traces, open, cut, pending, todo, key, want, ghosts>>

-----------------------------------------------------------------------------
(* One pass: the deletes, committed per chunk. *)

Chunks(S) == {D \in SUBSET S : Cardinality(D) = IF Cardinality(S) < Chunk THEN Cardinality(S) ELSE Chunk}

_prune_traces ==
  /\ rpc = "prune"
  /\ \E D \in Chunks(Aged(cut) \cup Over) :
       /\ traces' = traces \ D
       /\ rpc' = IF Cardinality(D) < Chunk THEN "rollups" ELSE "prune"
  /\ UNCHANGED <<bounds, ten, parent, open, cut, pending, todo, key, want, ghosts>>

\* A row's bucket is its start; rows of both steps may share one.
_prune_rollups ==
  /\ rpc = "rollups"
  /\ \E D \in Chunks({b \in Buckets : b + RollAfter < cut /\ ten[b] > 0}
                     \cup {p * Width : p \in {q \in Parents : q * Width + RollAfter < cut /\ parent[q] > 0}}) :
       /\ ten' = [b \in Buckets |-> IF b \in D THEN 0 ELSE ten[b]]
       /\ parent' = [p \in Parents |-> IF p * Width \in D THEN 0 ELSE parent[p]]
       /\ rpc' = IF Cardinality(D) < Chunk THEN "rest" ELSE "rollups"
  /\ UNCHANGED <<bounds, traces, open, cut, pending, todo, key, want, ghosts>>

\* Logs, payloads, sessions, checkpoint and VACUUM touch no table of this module.
Rest ==
  /\ rpc = "rest" /\ Returns
  /\ UNCHANGED <<bounds, db, open, fed, lost, strained>>

\* A busy database or any other error ends the pass; the timer goes on.
Fails ==
  /\ rpc # "idle" /\ faults < MaxFaults /\ faults' = faults + 1
  /\ Returns
  /\ UNCHANGED <<now, arrivals, db, open, fed, lost, strained>>

\* The process dies and starts again: the open buckets are gone.
Crash ==
  /\ faults < MaxFaults /\ faults' = faults + 1
  /\ open' = None /\ lost' = [b \in Buckets |-> lost[b] + open[b]]
  /\ Returns
  /\ UNCHANGED <<now, arrivals, db, fed, strained>>

-----------------------------------------------------------------------------
Pass ==
  \/ Start \/ PendingAged \/ PendingOver
  \/ load_rollup_row \/ _gather_stats \/ NothingBuilt
  \/ ReadChildren \/ ReadParent \/ NothingRebuilt \/ WriteRows
  \/ _prune_traces \/ _prune_rollups \/ Rest

Next ==
  \/ \E b \in Buckets, kept, all \in BOOLEAN : CommitTrace(b, kept, all)
  \/ \E all \in BOOLEAN : CommitIdle(all)
  \/ Tick \/ delete_traces \/ Pass \/ Fails \/ Crash

Spec     == Init /\ [][Next]_vars
FairSpec == Spec /\ WF_vars(Pass)

-----------------------------------------------------------------------------
(* Properties. *)

Places == {"idle", "aged", "over", "load", "gather", "build", "children", "parent",
           "rebuild", "prune", "rollups", "rest"}

\* Every variable keeps its type; a row being built is of a pending key and not empty.
TypeOK ==
  /\ now \in Buckets /\ arrivals \in Nat /\ faults \in Nat
  /\ traces \subseteq [id : Nat, at : Buckets]
  /\ ten \in [Buckets -> Nat] /\ parent \in [Parents -> Nat] /\ open \in [Buckets -> Nat]
  /\ rpc \in Places /\ cut \in Buckets /\ pending \subseteq Buckets
  /\ todo \subseteq Buckets /\ key \in Buckets /\ want \in Nat
  /\ fed \in [Buckets -> Nat] /\ lost \in [Buckets -> Nat]
  /\ excess \subseteq [id : Nat, at : Buckets] /\ strained \in BOOLEAN
  /\ rpc = "build" => key \in pending /\ want > 0

Fresh(b) == b + RollAfter >= now

\* Nothing is counted twice: a 10 s row and the writer's open bucket together never
\* exceed the traces the writer has counted.
NothingDoubleCounts == \A b \in Buckets : ten[b] + open[b] <= fed[b]

\* And nothing is forgotten but what a crash took from the open buckets.
NothingForgotten == \A b \in Buckets : Fresh(b) => ten[b] + open[b] + lost[b] >= fed[b]

\* The rollups are a fold over the traces: typed rows that hold every trace the writer
\* counted exactly once, through crashes, failed passes and deletes by age or by count, as
\* long as no pass met the cap in a parent still being written (apply, _commit).
CountsExact == TypeOK /\ (strained \/ (NothingDoubleCounts /\ NothingForgotten))

ParentsSum == \A p \in Parents : Fresh(p * Width) => parent[p] = Total(ten, Children(p))

\* Charts of every step agree, under the same condition: a parent row is the sum of its
\* 10 s rows (_cascade_parents).
ParentsAgree == strained \/ ParentsSum

HasCount(t) == ten[t.at] > 0 \/ open[t.at] > 0 \/ t.at + RollAfter < cut

\* What retention deletes for its age, or because it was over the cap when the pass
\* collected its keys, is in a row by then or still open in the writer, whatever came in
\* between.
RolledBeforePruned ==
  [][_prune_traces => \A t \in traces \ traces' : t \in Aged(cut) \cup excess => HasCount(t)]_vars

\* A trace past its age goes, whatever passes fail.
AgedGo == \A n \in 0 .. MaxArrivals :
  (\E t \in traces : t.id = n /\ t.at + AgeAfter < now) ~> ~ \E t \in traces : t.id = n

-----------------------------------------------------------------------------
(* What the comments say, where the code does otherwise (README, last section). *)

\* retention.py:5: "rollups are computed BEFORE raw rows are pruned".  A trace that only
\* newer ones push over the cap during the pass is pruned without its key being looked at.
RowsBeforeRaw == [][_prune_traces => \A t \in traces \ traces' : HasCount(t)]_vars
=============================================================================
