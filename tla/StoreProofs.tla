---------------------------- MODULE StoreProofs -----------------------------
(* Theorems about what the store keeps and what it shows: Retention, and Pages with the    *)
(* strip of Series beside it, for any ages, caps, page sizes and tables.                   *)
EXTENDS Retention, Strip, ListFacts

-----------------------------------------------------------------------------
(* PART ONE: Retention. *)

(* Parents. *)

LEMMA Numbers ==
  /\ Width \in Nat /\ Width > 0 /\ Late \in Nat /\ Late > 0 /\ Chunk \in Nat /\ Chunk > 0
  /\ AgeAfter \in Nat /\ RollAfter \in Nat
  /\ MaxNow \in Nat /\ MaxArrivals \in Nat /\ MaxFaults \in Nat
  BY RetentionAssumption

LEMMA ParentBounds ==
  ASSUME NEW b \in Nat
  PROVE  /\ ParentOf(b) \in Nat
         /\ ParentOf(b) * Width <= b /\ b < (ParentOf(b) + 1) * Width
         /\ ParentOf(b) * Width \in Nat /\ (ParentOf(b) + 1) * Width = ParentOf(b) * Width + Width
  BY Numbers, SMTT(30) DEF ParentOf

LEMMA ParentInRange ==
  ASSUME NEW b \in Buckets
  PROVE  ParentOf(b) \in Parents /\ ParentOf(b) \in Buckets /\ b \in Children(ParentOf(b))
  BY Numbers, SMTT(30) DEF ParentOf, Parents, Buckets, Children

-----------------------------------------------------------------------------
(* Sums.  The recursive function behind Total is well defined ... *)

Term(f, S, i) == IF i \in S THEN f[i] ELSE 0

Sums(g, n, f, S) == g = [i \in 0 .. n |-> IF i = 0 THEN 0 ELSE g[i - 1] + Term(f, S, i - 1)]

LEMMA SumsStep ==
  ASSUME NEW n \in Nat, NEW f, NEW S, NEW g, Sums(g, n, f, S)
  PROVE  g[0] = 0 /\ \A i \in 1 .. n : g[i] = g[i - 1] + Term(f, S, i - 1)
  <1> DEFINE h == [i \in 0 .. n |-> IF i = 0 THEN 0 ELSE g[i - 1] + Term(f, S, i - 1)]
  <1>1. g = h
    BY DEF Sums
  <1>2. h[0] = 0
    OBVIOUS
  <1>3. ASSUME NEW i \in 1 .. n PROVE h[i] = g[i - 1] + Term(f, S, i - 1)
    OBVIOUS
  <1> HIDE DEF h
  <1>4. QED BY <1>1, <1>2, <1>3

LEMMA SumsExist ==
  ASSUME NEW n \in Nat, NEW f, NEW S
  PROVE  \E g : Sums(g, n, f, S)
  <1> DEFINE M == {k \in Nat : \E g : Sums(g, k, f, S)}
  <1>1. 0 \in M
    <2> DEFINE g == [i \in 0 .. 0 |-> 0]
    <2>1. Sums(g, 0, f, S)
      BY DEF Sums
    <2>2. QED BY <2>1
  <1>2. ASSUME NEW k \in Nat, k \in M PROVE k + 1 \in M
    <2>1. PICK g : Sums(g, k, f, S)
      BY <1>2
    <2> DEFINE h == [i \in 0 .. (k + 1) |-> IF i <= k THEN g[i] ELSE g[k] + Term(f, S, k)]
    <2>2. g[0] = 0 /\ \A i \in 1 .. k : g[i] = g[i - 1] + Term(f, S, i - 1)
      BY <2>1, SumsStep
    <2>3. ASSUME NEW i \in 0 .. (k + 1)
          PROVE  h[i] = IF i = 0 THEN 0 ELSE h[i - 1] + Term(f, S, i - 1)
      <3>1. CASE i = 0
        BY <2>2, <3>1
      <3>2. CASE i \in 1 .. k
        BY <2>2, <3>2
      <3>3. CASE i = k + 1
        <4>1. (k + 1) - 1 = k /\ h[k] = g[k] /\ h[k + 1] = g[k] + Term(f, S, k)
          OBVIOUS
        <4> HIDE DEF h
        <4>2. QED BY <3>3, <4>1
      <3>4. QED BY <3>1, <3>2, <3>3
    <2>4. h = [i \in 0 .. (k + 1) |-> h[i]]
      OBVIOUS
    <2> HIDE DEF h
    <2>5. Sums(h, k + 1, f, S)
      BY <2>3, <2>4 DEF Sums
    <2>6. QED BY <2>5
  <1>3. Nat \subseteq M
    <2> HIDE DEF M
    <2>1. QED BY <1>1, <1>2, NumberInduction
  <1>4. QED BY <1>3

\* ... and Total is its last value.
LEMMA TotalIsSum ==
  ASSUME NEW f, NEW S
  PROVE  \E g : Sums(g, MaxNow + 1, f, S) /\ Total(f, S) = g[MaxNow + 1]
  <1> DEFINE c == CHOOSE g : Sums(g, MaxNow + 1, f, S)
  <1>1. MaxNow + 1 \in Nat
    BY Numbers
  <1>2. \E g : Sums(g, MaxNow + 1, f, S)
    BY <1>1, SumsExist
  <1>3. Sums(c, MaxNow + 1, f, S)
    BY <1>2, Zenon
  <1>4. Total(f, S) = c[MaxNow + 1]
    BY Zenon DEF Total, Sums, Term
  <1> HIDE DEF c
  <1>5. QED BY <1>3, <1>4

Counts == [Buckets -> Nat]

LEMMA TermNat ==
  ASSUME NEW f \in Counts, NEW S, NEW b \in Buckets
  PROVE  Term(f, S, b) \in Nat
  BY DEF Term, Counts

\* A property of all the partial sums is a property of the total.
LEMMA SumsInduction ==
  ASSUME NEW M, 0 \in M, \A n \in Buckets : n \in M => n + 1 \in M
  PROVE  \A n \in 0 .. (MaxNow + 1) : n \in M
  <1> DEFINE N == {n \in Nat : n <= MaxNow + 1 => n \in M}
  <1>1. 0 \in N
    OBVIOUS
  <1>2. ASSUME NEW n \in Nat, n \in N PROVE n + 1 \in N
    <2>1. CASE n <= MaxNow
      BY <1>2, <2>1, Numbers DEF Buckets
    <2>2. CASE ~(n <= MaxNow)
      BY <2>2, Numbers
    <2>3. QED BY <2>1, <2>2
  <1>3. Nat \subseteq N
    <2> HIDE DEF N
    <2>1. QED BY <1>1, <1>2, NumberInduction
  <1>4. QED BY <1>3, Numbers

LEMMA SumsNext ==
  ASSUME NEW f, NEW S, NEW g, Sums(g, MaxNow + 1, f, S), NEW n \in Buckets
  PROVE  g[n + 1] = g[n] + Term(f, S, n)
  <1>1. MaxNow + 1 \in Nat /\ n + 1 \in 1 .. (MaxNow + 1) /\ (n + 1) - 1 = n
    BY Numbers DEF Buckets
  <1>2. QED BY <1>1, SumsStep

\* The sum of numbers is a number, and no term exceeds it.
LEMMA TotalNat ==
  ASSUME NEW f \in Counts, NEW S
  PROVE  /\ Total(f, S) \in Nat
         /\ \A b \in Buckets : b \in S => f[b] <= Total(f, S)
  <1>1. PICK g : Sums(g, MaxNow + 1, f, S) /\ Total(f, S) = g[MaxNow + 1]
    BY TotalIsSum
  <1> DEFINE M == {n \in Nat : g[n] \in Nat /\ \A b \in Buckets : b < n => Term(f, S, b) <= g[n]}
  <1>2. 0 \in M
    <2>1. g[0] = 0
      BY <1>1, SumsStep, Numbers
    <2>2. QED BY <2>1 DEF Buckets
  <1>3. ASSUME NEW n \in Buckets, n \in M PROVE n + 1 \in M
    <2>1. g[n + 1] = g[n] + Term(f, S, n) /\ g[n] \in Nat /\ Term(f, S, n) \in Nat /\ n \in Nat
      BY <1>1, <1>3, SumsNext, TermNat, Numbers DEF Buckets
    <2>2. ASSUME NEW b \in Buckets, b < n + 1 PROVE Term(f, S, b) <= g[n + 1]
      <3>1. b \in Nat /\ Term(f, S, b) \in Nat
        BY TermNat, Numbers DEF Buckets
      <3>2. CASE b < n
        BY <1>3, <2>1, <3>1, <3>2
      <3>3. CASE b = n
        BY <2>1, <3>3
      <3>4. QED BY <2>1, <2>2, <3>1, <3>2, <3>3
    <2>3. QED BY <2>1, <2>2
  <1>4. MaxNow + 1 \in M
    <2> HIDE DEF M
    <2>1. MaxNow + 1 \in 0 .. (MaxNow + 1)
      BY Numbers
    <2>2. QED BY <1>2, <1>3, <2>1, SumsInduction
  <1>5. ASSUME NEW b \in Buckets, b \in S PROVE f[b] <= Total(f, S)
    <2>1. Term(f, S, b) = f[b] /\ b < MaxNow + 1
      BY <1>5, Numbers DEF Term, Buckets
    <2>2. QED BY <1>1, <1>4, <2>1
  <1>6. QED BY <1>1, <1>4, <1>5

\* Sums add up term by term.
LEMMA TotalAdds ==
  ASSUME NEW f \in Counts, NEW g \in Counts, NEW h \in Counts, NEW S, NEW T, NEW U,
         \A b \in Buckets : Term(f, S, b) = Term(g, T, b) + Term(h, U, b)
  PROVE  Total(f, S) = Total(g, T) + Total(h, U)
  <1>1. PICK x : Sums(x, MaxNow + 1, f, S) /\ Total(f, S) = x[MaxNow + 1]
    BY TotalIsSum
  <1>2. PICK y : Sums(y, MaxNow + 1, g, T) /\ Total(g, T) = y[MaxNow + 1]
    BY TotalIsSum
  <1>3. PICK z : Sums(z, MaxNow + 1, h, U) /\ Total(h, U) = z[MaxNow + 1]
    BY TotalIsSum
  <1> DEFINE M == {n \in Nat : y[n] \in Nat /\ z[n] \in Nat /\ x[n] = y[n] + z[n]}
  <1>4. 0 \in M
    <2>1. x[0] = 0 /\ y[0] = 0 /\ z[0] = 0
      BY <1>1, <1>2, <1>3, SumsStep, Numbers
    <2>2. QED BY <2>1
  <1>5. ASSUME NEW n \in Buckets, n \in M PROVE n + 1 \in M
    <2>1. /\ x[n + 1] = x[n] + Term(f, S, n) /\ y[n + 1] = y[n] + Term(g, T, n)
          /\ z[n + 1] = z[n] + Term(h, U, n)
      BY <1>1, <1>2, <1>3, SumsNext
    <2>2. Term(g, T, n) \in Nat /\ Term(h, U, n) \in Nat /\ n \in Nat
      BY TermNat, Numbers DEF Buckets
    <2>3. Term(f, S, n) = Term(g, T, n) + Term(h, U, n)
      OBVIOUS
    <2>4. QED BY <1>5, <2>1, <2>2, <2>3
  <1>6. MaxNow + 1 \in M
    <2> HIDE DEF M
    <2>1. MaxNow + 1 \in 0 .. (MaxNow + 1)
      BY Numbers
    <2>2. QED BY <1>4, <1>5, <2>1, SumsInduction
  <1>7. QED BY <1>1, <1>2, <1>3, <1>6

LEMMA NoneCounts == None \in Counts
  BY DEF None, Counts

LEMMA TotalOfNone ==
  ASSUME NEW f \in Counts, NEW S, \A b \in Buckets : b \in S => f[b] = 0
  PROVE  Total(f, S) = 0
  <1>1. \A b \in Buckets : Term(f, S, b) = Term(f, S, b) + Term(f, S, b)
    BY DEF Term
  <1>2. Total(f, S) = Total(f, S) + Total(f, S)
    BY <1>1, TotalAdds
  <1>3. QED BY <1>2, TotalNat

\* Functions that agree on a set have the same sum over it.
LEMMA TotalSame ==
  ASSUME NEW f \in Counts, NEW g \in Counts, NEW S, \A b \in Buckets : b \in S => f[b] = g[b]
  PROVE  Total(f, S) = Total(g, S)
  <1>1. \A b \in Buckets : Term(f, S, b) = Term(g, S, b) + Term(None, S, b)
    BY DEF Term, None, Counts
  <1>2. Total(f, S) = Total(g, S) + Total(None, S)
    BY <1>1, NoneCounts, TotalAdds
  <1>3. Total(None, S) = 0
    BY NoneCounts, TotalOfNone DEF None
  <1>4. QED BY <1>2, <1>3, TotalNat

-----------------------------------------------------------------------------
(* What the writer is done with.  A trace is committed at most Late buckets  *)
(* after it started, so an older bucket is never written again; a parent is  *)
(* done with when its last bucket is.                                        *)

Settled(b) == b + Late < now

\* The age cap takes no trace from a parent that is still being written: an age of a day and
\* a parent of an hour leave Late 23 hours.
AgeSpares == Late + Width <= AgeAfter + 1

Looking  == {"load", "gather", "build"}
Checking == {"children", "parent", "rebuild"}

\* The writer's open buckets are recent, and what is stored was counted.
OpenRecent == \A b \in Buckets : open[b] > 0 => b + 1 >= now
StoredFed  == IsFiniteSet(traces) /\ \A b \in Buckets : At(b) <= fed[b]

\* What a pass holds from its reads is still so when it writes.
PassSound ==
  /\ cut <= now
  /\ \A b \in pending : ParentSettled(ParentOf(b))
  /\ rpc \in Looking => todo \subseteq pending
  /\ rpc \in {"gather", "build"} => key \in todo /\ ten[key] = 0
  /\ rpc = "build" => want <= fed[key]
  /\ rpc \in Checking => todo \subseteq {ParentOf(b) : b \in pending}
  /\ rpc \in {"parent", "rebuild"} => key \in todo /\ want = Total(ten, Children(key))

RetInv == TypeOK /\ NothingDoubleCounts /\ NothingForgotten /\ ParentsSum
          /\ OpenRecent /\ StoredFed /\ PassSound

\* What the pass holds, whatever the caps reach.
Held ==
  /\ rpc \in Looking => todo \subseteq pending
  /\ rpc \in {"gather", "build"} => key \in todo
  /\ rpc \in {"idle", "aged"} => excess = {}

StoreInv == TypeOK /\ IsFiniteSet(traces) /\ Held

\* A trace that the pass will take has a row or is still open in the writer, or its key is
\* pending and not yet dealt with.
Deciding == {"over", "prune"} \cup Looking \cup Checking
Covered ==
  rpc \in Deciding => \A t \in traces :
    t \in Aged(cut) \cup excess /\ t.at + RollAfter >= cut
      => \/ ten[t.at] > 0 \/ open[t.at] > 0
         \/ t.at \in pending /\ (rpc \in Looking => t.at \in todo) /\ rpc \in {"over"} \cup Looking

-----------------------------------------------------------------------------
(* What a settled parent is. *)

LEMMA SettledBucket ==
  ASSUME TypeOK, NEW b \in Buckets, ParentSettled(ParentOf(b))
  PROVE  Settled(b) /\ b + 1 < now
  <1>1. b \in Nat /\ now \in Nat
    BY Numbers DEF TypeOK, Buckets
  <1>2. b < (ParentOf(b) + 1) * Width /\ (ParentOf(b) + 1) * Width \in Int
    BY <1>1, ParentBounds, Numbers
  <1>3. (ParentOf(b) + 1) * Width + Late <= now
    BY DEF ParentSettled
  <1>4. QED BY <1>1, <1>2, <1>3, Numbers DEF Settled

LEMMA ChildBounds ==
  ASSUME NEW p \in Parents, NEW b \in Children(p)
  PROVE  b \in Buckets /\ b \in Nat /\ ParentOf(b) = p /\ p \in Nat /\ p * Width \in Nat /\ p * Width <= b
  <1>1. b \in Buckets /\ b \in Nat /\ ParentOf(b) = p
    BY Numbers DEF Children, Buckets
  <1>2. QED BY <1>1, ParentBounds

LEMMA AgedSettled ==
  ASSUME AgeSpares, TypeOK, cut <= now, NEW t \in Aged(cut)
  PROVE  t.at \in Buckets /\ ParentSettled(ParentOf(t.at))
  <1>1. t.at \in Buckets /\ t.at \in Nat /\ t.at + AgeAfter < cut
    BY Numbers DEF Aged, TypeOK, Buckets
  <1>2. ParentOf(t.at) * Width <= t.at /\ ParentOf(t.at) * Width \in Nat
        /\ (ParentOf(t.at) + 1) * Width = ParentOf(t.at) * Width + Width
    BY <1>1, ParentBounds
  <1>3. cut \in Nat /\ now \in Nat
    BY Numbers DEF TypeOK, Buckets
  <1>4. QED BY <1>1, <1>2, <1>3, Numbers DEF AgeSpares, ParentSettled

LEMMA ParentStaysSettled ==
  ASSUME NEW p, ParentSettled(p), now \in Nat, now' \in Nat, now <= now', p \in Nat
  PROVE  ParentSettled(p)'
  <1>1. PICK e \in Int : e = (p + 1) * Width
    BY Numbers
  <1>2. e + Late <= now
    BY <1>1 DEF ParentSettled
  <1>3. e + Late <= now'
    BY <1>2, Numbers
  <1>4. QED BY <1>1, <1>3 DEF ParentSettled

LEMMA KeysTyped ==
  ASSUME TypeOK, NEW T \in SUBSET traces
  PROVE  Keys(T) \subseteq Buckets /\ \A b \in Keys(T) : \E t \in T : b = t.at
  BY DEF Keys, TypeOK

LEMMA LeastOf ==
  ASSUME NEW S \in SUBSET Nat, S # {}
  PROVE  Min(S) \in S
  <1>1. \E x \in S : \A y \in S : x <= y
    BY LeastNumber
  <1>2. QED BY <1>1, Zenon DEF Min

-----------------------------------------------------------------------------
(* What is stored. *)

LEMMA AtNat ==
  ASSUME IsFiniteSet(traces), NEW b
  PROVE  At(b) \in Nat
  <1>1. IsFiniteSet({t \in traces : t.at = b})
    BY FS_Subset
  <1>2. QED BY <1>1, FS_CardinalityType DEF At

LEMMA AtSome ==
  ASSUME IsFiniteSet(traces), NEW t \in traces
  PROVE  At(t.at) # 0
  <1>1. IsFiniteSet({u \in traces : u.at = t.at}) /\ t \in {u \in traces : u.at = t.at}
    BY FS_Subset
  <1>2. QED BY <1>1, FS_EmptySet DEF At

LEMMA AtShrinks ==
  ASSUME IsFiniteSet(traces), traces' \subseteq traces, NEW b
  PROVE  IsFiniteSet(traces') /\ At(b)' \in Nat /\ At(b)' <= At(b)
  <1>1. IsFiniteSet({t \in traces : t.at = b}) /\ IsFiniteSet(traces')
    BY FS_Subset
  <1>2. {t \in traces' : t.at = b} \subseteq {t \in traces : t.at = b}
    OBVIOUS
  <1>3. /\ IsFiniteSet({t \in traces' : t.at = b})
        /\ Cardinality({t \in traces' : t.at = b}) <= Cardinality({t \in traces : t.at = b})
    BY <1>1, <1>2, FS_Subset
  <1>4. QED BY <1>1, <1>3, FS_CardinalityType DEF At

LEMMA AtGrows ==
  ASSUME IsFiniteSet(traces), NEW x, traces' = traces \cup {x}, NEW b
  PROVE  /\ IsFiniteSet(traces') /\ At(b)' \in Nat
         /\ At(b)' <= At(b) + 1 /\ (x.at # b => At(b)' = At(b))
  <1> DEFINE A == {t \in traces : t.at = b}
             B == {t \in traces' : t.at = b}
  <1>1. IsFiniteSet(A) /\ IsFiniteSet(traces')
    BY FS_Subset, FS_AddElement
  <1>2. B \subseteq A \cup {x} /\ (x.at # b => B = A)
    OBVIOUS
  <1>3. IsFiniteSet(A \cup {x}) /\ Cardinality(A \cup {x}) <= Cardinality(A) + 1
        /\ Cardinality(A) \in Nat
    <2> HIDE DEF A
    <2>1. Cardinality(A) \in Nat
      BY <1>1, FS_CardinalityType
    <2>2. /\ IsFiniteSet(A \cup {x})
          /\ Cardinality(A \cup {x}) = IF x \in A THEN Cardinality(A) ELSE Cardinality(A) + 1
      BY <1>1, FS_AddElement
    <2>3. QED BY <2>1, <2>2
  <1>4. IsFiniteSet(B) /\ Cardinality(B) <= Cardinality(A \cup {x}) /\ Cardinality(B) \in Nat
        /\ Cardinality(A \cup {x}) \in Nat
    BY <1>2, <1>3, FS_Subset, FS_CardinalityType
  <1>5. At(b) = Cardinality(A) /\ At(b)' = Cardinality(B)
    BY DEF At
  <1> HIDE DEF A, B
  <1>6. QED BY <1>1, <1>2, <1>3, <1>4, <1>5

-----------------------------------------------------------------------------
(* The writer's steps. *)

LEMMA CountsTyped ==
  ASSUME TypeOK
  PROVE  /\ ten \in Counts /\ open \in Counts /\ fed \in Counts /\ lost \in Counts
         /\ now \in Nat /\ cut \in Nat /\ Buckets \subseteq Nat
         /\ \A b \in Buckets : ten[b] \in Nat /\ open[b] \in Nat /\ fed[b] \in Nat /\ lost[b] \in Nat
  BY Numbers DEF TypeOK, Counts, Buckets

\* Closing moves counts from the open buckets to the rows and to their parents; a bucket
\* with nothing open keeps its row.
LEMMA CloseEffect ==
  ASSUME TypeOK, NEW work \in Counts, NEW all \in BOOLEAN, Close(work, all)
  PROVE  /\ ten' \in Counts /\ open' \in Counts /\ parent' \in [Parents -> Nat]
         /\ \A b \in Buckets : /\ ten'[b] + open'[b] = ten[b] + work[b]
                               /\ open'[b] > 0 => b + 1 > now
                               /\ work[b] = 0 => ten'[b] = ten[b]
         /\ \A p \in Parents : parent[p] = Total(ten, Children(p))
                                 => parent'[p] = Total(ten', Children(p))
  <1> DEFINE due == {b \in Buckets : work[b] > 0 /\ (all \/ b + 1 <= now)}
  <1>1. /\ ten' = [b \in Buckets |-> IF b \in due THEN ten[b] + work[b] ELSE ten[b]]
        /\ parent' = [p \in Parents |-> parent[p] + Total(work, due \cap Children(p))]
        /\ open' = [b \in Buckets |-> IF b \in due THEN 0 ELSE work[b]]
    BY DEF Close
  <1>2. \A b \in Buckets : work[b] \in Nat /\ ten[b] \in Nat /\ b \in Nat /\ now \in Nat
    BY CountsTyped DEF Counts
  <1>3. ten' \in Counts /\ open' \in Counts
    BY <1>1, <1>2 DEF Counts
  <1>4. parent' \in [Parents -> Nat]
    <2>1. \A p \in Parents : parent[p] \in Nat /\ Total(work, due \cap Children(p)) \in Nat
      BY TotalNat DEF TypeOK
    <2> HIDE DEF due
    <2>2. QED BY <1>1, <2>1
  <1>5. \A b \in Buckets : /\ ten'[b] + open'[b] = ten[b] + work[b]
                           /\ open'[b] > 0 => b + 1 > now
                           /\ work[b] = 0 => ten'[b] = ten[b]
    BY <1>1, <1>2
  <1>6. ASSUME NEW p \in Parents, parent[p] = Total(ten, Children(p))
        PROVE  parent'[p] = Total(ten', Children(p))
    <2>1. \A b \in Buckets : Term(ten', Children(p), b) =
             Term(ten, Children(p), b) + Term(work, due \cap Children(p), b)
      BY <1>1, <1>2 DEF Term
    <2>2. Total(ten', Children(p)) =
             Total(ten, Children(p)) + Total(work, due \cap Children(p))
      <3>1. ten \in Counts
        BY CountsTyped
      <3>2. PICK after \in Counts : after = ten'
        BY <1>3
      <3>3. PICK part : part = due \cap Children(p)
        OBVIOUS
      <3>4. \A b \in Buckets : Term(after, Children(p), b) =
               Term(ten, Children(p), b) + Term(work, part, b)
        BY <2>1, <3>2, <3>3
      <3>5. Total(after, Children(p)) = Total(ten, Children(p)) + Total(work, part)
        BY <3>1, <3>4, TotalAdds
      <3>6. QED BY <3>2, <3>3, <3>5
    <2> HIDE DEF due
    <2>3. QED BY <1>1, <1>6, <2>2
  <1>7. QED BY <1>3, <1>4, <1>5, <1>6

\* The cascade makes every parent it looks at the sum of its children, when they have one.
LEMMA CascadeEffect ==
  ASSUME TypeOK, NEW built \in Counts, NEW S
  PROVE  /\ _cascade_parents(built, S) \in [Parents -> Nat]
         /\ \A p \in Parents :
              _cascade_parents(built, S)[p] =
                IF p \in S /\ Total(built, Children(p)) > 0 THEN Total(built, Children(p)) ELSE parent[p]
  <1>1. \A p \in Parents : Total(built, Children(p)) \in Nat /\ parent[p] \in Nat
    BY TotalNat DEF TypeOK
  <1>2. _cascade_parents(built, S) = [p \in Parents |->
          IF p \in S /\ Total(built, Children(p)) > 0 THEN Total(built, Children(p)) ELSE parent[p]]
    BY DEF _cascade_parents
  <1>3. QED BY <1>1, <1>2

-----------------------------------------------------------------------------
(* Types, whatever the caps reach. *)

LEMMA StoreCommit ==
  ASSUME StoreInv, NEW work \in Counts, NEW all \in BOOLEAN, Close(work, all),
         fed' \in Counts, arrivals' \in Nat, IsFiniteSet(traces'),
         traces' \subseteq [id : Nat, at : Buckets],
         UNCHANGED <<now, faults, pass, lost, excess, strained>>
  PROVE  StoreInv'
  <1>1. ten' \in Counts /\ open' \in Counts /\ parent' \in [Parents -> Nat]
    BY CloseEffect DEF StoreInv
  <1>2. TypeOK'
    BY <1>1 DEF StoreInv, TypeOK, Counts, pass
  <1>3. Held'
    BY DEF StoreInv, Held, pass, Looking
  <1>4. QED BY <1>2, <1>3 DEF StoreInv

LEMMA StoreReads ==
  ASSUME StoreInv,
         \/ Start \/ PendingAged \/ PendingOver \/ load_rollup_row \/ _gather_stats
         \/ NothingBuilt \/ ReadChildren \/ ReadParent \/ NothingRebuilt
  PROVE  StoreInv'
  <1>1. TypeOK /\ Held /\ IsFiniteSet(traces)
    BY DEF StoreInv
  <1>2. UNCHANGED <<now, arrivals, faults, traces, ten, parent, open, fed, lost>>
    BY DEF Start, PendingAged, PendingOver, load_rollup_row, _gather_stats, NothingBuilt,
           ReadChildren, ReadParent, NothingRebuilt, bounds, db, ghosts
  <1>3. now \in Buckets /\ key \in Buckets /\ todo \subseteq Buckets /\ todo \subseteq Nat
        /\ pending \subseteq Buckets
    BY <1>1, CountsTyped DEF TypeOK
  <1>4. CASE Start
    BY <1>1, <1>2, <1>3, <1>4 DEF Start, StoreInv, TypeOK, Held, Looking, Places, ghosts
  <1>5. CASE PendingAged
    <2>1. Aged(cut) \in SUBSET traces
      BY DEF Aged
    <2>2. Keys(Aged(cut)) \subseteq Buckets
      BY <1>1, <2>1, KeysTyped
    <2>3. QED BY <1>1, <1>2, <1>5, <2>2
              DEF PendingAged, StoreInv, TypeOK, Held, Looking, Places, ghosts
  <1>6. CASE PendingOver
    <2>1. Over \in SUBSET traces
      BY DEF Over
    <2>2. Keys(Over) \subseteq Buckets /\ Over \subseteq [id : Nat, at : Buckets]
      BY <1>1, <2>1, KeysTyped DEF TypeOK
    <2>3. strained' \in BOOLEAN
      BY <1>1, <1>6 DEF PendingOver, TypeOK
    <2>4. QED BY <1>1, <1>2, <1>6, <2>2, <2>3 DEF PendingOver, StoreInv, TypeOK, Held, Looking, Places
  <1>7. CASE load_rollup_row
    <2>1. PICK b \in todo : b = Min(todo)
      BY <1>3, <1>7, LeastOf DEF load_rollup_row
    <2>2. /\ UNCHANGED <<cut, pending, want, excess, strained>> /\ rpc = "load"
          /\ \/ todo' = todo \ {b} /\ UNCHANGED <<rpc, key>>
             \/ rpc' = "gather" /\ key' = b /\ UNCHANGED todo
      BY <1>7, <2>1 DEF load_rollup_row, ghosts
    <2>3. QED BY <1>1, <1>2, <1>3, <2>2 DEF StoreInv, TypeOK, Held, Looking, Places
  <1>8. CASE _gather_stats
    <2>1. At(key) \in Nat
      BY <1>1, AtNat
    <2>2. /\ UNCHANGED <<cut, pending, key, excess, strained>> /\ rpc = "gather" /\ want' = At(key)
          /\ \/ rpc' = "load" /\ todo' = todo \ {key}
             \/ want' # 0 /\ rpc' = "build" /\ UNCHANGED todo
      BY <1>8 DEF _gather_stats, ghosts
    <2>3. key \in todo /\ key \in pending
      BY <1>1, <2>2 DEF Held, Looking
    <2>4. want' \in Nat /\ (rpc' = "build" => want' > 0) /\ todo' \subseteq todo
          /\ rpc' \in {"load", "build"}
      <3>1. PICK n \in Nat : n = At(key)
        BY <2>1
      <3>2. QED BY <2>2, <3>1
    <2>5. TypeOK'
      BY <1>1, <1>2, <1>3, <2>2, <2>3, <2>4 DEF TypeOK, Places
    <2>6. Held'
      BY <1>1, <2>2, <2>3, <2>4 DEF Held, Looking
    <2>7. QED BY <1>1, <1>2, <2>5, <2>6 DEF StoreInv
  <1>9. CASE NothingBuilt
    <2>1. {ParentOf(b) : b \in pending} \subseteq Buckets
      BY <1>3, ParentInRange
    <2>2. QED BY <1>1, <1>2, <1>9, <2>1
              DEF NothingBuilt, StoreInv, TypeOK, Held, Looking, Places, ghosts
  <1>10. CASE ReadChildren
    <2>1. PICK k \in todo : k = Min(todo)
      BY <1>3, <1>10, LeastOf DEF ReadChildren
    <2>2. Total(ten, Children(k)) \in Nat
      BY <1>1, CountsTyped, TotalNat
    <2>3. /\ UNCHANGED <<cut, pending, excess, strained>> /\ rpc = "children"
          /\ key' = k /\ want' = Total(ten, Children(k))
          /\ todo' \subseteq todo /\ rpc' \in {"children", "parent"}
      BY <1>10, <2>1 DEF ReadChildren, ghosts
    <2>4. QED BY <1>1, <1>2, <1>3, <2>2, <2>3 DEF StoreInv, TypeOK, Held, Looking, Places
  <1>11. CASE ReadParent \/ NothingRebuilt
    <2>1. UNCHANGED <<cut, pending, key, want, excess, strained>> /\ todo' \subseteq todo
          /\ rpc' \in {"children", "rebuild", "prune"}
      BY <1>11 DEF ReadParent, NothingRebuilt, ghosts
    <2>2. QED BY <1>1, <1>2, <1>3, <2>1 DEF StoreInv, TypeOK, Held, Looking, Places
  <1>12. QED BY <1>4, <1>5, <1>6, <1>7, <1>8, <1>9, <1>10, <1>11

LEMMA StoreWrites ==
  ASSUME StoreInv, WriteRows \/ _prune_traces \/ _prune_rollups
  PROVE  StoreInv'
  <1>1. TypeOK /\ Held /\ IsFiniteSet(traces) /\ want \in Nat /\ key \in Buckets
    BY DEF StoreInv, TypeOK
  <1>2. UNCHANGED <<now, arrivals, faults, open, fed, lost, excess, strained>>
        /\ UNCHANGED <<cut, pending, todo, key, want>> /\ traces' \subseteq traces
        /\ rpc' \in {"prune", "rollups", "rest"}
    BY DEF WriteRows, _prune_traces, _prune_rollups, bounds, ghosts
  <1>3. IsFiniteSet(traces')
    BY <1>1, <1>2, FS_Subset
  <1>4. \A b \in Buckets : ten[b] \in Nat /\ At(b) \in Nat
    BY <1>1, CountsTyped, AtNat
  <1>5. ten' \in Counts
    <2>1. CASE WriteRows
      BY <1>1, <1>4, <2>1, CountsTyped DEF WriteRows, _build_pending, Counts
    <2>2. CASE _prune_traces \/ _prune_rollups
      <3>1. ten' = ten \/ \E D : ten' = [b \in Buckets |-> IF b \in D THEN 0 ELSE ten[b]]
        BY <2>2 DEF _prune_traces, _prune_rollups
      <3>2. QED BY <1>1, <1>4, <3>1, CountsTyped DEF Counts
    <2>3. QED BY <2>1, <2>2
  <1>6. parent' \in [Parents -> Nat]
    <2>1. CASE WriteRows
      <3>1. PICK after \in Counts : after = ten'
        BY <1>5
      <3>2. \A S : /\ _cascade_parents(after, S) \in [Parents -> Nat]
                   /\ _cascade_parents(ten, S) \in [Parents -> Nat]
        BY <1>1, CountsTyped, CascadeEffect
      <3>3. QED BY <1>1, <2>1, <3>1, <3>2 DEF WriteRows
    <2>2. CASE _prune_traces \/ _prune_rollups
      <3>1. parent' = parent \/ \E D : parent' = [p \in Parents |-> IF p * Width \in D THEN 0 ELSE parent[p]]
        BY <2>2 DEF _prune_traces, _prune_rollups
      <3>2. QED BY <1>1, <3>1 DEF TypeOK
    <2>3. QED BY <2>1, <2>2
  <1>7. QED BY <1>1, <1>2, <1>3, <1>5, <1>6 DEF StoreInv, TypeOK, Held, Looking, Places, Counts

LEMMA StoreStep == StoreInv /\ [Next]_vars => StoreInv'
  <1> SUFFICES ASSUME StoreInv, [Next]_vars PROVE StoreInv'
    OBVIOUS
  <1>1. TypeOK /\ Held /\ IsFiniteSet(traces)
    BY DEF StoreInv
  <1>2. ASSUME NEW b \in Buckets, NEW kept \in BOOLEAN, NEW all \in BOOLEAN, CommitTrace(b, kept, all)
        PROVE  StoreInv'
    <2>1. PICK work : work = [open EXCEPT ![b] = @ + 1]
      OBVIOUS
    <2>2. work \in Counts
      BY <1>1, <2>1, CountsTyped DEF Counts
    <2>3. fed' \in Counts /\ arrivals' \in Nat
      BY <1>1, <1>2, CountsTyped DEF CommitTrace, Counts, TypeOK
    <2>4. /\ Close(work, all) /\ UNCHANGED <<now, faults, pass, lost, excess, strained>>
          /\ traces' = IF kept THEN traces \cup {[id |-> arrivals, at |-> b]} ELSE traces
      BY <1>2, <2>1 DEF CommitTrace
    <2>5. IsFiniteSet(traces')
      BY <1>1, <2>4, FS_AddElement
    <2>6. traces' \subseteq [id : Nat, at : Buckets]
      BY <1>1, <2>4 DEF TypeOK
    <2>7. QED BY <2>2, <2>3, <2>4, <2>5, <2>6, StoreCommit
  <1>3. ASSUME NEW all \in BOOLEAN, CommitIdle(all) PROVE StoreInv'
    <2>1. Close(open, all) /\ UNCHANGED <<bounds, traces, pass, ghosts>> /\ open \in Counts /\ fed \in Counts
      BY <1>1, <1>3, CountsTyped DEF CommitIdle
    <2>2. QED BY <1>1, <2>1, StoreCommit DEF bounds, ghosts, TypeOK
  <1>4. CASE Tick
    <2>1. now' \in Buckets
      BY <1>1, <1>4, Numbers DEF Tick, TypeOK, Buckets
    <2>2. QED BY <1>1, <1>4, <2>1 DEF Tick, db, pass, ghosts, StoreInv, TypeOK, Held, Looking
  <1>5. CASE delete_traces
    <2>1. traces' \subseteq traces
      BY <1>5 DEF delete_traces
    <2>2. IsFiniteSet(traces')
      BY <1>1, <2>1, FS_Subset
    <2>3. QED BY <1>1, <1>5, <2>1, <2>2
              DEF delete_traces, bounds, pass, ghosts, StoreInv, TypeOK, Held, Looking
  <1>6. CASE Rest \/ Fails \/ Crash
    <2>1. /\ UNCHANGED <<now, arrivals, traces, ten, parent, fed, strained>>
          /\ faults' \in {faults, faults + 1} /\ Returns
      BY <1>6 DEF Rest, Fails, Crash, bounds, db
    <2>2. open' \in Counts /\ lost' \in Counts
      <3>1. \A b \in Buckets : lost[b] + open[b] \in Nat
        BY <1>1, CountsTyped
      <3>2. QED BY <1>1, <1>6, <3>1, CountsTyped DEF Rest, Fails, Crash, None, Counts
    <2>3. 0 \in Buckets
      BY Numbers DEF Buckets
    <2>4. QED BY <1>1, <2>1, <2>2, <2>3 DEF Returns, StoreInv, TypeOK, Held, Looking, Places, Counts
  <1>7. CASE UNCHANGED vars
    BY <1>1, <1>7 DEF vars, bounds, db, pass, ghosts, StoreInv, TypeOK, Held, Looking
  <1>8. QED BY <1>2, <1>3, <1>4, <1>5, <1>6, <1>7, StoreReads, StoreWrites DEF Next, Pass

LEMMA StoreInit == Init => StoreInv
  <1> SUFFICES ASSUME Init PROVE StoreInv
    OBVIOUS
  <1>1. 0 \in Buckets
    BY Numbers DEF Buckets
  <1>2. TypeOK
    BY <1>1 DEF Init, TypeOK, None, Places
  <1>3. IsFiniteSet(traces)
    BY FS_EmptySet DEF Init
  <1>4. QED BY <1>2, <1>3 DEF Init, StoreInv, Held, Looking

-----------------------------------------------------------------------------
(* The counts: the writer's steps. *)

\* A step that leaves the pass and the rows of settled buckets alone leaves what the pass
\* holds true.
LEMMA PassKept ==
  ASSUME TypeOK, PassSound, UNCHANGED pass, now' \in Nat, now <= now',
         ten' \in Counts, fed' \in Counts,
         \A b \in Buckets : fed[b] <= fed'[b],
         \A b \in Buckets : Settled(b) => ten'[b] = ten[b]
  PROVE  PassSound'
  <1>1. /\ rpc' = rpc /\ cut' = cut /\ pending' = pending /\ todo' = todo
        /\ key' = key /\ want' = want
    BY DEF pass
  <1>2. now \in Nat /\ cut \in Nat /\ pending \subseteq Buckets /\ ten \in Counts
        /\ todo \subseteq Buckets /\ key \in Buckets /\ want \in Nat
    BY CountsTyped DEF TypeOK
  <1>3. \A b \in pending : ParentSettled(ParentOf(b))'
    BY <1>2, CountsTyped, ParentBounds, ParentStaysSettled DEF PassSound
  <1>4. \A b \in pending : ten'[b] = ten[b]
    BY <1>2, SettledBucket DEF PassSound
  <1>5. ASSUME NEW p \in {ParentOf(b) : b \in pending}
        PROVE  Total(ten', Children(p)) = Total(ten, Children(p))
    <2>1. ParentSettled(p)
      BY DEF PassSound
    <2>2. ASSUME NEW b \in Buckets, b \in Children(p) PROVE ten'[b] = ten[b]
      <3>1. ParentOf(b) = p
        BY <2>2 DEF Children
      <3>2. QED BY <2>1, <3>1, SettledBucket
    <2>3. QED BY <1>2, <2>2, TotalSame
  <1>6. rpc \in {"gather", "build"} => key \in todo /\ ten'[key] = 0
    BY <1>2, <1>4 DEF PassSound, Looking
  <1>7. rpc = "build" => want <= fed'[key]
    BY <1>2, CountsTyped DEF PassSound, Counts
  <1>8. rpc \in {"parent", "rebuild"} => key \in todo /\ want = Total(ten', Children(key))
    BY <1>5 DEF PassSound, Checking
  <1>9. cut <= now'
    BY <1>2 DEF PassSound
  <1>10. QED BY <1>1, <1>3, <1>6, <1>7, <1>8, <1>9 DEF PassSound

LEMMA CommitTraceStep ==
  ASSUME RetInv, NEW b \in Buckets, NEW kept \in BOOLEAN, NEW all \in BOOLEAN,
         CommitTrace(b, kept, all), TypeOK'
  PROVE  RetInv'
  <1> DEFINE work == [open EXCEPT ![b] = @ + 1]
  <1>1. TypeOK
    BY DEF RetInv
  <1>2. /\ b <= now /\ b + Late >= now /\ b \in Nat /\ now \in Nat
        /\ arrivals' = arrivals + 1 /\ now' = now /\ UNCHANGED <<faults, lost>> /\ UNCHANGED pass
        /\ traces' = IF kept THEN traces \cup {[id |-> arrivals, at |-> b]} ELSE traces
        /\ Close(work, all) /\ fed' = [fed EXCEPT ![b] = @ + 1]
    BY <1>1, CountsTyped, Numbers DEF CommitTrace
  <1>3. work \in Counts /\ work[b] = open[b] + 1 /\ \A c \in Buckets : c # b => work[c] = open[c]
    BY <1>1, CountsTyped DEF Counts
  <1>4. fed' \in Counts /\ fed'[b] = fed[b] + 1 /\ \A c \in Buckets : c # b => fed'[c] = fed[c]
    BY <1>1, <1>2, CountsTyped DEF Counts
  <1>5. /\ ten' \in Counts /\ open' \in Counts /\ parent' \in [Parents -> Nat]
        /\ \A c \in Buckets : /\ ten'[c] + open'[c] = ten[c] + work[c]
                              /\ open'[c] > 0 => c + 1 > now
                              /\ work[c] = 0 => ten'[c] = ten[c]
        /\ \A p \in Parents : parent[p] = Total(ten, Children(p))
                                => parent'[p] = Total(ten', Children(p))
    BY <1>1, <1>2, <1>3, CloseEffect
  <1> HIDE DEF work
  <1>6. \A c \in Buckets : /\ ten[c] \in Nat /\ open[c] \in Nat /\ fed[c] \in Nat /\ lost[c] \in Nat
                           /\ ten'[c] \in Nat /\ open'[c] \in Nat /\ c \in Nat
    BY <1>1, <1>5, CountsTyped DEF Counts
  <1>7. NothingDoubleCounts'
    BY <1>3, <1>4, <1>5, <1>6 DEF NothingDoubleCounts, RetInv
  <1>8. NothingForgotten'
    <2>1. ASSUME NEW c \in Buckets, Fresh(c)' PROVE ten'[c] + open'[c] + lost'[c] >= fed'[c]
      <3>1. Fresh(c) /\ lost' = lost
        BY <1>2, <2>1 DEF Fresh
      <3>2. ten[c] + open[c] + lost[c] >= fed[c]
        BY <3>1 DEF RetInv, NothingForgotten
      <3>3. QED BY <1>3, <1>4, <1>5, <1>6, <3>1, <3>2
    <2>2. QED BY <2>1 DEF NothingForgotten
  <1>9. ParentsSum'
    BY <1>2, <1>5 DEF ParentsSum, Fresh, RetInv
  <1>10. OpenRecent'
    BY <1>2, <1>5, <1>6 DEF OpenRecent
  <1>11. StoredFed'
    <2>1. IsFiniteSet(traces) /\ \A c \in Buckets : At(c) <= fed[c] /\ At(c) \in Nat
      BY AtNat DEF RetInv, StoredFed
    <2>2. CASE kept
      <3> DEFINE x == [id |-> arrivals, at |-> b]
      <3>1. traces' = traces \cup {x} /\ x.at = b
        BY <1>2, <2>2
      <3> HIDE DEF x
      <3>2. IsFiniteSet(traces')
        BY <2>1, <3>1, FS_AddElement
      <3>3. ASSUME NEW c \in Buckets PROVE At(c)' <= fed'[c]
        <4>1. At(c)' <= At(c) + 1 /\ (x.at # c => At(c)' = At(c)) /\ At(c)' \in Nat
          BY <2>1, <3>1, AtGrows
        <4>2. QED BY <1>4, <1>6, <2>1, <3>1, <4>1
      <3>4. QED BY <3>2, <3>3 DEF StoredFed
    <2>3. CASE ~kept
      <3>1. traces' = traces
        BY <1>2, <2>3
      <3>2. \A c \in Buckets : At(c)' = At(c) /\ fed[c] <= fed'[c] /\ fed'[c] \in Nat
        BY <1>4, <1>6, <3>1 DEF At
      <3>3. QED BY <1>6, <2>1, <3>1, <3>2 DEF StoredFed
    <2>4. QED BY <2>2, <2>3
  <1>12. PassSound'
    <2>1. \A c \in Buckets : fed[c] <= fed'[c]
      BY <1>4, <1>6
    <2>2. ASSUME NEW c \in Buckets, Settled(c) PROVE ten'[c] = ten[c]
      <3>1. c # b /\ ~(c + 1 >= now)
        BY <1>2, <1>6, <2>2, Numbers DEF Settled
      <3>2. work[c] = 0
        BY <1>3, <1>6, <3>1 DEF RetInv, OpenRecent
      <3>3. QED BY <1>5, <3>2
    <2>3. PassSound
      BY DEF RetInv
    <2>4. QED BY <1>1, <1>2, <1>4, <1>5, <2>1, <2>2, <2>3, PassKept
  <1>13. QED BY <1>7, <1>8, <1>9, <1>10, <1>11, <1>12 DEF RetInv

LEMMA CommitIdleStep ==
  ASSUME RetInv, NEW all \in BOOLEAN, CommitIdle(all), TypeOK'
  PROVE  RetInv'
  <1>1. TypeOK /\ open \in Counts
    BY CountsTyped DEF RetInv
  <1>2. /\ Close(open, all) /\ traces' = traces /\ UNCHANGED pass /\ fed' = fed /\ lost' = lost
        /\ now' = now /\ arrivals' = arrivals /\ faults' = faults
    BY DEF CommitIdle, bounds, ghosts
  <1>3. /\ ten' \in Counts /\ open' \in Counts /\ parent' \in [Parents -> Nat]
        /\ \A c \in Buckets : /\ ten'[c] + open'[c] = ten[c] + open[c]
                              /\ open'[c] > 0 => c + 1 > now
                              /\ open[c] = 0 => ten'[c] = ten[c]
        /\ \A p \in Parents : parent[p] = Total(ten, Children(p))
                                => parent'[p] = Total(ten', Children(p))
    BY <1>1, <1>2, CloseEffect
  <1>4. \A c \in Buckets : /\ ten[c] \in Nat /\ open[c] \in Nat /\ fed[c] \in Nat /\ lost[c] \in Nat
                           /\ ten'[c] \in Nat /\ open'[c] \in Nat /\ c \in Nat /\ now \in Nat
    BY <1>1, <1>3, CountsTyped DEF Counts
  <1>5. NothingDoubleCounts' /\ NothingForgotten'
    <2>1. \A c \in Buckets : Fresh(c)' <=> Fresh(c)
      BY <1>2 DEF Fresh
    <2>2. QED BY <1>2, <1>3, <1>4, <2>1
          DEF NothingDoubleCounts, NothingForgotten, RetInv
  <1>6. ParentsSum'
    BY <1>2, <1>3 DEF ParentsSum, Fresh, RetInv
  <1>7. OpenRecent'
    BY <1>2, <1>3, <1>4 DEF OpenRecent
  <1>8. StoredFed'
    BY <1>2 DEF StoredFed, At, RetInv
  <1>9. PassSound'
    <2>1. ASSUME NEW c \in Buckets, Settled(c) PROVE ten'[c] = ten[c]
      <3>1. ~(c + 1 >= now)
        BY <1>4, <2>1, Numbers DEF Settled
      <3>2. open[c] = 0
        BY <1>4, <3>1 DEF RetInv, OpenRecent
      <3>3. QED BY <1>3, <3>2
    <2>2. \A c \in Buckets : fed[c] <= fed'[c]
      BY <1>2, <1>4
    <2>3. PassSound /\ now' \in Nat /\ now <= now' /\ fed' \in Counts
      BY <1>1, <1>2, CountsTyped DEF RetInv
    <2>4. QED BY <1>1, <1>2, <1>3, <2>1, <2>2, <2>3, PassKept
  <1>10. QED BY <1>5, <1>6, <1>7, <1>8, <1>9 DEF RetInv

LEMMA TickStep ==
  ASSUME RetInv, Tick, TypeOK'
  PROVE  RetInv'
  <1>1. TypeOK
    BY DEF RetInv
  <1>2. /\ now < MaxNow /\ (\A b \in Buckets : open[b] > 0 => b >= now) /\ now' = now + 1
        /\ UNCHANGED <<arrivals, faults, traces, ten, parent, open, fed, lost>> /\ UNCHANGED pass
    BY DEF Tick, db, ghosts
  <1>3. now \in Nat /\ now' \in Nat /\ now' \in Buckets /\ now <= now'
    BY <1>1, <1>2, Numbers DEF TypeOK, Buckets
  <1>4. \A b \in Nat : Fresh(b)' => Fresh(b)
    BY <1>2, <1>3, Numbers DEF Fresh
  <1>5. NothingDoubleCounts' /\ NothingForgotten'
    BY <1>1, <1>2, <1>4, CountsTyped
    DEF NothingDoubleCounts, NothingForgotten, RetInv
  <1>6. ParentsSum'
    <2>1. \A p \in Parents : p * Width \in Nat
      BY Numbers, ParentBounds DEF Parents
    <2>2. QED BY <1>2, <1>4, <2>1 DEF ParentsSum, RetInv
  <1>7. OpenRecent'
    BY <1>1, <1>2, <1>3, CountsTyped DEF OpenRecent
  <1>8. StoredFed'
    BY <1>2 DEF StoredFed, At, RetInv
  <1>9. PassSound'
    <2>1. ten' \in Counts /\ fed' \in Counts /\ \A b \in Buckets : fed[b] <= fed'[b]
      BY <1>1, <1>2, CountsTyped
    <2>2. PassSound /\ \A b \in Buckets : ten'[b] = ten[b]
      BY <1>2 DEF RetInv
    <2>3. QED BY <1>1, <1>2, <1>3, <2>1, <2>2, PassKept
  <1>10. QED BY <1>5, <1>6, <1>7, <1>8, <1>9 DEF RetInv

\* Deleting traces disturbs none of the counts.
LEMMA FewerTraces ==
  ASSUME RetInv, traces' \subseteq traces, TypeOK', PassSound',
         UNCHANGED <<now, ten, parent, open, fed, lost>>
  PROVE  RetInv'
  <1>1. TypeOK
    BY DEF RetInv
  <1>2. NothingDoubleCounts' /\ NothingForgotten' /\ ParentsSum' /\ OpenRecent'
    BY DEF NothingDoubleCounts, NothingForgotten, ParentsSum, OpenRecent, Fresh, RetInv
  <1>3. StoredFed'
    <2>1. IsFiniteSet(traces)
      BY DEF RetInv, StoredFed
    <2>2. IsFiniteSet(traces')
      BY <2>1, FS_Subset
    <2>3. ASSUME NEW b \in Buckets PROVE At(b)' <= fed'[b]
      <3>1. At(b)' <= At(b) /\ At(b)' \in Nat /\ At(b) \in Nat
        BY <2>1, AtShrinks, AtNat
      <3>2. At(b) <= fed[b] /\ fed[b] \in Nat
        BY <1>1, CountsTyped DEF RetInv, StoredFed
      <3>3. QED BY <3>1, <3>2
    <2>4. QED BY <2>2, <2>3 DEF StoredFed
  <1>4. QED BY <1>2, <1>3 DEF RetInv

LEMMA DeleteStep ==
  ASSUME RetInv, delete_traces, TypeOK'
  PROVE  RetInv'
  <1>1. TypeOK
    BY DEF RetInv
  <1>2. /\ traces' \subseteq traces /\ UNCHANGED <<now, ten, parent, open, fed, lost>>
        /\ UNCHANGED <<arrivals, faults>> /\ UNCHANGED pass
    BY DEF delete_traces, bounds, ghosts
  <1>3. PassSound'
    <2>1. ten' \in Counts /\ fed' \in Counts /\ now' \in Nat /\ now <= now'
          /\ \A b \in Buckets : fed[b] <= fed'[b]
      BY <1>1, <1>2, CountsTyped
    <2>2. PassSound /\ \A b \in Buckets : ten'[b] = ten[b]
      BY <1>2 DEF RetInv
    <2>3. QED BY <1>1, <1>2, <2>1, <2>2, PassKept
  <1>4. QED BY <1>2, <1>3, FewerTraces

-----------------------------------------------------------------------------
(* The pass. *)

LEMMA PassFacts ==
  ASSUME RetInv
  PROVE  TypeOK /\ PassSound
  BY DEF RetInv

LEMMA StartStep ==
  ASSUME RetInv, Start, TypeOK'
  PROVE  RetInv'
  <1>1. /\ traces' \subseteq traces /\ UNCHANGED <<now, ten, parent, open, fed, lost>>
        /\ UNCHANGED <<arrivals, faults, traces, pending, todo, key, want>>
        /\ rpc' = "aged" /\ cut' = now
    BY DEF Start, bounds, db, ghosts
  <1>2. PassSound'
    BY <1>1, PassFacts, CountsTyped DEF PassSound, ParentSettled, Looking, Checking
  <1>3. QED BY <1>1, <1>2, FewerTraces

LEMMA PendingAgedStep ==
  ASSUME AgeSpares, RetInv, PendingAged, TypeOK'
  PROVE  RetInv'
  <1>1. /\ traces' \subseteq traces /\ UNCHANGED <<now, ten, parent, open, fed, lost>>
        /\ UNCHANGED <<arrivals, faults, traces, cut, todo, key, want>>
        /\ rpc' = "over" /\ pending' = Keys(Aged(cut))
    BY DEF PendingAged, bounds, db, ghosts
  <1>2. Keys(Aged(cut)) \subseteq Buckets /\ \A b \in Keys(Aged(cut)) : \E t \in Aged(cut) : b = t.at
    <2>1. Aged(cut) \in SUBSET traces
      BY DEF Aged
    <2>2. QED BY <2>1, PassFacts, KeysTyped
  <1>3. \A b \in Keys(Aged(cut)) : ParentSettled(ParentOf(b))
    BY <1>2, PassFacts, AgedSettled DEF PassSound
  <1>4. PassSound'
    BY <1>1, <1>3, PassFacts DEF PassSound, ParentSettled, Looking, Checking
  <1>5. QED BY <1>1, <1>4, FewerTraces

LEMMA PendingOverStep ==
  ASSUME RetInv, CapSpares, PendingOver, TypeOK'
  PROVE  RetInv'
  <1>1. /\ traces' \subseteq traces /\ UNCHANGED <<now, ten, parent, open, fed, lost>>
        /\ UNCHANGED <<arrivals, faults, traces, cut, key, want>>
        /\ rpc' = "load" /\ pending' = pending \cup Keys(Over) /\ todo' = pending'
    BY DEF PendingOver, bounds, db, ghosts
  <1>2. Keys(Over) \subseteq Buckets /\ \A b \in Keys(Over) : \E t \in Over : b = t.at
    <2>1. Over \in SUBSET traces
      BY DEF Over
    <2>2. QED BY <2>1, PassFacts, KeysTyped
  <1>3. \A b \in pending' : ParentSettled(ParentOf(b))
    BY <1>1, <1>2, PassFacts DEF PassSound, CapSpares
  <1>4. PassSound'
    BY <1>1, <1>3, PassFacts DEF PassSound, ParentSettled, Looking, Checking
  <1>5. QED BY <1>1, <1>4, FewerTraces

LEMMA LoadStep ==
  ASSUME RetInv, load_rollup_row, TypeOK'
  PROVE  RetInv'
  <1> DEFINE b == Min(todo)
  <1>1. /\ traces' \subseteq traces /\ UNCHANGED <<now, ten, parent, open, fed, lost>>
        /\ UNCHANGED <<arrivals, faults, traces, cut, pending, want>>
        /\ rpc = "load" /\ todo # {}
        /\ IF HasRow(b) THEN todo' = todo \ {b} /\ UNCHANGED <<rpc, key>>
                        ELSE rpc' = "gather" /\ key' = b /\ UNCHANGED todo
    BY DEF load_rollup_row, bounds, db, ghosts
  <1>2. b \in todo
    BY <1>1, PassFacts, CountsTyped, LeastOf DEF TypeOK
  <1> HIDE DEF b
  <1>3. ~HasRow(b) => ten[b] = 0
    BY <1>2, PassFacts, CountsTyped DEF HasRow, TypeOK
  <1>4. PassSound'
    BY <1>1, <1>2, <1>3, PassFacts DEF PassSound, ParentSettled, Looking, Checking
  <1>5. QED BY <1>1, <1>4, FewerTraces

LEMMA GatherStep ==
  ASSUME RetInv, _gather_stats, TypeOK'
  PROVE  RetInv'
  <1>1. /\ traces' \subseteq traces /\ UNCHANGED <<now, ten, parent, open, fed, lost>>
        /\ UNCHANGED <<arrivals, faults, traces, cut, pending, key>>
        /\ rpc = "gather" /\ want' = At(key)
        /\ IF want' = 0 THEN rpc' = "load" /\ todo' = todo \ {key}
                        ELSE rpc' = "build" /\ UNCHANGED todo
    BY DEF _gather_stats, bounds, db, ghosts
  <1>2. At(key) \in Nat /\ At(key) <= fed[key] /\ key \in todo /\ key \in pending
    BY <1>1, PassFacts, AtNat DEF RetInv, StoredFed, TypeOK, PassSound, Looking
  <1>3. PassSound'
    BY <1>1, <1>2, PassFacts DEF PassSound, ParentSettled, Looking, Checking
  <1>4. QED BY <1>1, <1>3, FewerTraces

LEMMA NothingBuiltStep ==
  ASSUME RetInv, NothingBuilt, TypeOK'
  PROVE  RetInv'
  <1>1. /\ traces' \subseteq traces /\ UNCHANGED <<now, ten, parent, open, fed, lost>>
        /\ UNCHANGED <<arrivals, faults, traces, cut, pending, key, want>>
        /\ rpc' = "children" /\ todo' = {ParentOf(b) : b \in pending}
    BY DEF NothingBuilt, bounds, db, ghosts
  <1>2. {ParentOf(b) : b \in pending} \subseteq Buckets
    BY PassFacts, ParentInRange DEF TypeOK
  <1>3. PassSound'
    BY <1>1, PassFacts DEF PassSound, ParentSettled, Looking, Checking
  <1>4. QED BY <1>1, <1>3, FewerTraces

LEMMA ChildrenStep ==
  ASSUME RetInv, ReadChildren, TypeOK'
  PROVE  RetInv'
  <1>1. /\ traces' \subseteq traces /\ UNCHANGED <<now, ten, parent, open, fed, lost>>
        /\ UNCHANGED <<arrivals, faults, traces, cut, pending>>
        /\ rpc = "children" /\ todo # {}
        /\ key' = Min(todo) /\ want' = Total(ten, Children(key'))
        /\ IF want' = 0 THEN todo' = todo \ {key'} /\ UNCHANGED rpc
                        ELSE rpc' = "parent" /\ UNCHANGED todo
    BY DEF ReadChildren, bounds, db, ghosts
  <1>2. key' \in todo
    BY <1>1, PassFacts, CountsTyped, LeastOf DEF TypeOK
  <1>3. want' \in Nat
    BY <1>1, PassFacts, CountsTyped, TotalNat
  <1>4. PassSound'
    BY <1>1, <1>2, PassFacts DEF PassSound, ParentSettled, Looking, Checking
  <1>5. QED BY <1>1, <1>4, FewerTraces

LEMMA ParentStep ==
  ASSUME RetInv, ReadParent \/ NothingRebuilt, TypeOK'
  PROVE  RetInv'
  <1>1. /\ traces' \subseteq traces /\ UNCHANGED <<now, ten, parent, open, fed, lost>>
        /\ UNCHANGED <<arrivals, faults, traces, cut, pending, key, want>>
        /\ todo' \subseteq todo
        /\ \/ rpc = "parent" /\ rpc' = "children"
           \/ rpc = "parent" /\ rpc' = "rebuild" /\ todo' = todo
           \/ rpc' = "prune"
    BY DEF ReadParent, NothingRebuilt, bounds, db, ghosts
  <1>2. PassSound'
    BY <1>1, PassFacts DEF PassSound, ParentSettled, Looking, Checking
  <1>3. QED BY <1>1, <1>2, FewerTraces

\* Building rows raises the row of a pending bucket that had none, and no other.
LEMMA BuildEffect ==
  ASSUME RetInv, rpc = "build"
  PROVE  /\ _build_pending \in Counts /\ key \in pending
         /\ \A b \in Buckets : \/ _build_pending[b] = ten[b]
                               \/ /\ b \in pending /\ ten[b] = 0
                                  /\ _build_pending[b] <= fed[b] /\ open[b] = 0
  <1>1. TypeOK /\ PassSound
    BY PassFacts
  <1>2. /\ key \in todo /\ ten[key] = 0 /\ want <= fed[key] /\ todo \subseteq pending
        /\ key \in Buckets /\ pending \subseteq Buckets /\ want \in Nat
    BY <1>1 DEF PassSound, TypeOK, Looking
  <1>3. \A b \in Buckets : /\ ten[b] \in Nat /\ fed[b] \in Nat /\ open[b] \in Nat /\ b \in Nat
                           /\ At(b) \in Nat /\ At(b) <= fed[b] /\ now \in Nat
    BY <1>1, CountsTyped, AtNat DEF RetInv, StoredFed
  <1>4. \A b \in pending : open[b] = 0
    <2>1. ASSUME NEW b \in pending PROVE ~(b + 1 >= now)
      BY <1>1, <1>2, <1>3, SettledBucket DEF PassSound
    <2>2. QED BY <1>2, <1>3, <2>1 DEF RetInv, OpenRecent
  <1>5. _build_pending \in Counts
    BY <1>2, <1>3 DEF _build_pending, Counts
  <1>6. ASSUME NEW b \in Buckets
        PROVE  \/ _build_pending[b] = ten[b]
               \/ /\ b \in pending /\ ten[b] = 0
                  /\ _build_pending[b] <= fed[b] /\ open[b] = 0
    <2>1. _build_pending[b] = IF b = key THEN want
                              ELSE IF b \in todo /\ ~HasRow(b) THEN At(b) ELSE ten[b]
      BY DEF _build_pending
    <2>2. CASE b = key
      BY <1>2, <1>4, <2>1, <2>2
    <2>3. CASE b # key /\ b \in todo /\ ~HasRow(b)
      BY <1>2, <1>3, <1>4, <2>1, <2>3 DEF HasRow
    <2>4. QED BY <2>1, <2>2, <2>3
  <1>7. QED BY <1>2, <1>5, <1>6

LEMMA BuildStep ==
  ASSUME RetInv, WriteRows, rpc = "build", TypeOK'
  PROVE  RetInv'
  <1>1. TypeOK /\ PassSound
    BY PassFacts
  <1> DEFINE S == {ParentOf(b) : b \in pending}
  <1>2. /\ ten' = _build_pending /\ parent' = _cascade_parents(ten', S) /\ rpc' = "prune"
        /\ UNCHANGED <<now, arrivals, faults, traces, open, fed, lost>>
        /\ UNCHANGED <<cut, pending, todo, key, want>>
    BY DEF WriteRows, bounds, ghosts
  <1>3. /\ ten' \in Counts /\ key \in pending
        /\ \A b \in Buckets : \/ ten'[b] = ten[b]
                              \/ b \in pending /\ ten[b] = 0 /\ ten'[b] <= fed[b] /\ open[b] = 0
    BY <1>2, BuildEffect
  <1>4. \A b \in Buckets : /\ ten[b] \in Nat /\ ten'[b] \in Nat /\ open[b] \in Nat
                           /\ fed[b] \in Nat /\ lost[b] \in Nat
    BY <1>1, <1>3, CountsTyped DEF Counts
  <1>5. /\ parent' \in [Parents -> Nat]
        /\ \A p \in Parents : parent'[p] =
              IF p \in S /\ Total(ten', Children(p)) > 0 THEN Total(ten', Children(p)) ELSE parent[p]
    <2>1. PICK after \in Counts : after = ten'
      BY <1>3
    <2> HIDE DEF S
    <2>2. QED BY <1>1, <1>2, <2>1, CascadeEffect
  <1>6. NothingDoubleCounts' /\ NothingForgotten'
    BY <1>2, <1>3, <1>4 DEF NothingDoubleCounts, NothingForgotten, Fresh, RetInv
  <1>7. ParentsSum'
    <2>1. ASSUME NEW p \in Parents, Fresh(p * Width)' PROVE parent'[p] = Total(ten', Children(p))
      <3>1. parent[p] = Total(ten, Children(p))
        BY <1>2, <2>1 DEF Fresh, RetInv, ParentsSum
      <3>2. Total(ten', Children(p)) \in Nat /\ \A b \in Buckets : b \in Children(p) => ten'[b] <= Total(ten', Children(p))
        BY <1>3, TotalNat
      <3>3. CASE p \in S /\ Total(ten', Children(p)) > 0
        BY <1>5, <3>3
      <3>4. CASE ~(p \in S /\ Total(ten', Children(p)) > 0)
        <4>1. ASSUME NEW b \in Buckets, b \in Children(p) PROVE ten'[b] = ten[b]
          <5>1. CASE p \in S
            <6>1. ten'[b] = 0
              BY <1>4, <3>2, <3>4, <4>1, <5>1
            <6>2. QED BY <1>3, <6>1
          <5>2. CASE p \notin S
            <6>1. b \notin pending
              BY <4>1, <5>2 DEF Children
            <6>2. QED BY <1>3, <6>1
          <5>3. QED BY <5>1, <5>2
        <4>2. ten \in Counts
          BY <1>1, CountsTyped
        <4>3. Total(ten', Children(p)) = Total(ten, Children(p))
          BY <1>3, <4>1, <4>2, TotalSame
        <4>4. QED BY <1>5, <3>1, <3>4, <4>3
      <3>5. QED BY <3>3, <3>4
    <2>2. QED BY <2>1 DEF ParentsSum
  <1>8. OpenRecent' /\ StoredFed'
    BY <1>2 DEF OpenRecent, StoredFed, At, RetInv
  <1>9. PassSound'
    BY <1>1, <1>2 DEF PassSound, ParentSettled, Looking, Checking
  <1>10. QED BY <1>6, <1>7, <1>8, <1>9 DEF RetInv

LEMMA RebuildStep ==
  ASSUME RetInv, WriteRows, rpc = "rebuild", TypeOK'
  PROVE  RetInv'
  <1>1. TypeOK /\ PassSound /\ ten \in Counts
    BY PassFacts, CountsTyped
  <1>2. /\ ten' = ten /\ parent' = [_cascade_parents(ten, todo) EXCEPT ![key] = want] /\ rpc' = "prune"
        /\ UNCHANGED <<now, arrivals, faults, traces, open, fed, lost>>
        /\ UNCHANGED <<cut, pending, todo, key, want>>
    BY DEF WriteRows, bounds, ghosts
  <1>3. want = Total(ten, Children(key)) /\ want \in Nat
    BY <1>1 DEF PassSound, TypeOK
  <1>4. /\ _cascade_parents(ten, todo) \in [Parents -> Nat]
        /\ \A p \in Parents : _cascade_parents(ten, todo)[p] =
              IF p \in todo /\ Total(ten, Children(p)) > 0 THEN Total(ten, Children(p)) ELSE parent[p]
    BY <1>1, CascadeEffect
  <1>5. parent' \in [Parents -> Nat]
    BY <1>2, <1>3, <1>4
  <1>6. ASSUME NEW p \in Parents, parent[p] = Total(ten, Children(p))
        PROVE  parent'[p] = Total(ten, Children(p))
    BY <1>2, <1>3, <1>4, <1>6
  <1>7. ParentsSum'
    BY <1>2, <1>6 DEF ParentsSum, Fresh, RetInv
  <1>8. NothingDoubleCounts' /\ NothingForgotten' /\ OpenRecent' /\ StoredFed'
    BY <1>2 DEF NothingDoubleCounts, NothingForgotten, Fresh, OpenRecent, StoredFed, At, RetInv
  <1>9. PassSound'
    BY <1>1, <1>2 DEF PassSound, ParentSettled, Looking, Checking
  <1>10. QED BY <1>7, <1>8, <1>9 DEF RetInv

LEMMA PruneTracesStep ==
  ASSUME RetInv, _prune_traces, TypeOK'
  PROVE  RetInv'
  <1>1. /\ traces' \subseteq traces /\ UNCHANGED <<now, ten, parent, open, fed, lost>>
        /\ UNCHANGED <<arrivals, faults, cut, pending, todo, key, want>>
        /\ rpc' \in {"prune", "rollups"}
    BY DEF _prune_traces, bounds, ghosts
  <1>2. PassSound'
    BY <1>1, PassFacts DEF PassSound, ParentSettled, Looking, Checking
  <1>3. QED BY <1>1, <1>2, FewerTraces

LEMMA PruneRollupsStep ==
  ASSUME RetInv, _prune_rollups, TypeOK'
  PROVE  RetInv'
  <1> DEFINE Old == {b \in Buckets : b + RollAfter < cut /\ ten[b] > 0}
                    \cup {p * Width : p \in {q \in Parents : q * Width + RollAfter < cut /\ parent[q] > 0}}
  <1>1. TypeOK /\ PassSound /\ ten \in Counts
    BY PassFacts, CountsTyped
  <1>2. PICK D \in Chunks(Old) :
          /\ ten' = [b \in Buckets |-> IF b \in D THEN 0 ELSE ten[b]]
          /\ parent' = [p \in Parents |-> IF p * Width \in D THEN 0 ELSE parent[p]]
          /\ rpc' = IF Cardinality(D) < Chunk THEN "rest" ELSE "rollups"
    BY DEF _prune_rollups
  <1>3. UNCHANGED <<now, arrivals, faults, traces, open, fed, lost, cut, pending, todo, key, want>>
    BY DEF _prune_rollups, bounds, ghosts
  <1>4. \A b \in D : b + RollAfter < cut
    BY <1>2 DEF Chunks
  <1> HIDE DEF Old
  <1>5. \A b \in Buckets : ten[b] \in Nat /\ open[b] \in Nat /\ fed[b] \in Nat /\ lost[b] \in Nat
    BY <1>1, CountsTyped
  <1>6. ten' \in Counts /\ parent' \in [Parents -> Nat]
    BY <1>1, <1>2, <1>5 DEF TypeOK, Counts
  <1>7. \A b \in Nat : Fresh(b) => b \notin D
    BY <1>1, <1>4, CountsTyped, Numbers DEF Fresh, PassSound
  <1>8. NothingDoubleCounts'
    BY <1>2, <1>3, <1>5 DEF NothingDoubleCounts, RetInv
  <1>9. NothingForgotten'
    <2>1. ASSUME NEW b \in Buckets, Fresh(b)' PROVE ten'[b] = ten[b] /\ Fresh(b)
      BY <1>1, <1>2, <1>3, <1>7, <2>1, CountsTyped DEF Fresh
    <2>2. QED BY <1>3, <2>1 DEF NothingForgotten, RetInv
  <1>10. ParentsSum'
    <2>1. ASSUME NEW p \in Parents, Fresh(p * Width)' PROVE parent'[p] = Total(ten', Children(p))
      <3>1. Fresh(p * Width) /\ p * Width \in Nat
        BY <1>3, <2>1, Numbers, ParentBounds DEF Fresh, Parents
      <3>2. parent'[p] = parent[p] /\ parent[p] = Total(ten, Children(p))
        BY <1>2, <1>7, <3>1 DEF ParentsSum, RetInv
      <3>3. ASSUME NEW b \in Buckets, b \in Children(p) PROVE ten'[b] = ten[b]
        <4>1. b \in Nat /\ p * Width <= b
          BY <3>3, ChildBounds
        <4>2. Fresh(b)
          BY <1>1, <3>1, <4>1, CountsTyped, Numbers DEF Fresh
        <4>3. QED BY <1>2, <1>7, <4>1, <4>2
      <3>4. Total(ten', Children(p)) = Total(ten, Children(p))
        BY <1>1, <1>6, <3>3, TotalSame
      <3>5. QED BY <3>2, <3>4
    <2>2. QED BY <2>1 DEF ParentsSum
  <1>11. OpenRecent' /\ StoredFed'
    BY <1>3 DEF OpenRecent, StoredFed, At, RetInv
  <1>12. PassSound'
    BY <1>1, <1>2, <1>3 DEF PassSound, ParentSettled, Looking, Checking
  <1>13. QED BY <1>8, <1>9, <1>10, <1>11, <1>12 DEF RetInv

\* A pass that returns, fails or dies holds nothing.
LEMMA ReturnSound ==
  ASSUME TypeOK, Returns, now' = now
  PROVE  PassSound'
  <1>1. now' \in Nat
    BY CountsTyped
  <1>2. QED BY <1>1 DEF Returns, PassSound, Looking, Checking

LEMMA ReturnStep ==
  ASSUME RetInv, Rest \/ Fails, TypeOK'
  PROVE  RetInv'
  <1>1. /\ traces' \subseteq traces /\ UNCHANGED <<now, ten, parent, open, fed, lost>>
        /\ Returns
    BY DEF Rest, Fails, bounds, db
  <1>2. PassSound'
    BY <1>1, PassFacts, ReturnSound
  <1>3. QED BY <1>1, <1>2, FewerTraces

LEMMA CrashStep ==
  ASSUME RetInv, Crash, TypeOK'
  PROVE  RetInv'
  <1>1. TypeOK
    BY PassFacts
  <1>2. /\ UNCHANGED <<now, arrivals, traces, ten, parent, fed>> /\ faults' = faults + 1 /\ Returns
        /\ open' = None /\ lost' = [b \in Buckets |-> lost[b] + open[b]]
    BY DEF Crash, db
  <1>3. \A b \in Buckets : /\ ten[b] \in Nat /\ open[b] \in Nat /\ fed[b] \in Nat /\ lost[b] \in Nat
                           /\ open'[b] = 0 /\ lost'[b] = lost[b] + open[b]
    BY <1>1, <1>2, CountsTyped DEF None
  <1>4. PassSound'
    BY <1>1, <1>2, ReturnSound
  <1>5. NothingDoubleCounts' /\ NothingForgotten'
    BY <1>2, <1>3 DEF NothingDoubleCounts, NothingForgotten, Fresh, RetInv
  <1>6. ParentsSum' /\ OpenRecent' /\ StoredFed'
    BY <1>2, <1>3 DEF ParentsSum, Fresh, OpenRecent, StoredFed, At, RetInv
  <1>7. QED BY <1>4, <1>5, <1>6 DEF RetInv

LEMMA RetInit ==
  ASSUME Init
  PROVE  RetInv
  <1>1. \A b \in Buckets : ten[b] = 0 /\ open[b] = 0 /\ fed[b] = 0 /\ lost[b] = 0
    BY DEF Init, None
  <1>2. TypeOK
    BY StoreInit DEF StoreInv
  <1>3. NothingDoubleCounts /\ NothingForgotten /\ OpenRecent
    BY <1>1 DEF NothingDoubleCounts, NothingForgotten, OpenRecent
  <1>4. ParentsSum
    <2>1. \A p \in Parents : parent[p] = 0 /\ Total(ten, Children(p)) = 0
      BY <1>1, <1>2, CountsTyped, TotalOfNone DEF Init
    <2>2. QED BY <2>1 DEF ParentsSum
  <1>5. StoredFed
    <2>1. IsFiniteSet(traces)
      BY FS_EmptySet DEF Init
    <2>2. ASSUME NEW b \in Buckets PROVE At(b) = 0
      <3>1. {t \in traces : t.at = b} = {}
        BY DEF Init
      <3>2. QED BY <3>1, FS_EmptySet DEF At
    <2>3. QED BY <1>1, <2>1, <2>2 DEF StoredFed
  <1>6. PassSound
    BY DEF Init, PassSound, Looking, Checking
  <1>7. QED BY <1>2, <1>3, <1>4, <1>5, <1>6 DEF RetInv

LEMMA RetStep ==
  ASSUME AgeSpares, RetInv, TypeOK', ~strained', [Next]_vars
  PROVE  RetInv'
  <1>1. CASE \E b \in Buckets, kept, all \in BOOLEAN : CommitTrace(b, kept, all)
    BY <1>1, CommitTraceStep
  <1>2. CASE \E all \in BOOLEAN : CommitIdle(all)
    BY <1>2, CommitIdleStep
  <1>3. CASE Tick \/ delete_traces
    BY <1>3, TickStep, DeleteStep
  <1>4. CASE Start \/ PendingAged \/ PendingOver
    <2>1. PendingOver => CapSpares
      BY DEF PendingOver
    <2>2. QED BY <1>4, <2>1, StartStep, PendingAgedStep, PendingOverStep
  <1>5. CASE load_rollup_row \/ _gather_stats \/ NothingBuilt
    BY <1>5, LoadStep, GatherStep, NothingBuiltStep
  <1>6. CASE ReadChildren \/ ReadParent \/ NothingRebuilt
    BY <1>6, ChildrenStep, ParentStep
  <1>7. CASE WriteRows
    BY <1>7, BuildStep, RebuildStep DEF WriteRows
  <1>8. CASE _prune_traces \/ _prune_rollups
    BY <1>8, PruneTracesStep, PruneRollupsStep
  <1>9. CASE Rest \/ Fails \/ Crash
    BY <1>9, ReturnStep, CrashStep
  <1>10. CASE UNCHANGED vars
    BY <1>10 DEF vars, bounds, db, pass, ghosts, RetInv, TypeOK,
                 NothingDoubleCounts, NothingForgotten, ParentsSum, Fresh, OpenRecent,
                 StoredFed, At, PassSound, ParentSettled
  <1>11. QED BY <1>1, <1>2, <1>3, <1>4, <1>5, <1>6, <1>7, <1>8, <1>9, <1>10 DEF Next, Pass

LEMMA StrainStays ==
  ASSUME TypeOK, strained, [Next]_vars
  PROVE  strained'
  BY DEF Next, Pass, CommitTrace, CommitIdle, Tick, delete_traces, Start, PendingAged,
         PendingOver, load_rollup_row, _gather_stats, NothingBuilt, ReadChildren, ReadParent,
         NothingRebuilt, WriteRows, _prune_traces, _prune_rollups, Rest, Fails, Crash, vars,
         ghosts

\* Until a pass meets the count cap in a parent that is still being written, the invariant
\* behind the rollups holds: what a pass has read before its transaction is still true when
\* it writes (apply).
THEOREM RetentionInvariant ==
  ASSUME AgeSpares
  PROVE  Spec => [](StoreInv /\ (strained \/ RetInv))
  <1>1. Init => StoreInv /\ (strained \/ RetInv)
    BY StoreInit, RetInit
  <1>2. StoreInv /\ (strained \/ RetInv) /\ [Next]_vars => StoreInv' /\ (strained \/ RetInv)'
    <2> SUFFICES ASSUME StoreInv, strained \/ RetInv, [Next]_vars
                 PROVE  StoreInv' /\ (strained \/ RetInv)'
      OBVIOUS
    <2>1. StoreInv' /\ TypeOK /\ TypeOK'
      BY StoreStep DEF StoreInv
    <2>2. CASE strained
      BY <2>1, <2>2, StrainStays
    <2>3. CASE RetInv
      BY <2>1, <2>3, RetStep
    <2>4. QED BY <2>1, <2>2, <2>3
  <1>3. QED BY <1>1, <1>2, PTL DEF Spec

\* The rollups count every trace exactly once, through crashes, failed passes and deletes
\* by age or by count, until a pass meets the cap in a parent still being written (apply,
\* _commit).
THEOREM RollupsAreExact ==
  ASSUME AgeSpares
  PROVE  Spec => []CountsExact
  <1>1. StoreInv /\ (strained \/ RetInv) => CountsExact
    BY DEF RetInv, StoreInv, CountsExact
  <1>2. QED BY <1>1, RetentionInvariant, PTL

\* And charts of every step agree: a parent row is the sum of its 10 s rows, although a
\* pass compares and rebuilds it from rows read earlier (_cascade_parents).
THEOREM ParentsAlwaysAgree ==
  ASSUME AgeSpares
  PROVE  Spec => []ParentsAgree
  <1>1. StoreInv /\ (strained \/ RetInv) => ParentsAgree
    BY DEF RetInv, ParentsAgree
  <1>2. QED BY <1>1, RetentionInvariant, PTL

-----------------------------------------------------------------------------
(* No trace goes before its row exists. *)

\* Closing a bucket keeps it counted: what was open or in a row still is.
LEMMA CloseCovers ==
  ASSUME TypeOK, NEW work \in Counts, NEW all \in BOOLEAN, Close(work, all),
         NEW b \in Buckets, ten[b] > 0 \/ work[b] > 0
  PROVE  ten'[b] > 0 \/ open'[b] > 0
  <1>1. /\ ten[b] \in Nat /\ work[b] \in Nat /\ ten'[b] \in Nat /\ open'[b] \in Nat
        /\ ten'[b] + open'[b] = ten[b] + work[b]
    BY CloseEffect, CountsTyped DEF Counts
  <1>2. QED BY <1>1

LEMMA CommitCovers ==
  ASSUME StoreInv, Covered, NEW b \in Buckets, NEW kept \in BOOLEAN, NEW all \in BOOLEAN,
         CommitTrace(b, kept, all)
  PROVE  Covered'
  <1>1. TypeOK /\ b \in Buckets
    BY DEF StoreInv
  <1>2. PICK work : work = [open EXCEPT ![b] = @ + 1]
    OBVIOUS
  <1>3. work \in Counts /\ work[b] > 0 /\ \A c \in Buckets : open[c] > 0 => work[c] > 0
    BY <1>1, <1>2, CountsTyped DEF Counts
  <1>4. /\ Close(work, all) /\ \A t \in traces' : t \in traces \/ t.at = b
        /\ rpc' = rpc /\ cut' = cut /\ pending' = pending /\ todo' = todo /\ excess' = excess
    BY <1>2 DEF CommitTrace, pass
  <1>5. \A c \in Buckets : ten[c] > 0 \/ work[c] > 0 => ten'[c] > 0 \/ open'[c] > 0
    BY <1>1, <1>3, <1>4, CloseCovers
  <1>6. \A t \in traces : t.at \in Buckets
    BY <1>1 DEF TypeOK
  <1>7. QED BY <1>1, <1>3, <1>4, <1>5, <1>6 DEF Covered, Aged

LEMMA IdleCovers ==
  ASSUME StoreInv, Covered, NEW all \in BOOLEAN, CommitIdle(all)
  PROVE  Covered'
  <1>1. TypeOK /\ open \in Counts /\ Close(open, all)
    BY CountsTyped DEF StoreInv, CommitIdle
  <1>2. UNCHANGED <<traces, rpc, cut, pending, todo, excess>>
    BY DEF CommitIdle, pass, ghosts
  <1>3. \A c \in Buckets : ten[c] > 0 \/ open[c] > 0 => ten'[c] > 0 \/ open'[c] > 0
    BY <1>1, CloseCovers
  <1>4. \A t \in traces : t.at \in Buckets
    BY <1>1 DEF TypeOK
  <1>5. QED BY <1>2, <1>3, <1>4 DEF Covered, Aged

\* A step that reads, and leaves the traces and the rows alone.
LEMMA ReadsCover ==
  ASSUME StoreInv, Covered,
         \/ Start \/ PendingAged \/ PendingOver \/ load_rollup_row \/ _gather_stats
         \/ NothingBuilt \/ ReadChildren \/ ReadParent \/ NothingRebuilt
  PROVE  Covered'
  <1>1. UNCHANGED <<traces, ten, open>> /\ TypeOK /\ IsFiniteSet(traces) /\ Held
    BY DEF Start, PendingAged, PendingOver, load_rollup_row, _gather_stats, NothingBuilt,
           ReadChildren, ReadParent, NothingRebuilt, db, StoreInv
  <1>2. CASE Start
    BY <1>2 DEF Start, Covered, Deciding, Looking, Checking
  <1>3. CASE PendingAged
    <2>1. cut' = cut /\ excess' = excess /\ pending' = Keys(Aged(cut)) /\ rpc' = "over" /\ rpc = "aged"
      BY <1>3 DEF PendingAged, ghosts
    <2>2. excess = {}
      BY <2>1 DEF StoreInv, Held
    <2>3. \A t \in Aged(cut) : t.at + RollAfter >= cut => t.at \in Keys(Aged(cut))
      BY DEF Keys
    <2>4. QED BY <1>1, <2>1, <2>2, <2>3 DEF Covered, Aged, Looking
  <1>4. CASE PendingOver
    <2>1. /\ cut' = cut /\ excess' = Over /\ pending' = pending \cup Keys(Over) /\ todo' = pending'
          /\ rpc' = "load" /\ rpc = "over"
      BY <1>4 DEF PendingOver
    <2>2. \A t \in Over : t.at + RollAfter >= cut => t.at \in Keys(Over)
      BY DEF Keys
    <2>3. \A t \in traces : t \in Aged(cut) /\ t.at + RollAfter >= cut
            => ten[t.at] > 0 \/ open[t.at] > 0 \/ t.at \in pending
      BY <2>1 DEF Covered, Deciding
    <2>4. QED BY <1>1, <2>1, <2>2, <2>3 DEF Covered, Aged, Looking
  <1>5. CASE load_rollup_row
    <2>1. PICK b : b = Min(todo)
      OBVIOUS
    <2>2. /\ UNCHANGED <<cut, pending, excess>> /\ rpc = "load"
          /\ \/ ten[b] > 0 /\ todo' = todo \ {b} /\ rpc' = "load"
             \/ rpc' = "gather" /\ todo' = todo
      BY <1>5, <2>1 DEF load_rollup_row, HasRow, ghosts
    <2>3. QED BY <1>1, <2>2 DEF Covered, Deciding, Looking, Aged
  <1>6. CASE _gather_stats
    <2>1. /\ UNCHANGED <<cut, pending, excess>> /\ rpc = "gather"
          /\ \/ At(key) = 0 /\ todo' = todo \ {key} /\ rpc' = "load"
             \/ rpc' = "build" /\ todo' = todo
      BY <1>6 DEF _gather_stats, ghosts
    <2>2. At(key) = 0 => \A t \in traces : t.at # key
      BY <1>1, AtSome
    <2>3. QED BY <1>1, <2>1, <2>2 DEF Covered, Deciding, Looking, Aged
  <1>7. CASE NothingBuilt \/ ReadChildren \/ ReadParent \/ NothingRebuilt
    <2>1. /\ UNCHANGED <<cut, pending, excess>> /\ rpc' \in Checking \cup {"prune"}
          /\ \/ rpc = "load" /\ todo = {}
             \/ rpc \in Checking
      BY <1>7 DEF NothingBuilt, ReadChildren, ReadParent, NothingRebuilt, Checking, ghosts
    <2>2. \A t \in traces : t \in Aged(cut) \cup excess /\ t.at + RollAfter >= cut
            => ten[t.at] > 0 \/ open[t.at] > 0
      BY <2>1 DEF Covered, Deciding, Looking, Checking
    <2>3. QED BY <1>1, <2>1, <2>2 DEF Covered, Aged
  <1>8. QED BY <1>2, <1>3, <1>4, <1>5, <1>6, <1>7

LEMMA WritesCover ==
  ASSUME StoreInv, Covered, WriteRows \/ _prune_traces \/ _prune_rollups
  PROVE  Covered'
  <1>1. TypeOK /\ Held /\ IsFiniteSet(traces)
    BY DEF StoreInv
  <1>2. /\ UNCHANGED <<cut, pending, open, excess>> /\ traces' \subseteq traces
    BY DEF WriteRows, _prune_traces, _prune_rollups, ghosts
  <1>3. \A t \in traces : t.at \in Buckets
    BY <1>1 DEF TypeOK
  <1>4. CASE WriteRows /\ rpc = "build"
    <2>1. ten' = _build_pending /\ traces' = traces /\ rpc' = "prune"
      BY <1>4 DEF WriteRows
    <2>2. want > 0
      BY <1>1, <1>4 DEF TypeOK
    <2>3. ASSUME NEW t \in traces, t \in Aged(cut) \cup excess, t.at + RollAfter >= cut
          PROVE  ten'[t.at] > 0 \/ open[t.at] > 0
      <3>1. ten'[t.at] = IF t.at = key THEN want
                         ELSE IF t.at \in todo /\ ~HasRow(t.at) THEN At(t.at) ELSE ten[t.at]
        BY <1>3, <2>1 DEF _build_pending
      <3>2. At(t.at) \in Nat /\ At(t.at) # 0
        BY <1>1, AtNat, AtSome
      <3>3. ten[t.at] > 0 \/ open[t.at] > 0 \/ t.at \in todo
        BY <1>4, <2>3 DEF Covered, Deciding, Looking
      <3>4. QED BY <2>2, <3>1, <3>2, <3>3 DEF HasRow
    <2>4. QED BY <1>2, <2>1, <2>3 DEF Covered, Aged
  <1>5. CASE (WriteRows /\ rpc = "rebuild") \/ _prune_traces
    <2>1. ten' = ten /\ rpc \in Checking \cup {"prune"} /\ rpc' \in {"prune", "rollups"}
      BY <1>5 DEF WriteRows, _prune_traces, Checking
    <2>2. \A t \in traces : t \in Aged(cut) \cup excess /\ t.at + RollAfter >= cut
            => ten[t.at] > 0 \/ open[t.at] > 0
      BY <2>1 DEF Covered, Deciding, Looking, Checking
    <2>3. QED BY <1>2, <2>1, <2>2 DEF Covered, Aged
  <1>6. CASE _prune_rollups
    BY <1>6 DEF _prune_rollups, Covered, Deciding, Looking, Checking
  <1>7. QED BY <1>4, <1>5, <1>6 DEF WriteRows

LEMMA CoveredStep ==
  ASSUME StoreInv, Covered, [Next]_vars
  PROVE  Covered'
  <1>1. CASE Rest \/ Fails \/ Crash
    <2>1. rpc' = "idle"
      BY <1>1 DEF Rest, Fails, Crash, Returns
    <2>2. QED BY <2>1 DEF Covered, Deciding, Looking, Checking
  <1>2. CASE Tick \/ delete_traces \/ UNCHANGED vars
    <2>1. UNCHANGED <<ten, open, rpc, cut, pending, todo, excess>> /\ traces' \subseteq traces
      BY <1>2 DEF Tick, delete_traces, vars, db, pass, ghosts
    <2>2. QED BY <2>1 DEF Covered, Aged
  <1>3. CASE (\E b \in Buckets, kept, all \in BOOLEAN : CommitTrace(b, kept, all))
               \/ \E all \in BOOLEAN : CommitIdle(all)
    BY <1>3, CommitCovers, IdleCovers
  <1>4. QED BY <1>1, <1>2, <1>3, ReadsCover, WritesCover DEF Next, Pass

\* For any ages, any cap and any amount of traffic, what retention deletes for its age, or
\* because it was over the cap when the pass collected its keys, has a row, is still open
\* in the writer, or is past the rollup age: whatever a crash left without a row, the same
\* pass has built before (_pending_keys, _build_pending, _prune_traces).
THEOREM RowsPrecedePruning == Spec => RolledBeforePruned
  <1>1. Init => StoreInv /\ Covered
    BY StoreInit DEF Init, Covered, Deciding, Looking, Checking
  <1>2. StoreInv /\ Covered /\ [Next]_vars => StoreInv' /\ Covered'
    BY StoreStep, CoveredStep
  <1>3. StoreInv /\ Covered /\ [Next]_vars =>
          [_prune_traces => \A t \in traces \ traces' :
             t \in Aged(cut) \cup excess => HasCount(t)]_vars
    <2> SUFFICES ASSUME StoreInv, Covered, _prune_traces, NEW t \in traces \ traces',
                        t \in Aged(cut) \cup excess, ~(t.at + RollAfter < cut)
                 PROVE  ten[t.at] > 0 \/ open[t.at] > 0
      BY DEF HasCount
    <2>1. rpc = "prune"
      BY DEF _prune_traces
    <2>2. t.at \in Nat /\ cut \in Nat
      BY CountsTyped DEF StoreInv, TypeOK
    <2>3. t.at + RollAfter >= cut
      BY <2>2, Numbers
    <2>4. QED BY <2>1, <2>3 DEF Covered, Deciding, Looking
  <1>4. QED BY <1>1, <1>2, <1>3, PTL DEF Spec, RolledBeforePruned

-----------------------------------------------------------------------------
(* PART TWO: Pages. *)

LEMMA PageNumbers ==
  /\ Traces \subseteq Nat /\ IsFiniteSet(Traces)
  /\ \A t \in Traces : Started[t] \in Nat /\ Duration[t] \in Nat /\ t \in Nat
  /\ Filters \subseteq SUBSET Tags /\ \A f \in Filters : Cardinality(f) <= MaxTags
  /\ Windows \subseteq Nat \X Nat
  /\ MaxTags \in Nat /\ MaxEdits \in Nat /\ ExportCap \in Nat /\ Limit \in Nat /\ Limit > 0
  BY PagesAssumption

(* The two orders are strict and total. *)

LEMMA BeforeNot ==
  ASSUME NEW o \in Orders, NEW a \in Traces
  PROVE  ~Before(o, a, a)
  BY PageNumbers DEF Orders, Before

LEMMA BeforeTotal ==
  ASSUME NEW o \in Orders, NEW a \in Traces, NEW b \in Traces
  PROVE  a = b \/ Before(o, a, b) \/ Before(o, b, a)
  BY PageNumbers DEF Orders, Before

LEMMA BeforeAfter ==
  ASSUME NEW o \in Orders, NEW a \in Traces, NEW b \in Traces, NEW c \in Traces,
         Before(o, a, b), Before(o, b, c)
  PROVE  Before(o, a, c)
  BY PageNumbers DEF Orders, Before

-----------------------------------------------------------------------------
(* The place of a row in a set of rows. *)

Ahead(S, o, t) == {u \in S : Before(o, u, t)}

LEMMA PlaceAhead ==
  ASSUME NEW S, NEW o, NEW t
  PROVE  Place(o, S, t) = Cardinality(Ahead(S, o, t)) + 1
  BY DEF Place, Ahead

LEMMA PlaceRange ==
  ASSUME NEW S \in SUBSET Traces, NEW o \in Orders, NEW t \in S
  PROVE  /\ IsFiniteSet(S) /\ Cardinality(S) \in Nat
         /\ IsFiniteSet(Ahead(S, o, t)) /\ Place(o, S, t) \in 1..Cardinality(S)
  <1>1. IsFiniteSet(S) /\ Cardinality(S) \in Nat
    BY PageNumbers, FS_Subset, FS_CardinalityType
  <1>2. Ahead(S, o, t) \subseteq S /\ t \notin Ahead(S, o, t)
    BY BeforeNot DEF Ahead
  <1>3. /\ IsFiniteSet(Ahead(S, o, t)) /\ Cardinality(Ahead(S, o, t)) \in Nat
        /\ Cardinality(Ahead(S, o, t)) < Cardinality(S)
    BY <1>1, <1>2, FS_Subset, FS_CardinalityType
  <1>4. QED BY <1>1, <1>3, PlaceAhead

LEMMA PlaceGrows ==
  ASSUME NEW S \in SUBSET Traces, NEW o \in Orders, NEW a \in S, NEW b \in S, Before(o, a, b)
  PROVE  Place(o, S, a) < Place(o, S, b)
  <1>1. Ahead(S, o, a) \subseteq Ahead(S, o, b)
    BY BeforeAfter DEF Ahead
  <1>2. a \in Ahead(S, o, b) /\ a \notin Ahead(S, o, a)
    BY BeforeNot DEF Ahead
  <1>3. IsFiniteSet(Ahead(S, o, b)) /\ IsFiniteSet(Ahead(S, o, a))
    BY PlaceRange
  <1>4. PICK X : X = Ahead(S, o, a)
    OBVIOUS
  <1>5. PICK Y : Y = Ahead(S, o, b)
    OBVIOUS
  <1>6. X \in SUBSET Y /\ IsFiniteSet(Y) /\ X # Y
    BY <1>1, <1>2, <1>3, <1>4, <1>5
  <1>7. Cardinality(X) <= Cardinality(Y) /\ Cardinality(X) # Cardinality(Y)
    BY <1>6, FS_Subset
  <1>8. Cardinality(X) \in Nat /\ Cardinality(Y) \in Nat
    BY <1>3, <1>4, <1>5, FS_CardinalityType
  <1>9. QED BY <1>4, <1>5, <1>7, <1>8, PlaceAhead

LEMMA PlaceOrders ==
  ASSUME NEW S \in SUBSET Traces, NEW o \in Orders, NEW a \in S, NEW b \in S
  PROVE  /\ Place(o, S, a) < Place(o, S, b) => Before(o, a, b)
         /\ Place(o, S, a) = Place(o, S, b) => a = b
  <1>1. Place(o, S, a) \in Nat /\ Place(o, S, b) \in Nat
    BY PlaceRange
  <1>2. CASE Before(o, a, b)
    BY <1>1, <1>2, PlaceGrows
  <1>3. CASE Before(o, b, a)
    BY <1>1, <1>3, PlaceGrows
  <1>4. CASE a = b
    BY <1>1, <1>4
  <1>5. QED BY <1>2, <1>3, <1>4, BeforeTotal

\* Every place up to the size of the set is taken.
LEMMA PlaceTaken ==
  ASSUME NEW S \in SUBSET Traces, NEW o \in Orders, NEW i \in 1..Cardinality(S)
  PROVE  \E t \in S : Place(o, S, t) = i
  <1> DEFINE f == [t \in S |-> Place(o, S, t)]
             N == Cardinality(S)
  <1>1. IsFiniteSet(S) /\ N \in Nat
    BY PageNumbers, FS_Subset, FS_CardinalityType
  <1>2. f \in [S -> 1..N] /\ \A a, b \in S : f[a] = f[b] => a = b
    BY PlaceRange, PlaceOrders
  <1>3. f \in Injection(S, 1..N)
    <2> HIDE DEF f, N
    <2>1. QED BY <1>2 DEF Injection, IsInjective
  <1>4. IsFiniteSet(1..N) /\ Cardinality(1..N) = N
    <2> HIDE DEF N
    <2>1. QED BY <1>1, FS_Interval
  <1>5. f \in Surjection(S, 1..N)
    <2>1. Cardinality(S) = Cardinality(1..N)
      BY <1>4
    <2> HIDE DEF f, N
    <2>2. QED BY <1>3, <1>4, <2>1, FS_Injection
  <1>6. \E t \in S : f[t] = i
    <2>1. i \in 1..N
      OBVIOUS
    <2> HIDE DEF f, N
    <2>2. QED BY <1>5, <2>1 DEF Surjection
  <1>7. QED BY <1>6

-----------------------------------------------------------------------------
(* A page of S: its first rows, in the order, and the rest comes after them. *)

LEMMA PageSize ==
  ASSUME NEW S \in SUBSET Traces
  PROVE  /\ Cardinality(S) \in Nat /\ Min({Limit, Cardinality(S)}) \in Nat
         /\ Min({Limit, Cardinality(S)}) <= Limit
         /\ Min({Limit, Cardinality(S)}) <= Cardinality(S)
         /\ Min({Limit, Cardinality(S)}) \in {Limit, Cardinality(S)}
  <1>1. Cardinality(S) \in Nat /\ Limit \in Nat
    BY PageNumbers, FS_Subset, FS_CardinalityType
  <1>2. PICK n \in {Limit, Cardinality(S)} : n <= Limit /\ n <= Cardinality(S)
    BY <1>1
  <1>3. QED BY <1>1, <1>2 DEF Min

LEMMA PageRow ==
  ASSUME NEW S \in SUBSET Traces, NEW o \in Orders, NEW i \in DOMAIN Page(o, S)
  PROVE  i \in Nat /\ i > 0 /\ Page(o, S)[i] \in S /\ Place(o, S, Page(o, S)[i]) = i
  <1>1. i \in 1 .. Min({Limit, Cardinality(S)})
        /\ Page(o, S)[i] = CHOOSE t \in S : Place(o, S, t) = i
    BY DEF Page
  <1>2. i \in 1..Cardinality(S)
    BY <1>1, PageSize
  <1>3. QED BY <1>1, <1>2, PlaceTaken

LEMMA PageType ==
  ASSUME NEW S \in SUBSET Traces, NEW o \in Orders
  PROVE  /\ Page(o, S) \in Seq(Traces) /\ DOMAIN Page(o, S) = 1..Len(Page(o, S))
         /\ Len(Page(o, S)) = Min({Limit, Cardinality(S)})
  <1>1. DOMAIN Page(o, S) = 1 .. Min({Limit, Cardinality(S)})
    BY DEF Page
  <1>2. PICK n \in Nat : n = Min({Limit, Cardinality(S)})
    BY PageSize
  <1>3. Page(o, S) = [i \in 1..n |-> Page(o, S)[i]]
    BY <1>2 DEF Page
  <1>4. \A i \in 1..n : Page(o, S)[i] \in Traces
    BY <1>1, <1>2, PageRow
  <1>5. PICK p : p = Page(o, S)
    OBVIOUS
  <1>6. p \in [1..n -> Traces]
    BY <1>3, <1>4, <1>5
  <1>7. p \in Seq(Traces) /\ Len(p) = n
    <2>1. p \in Seq(Traces)
      BY <1>6, SeqDef
    <2>2. DOMAIN p = 1..n /\ DOMAIN p = 1..Len(p) /\ Len(p) \in Nat
      BY <1>6, <2>1, LenProperties
    <2>3. QED BY <2>1, <2>2
  <1>8. QED BY <1>1, <1>2, <1>5, <1>7

LEMMA PageInOrder ==
  ASSUME NEW S \in SUBSET Traces, NEW o \in Orders
  PROVE  \A i, j \in 1..Len(Page(o, S)) : i < j => Before(o, Page(o, S)[i], Page(o, S)[j])
  <1>1. SUFFICES ASSUME NEW i \in 1..Len(Page(o, S)), NEW j \in 1..Len(Page(o, S)), i < j
                 PROVE  Before(o, Page(o, S)[i], Page(o, S)[j])
    OBVIOUS
  <1>2. i \in DOMAIN Page(o, S) /\ j \in DOMAIN Page(o, S)
    BY PageType
  <1>3. QED BY <1>1, <1>2, PageRow, PlaceOrders

\* A row that is not on the page comes after every row of it, and there are more rows than
\* a page holds.
LEMMA PageRest ==
  ASSUME NEW S \in SUBSET Traces, NEW o \in Orders, NEW t \in S,
         \A i \in 1..Len(Page(o, S)) : Page(o, S)[i] # t
  PROVE  /\ Cardinality(S) > Limit
         /\ \A i \in 1..Len(Page(o, S)) : Before(o, Page(o, S)[i], t)
  <1>1. PICK k \in 1..Cardinality(S) : k = Place(o, S, t)
    BY PlaceRange
  <1>2. /\ Cardinality(S) \in Nat /\ Limit \in Nat /\ Len(Page(o, S)) \in Nat
        /\ Len(Page(o, S)) <= Cardinality(S)
        /\ Len(Page(o, S)) = Limit \/ Len(Page(o, S)) = Cardinality(S)
    <2>1. PICK n : n = Min({Limit, Cardinality(S)})
      OBVIOUS
    <2>2. /\ Cardinality(S) \in Nat /\ n \in Nat /\ n <= Cardinality(S)
          /\ n \in {Limit, Cardinality(S)}
      BY <2>1, PageSize
    <2>3. Len(Page(o, S)) = n
      BY <2>1, PageType
    <2>4. QED BY <2>2, <2>3, PageNumbers
  <1>3. k > Len(Page(o, S))
    <2>1. SUFFICES ASSUME k <= Len(Page(o, S)) PROVE FALSE
      BY <1>2
    <2>2. k \in 1..Len(Page(o, S))
      BY <1>2, <2>1
    <2>3. Page(o, S)[k] \in S /\ Place(o, S, Page(o, S)[k]) = k
      BY <2>2, PageRow, PageType
    <2>4. Page(o, S)[k] = t
      BY <1>1, <2>3, PlaceOrders
    <2>5. QED BY <2>2, <2>4
  <1>4. Cardinality(S) > Limit
    BY <1>2, <1>3
  <1>5. ASSUME NEW i \in 1..Len(Page(o, S)) PROVE Before(o, Page(o, S)[i], t)
    <2>1. i \in Nat /\ Page(o, S)[i] \in S /\ Place(o, S, Page(o, S)[i]) = i
      BY PageRow, PageType
    <2>2. i < k
      BY <1>2, <1>3, <2>1
    <2>3. QED BY <1>1, <2>1, <2>2, PlaceOrders
  <1>6. QED BY <1>4, <1>5

-----------------------------------------------------------------------------
(* The scroll.  Besides what the runs check: until its end every steady row was shown, or *)
(* more rows were promised and it comes after all that were shown; and steady rows match. *)

Scrolls == [table : Tables, order : Orders, want : SUBSET Tags, window : Windows,
            export : BOOLEAN, shown : Seq(Traces),
            step : {"new", "selected", "asked", "end"}, more : BOOLEAN, total : Nat]

Promised == scroll.step \in {"selected", "asked"} =>
              \A t \in steady : Shown(t) \/ (scroll.more /\ Beyond(t))
Unread   == scroll.step = "new" => scroll.shown = <<>>
Stays    == \A t \in steady : Matches(t)

PagesInv == /\ ListingSound /\ scroll \in Scrolls
            /\ Unread /\ Stays /\ Promised /\ NothingSkipped

LEMMA PagesInvInit == PagesInit => PagesInv
  <1> SUFFICES ASSUME PagesInit PROVE PagesInv
    OBVIOUS
  <1>1. scroll \in Scrolls /\ scroll.shown = <<>> /\ scroll.step = "new"
    BY PageNumbers DEF PagesInit, Scrolls
  <1>2. PagesTypeOK
    <2>1. Cardinality({}) <= MaxTags
      BY FS_EmptySet, PageNumbers
    <2>2. tags \in [Traces -> SUBSET Tags] /\ \A t \in Traces : tags[t] = {}
      BY DEF PagesInit
    <2>3. user \in [Users -> [op : {"idle", "tag", "score"}, trace : Traces \cup {0},
                              tags : SUBSET Tags]]
      BY DEF PagesInit, NoUser
    <2>4. scroll.table \in Tables /\ scroll.order \in Orders /\ scroll.shown \in Seq(Traces) /\ scroll.total \in Nat
      BY <1>1 DEF Scrolls
    <2>5. written \subseteq Traces /\ rows \subseteq written /\ scores \subseteq Traces /\ steady \subseteq rows
      BY DEF PagesInit
    <2>6. edits \in 0..MaxEdits
      BY PageNumbers DEF PagesInit
    <2>7. \A t \in Traces : Cardinality(tags[t]) <= MaxTags
      BY <2>1, <2>2
    <2>8. QED BY <1>1, <2>2, <2>3, <2>4, <2>5, <2>6, <2>7 DEF PagesTypeOK
  <1>3. ShownInOrder
    BY <1>1 DEF ShownInOrder
  <1>4. NoOrphanScore /\ Stays
    BY DEF PagesInit, NoOrphanScore, Stays
  <1>5. Unread /\ Promised /\ NothingSkipped
    BY <1>1 DEF Unread, Promised, NothingSkipped
  <1>6. QED BY <1>1, <1>2, <1>3, <1>4, <1>5 DEF PagesInv, ListingSound

\* What others commit leaves the scroll alone; it keeps its promises to the steady rows.
LEMMA OthersKeep ==
  ASSUME PagesInv, scroll' = scroll, steady' \subseteq steady, PagesTypeOK', NoOrphanScore', Stays'
  PROVE  PagesInv'
  <1>1. scroll' \in Scrolls /\ ShownInOrder' /\ Unread'
    BY DEF PagesInv, ListingSound, ShownInOrder, Unread
  <1>2. Promised'
    BY DEF PagesInv, Promised, Shown, Beyond
  <1>3. NothingSkipped'
    BY DEF PagesInv, NothingSkipped, Shown, Beyond, Capped
  <1>4. QED BY <1>1, <1>2, <1>3 DEF PagesInv, ListingSound

LEMMA InsertKeeps ==
  ASSUME PagesInv, NEW t \in Traces, insert_trace(t)
  PROVE  PagesInv'
  <1>1. PagesTypeOK /\ NoOrphanScore /\ Stays
    BY DEF PagesInv, ListingSound
  <1>2. PICK g \in Filters : tags' = [tags EXCEPT ![t] = g]
    BY DEF insert_trace
  <1>3. g \in SUBSET Tags /\ Cardinality(g) <= MaxTags
    BY PageNumbers
  <1>4. tags' \in [Traces -> SUBSET Tags] /\ \A u \in Traces : Cardinality(tags'[u]) <= MaxTags
    BY <1>1, <1>2, <1>3 DEF PagesTypeOK
  <1>5. PagesTypeOK'
    BY <1>1, <1>4 DEF PagesTypeOK, insert_trace
  <1>6. NoOrphanScore'
    BY <1>1 DEF NoOrphanScore, insert_trace
  <1>7. Stays'
    <2>1. ASSUME NEW u \in steady' PROVE Matches(u)'
      <3>1. u \in steady /\ u \in rows /\ u # t /\ u \in Traces
        BY <1>1 DEF insert_trace, PagesTypeOK
      <3>2. tags'[u] = tags[u]
        BY <1>1, <1>2, <3>1 DEF PagesTypeOK
      <3>3. QED BY <1>1, <3>1, <3>2 DEF Stays, Matches, InWindow, insert_trace
    <2>2. QED BY <2>1 DEF Stays
  <1>8. scroll' = scroll /\ steady' \subseteq steady
    BY DEF insert_trace
  <1>9. QED BY <1>5, <1>6, <1>7, <1>8, OthersKeep

LEMMA DeleteKeeps ==
  ASSUME PagesInv, NEW S, Delete(S), edits < MaxEdits, edits' = edits + 1
  PROVE  PagesInv'
  <1>1. PagesTypeOK /\ NoOrphanScore /\ Stays
    BY DEF PagesInv, ListingSound
  <1>2. edits' \in 0..MaxEdits
    BY <1>1, PageNumbers DEF PagesTypeOK
  <1>3. PagesTypeOK'
    BY <1>1, <1>2 DEF PagesTypeOK, Delete, Steady
  <1>4. NoOrphanScore'
    BY <1>1 DEF NoOrphanScore, Delete
  <1>5. Stays'
    BY <1>1 DEF Stays, Matches, InWindow, Delete, Steady
  <1>6. scroll' = scroll /\ steady' \subseteq steady
    BY DEF Delete, Steady
  <1>7. QED BY <1>3, <1>4, <1>5, <1>6, OthersKeep

LEMMA ReadKeeps ==
  ASSUME PagesInv, NEW u \in Users, NEW op \in {"tag", "score"}, NEW t \in Traces,
         ReadTrace(u, op, t)
  PROVE  PagesInv'
  <1>1. PagesTypeOK /\ NoOrphanScore /\ Stays
    BY DEF PagesInv, ListingSound
  <1>2. edits' \in 0..MaxEdits
    BY <1>1, PageNumbers DEF PagesTypeOK, ReadTrace, OnTraces
  <1>3. user' \in [Users -> [op : {"idle", "tag", "score"}, trace : Traces \cup {0},
                             tags : SUBSET Tags]]
    BY <1>1 DEF PagesTypeOK, ReadTrace
  <1>4. PagesTypeOK'
    BY <1>1, <1>2, <1>3 DEF PagesTypeOK, ReadTrace
  <1>5. NoOrphanScore' /\ Stays'
    BY <1>1 DEF NoOrphanScore, Stays, Matches, InWindow, ReadTrace
  <1>6. QED BY <1>4, <1>5, OthersKeep DEF ReadTrace

LEMMA UserIdles ==
  ASSUME PagesTypeOK, NEW u \in Users, user' = [user EXCEPT ![u] = NoUser]
  PROVE  user' \in [Users -> [op : {"idle", "tag", "score"}, trace : Traces \cup {0},
                              tags : SUBSET Tags]]
  BY DEF PagesTypeOK, NoUser

LEMMA TagKeeps ==
  ASSUME PagesInv, NEW u \in Users, NEW add \in SUBSET Tags, NEW remove, set_trace_tags(u, add, remove)
  PROVE  PagesInv'
  <1>1. PagesTypeOK /\ NoOrphanScore /\ Stays
    BY DEF PagesInv, ListingSound
  <1>2. PICK g \in SUBSET Tags : g = (user[u].tags \ remove) \cup add
    BY <1>1 DEF PagesTypeOK
  <1>3. /\ tags' = IF Fits(g) /\ user[u].trace \in rows
                   THEN [tags EXCEPT ![user[u].trace] = g] ELSE tags
        /\ steady' = Steady(rows, tags') /\ user' = [user EXCEPT ![u] = NoUser]
        /\ UNCHANGED <<written, rows, scores, scroll, edits>>
    BY <1>2 DEF set_trace_tags
  <1>4. tags' \in [Traces -> SUBSET Tags] /\ \A t \in Traces : Cardinality(tags'[t]) <= MaxTags
    BY <1>1, <1>3 DEF PagesTypeOK, Fits
  <1>5. steady' \subseteq steady
    BY <1>3 DEF Steady
  <1>6. PagesTypeOK'
    BY <1>1, <1>3, <1>4, <1>5, UserIdles DEF PagesTypeOK
  <1>7. NoOrphanScore' /\ Stays'
    BY <1>1, <1>3 DEF NoOrphanScore, Stays, Matches, InWindow, Steady
  <1>8. QED BY <1>3, <1>5, <1>6, <1>7, OthersKeep

LEMMA ScoreKeeps ==
  ASSUME PagesInv, NEW u \in Users, insert_scores(u)
  PROVE  PagesInv'
  <1>1. PagesTypeOK /\ NoOrphanScore /\ Stays
    BY DEF PagesInv, ListingSound
  <1>2. scores' \subseteq rows /\ user' = [user EXCEPT ![u] = NoUser]
        /\ UNCHANGED <<written, rows, tags, scroll, steady, edits>>
    BY <1>1 DEF insert_scores, NoOrphanScore
  <1>3. PagesTypeOK'
    BY <1>1, <1>2, UserIdles DEF PagesTypeOK
  <1>4. NoOrphanScore' /\ Stays'
    BY <1>1, <1>2 DEF NoOrphanScore, Stays, Matches, InWindow
  <1>5. QED BY <1>2, <1>3, <1>4, OthersKeep

-----------------------------------------------------------------------------
(* The next page, appended to what was shown; and what export cuts off. *)

Holds(s, t)      == \E i \in 1..Len(s) : s[i] = t
AllBefore(o, s, t) == \A i \in 1..Len(s) : Before(o, s[i], t)
Sorted(o, s)     == \A i, j \in 1..Len(s) : i < j => Before(o, s[i], s[j])

\* Rows that come after the last one of a sorted list come after all of them.
LEMMA BehindCursor ==
  ASSUME NEW o \in Orders, NEW s \in Seq(Traces), NEW t \in Traces, Sorted(o, s),
         s # <<>> => Before(o, s[Len(s)], t)
  PROVE  AllBefore(o, s, t)
  <1>1. SUFFICES ASSUME NEW i \in 1..Len(s) PROVE Before(o, s[i], t)
    BY DEF AllBefore
  <1>2. Len(s) \in Nat /\ Len(s) \in 1..Len(s) /\ s # <<>> /\ s[i] \in Traces /\ s[Len(s)] \in Traces
    BY LenProperties
  <1>3. CASE i = Len(s)
    BY <1>2, <1>3
  <1>4. CASE i < Len(s)
    <2>1. Before(o, s[i], s[Len(s)])
      BY <1>2, <1>4 DEF Sorted
    <2>2. QED BY <1>2, <2>1, BeforeAfter
  <1>5. QED BY <1>2, <1>3, <1>4

LEMMA PageAppended ==
  ASSUME NEW o \in Orders, NEW s \in Seq(Traces), NEW S \in SUBSET Traces, Sorted(o, s),
         \A t \in S : s # <<>> => Before(o, s[Len(s)], t)
  PROVE  /\ s \o Page(o, S) \in Seq(Traces) /\ Sorted(o, s \o Page(o, S))
         /\ \A t \in Traces : Holds(s, t) => Holds(s \o Page(o, S), t)
         /\ \A t \in S : \/ Holds(s \o Page(o, S), t)
                         \/ Cardinality(S) > Limit /\ AllBefore(o, s \o Page(o, S), t)
         /\ \A t \in Traces : Holds(s \o Page(o, S), t) => Holds(s, t) \/ t \in S
  <1>1. PICK p : p = Page(o, S)
    OBVIOUS
  <1>2. p \in Seq(Traces)
    BY <1>1, PageType
  <1>3. PICK w : w = s \o p
    OBVIOUS
  <1>4. /\ w \in Seq(Traces) /\ Len(w) = Len(s) + Len(p) /\ Len(s) \in Nat /\ Len(p) \in Nat
        /\ \A i \in 1..Len(s) : i \in 1..Len(w) /\ w[i] = s[i]
        /\ \A i \in 1..Len(p) : Len(s) + i \in 1..Len(w) /\ w[Len(s) + i] = p[i]
        /\ \A i \in 1..Len(w) : i \in 1..Len(s) \/ \E k \in 1..Len(p) : i = Len(s) + k
    <2>1. w \in Seq(Traces) /\ Len(w) = Len(s) + Len(p) /\ Len(s) \in Nat /\ Len(p) \in Nat
      BY <1>2, <1>3, ConcatProperties, LenProperties
    <2>2. \A i \in 1..Len(s) + Len(p) : w[i] = IF i <= Len(s) THEN s[i] ELSE p[i - Len(s)]
      BY <1>2, <1>3, ConcatProperties
    <2>3. \A i \in 1..Len(s) : i \in 1..Len(w) /\ w[i] = s[i]
      BY <2>1, <2>2
    <2>4. ASSUME NEW i \in 1..Len(p) PROVE Len(s) + i \in 1..Len(w) /\ w[Len(s) + i] = p[i]
      <3>1. Len(s) + i \in 1..Len(s) + Len(p) /\ ~(Len(s) + i <= Len(s)) /\ (Len(s) + i) - Len(s) = i
        BY <2>1
      <3>2. QED BY <2>1, <2>2, <3>1
    <2>5. ASSUME NEW i \in 1..Len(w), ~(i \in 1..Len(s)) PROVE \E k \in 1..Len(p) : i = Len(s) + k
      <3>1. i - Len(s) \in 1..Len(p) /\ i = Len(s) + (i - Len(s))
        BY <2>1, <2>5
      <3>2. QED BY <3>1
    <2>6. QED BY <2>1, <2>3, <2>4, <2>5
  <1>5. \A i \in 1..Len(p) : p[i] \in S
    BY <1>1, PageRow, PageType
  <1>6. ASSUME NEW t \in S PROVE AllBefore(o, s, t)
    BY BehindCursor
  <1>7. \A i, j \in 1..Len(p) : i < j => Before(o, p[i], p[j])
    BY <1>1, PageInOrder
  <1>8. Sorted(o, w)
    <2>1. SUFFICES ASSUME NEW i \in 1..Len(w), NEW j \in 1..Len(w), i < j
                   PROVE  Before(o, w[i], w[j])
      BY DEF Sorted
    <2>2. CASE j \in 1..Len(s)
      <3>1. i \in 1..Len(s)
        BY <1>4, <2>1, <2>2
      <3>2. QED BY <1>4, <2>1, <2>2, <3>1 DEF Sorted
    <2>3. CASE \E k \in 1..Len(p) : j = Len(s) + k
      <3>1. PICK k \in 1..Len(p) : j = Len(s) + k
        BY <2>3
      <3>2. w[j] = p[k] /\ p[k] \in S
        BY <1>4, <1>5, <3>1
      <3>3. CASE i \in 1..Len(s)
        BY <1>4, <1>6, <3>2, <3>3 DEF AllBefore
      <3>4. CASE \E l \in 1..Len(p) : i = Len(s) + l
        <4>1. PICK l \in 1..Len(p) : i = Len(s) + l
          BY <3>4
        <4>2. l < k
          BY <1>4, <2>1, <3>1, <4>1
        <4>3. QED BY <1>4, <1>7, <3>2, <4>1, <4>2
      <3>5. QED BY <1>4, <3>3, <3>4
    <2>4. QED BY <1>4, <2>2, <2>3
  <1>9. ASSUME NEW t, Holds(s, t) PROVE Holds(w, t)
    BY <1>4, <1>9 DEF Holds
  <1>10. ASSUME NEW t \in S, ~Holds(w, t)
         PROVE  Cardinality(S) > Limit /\ AllBefore(o, w, t)
    <2>1. \A i \in 1..Len(p) : p[i] # t
      BY <1>4, <1>10 DEF Holds
    <2>2. Cardinality(S) > Limit /\ \A i \in 1..Len(p) : Before(o, p[i], t)
      BY <1>1, <2>1, PageRest
    <2>3. AllBefore(o, w, t)
      <3>1. SUFFICES ASSUME NEW i \in 1..Len(w) PROVE Before(o, w[i], t)
        BY DEF AllBefore
      <3>2. CASE i \in 1..Len(s)
        BY <1>4, <1>6, <3>2 DEF AllBefore
      <3>3. CASE \E k \in 1..Len(p) : i = Len(s) + k
        BY <1>4, <2>2, <3>3
      <3>4. QED BY <1>4, <3>2, <3>3
    <2>4. QED BY <2>2, <2>3
  <1>11. ASSUME NEW t, Holds(w, t) PROVE Holds(s, t) \/ t \in S
    BY <1>4, <1>5, <1>11 DEF Holds
  <1>12. QED BY <1>1, <1>3, <1>4, <1>8, <1>9, <1>10, <1>11

\* What the cap cuts off comes after all that is left.
LEMMA CutSorted ==
  ASSUME NEW o \in Orders, NEW s \in Seq(Traces), Sorted(o, s), ExportCap <= Len(s)
  PROVE  /\ SubSeq(s, 1, ExportCap) \in Seq(Traces) /\ Len(SubSeq(s, 1, ExportCap)) = ExportCap
         /\ Sorted(o, SubSeq(s, 1, ExportCap))
         /\ \A t \in Traces : Holds(s, t) \/ AllBefore(o, s, t) =>
              Holds(SubSeq(s, 1, ExportCap), t) \/ AllBefore(o, SubSeq(s, 1, ExportCap), t)
         /\ \A t \in Traces : Holds(SubSeq(s, 1, ExportCap), t) => Holds(s, t)
  <1>1. PICK c : c = SubSeq(s, 1, ExportCap)
    OBVIOUS
  <1>2. ExportCap \in Nat /\ Len(s) \in Nat /\ \A i \in 1..Len(s) : s[i] \in Traces
    BY PageNumbers, LenProperties
  <1>3. \A i \in 1..ExportCap : s[i] \in Traces
    BY <1>2
  <1>4. c \in Seq(Traces) /\ Len(c) = ExportCap /\ \A i \in 1..ExportCap : c[i] = s[i]
    <2>1. /\ c \in Seq(Traces) /\ Len(c) = IF 1 <= ExportCap THEN ExportCap - 1 + 1 ELSE 0
          /\ \A i \in 1 .. ExportCap - 1 + 1 : c[i] = s[1 + i - 1]
      BY <1>1, <1>2, <1>3, SubSeqProperties
    <2>2. QED BY <1>2, <2>1
  <1>5. \A i \in 1..Len(c) : i \in 1..Len(s) /\ c[i] = s[i]
    BY <1>2, <1>4
  <1>6. Sorted(o, c)
    BY <1>5 DEF Sorted
  <1>7. ASSUME NEW t, AllBefore(o, s, t) PROVE AllBefore(o, c, t)
    BY <1>5, <1>7 DEF AllBefore
  <1>8. ASSUME NEW t, Holds(s, t) PROVE Holds(c, t) \/ AllBefore(o, c, t)
    <2>1. PICK k \in 1..Len(s) : s[k] = t
      BY <1>8 DEF Holds
    <2>2. CASE k <= ExportCap
      BY <1>2, <1>4, <2>1, <2>2 DEF Holds
    <2>3. CASE k > ExportCap
      <3>1. \A i \in 1..Len(c) : i < k
        BY <1>2, <1>4, <2>3
      <3>2. QED BY <1>5, <2>1, <3>1 DEF Sorted, AllBefore
    <2>4. QED BY <1>2, <2>2, <2>3
  <1>9. ASSUME NEW t, Holds(c, t) PROVE Holds(s, t)
    BY <1>5, <1>9 DEF Holds
  <1>10. QED BY <1>1, <1>4, <1>6, <1>7, <1>8, <1>9

LEMMA ScrollRead ==
  /\ \A t : Shown(t) <=> Holds(scroll.shown, t)
  /\ \A t : Beyond(t) <=> AllBefore(scroll.order, scroll.shown, t)
  /\ ShownInOrder <=> Sorted(scroll.order, scroll.shown)
  BY DEF Shown, Beyond, ShownInOrder, Holds, AllBefore, Sorted

LEMMA NextPageKeeps ==
  ASSUME PagesInv, NextPage
  PROVE  PagesInv'
  <1>1. PagesTypeOK /\ NoOrphanScore /\ ShownInOrder /\ Stays /\ Promised /\ Unread /\ scroll \in Scrolls
    BY DEF PagesInv, ListingSound
  <1>2. PICK o \in Orders, s \in Seq(Traces) : o = scroll.order /\ s = scroll.shown
    BY <1>1 DEF Scrolls
  <1>3. PICK S \in SUBSET Traces : S = Selected
    BY <1>1 DEF Selected, PagesTypeOK
  <1>4. Sorted(o, s) /\ \A t \in S : s # <<>> => Before(o, s[Len(s)], t)
    BY <1>1, <1>2, <1>3, ScrollRead DEF Selected
  <1>5. PICK w : w = s \o Page(o, S)
    OBVIOUS
  <1>6. /\ w \in Seq(Traces) /\ Sorted(o, w)
        /\ \A t \in Traces : Holds(s, t) => Holds(w, t)
        /\ \A t \in S : Holds(w, t) \/ (Cardinality(S) > Limit /\ AllBefore(o, w, t))
    BY <1>4, <1>5, PageAppended
  <1>7. /\ scroll' = [scroll EXCEPT !.shown = w, !.more = HasMore(S), !.step = "selected"]
        /\ steady' = (IF scroll.step = "new" THEN {t \in Traces : Matches(t)} ELSE steady)
        /\ UNCHANGED <<written, rows, tags, scores, user, edits>>
        /\ scroll.step = "new" \/ (scroll.step = "asked" /\ scroll.more)
    BY <1>2, <1>3, <1>5 DEF NextPage
  <1>8. HasMore(S) \in BOOLEAN /\ (HasMore(S) <=> Cardinality(S) > Limit)
    BY DEF HasMore
  <1>9. /\ scroll' \in Scrolls /\ scroll'.shown = w /\ scroll'.step = "selected"
        /\ scroll'.more = HasMore(S) /\ scroll'.order = o
        /\ scroll'.want = scroll.want /\ scroll'.window = scroll.window
    BY <1>1, <1>2, <1>6, <1>7, <1>8 DEF Scrolls
  <1>10. \A t \in steady' : t \in rows /\ Matches(t)
    BY <1>1, <1>7 DEF Stays, Matches
  <1>11. Stays'
    <2>1. ASSUME NEW t \in steady' PROVE Matches(t)'
      BY <1>7, <1>9, <1>10 DEF Matches, InWindow
    <2>2. QED BY <2>1 DEF Stays
  <1>12. steady' \subseteq rows'
    BY <1>7, <1>10
  <1>13. PagesTypeOK'
    <2>1. scroll'.table \in Tables /\ scroll'.order \in Orders /\ scroll'.shown \in Seq(Traces) /\ scroll'.total \in Nat
      BY <1>9 DEF Scrolls
    <2>2. QED BY <1>1, <1>7, <1>9, <1>12, <2>1 DEF PagesTypeOK
  <1>14. ShownInOrder' /\ NoOrphanScore' /\ Unread' /\ NothingSkipped'
    <2>1. ShownInOrder'
      BY <1>6, <1>9 DEF ShownInOrder, Sorted
    <2>2. QED BY <1>1, <1>7, <1>9, <2>1 DEF NoOrphanScore, Unread, NothingSkipped
  <1>15. ASSUME NEW t \in steady'
         PROVE  Holds(w, t) \/ (HasMore(S) /\ AllBefore(o, w, t))
    <2>1. t \in Traces /\ t \in rows /\ Matches(t)
      BY <1>1, <1>10 DEF PagesTypeOK
    <2>2. CASE t \in S
      BY <1>6, <1>8, <2>2
    <2>3. CASE t \notin S
      <3>1. s # <<>> /\ ~Before(o, s[Len(s)], t)
        BY <1>2, <1>3, <2>1, <2>3 DEF Selected
      <3>2. scroll.step = "asked" /\ t \in steady
        BY <1>1, <1>2, <1>7, <3>1 DEF Unread
      <3>3. Holds(s, t) \/ AllBefore(o, s, t)
        BY <1>1, <1>2, <3>2, ScrollRead DEF Promised
      <3>4. Len(s) \in 1..Len(s)
        BY <3>1, LenProperties, EmptySeq
      <3>5. ~AllBefore(o, s, t)
        BY <3>1, <3>4 DEF AllBefore
      <3>6. QED BY <1>6, <2>1, <3>3, <3>5
    <2>4. QED BY <2>2, <2>3
  <1>16. Promised'
    <2>1. ASSUME NEW t \in steady' PROVE (Shown(t))' \/ (scroll'.more /\ (Beyond(t))')
      BY <1>9, <1>15 DEF Shown, Beyond, Holds, AllBefore
    <2>2. QED BY <2>1 DEF Promised
  <1>17. QED BY <1>9, <1>11, <1>13, <1>14, <1>16 DEF PagesInv, ListingSound

LEMMA AnswerKeeps ==
  ASSUME PagesInv, Answer
  PROVE  PagesInv'
  <1>1. PagesTypeOK /\ NoOrphanScore /\ ShownInOrder /\ Stays /\ Promised /\ scroll \in Scrolls
        /\ scroll.step = "selected"
    BY DEF PagesInv, ListingSound, Answer
  <1>2. PICK o \in Orders, s \in Seq(Traces) : o = scroll.order /\ s = scroll.shown
    BY <1>1 DEF Scrolls
  <1>3. Sorted(o, s) /\ \A t \in steady : Holds(s, t) \/ (scroll.more /\ AllBefore(o, s, t))
    BY <1>1, <1>2, ScrollRead DEF Promised
  <1>4. PICK n \in Nat : n = Cardinality({t \in rows : Matches(t)})
    <2>1. IsFiniteSet({t \in rows : Matches(t)})
      BY <1>1, PageNumbers, FS_Subset DEF PagesTypeOK
    <2>2. QED BY <2>1, FS_CardinalityType
  <1>5. PICK c : c = Cut(s)
    OBVIOUS
  <1>6. PICK capped \in BOOLEAN : capped = Capped(s)
    BY DEF Capped
  <1>7. /\ c \in Seq(Traces) /\ Sorted(o, c)
        /\ ~capped => c = s
        /\ capped => /\ scroll.export /\ Len(c) >= ExportCap
                     /\ \A t \in Traces : Holds(s, t) \/ AllBefore(o, s, t) =>
                                            Holds(c, t) \/ AllBefore(o, c, t)
    <2>1. CASE capped
      <3>1. scroll.export /\ ExportCap <= Len(s) /\ c = SubSeq(s, 1, ExportCap)
        BY <1>5, <1>6, <2>1, PageNumbers, LenProperties DEF Cut, Capped
      <3>2. QED BY <1>3, <2>1, <3>1, CutSorted, PageNumbers
    <2>2. CASE ~capped
      BY <1>3, <1>5, <1>6, <2>2 DEF Cut
    <2>3. QED BY <2>1, <2>2
  <1>8. PICK step \in {"end", "asked"} : step = IF ~scroll.more \/ capped THEN "end" ELSE "asked"
    OBVIOUS
  <1>9. /\ scroll' = [scroll EXCEPT !.total = n, !.shown = c, !.step = step]
        /\ UNCHANGED <<written, rows, tags, scores, steady, user, edits>>
    BY <1>2, <1>4, <1>5, <1>6, <1>8 DEF Answer
  <1>10. /\ scroll' \in Scrolls /\ scroll'.shown = c /\ scroll'.step = step
         /\ scroll'.more = scroll.more /\ scroll'.order = o /\ scroll'.export = scroll.export
         /\ scroll'.want = scroll.want /\ scroll'.window = scroll.window
    BY <1>1, <1>2, <1>7, <1>9 DEF Scrolls
  <1>11. Stays'
    BY <1>1, <1>9, <1>10 DEF Stays, Matches, InWindow
  <1>12. PagesTypeOK'
    <2>1. scroll'.table \in Tables /\ scroll'.order \in Orders /\ scroll'.shown \in Seq(Traces) /\ scroll'.total \in Nat
      BY <1>10 DEF Scrolls
    <2>2. QED BY <1>1, <1>9, <1>10, <2>1 DEF PagesTypeOK
  <1>13. ShownInOrder' /\ NoOrphanScore' /\ Unread'
    BY <1>1, <1>7, <1>9, <1>10 DEF ShownInOrder, Sorted, NoOrphanScore, Unread
  <1>14. Promised'
    <2>1. ASSUME step = "asked", NEW t \in steady
          PROVE  Holds(c, t) \/ (scroll.more /\ AllBefore(o, c, t))
      BY <1>3, <1>7, <1>8, <2>1
    <2>2. QED BY <1>9, <1>10, <2>1 DEF Promised, Shown, Beyond, Holds, AllBefore
  <1>15. NothingSkipped'
    <2>1. ASSUME step = "end", NEW t \in steady
          PROVE  Holds(c, t) \/ (scroll.export /\ Len(c) >= ExportCap /\ AllBefore(o, c, t))
      <3>1. t \in Traces
        BY <1>1 DEF PagesTypeOK
      <3>2. CASE capped
        BY <1>3, <1>7, <3>1, <3>2
      <3>3. CASE ~capped
        BY <1>3, <1>7, <1>8, <2>1, <3>3
      <3>4. QED BY <3>2, <3>3
    <2>2. QED BY <1>9, <1>10, <2>1 DEF NothingSkipped, Shown, Beyond, Capped,
                                                 Holds, AllBefore
  <1>16. QED BY <1>10, <1>11, <1>12, <1>13, <1>14, <1>15 DEF PagesInv, ListingSound

LEMMA PagesInvStep == PagesInv /\ [PagesNext]_pagesVars => PagesInv'
  <1> SUFFICES ASSUME PagesInv, [PagesNext]_pagesVars PROVE PagesInv'
    OBVIOUS
  <1>1. CASE list_traces \/ logs_list \/ list_audit
    BY <1>1, NextPageKeeps DEF list_traces, logs_list, list_audit
  <1>2. CASE Answer
    BY <1>2, AnswerKeeps
  <1>3. CASE \E t \in Traces : insert_trace(t)
    BY <1>3, InsertKeeps
  <1>4. CASE \E t \in Traces : delete_trace(t)
    BY <1>4, DeleteKeeps DEF delete_trace, OnTraces
  <1>5. CASE \E until, since : delete_range(since, until)
    BY <1>5, DeleteKeeps DEF delete_range, OnTraces
  <1>6. CASE \E until : _prune_logs(until)
    BY <1>6, DeleteKeeps DEF _prune_logs
  <1>7. CASE \E u \in Users, op \in {"tag", "score"}, t \in Traces : ReadTrace(u, op, t)
    BY <1>7, ReadKeeps
  <1>8. CASE \E u \in Users, add, remove \in {{}} \cup {{g} : g \in Tags} :
                set_trace_tags(u, add, remove)
    <2>1. {{}} \cup {{g} : g \in Tags} \subseteq SUBSET Tags
      OBVIOUS
    <2>2. QED BY <1>8, <2>1, TagKeeps
  <1>9. CASE \E u \in Users : insert_scores(u)
    BY <1>9, ScoreKeeps
  <1>10. CASE UNCHANGED pagesVars
    <2>1. scroll' = scroll /\ steady' \subseteq steady
      BY <1>10 DEF pagesVars
    <2>2. PagesTypeOK'
      BY <1>10 DEF PagesInv, ListingSound, PagesTypeOK, pagesVars
    <2>3. NoOrphanScore' /\ Stays'
      BY <1>10 DEF PagesInv, ListingSound, NoOrphanScore, Stays, Matches, InWindow,
                   pagesVars
    <2>4. QED BY <2>1, <2>2, <2>3, OthersKeep
  <1>11. QED
    BY <1>1, <1>2, <1>3, <1>4, <1>5, <1>6, <1>7, <1>8, <1>9, <1>10 DEF PagesNext

\* However rows come, go and change their tags between the statements of a client's pages,
\* for any page size, cap, filters and number of users: what it was shown is in its order
\* and without repetition, and no score outlives its trace (list_traces, _scores, _tags).
THEOREM ListingsAreSound == PagesSpec => []ListingSound
  <1>1. PagesInv => ListingSound
    BY DEF PagesInv
  <1>2. QED BY <1>1, PagesInvInit, PagesInvStep, PTL DEF PagesSpec

\* A scroll that ran to its end missed no row that matched throughout, but for what
\* export's cap leaves out, all of which comes after what was exported (list_traces,
\* logs_list, list_audit, export).
THEOREM NothingIsSkipped == PagesSpec => []NothingSkipped
  <1>1. PagesInv => NothingSkipped
    BY DEF PagesInv
  <1>2. QED BY <1>1, PagesInvInit, PagesInvStep, PTL DEF PagesSpec

-----------------------------------------------------------------------------
(* The strip over a window, and the listing of it. *)

LEMMA SameSize ==
  ASSUME NEW S, NEW T, NEW f \in [S -> T], IsFiniteSet(S),
         \A a, b \in S : f[a] = f[b] => a = b, \A t \in T : \E a \in S : f[a] = t
  PROVE  IsFiniteSet(T) /\ Cardinality(T) = Cardinality(S)
  <1>1. f \in Bijection(S, T)
    BY DEF Bijection, Injection, Surjection, IsInjective
  <1>2. QED BY <1>1, FS_Bijection DEF ExistsBijection

\* The ids of a set of rows, in some order.
LEMMA IdsOnce ==
  ASSUME NEW S, IsFiniteSet(S)
  PROVE  /\ Cardinality(S) \in Nat /\ SetToSeq(S) \in [1..Cardinality(S) -> S]
         /\ \A i, j \in 1..Cardinality(S) : SetToSeq(S)[i] = SetToSeq(S)[j] => i = j
         /\ \A t \in S : \E i \in 1..Cardinality(S) : SetToSeq(S)[i] = t
  <1> DEFINE n == Cardinality(S)
  <1>1. n \in Nat /\ \E f \in [1..n -> S] : IsInjective(f)
    <2>1. n \in Nat /\ ExistsBijection(1..n, S)
      BY FS_CardinalityType
    <2> HIDE DEF n
    <2>2. QED BY <2>1 DEF ExistsBijection, Bijection, Injection, IsInjective
  <1>2. SetToSeq(S) = CHOOSE f \in [1..n -> S] : IsInjective(f)
    BY DEF SetToSeq
  <1>3. PICK f \in [1..n -> S] : f = SetToSeq(S) /\ IsInjective(f)
    <2> HIDE DEF n
    <2>1. QED BY <1>1, <1>2
  <1>4. \A i, j \in 1..n : f[i] = f[j] => i = j
    <2> HIDE DEF n
    <2>1. QED BY <1>3 DEF IsInjective
  <1>5. \A t \in S : \E i \in 1..n : f[i] = t
    <2>1. IsFiniteSet(1..n) /\ Cardinality(1..n) = Cardinality(S)
      BY <1>1, FS_Interval
    <2> HIDE DEF n
    <2>2. f \in Injection(1..n, S)
      BY <1>4 DEF Injection, IsInjective
    <2>3. f \in Surjection(1..n, S)
      BY <2>1, <2>2, FS_Injection
    <2>4. QED BY <2>3 DEF Surjection
  <1>6. QED BY <1>1, <1>3, <1>4, <1>5

\* The strip counts the stored traces of its window.
LEMMA StripCounts ==
  ASSUME PagesTypeOK, NEW since \in Nat, NEW until \in Nat
  PROVE  metrics_summary(Stored, until - since, until).cur.requests =
           Cardinality({t \in rows : since <= Started[t] /\ Started[t] < until})
  <1>1. rows \subseteq Traces /\ IsFiniteSet(rows)
    BY PageNumbers, FS_Subset DEF PagesTypeOK
  <1>0. PICK n \in Nat : n = Cardinality(rows)
    BY <1>1, FS_CardinalityType
  <1>2. PICK ids \in [1..n -> rows] :
          /\ ids = SetToSeq(rows)
          /\ \A i, j \in 1..n : ids[i] = ids[j] => i = j
          /\ \A t \in rows : \E i \in 1..n : ids[i] = t
    BY <1>1, <1>0, IdsOnce
  <1>3. ids \in Seq(rows) /\ Len(ids) = n
    <2>1. ids \in Seq(rows)
      BY SeqDef
    <2>2. QED BY <2>1, LenProperties
  <1>4. PICK L : L = Stored
    OBVIOUS
  <1>5. L = [i \in 1..n |-> [ts |-> Started[ids[i]], model |-> Unnamed, status |-> 200]]
    BY <1>2, <1>3, <1>4 DEF Stored
  <1>6. PICK members : members = {e \in Range(L) : since <= e.ts /\ e.ts < until}
    OBVIOUS
  <1>7. L \in Seq(Range(L)) /\ Len(L) = n
    <2>1. L \in [1..n -> Range(L)]
      BY <1>5 DEF Range
    <2>2. L \in Seq(Range(L))
      BY <2>1, SeqDef
    <2>3. QED BY <2>1, <2>2, LenProperties
  <1>8. PICK I : I = {i \in 1..Len(L) : L[i] \in members}
    OBVIOUS
  <1>9. IsFiniteSet(I) /\ Cardinality(I) = Len(Only(L, members))
    BY <1>7, <1>8, OnlyCounts
  <1>10. \A i \in 1..n : i \in I <=> since <= Started[ids[i]] /\ Started[ids[i]] < until
    <2>1. \A i \in 1..n : L[i] \in Range(L) /\ L[i].ts = Started[ids[i]]
      BY <1>5 DEF Range
    <2>2. QED BY <1>6, <1>7, <1>8, <2>1
  <1>11. PICK T : T = {t \in rows : since <= Started[t] /\ Started[t] < until}
    OBVIOUS
  <1>12. Cardinality(T) = Cardinality(I)
    <2>1. PICK f : f = [i \in I |-> ids[i]]
      OBVIOUS
    <2>2. I \subseteq 1..n
      BY <1>7, <1>8
    <2>3. f \in [I -> T]
      BY <1>10, <1>11, <2>1, <2>2
    <2>4. \A a, b \in I : f[a] = f[b] => a = b
      BY <1>2, <2>1, <2>2
    <2>5. \A t \in T : \E a \in I : f[a] = t
      BY <1>2, <1>10, <1>11, <2>1
    <2>6. QED BY <1>9, <2>3, <2>4, <2>5, SameSize
  <1>13. metrics_summary(L, until - since, until).cur =
           _window_stats(During(L, since, until))
    <2>1. until - (until - since) = since
      OBVIOUS
    <2>2. QED BY <2>1 DEF metrics_summary
  <1>14. During(L, since, until) = Only(L, members)
    BY <1>6 DEF During
  <1>15. _window_stats(During(L, since, until)).requests = Len(During(L, since, until))
    BY DEF _window_stats
  <1>16. QED BY <1>4, <1>9, <1>11, <1>12, <1>13, <1>14, <1>15

\* Only logs are exported; and while no request has changed the table, every row a client
\* was shown is still there.
StripInv == /\ PagesInv
            /\ scroll.export => scroll.table = "logs"
            /\ edits = 0 => \A t \in Traces : Holds(scroll.shown, t) => t \in rows /\ InWindow(t)

LEMMA StripInit == PagesInit => StripInv
  <1> SUFFICES ASSUME PagesInit PROVE StripInv
    OBVIOUS
  <1>1. scroll.shown = <<>> /\ (scroll.export => scroll.table = "logs")
    BY DEF PagesInit
  <1>2. QED BY <1>1, PagesInvInit DEF StripInv, Holds

LEMMA StripNextPage ==
  ASSUME StripInv, NextPage
  PROVE  StripInv'
  <1>1. PagesInv /\ PagesInv' /\ PagesTypeOK /\ ShownInOrder /\ scroll \in Scrolls
    BY NextPageKeeps DEF StripInv, PagesInv, ListingSound
  <1>2. PICK o \in Orders, s \in Seq(Traces) : o = scroll.order /\ s = scroll.shown
    BY <1>1 DEF Scrolls
  <1>3. PICK S \in SUBSET Traces : S = Selected
    BY <1>1 DEF Selected, PagesTypeOK
  <1>4. Sorted(o, s) /\ \A t \in S : s # <<>> => Before(o, s[Len(s)], t)
    BY <1>1, <1>2, <1>3, ScrollRead DEF Selected
  <1>5. PICK w : w = s \o Page(o, S)
    OBVIOUS
  <1>6. \A t \in Traces : Holds(w, t) => Holds(s, t) \/ t \in S
    BY <1>4, <1>5, PageAppended
  <1>7. /\ scroll' = [scroll EXCEPT !.shown = w, !.more = HasMore(S), !.step = "selected"]
        /\ rows' = rows /\ edits' = edits
    BY <1>2, <1>3, <1>5 DEF NextPage
  <1>8. /\ scroll'.shown = w /\ scroll'.export = scroll.export /\ scroll'.table = scroll.table
        /\ scroll'.window = scroll.window
    BY <1>1, <1>7 DEF Scrolls
  <1>9. \A t \in S : t \in rows /\ InWindow(t)
    BY <1>3 DEF Selected, Matches
  <1>10. ASSUME edits = 0, NEW t \in Traces, Holds(w, t) PROVE t \in rows /\ InWindow(t)
    BY <1>2, <1>6, <1>9, <1>10 DEF StripInv
  <1>11. QED BY <1>1, <1>7, <1>8, <1>10 DEF StripInv, InWindow

LEMMA StripAnswer ==
  ASSUME StripInv, Answer
  PROVE  StripInv'
  <1>1. PagesInv /\ PagesInv' /\ ShownInOrder /\ scroll \in Scrolls
    BY AnswerKeeps DEF StripInv, PagesInv, ListingSound
  <1>2. PICK o \in Orders, s \in Seq(Traces) : o = scroll.order /\ s = scroll.shown
    BY <1>1 DEF Scrolls
  <1>3. Sorted(o, s)
    BY <1>1, <1>2, ScrollRead
  <1>4. PICK c : c = Cut(s)
    OBVIOUS
  <1>5. \A t \in Traces : Holds(c, t) => Holds(s, t)
    <2>1. CASE Capped(s)
      <3>1. ExportCap <= Len(s) /\ c = SubSeq(s, 1, ExportCap)
        BY <1>4, <2>1, PageNumbers, LenProperties DEF Cut, Capped
      <3>2. QED BY <1>3, <3>1, CutSorted
    <2>2. CASE ~Capped(s)
      BY <1>4, <2>2 DEF Cut
    <2>3. QED BY <2>1, <2>2
  <1>6. /\ rows' = rows /\ edits' = edits /\ scroll'.shown = c
        /\ scroll'.export = scroll.export /\ scroll'.table = scroll.table
        /\ scroll'.window = scroll.window
    BY <1>1, <1>2, <1>4 DEF Answer, Scrolls
  <1>7. ASSUME edits = 0, NEW t \in Traces, Holds(c, t) PROVE t \in rows /\ InWindow(t)
    BY <1>2, <1>5, <1>7 DEF StripInv
  <1>8. QED BY <1>1, <1>6, <1>7 DEF StripInv, InWindow

\* The others change the table in a request that is counted, or only add to it.
LEMMA StripOthers ==
  ASSUME StripInv, PagesInv', scroll' = scroll, rows \subseteq rows' \/ edits' # 0,
         edits' = 0 => edits = 0
  PROVE  StripInv'
  BY DEF StripInv, InWindow

LEMMA StripStep == StripInv /\ [PagesNext]_pagesVars => StripInv'
  <1> SUFFICES ASSUME StripInv, [PagesNext]_pagesVars PROVE StripInv'
    OBVIOUS
  <1>1. CASE list_traces \/ logs_list \/ list_audit
    BY <1>1, StripNextPage DEF list_traces, logs_list, list_audit
  <1>2. CASE Answer
    BY <1>2, StripAnswer
  <1>3. CASE ~(list_traces \/ logs_list \/ list_audit \/ Answer)
    <2>1. PagesInv' /\ PagesTypeOK
      BY PagesInvStep DEF StripInv, PagesInv, ListingSound
    <2>2. edits \in Nat
      BY <2>1 DEF PagesTypeOK
    <2>3. scroll' = scroll /\ ((rows \subseteq rows' /\ edits' = edits) \/ edits' = edits + 1)
      BY <1>3 DEF PagesNext, pagesVars, insert_trace, delete_trace, delete_range, _prune_logs,
                  Delete, ReadTrace, set_trace_tags, insert_scores
    <2>4. QED BY <2>1, <2>2, <2>3, StripOthers
  <1>4. QED BY <1>1, <1>2, <1>3

\* As many rows as places: no row is shown twice.
LEMMA ShownOnce ==
  ASSUME NEW o \in Orders, NEW s \in Seq(Traces), Sorted(o, s)
  PROVE  /\ IsFiniteSet({s[i] : i \in 1..Len(s)})
         /\ Cardinality({s[i] : i \in 1..Len(s)}) = Len(s)
  <1>1. Len(s) \in Nat /\ s \in [1..Len(s) -> Traces]
    BY LenProperties
  <1>2. \A i, j \in 1..Len(s) : s[i] = s[j] => i = j
    <2>1. SUFFICES ASSUME NEW i \in 1..Len(s), NEW j \in 1..Len(s), s[i] = s[j], i < j
                   PROVE  FALSE
      BY <1>1
    <2>2. Before(o, s[i], s[j]) /\ s[i] \in Traces
      BY <1>1, <2>1 DEF Sorted
    <2>3. QED BY <2>1, <2>2, BeforeNot
  <1>3. PICK T : T = {s[i] : i \in 1..Len(s)}
    OBVIOUS
  <1>4. s \in [1..Len(s) -> T] /\ \A t \in T : \E i \in 1..Len(s) : s[i] = t
    BY <1>1, <1>3
  <1>5. IsFiniteSet(1..Len(s)) /\ Cardinality(1..Len(s)) = Len(s)
    BY <1>1, FS_Interval
  <1>6. PICK D : D = 1..Len(s)
    OBVIOUS
  <1>7. IsFiniteSet(T) /\ Cardinality(T) = Cardinality(D)
    BY <1>2, <1>4, <1>5, <1>6, SameSize
  <1>8. QED BY <1>3, <1>5, <1>6, <1>7

LEMMA StripAtEnd == StripInv => StripAgreesWithListing
  <1> SUFFICES ASSUME StripInv, scroll.table = "traces", scroll.want = {}, scroll.step = "end",
                      steady = {t \in Traces : Matches(t)}
               PROVE  LET since == scroll.window[1]
                          until == scroll.window[2]
                          strip == metrics_summary(Stored, until - since, until).cur
                      IN  /\ strip.requests <= Len(scroll.shown)
                          /\ edits = 0 => strip.requests = Len(scroll.shown)
    BY DEF StripAgreesWithListing
  <1>1. PagesInv /\ PagesTypeOK /\ ShownInOrder /\ scroll \in Scrolls /\ ~scroll.export
    BY DEF StripInv, PagesInv, ListingSound
  <1>2. PICK since \in Nat, until \in Nat : since = scroll.window[1] /\ until = scroll.window[2]
    <2>1. scroll.window \in Nat \X Nat
      BY <1>1, PageNumbers DEF Scrolls
    <2>2. QED BY <2>1
  <1>3. PICK o \in Orders, s \in Seq(Traces) : o = scroll.order /\ s = scroll.shown
    BY <1>1 DEF Scrolls
  <1>4. PICK D : D = {t \in rows : since <= Started[t] /\ Started[t] < until}
    OBVIOUS
  <1>5. \A t \in rows : t \in D <=> InWindow(t)
    BY <1>2, <1>4 DEF InWindow
  <1>6. D \subseteq rows /\ D \subseteq Traces /\ \A t \in D : t \in steady
    BY <1>1, <1>4, <1>5 DEF PagesTypeOK, Matches
  <1>7. PICK T : T = {s[i] : i \in 1..Len(s)}
    OBVIOUS
  <1>8. IsFiniteSet(T) /\ Cardinality(T) = Len(s) /\ Len(s) \in Nat /\ T \subseteq Traces
    <2>1. Sorted(o, s)
      BY <1>1, <1>3, ScrollRead
    <2>2. PICK R : R = {s[i] : i \in 1..Len(s)} /\ IsFiniteSet(R) /\ Cardinality(R) = Len(s)
      BY <2>1, ShownOnce
    <2>3. Len(s) \in Nat /\ \A i \in 1..Len(s) : s[i] \in Traces
      BY LenProperties
    <2>4. T = R
      BY <1>7, <2>2
    <2>5. QED BY <1>7, <2>2, <2>3, <2>4
  <1>9. \A t : t \in T <=> Holds(s, t)
    BY <1>7 DEF Holds
  <1>10. D \subseteq T
    <2>1. \A t \in steady : Shown(t)
      BY <1>1 DEF PagesInv, NothingSkipped, Capped
    <2>2. \A t \in D : Holds(scroll.shown, t)
      BY <1>6, <2>1 DEF Shown, Holds
    <2>3. QED BY <1>3, <1>9, <2>2
  <1>11. Cardinality(D) <= Len(s)
    BY <1>8, <1>10, FS_Subset
  <1>12. ASSUME edits = 0 PROVE Cardinality(D) = Len(s)
    <2>1. \A t \in Traces : Holds(s, t) => t \in D
      BY <1>3, <1>5, <1>12 DEF StripInv
    <2>2. T = D
      BY <1>8, <1>9, <1>10, <2>1
    <2>3. QED BY <1>8, <2>2
  <1>13. metrics_summary(Stored, until - since, until).cur.requests = Cardinality(D)
    BY <1>1, <1>4, StripCounts
  <1>14. QED BY <1>2, <1>3, <1>11, <1>12, <1>13

\* The strip over a window counts no trace that a client who paged to the end was not shown,
\* but for those that came after the first page, and exactly those shown while no request
\* has changed the table: for any table, page size and interleaving, although the two read
\* the traces by different statements (metrics_summary, list_traces, resolve_window).
THEOREM StripAgrees == PagesSpec => []StripAgreesWithListing
  <1>1. StripInv => StripAgreesWithListing
    BY StripAtEnd
  <1>2. QED BY <1>1, StripInit, StripStep, PTL DEF PagesSpec
=============================================================================
