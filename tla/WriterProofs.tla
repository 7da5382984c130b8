---------------------------- MODULE WriterProofs ----------------------------
(* Theorems about the writer, for every queue size, batch size and load. *)
EXTENDS Writer, SequenceTheorems, FiniteSetTheorems, TLAPS

(* Sequences of items, seen as the set of their elements. *)

LEMMA ElemsEmpty == Elems(<<>>) = {}
  BY DEF Elems

LEMMA ElemsAppend ==
  ASSUME NEW S, NEW s \in Seq(S), NEW e \in S
  PROVE  /\ Append(s, e) \in Seq(S)
         /\ Len(Append(s, e)) = Len(s) + 1
         /\ Elems(Append(s, e)) = Elems(s) \cup {e}
  <1>1. /\ Append(s, e) \in Seq(S)
        /\ Len(Append(s, e)) = Len(s) + 1
        /\ \A i \in 1 .. Len(s) : Append(s, e)[i] = s[i]
        /\ Append(s, e)[Len(s) + 1] = e
    BY AppendProperties
  <1>2. DOMAIN s = 1 .. Len(s) /\ Len(s) \in Nat /\ DOMAIN Append(s, e) = 1 .. (Len(s) + 1)
    BY <1>1, LenProperties
  <1>3. ASSUME NEW x \in Elems(Append(s, e)) PROVE x \in Elems(s) \cup {e}
    <2>1. PICK i \in 1 .. (Len(s) + 1) : x = Append(s, e)[i]
      BY <1>2, <1>3 DEF Elems
    <2>2. CASE i = Len(s) + 1
      BY <2>1, <2>2, <1>1
    <2>3. CASE i # Len(s) + 1
      <3>1. i \in 1 .. Len(s) /\ x = s[i]
        BY <2>1, <2>3, <1>1, <1>2
      <3>2. QED BY <3>1, <1>2 DEF Elems
    <2>4. QED BY <2>2, <2>3
  <1>4. ASSUME NEW x \in Elems(s) PROVE x \in Elems(Append(s, e))
    <2>1. PICK i \in 1 .. Len(s) : x = s[i]
      BY <1>2, <1>4 DEF Elems
    <2>2. i \in 1 .. (Len(s) + 1) /\ Append(s, e)[i] = x
      BY <2>1, <1>1, <1>2
    <2>3. QED BY <2>2, <1>2 DEF Elems
  <1>5. e \in Elems(Append(s, e))
    <2>1. Len(s) + 1 \in 1 .. (Len(s) + 1)
      BY <1>2
    <2>2. QED BY <2>1, <1>1, <1>2 DEF Elems
  <1>6. QED BY <1>1, <1>3, <1>4, <1>5

LEMMA ElemsConcat ==
  ASSUME NEW S, NEW s \in Seq(S), NEW t \in Seq(S)
  PROVE  /\ s \o t \in Seq(S)
         /\ Len(s \o t) = Len(s) + Len(t)
         /\ Elems(s \o t) = Elems(s) \cup Elems(t)
  <1>1. /\ s \o t \in Seq(S)
        /\ Len(s \o t) = Len(s) + Len(t)
        /\ \A i \in 1 .. Len(s) + Len(t) :
             (s \o t)[i] = IF i <= Len(s) THEN s[i] ELSE t[i - Len(s)]
    BY ConcatProperties
  <1>2. /\ DOMAIN s = 1 .. Len(s) /\ Len(s) \in Nat
        /\ DOMAIN t = 1 .. Len(t) /\ Len(t) \in Nat
        /\ DOMAIN (s \o t) = 1 .. (Len(s) + Len(t))
    BY <1>1, LenProperties
  <1>3. ASSUME NEW x \in Elems(s \o t) PROVE x \in Elems(s) \cup Elems(t)
    <2>1. PICK i \in 1 .. (Len(s) + Len(t)) : x = (s \o t)[i]
      BY <1>2, <1>3 DEF Elems
    <2>2. CASE i <= Len(s)
      <3>1. i \in DOMAIN s /\ x = s[i]
        BY <2>1, <2>2, <1>1, <1>2
      <3>2. QED BY <3>1 DEF Elems
    <2>3. CASE ~(i <= Len(s))
      <3>1. i - Len(s) \in DOMAIN t /\ x = t[i - Len(s)]
        BY <2>1, <2>3, <1>1, <1>2
      <3>2. QED BY <3>1 DEF Elems
    <2>4. QED BY <2>2, <2>3
  <1>4. ASSUME NEW x \in Elems(s) PROVE x \in Elems(s \o t)
    <2>1. PICK i \in 1 .. Len(s) : x = s[i]
      BY <1>2, <1>4 DEF Elems
    <2>2. i \in DOMAIN (s \o t) /\ (s \o t)[i] = x
      BY <2>1, <1>1, <1>2
    <2>3. QED BY <2>2 DEF Elems
  <1>5. ASSUME NEW x \in Elems(t) PROVE x \in Elems(s \o t)
    <2>1. PICK i \in 1 .. Len(t) : x = t[i]
      BY <1>2, <1>5 DEF Elems
    <2>2. i + Len(s) \in DOMAIN (s \o t) /\ (s \o t)[i + Len(s)] = x
      BY <2>1, <1>1, <1>2
    <2>3. QED BY <2>2 DEF Elems
  <1>6. QED BY <1>1, <1>3, <1>4, <1>5

LEMMA SplitAt ==
  ASSUME NEW S, NEW q \in Seq(S), NEW n \in 1 .. Len(q)
  PROVE  /\ SubSeq(q, 1, n) \in Seq(S) /\ Len(SubSeq(q, 1, n)) = n
         /\ SubSeq(q, n + 1, Len(q)) \in Seq(S)
         /\ Len(SubSeq(q, n + 1, Len(q))) = Len(q) - n
         /\ SubSeq(q, 1, n) \o SubSeq(q, n + 1, Len(q)) = q
  <1>1. /\ Len(q) \in Nat /\ n \in Nat /\ n <= Len(q)
        /\ \A i \in 1 .. Len(q) : q[i] \in S
    BY LenProperties, ElementOfSeq
  <1>2. SubSeq(q, 1, n) \in Seq(S) /\ Len(SubSeq(q, 1, n)) = n
    <2>1. \A i \in 1 .. n : q[i] \in S
      BY <1>1
    <2>2. QED BY <2>1, <1>1, SubSeqProperties
  <1>3. /\ SubSeq(q, n + 1, Len(q)) \in Seq(S)
        /\ Len(SubSeq(q, n + 1, Len(q))) = Len(q) - n
    <2>1. \A i \in (n + 1) .. Len(q) : q[i] \in S
      BY <1>1
    <2>2. n + 1 \in Int /\ Len(q) \in Int
      BY <1>1
    <2> DEFINE m == Len(SubSeq(q, n + 1, Len(q)))
    <2>3. /\ SubSeq(q, n + 1, Len(q)) \in Seq(S)
          /\ m = IF n + 1 <= Len(q) THEN Len(q) - (n + 1) + 1 ELSE 0
      BY <2>1, <2>2, SubSeqProperties, SMTT(30)
    <2>4. m = Len(q) - n
      <3>1. Len(q) \in Nat /\ n \in Nat /\ n <= Len(q)
        BY <1>1
      <3> HIDE DEF m
      <3>2. CASE n + 1 <= Len(q)
        BY <2>3, <3>1, <3>2
      <3>3. CASE ~(n + 1 <= Len(q))
        BY <2>3, <3>1, <3>3
      <3>4. QED BY <3>2, <3>3
    <2>5. QED BY <2>3, <2>4
  <1>4. SubSeq(q, 1, n) \o SubSeq(q, n + 1, Len(q)) = q
    <2>1. 1 \in 1 .. Len(q) + 1 /\ n \in 1 - 1 .. Len(q) /\ Len(q) \in n .. Len(q)
      BY <1>1
    <2>2. SubSeq(q, 1, n) \o SubSeq(q, n + 1, Len(q)) = SubSeq(q, 1, Len(q))
      BY <2>1, ConcatAdjacentSubSeq
    <2>3. QED BY <2>2, SubSeqFull
  <1>5. QED BY <1>2, <1>3, <1>4

LEMMA ConcatTwice ==
  ASSUME NEW S, NEW b \in Seq(S), NEW p \in Seq(S), NEW r \in Seq(S)
  PROVE  \A x, y, q : x = b \o p /\ y = r /\ q = p \o r => x \o y = b \o q
  <1>1. (b \o p) \o r = b \o (p \o r)
    BY ConcatAssociative
  <1>2. QED BY <1>1, Zenon

\* Moving a prefix of q to the end of b keeps b \o q.
LEMMA TakePrefix ==
  ASSUME NEW S, NEW b \in Seq(S), NEW q \in Seq(S), NEW n \in 1 .. Len(q)
  PROVE  \A x, y : x = b \o SubSeq(q, 1, n) /\ y = SubSeq(q, n + 1, Len(q))
                    => x \o y = b \o q
  <1>1. /\ SubSeq(q, 1, n) \in Seq(S)
        /\ SubSeq(q, n + 1, Len(q)) \in Seq(S)
        /\ SubSeq(q, 1, n) \o SubSeq(q, n + 1, Len(q)) = q
    BY SplitAt
  <1>2. \E p \in Seq(S), r \in Seq(S) :
          p = SubSeq(q, 1, n) /\ r = SubSeq(q, n + 1, Len(q)) /\ p \o r = q
    BY <1>1, Zenon
  <1>3. PICK p \in Seq(S), r \in Seq(S) :
          p = SubSeq(q, 1, n) /\ r = SubSeq(q, n + 1, Len(q)) /\ p \o r = q
    BY <1>2, Zenon
  <1>4. \A x, y, z : x = b \o p /\ y = r /\ z = p \o r => x \o y = b \o z
    BY ConcatTwice
  <1>5. QED BY <1>3, <1>4, Zenon

LEMMA ConcatAppend ==
  ASSUME NEW S, NEW b \in Seq(S), NEW q \in Seq(S), NEW e \in S
  PROVE  b \o Append(q, e) = Append(b \o q, e)
  <1>1. <<e>> \in Seq(S) /\ b \o q \in Seq(S)
    BY ConcatProperties
  <1>2. QED BY <1>1, AppendIsConcat, ConcatAssociative

LEMMA WithoutProperties ==
  ASSUME NEW S, NEW s \in Seq(S), NEW k \in 1 .. Len(s)
  PROVE  /\ Without(s, k) \in Seq(S)
         /\ Len(Without(s, k)) = Len(s) - 1
         /\ \A i \in 1 .. Len(s) - 1 :
              Without(s, k)[i] = IF i < k THEN s[i] ELSE s[i + 1]
  <1>1. Len(s) \in Nat /\ DOMAIN s = 1 .. Len(s) /\ \A i \in 1 .. Len(s) : s[i] \in S
    BY LenProperties, ElementOfSeq
  <1>2. Len(s) - 1 \in Nat
    BY <1>1
  <1>3. \A i \in 1 .. (Len(s) - 1) : (IF i < k THEN s[i] ELSE s[i + 1]) \in S
    BY <1>1
  <1>4. Without(s, k) \in Seq(S)
    BY <1>2, <1>3 DEF Without
  <1>5. DOMAIN Without(s, k) = 1 .. (Len(s) - 1)
    BY DEF Without
  <1>6. Len(Without(s, k)) = Len(s) - 1
    BY <1>2, <1>4, <1>5, LenProperties
  <1>7. QED BY <1>4, <1>6 DEF Without

LEMMA ConcatWithout ==
  ASSUME NEW S, NEW b \in Seq(S), NEW q \in Seq(S), NEW k \in 1 .. Len(q)
  PROVE  /\ Len(b) + k \in 1 .. Len(b \o q)
         /\ (b \o q)[Len(b) + k] = q[k]
         /\ b \o Without(q, k) = Without(b \o q, Len(b) + k)
  <1> DEFINE l == b \o Without(q, k)
             r == Without(b \o q, Len(b) + k)
  <1>1. Len(b) \in Nat /\ Len(q) \in Nat
    BY LenProperties
  <1>2. /\ b \o q \in Seq(S) /\ Len(b \o q) = Len(b) + Len(q)
        /\ \A i \in 1 .. Len(b) + Len(q) :
             (b \o q)[i] = IF i <= Len(b) THEN b[i] ELSE q[i - Len(b)]
    BY ConcatProperties
  <1>3. Len(b) + k \in 1 .. Len(b \o q) /\ (b \o q)[Len(b) + k] = q[k]
    BY <1>1, <1>2
  <1>4. /\ Without(q, k) \in Seq(S) /\ Len(Without(q, k)) = Len(q) - 1
        /\ \A i \in 1 .. Len(q) - 1 :
             Without(q, k)[i] = IF i < k THEN q[i] ELSE q[i + 1]
    BY WithoutProperties
  <1>5. /\ r \in Seq(S) /\ Len(r) = Len(b) + Len(q) - 1
        /\ \A i \in 1 .. Len(b) + Len(q) - 1 :
             r[i] = IF i < Len(b) + k THEN (b \o q)[i] ELSE (b \o q)[i + 1]
    <2>1. /\ r \in Seq(S) /\ Len(r) = Len(b \o q) - 1
          /\ \A i \in 1 .. Len(b \o q) - 1 :
               r[i] = IF i < Len(b) + k THEN (b \o q)[i] ELSE (b \o q)[i + 1]
      BY <1>2, <1>3, WithoutProperties, Zenon
    <2>2. QED BY <2>1, <1>2
  <1>6. /\ l \in Seq(S) /\ Len(l) = Len(b) + (Len(q) - 1)
        /\ \A i \in 1 .. Len(b) + (Len(q) - 1) :
             l[i] = IF i <= Len(b) THEN b[i] ELSE Without(q, k)[i - Len(b)]
    <2>1. /\ l \in Seq(S) /\ Len(l) = Len(b) + Len(Without(q, k))
          /\ \A i \in 1 .. Len(b) + Len(Without(q, k)) :
               l[i] = IF i <= Len(b) THEN b[i] ELSE Without(q, k)[i - Len(b)]
      BY <1>4, ConcatProperties, Zenon
    <2>2. QED BY <2>1, <1>4
  <1> HIDE DEF l, r
  <1>7. ASSUME NEW i \in 1 .. Len(b) + Len(q) - 1 PROVE l[i] = r[i]
    <2>1. CASE i <= Len(b)
      <3>1. l[i] = b[i]
        BY <1>1, <1>6, <2>1
      <3>2. r[i] = b[i]
        BY <1>1, <1>2, <1>5, <2>1
      <3>3. QED BY <3>1, <3>2
    <2>2. CASE ~(i <= Len(b))
      <3>1. l[i] = Without(q, k)[i - Len(b)] /\ i - Len(b) \in 1 .. Len(q) - 1
        <4>1. i \in 1 .. Len(b) + (Len(q) - 1) /\ i - Len(b) \in 1 .. Len(q) - 1
          BY <1>1, <2>2
        <4>2. l[i] = IF i <= Len(b) THEN b[i] ELSE Without(q, k)[i - Len(b)]
          BY <4>1, <1>6
        <4>3. QED BY <4>1, <4>2, <2>2
      <3>2. l[i] = IF i - Len(b) < k THEN q[i - Len(b)] ELSE q[i - Len(b) + 1]
        BY <3>1, <1>4
      <3>3. r[i] = IF i < Len(b) + k THEN q[i - Len(b)] ELSE q[i + 1 - Len(b)]
        <4>1. i < Len(b) + k => r[i] = (b \o q)[i] /\ (b \o q)[i] = q[i - Len(b)]
          BY <1>1, <1>2, <1>5, <2>2
        <4>2. ~(i < Len(b) + k) => r[i] = (b \o q)[i + 1]
          BY <1>1, <1>5
        <4>3. (b \o q)[i + 1] = q[i + 1 - Len(b)]
          BY <1>1, <1>2, <2>2
        <4>4. QED BY <4>1, <4>2, <4>3
      <3>4. (i - Len(b) < k) = (i < Len(b) + k) /\ i - Len(b) + 1 = i + 1 - Len(b)
        BY <1>1
      <3>5. QED BY <3>2, <3>3, <3>4
    <2>3. QED BY <2>1, <2>2
  <1>8. Len(l) = Len(r) /\ Len(l) = Len(b) + Len(q) - 1
    BY <1>1, <1>5, <1>6
  <1>9. \A i \in 1 .. Len(l) : l[i] = r[i]
    BY <1>7, <1>8
  <1>10. l = r
    BY <1>5, <1>6, <1>8, <1>9, SeqEqual
  <1>11. QED BY <1>3, <1>10 DEF l, r

(* Pending items in arrival order. *)

Sorted(s) == \A i, j \in DOMAIN s : i < j => s[i].id < s[j].id

LEMMA SortedAppend ==
  ASSUME NEW s \in Seq(Item), NEW e \in Item, Sorted(s), \A x \in Elems(s) : x.id < e.id
  PROVE  Sorted(Append(s, e))
  <1>1. /\ Append(s, e) \in Seq(Item)
        /\ Len(Append(s, e)) = Len(s) + 1
        /\ \A i \in 1 .. Len(s) : Append(s, e)[i] = s[i]
        /\ Append(s, e)[Len(s) + 1] = e
    BY AppendProperties
  <1>2. DOMAIN s = 1 .. Len(s) /\ Len(s) \in Nat /\ DOMAIN Append(s, e) = 1 .. (Len(s) + 1)
    BY <1>1, LenProperties
  <1>3. \A i \in 1 .. Len(s) : s[i].id < e.id
    BY <1>2 DEF Elems
  <1>4. QED BY <1>1, <1>2, <1>3 DEF Sorted

LEMMA SortedWithout ==
  ASSUME NEW s \in Seq(Item), NEW k \in 1 .. Len(s), Sorted(s)
  PROVE  /\ Sorted(Without(s, k))
         /\ Elems(Without(s, k)) = Elems(s) \ {s[k]}
  <1>1. /\ Without(s, k) \in Seq(Item)
        /\ Len(Without(s, k)) = Len(s) - 1
        /\ \A i \in 1 .. Len(s) - 1 :
              Without(s, k)[i] = IF i < k THEN s[i] ELSE s[i + 1]
    BY WithoutProperties
  <1>2. /\ Len(s) \in Nat /\ DOMAIN s = 1 .. Len(s)
        /\ DOMAIN Without(s, k) = 1 .. Len(s) - 1
    BY <1>1, LenProperties
  <1>3. Sorted(Without(s, k))
    <2>1. SUFFICES ASSUME NEW i \in 1 .. Len(s) - 1, NEW j \in 1 .. Len(s) - 1, i < j
                   PROVE  Without(s, k)[i].id < Without(s, k)[j].id
      BY <1>2 DEF Sorted
    <2> DEFINE f == IF i < k THEN i ELSE i + 1
               g == IF j < k THEN j ELSE j + 1
    <2>2. f \in DOMAIN s /\ g \in DOMAIN s /\ f < g
      BY <1>2, <2>1
    <2>3. Without(s, k)[i] = s[f] /\ Without(s, k)[j] = s[g]
      BY <1>1
    <2>4. QED BY <2>2, <2>3 DEF Sorted
  <1>4. \A i, j \in 1 .. Len(s) : i # j => s[i] # s[j]
    <2>1. \A i, j \in 1 .. Len(s) : i < j => s[i].id < s[j].id
      BY <1>2 DEF Sorted
    <2>2. \A i \in 1 .. Len(s) : s[i].id \in Nat
      <3>1. \A i \in 1 .. Len(s) : s[i] \in Item
        BY ElementOfSeq
      <3>2. QED BY <3>1 DEF Item
    <2>3. SUFFICES ASSUME NEW i \in 1 .. Len(s), NEW j \in 1 .. Len(s), i # j, s[i] = s[j]
                   PROVE  FALSE
      OBVIOUS
    <2>4. i < j \/ j < i
      BY <2>3
    <2>5. QED BY <2>1, <2>2, <2>3, <2>4
  <1>5. ASSUME NEW x \in Elems(Without(s, k)) PROVE x \in Elems(s) \ {s[k]}
    <2>1. PICK i \in 1 .. Len(s) - 1 : x = Without(s, k)[i]
      BY <1>2, <1>5 DEF Elems
    <2>2. CASE i < k
      <3>1. x = s[i] /\ i \in 1 .. Len(s) /\ i # k
        BY <1>1, <1>2, <2>1, <2>2
      <3>2. QED BY <3>1, <1>2, <1>4 DEF Elems
    <2>3. CASE ~(i < k)
      <3>1. x = s[i + 1] /\ i + 1 \in 1 .. Len(s) /\ i + 1 # k
        BY <1>1, <1>2, <2>1, <2>3
      <3>2. QED BY <3>1, <1>2, <1>4 DEF Elems
    <2>4. QED BY <2>2, <2>3
  <1>6. ASSUME NEW x \in Elems(s) \ {s[k]} PROVE x \in Elems(Without(s, k))
    <2>1. PICK i \in 1 .. Len(s) : x = s[i]
      BY <1>2, <1>6 DEF Elems
    <2>2. CASE i < k
      <3>1. i \in DOMAIN Without(s, k) /\ x = Without(s, k)[i]
        BY <1>1, <1>2, <2>1, <2>2
      <3>2. QED BY <3>1 DEF Elems
    <2>3. CASE i > k
      <3>1. i - 1 \in DOMAIN Without(s, k) /\ x = Without(s, k)[i - 1]
        BY <1>1, <1>2, <2>1, <2>3
      <3>2. QED BY <3>1 DEF Elems
    <2>4. i # k
      BY <1>6, <2>1
    <2>5. QED BY <2>2, <2>3, <2>4
  <1>7. QED BY <1>3, <1>5, <1>6

LEMMA SortedConcat ==
  ASSUME NEW b \in Seq(Item), NEW q \in Seq(Item), Sorted(b \o q)
  PROVE  /\ Sorted(b) /\ Sorted(q)
         /\ \A x \in Elems(b), y \in Elems(q) : x.id < y.id
  <1>1. /\ b \o q \in Seq(Item) /\ Len(b \o q) = Len(b) + Len(q)
        /\ \A i \in 1 .. Len(b) + Len(q) :
             (b \o q)[i] = IF i <= Len(b) THEN b[i] ELSE q[i - Len(b)]
    BY ConcatProperties
  <1>2. /\ DOMAIN b = 1 .. Len(b) /\ Len(b) \in Nat
        /\ DOMAIN q = 1 .. Len(q) /\ Len(q) \in Nat
        /\ DOMAIN (b \o q) = 1 .. Len(b) + Len(q)
    BY <1>1, LenProperties
  <1>3. \A i \in 1 .. Len(q) : Len(b) + i \in DOMAIN (b \o q) /\ (b \o q)[Len(b) + i] = q[i]
    BY <1>1, <1>2
  <1>4. \A i \in 1 .. Len(b) : i \in DOMAIN (b \o q) /\ (b \o q)[i] = b[i]
    BY <1>1, <1>2
  <1>5. Sorted(q)
    <2>1. SUFFICES ASSUME NEW i \in 1 .. Len(q), NEW j \in 1 .. Len(q), i < j
                   PROVE  q[i].id < q[j].id
      BY <1>2 DEF Sorted
    <2>2. Len(b) + i < Len(b) + j
      BY <1>2, <2>1
    <2>3. QED BY <1>3, <2>2 DEF Sorted
  <1>6. ASSUME NEW x \in Elems(b), NEW y \in Elems(q) PROVE x.id < y.id
    <2>1. PICK i \in 1 .. Len(b) : x = b[i]
      BY <1>2 DEF Elems
    <2>2. PICK j \in 1 .. Len(q) : y = q[j]
      BY <1>2 DEF Elems
    <2>3. i < Len(b) + j
      BY <1>2
    <2>4. QED BY <1>3, <1>4, <2>1, <2>2, <2>3 DEF Sorted
  <1>7. Sorted(b)
    BY <1>2, <1>4 DEF Sorted
  <1>8. QED BY <1>5, <1>6, <1>7

-----------------------------------------------------------------------------
(* Type correctness. *)

LEMMA CountsAreNat ==
  ASSUME NEW s \in Seq(Item)
  PROVE  TraceCount(s) \in Nat /\ LogCount(s) \in Nat
  <1>1. IsFiniteSet(DOMAIN s)
    BY LenProperties, FS_Interval
  <1>2. IsFiniteSet({i \in DOMAIN s : IsTrace(s[i])})
    BY <1>1, FS_Subset
  <1>3. IsFiniteSet({i \in DOMAIN s : ~IsTrace(s[i])})
    BY <1>1, FS_Subset
  <1>4. QED BY <1>2, <1>3, FS_CardinalityType DEF TraceCount, LogCount

LEMMA ElemsType ==
  ASSUME NEW s \in Seq(Item)
  PROVE  Elems(s) \subseteq Item
  BY ElementOfSeq, LenProperties DEF Elems

LEMMA NewItemType ==
  ASSUME TypeOK, NEW k \in Kinds, NEW b \in Nat
  PROVE  NewItem(k, b) \in Item
  BY DEF TypeOK, NewItem, Item

LEMMA LogLineType ==
  ASSUME TypeOK, LogLine
  PROVE  queue' \in Seq(Item) /\ next' \in Nat /\ logsDropped' \in Nat
  <1>1. NewItem("log", 0) \in Item
    BY NewItemType DEF Kinds
  <1>2. CASE Full
    BY <1>2 DEF LogLine, TypeOK
  <1>3. CASE ~Full
    <2>1. queue \in Seq(Item) /\ next \in Nat /\ logsDropped \in Nat
      BY DEF TypeOK
    <2>2. /\ queue' = Append(queue, NewItem("log", 0))
          /\ next' = next + 1 /\ logsDropped' = logsDropped
      BY <1>3 DEF LogLine, Appended
    <2>3. Append(queue, NewItem("log", 0)) \in Seq(Item)
      BY <1>1, <2>1, ElemsAppend
    <2>4. QED BY <2>1, <2>2, <2>3
  <1>4. QED BY <1>2, <1>3

LEMMA OwnLogType ==
  ASSUME TypeOK, OwnLog
  PROVE  /\ queue' \in Seq(Item) /\ next' \in Nat /\ logsDropped' \in Nat
         /\ arrived' \in [Kinds -> Nat]
  <1>1. CASE stopping
    BY <1>1 DEF OwnLog, TypeOK
  <1>2. CASE ~stopping
    BY <1>2, LogLineType DEF OwnLog, TypeOK, Kinds
  <1>3. QED BY <1>1, <1>2

LEMMA TypeStep ==
  ASSUME TypeOK, [Next]_vars
  PROVE  TypeOK'
  <1> USE WriterAssumption
  <1>1. ASSUME NEW p \in Producers, NEW k \in TraceKinds, NEW b \in Buckets, Put(p, k, b)
        PROVE  TypeOK'
    <2>1. NewItem(k, b) \in Item
      BY NewItemType DEF Kinds
    <2>2. queue' \in Seq(Item)
      BY <1>1, <2>1, ElemsAppend DEF Put, Appended, TypeOK
    <2>3. QED
      BY <1>1, <2>2 DEF Put, Appended, Arrive, SampledDrop, TypeOK, TraceKinds, Kinds,
                        thread, durable
  <1>2. ASSUME NEW p \in Producers, NEW b \in Buckets, PutEvicting(p, b)
        PROVE  TypeOK'
    <2>1. NewItem("kept", b) \in Item
      BY NewItemType DEF Kinds, TraceKinds
    <2>2. PICK k \in DOMAIN queue : /\ Appended(Without(queue, k), "kept", b)
                                    /\ lost' = lost \cup {queue[k]}
      BY <1>2 DEF PutEvicting
    <2>3. k \in 1 .. Len(queue) /\ queue[k] \in Item
      BY LenProperties, ElementOfSeq DEF TypeOK
    <2>4. queue' \in Seq(Item)
      BY <2>1, <2>2, <2>3, WithoutProperties, ElemsAppend DEF Appended, TypeOK
    <2>5. QED
      BY <1>2, <2>2, <2>3, <2>4, SMTT(30) DEF PutEvicting, Appended, Arrive, TypeOK, TraceKinds,
                                    Kinds, thread, durable
  <1>3. ASSUME NEW p \in Producers, NEW k \in TraceKinds, NEW b \in Buckets,
               PutBlocked(p, k, b)
        PROVE  TypeOK'
    <2>1. [by |-> p, kind |-> k, bucket |-> b] \in Waiter
      BY DEF Waiter
    <2>2. QED
      BY <1>3, <2>1 DEF PutBlocked, Arrive, SampledDrop, TypeOK, TraceKinds, Kinds,
                        thread, durable
  <1>4. ASSUME NEW p \in Producers, EnqueueLog(p)
        PROVE  TypeOK'
    BY <1>4, LogLineType DEF EnqueueLog, Arrive, TypeOK, Kinds, thread, durable
  <1>5. ASSUME NEW w \in waiting, Admitted(w)
        PROVE  TypeOK'
    <2>1. w.kind \in Kinds /\ w.bucket \in Nat
      BY DEF TypeOK, Waiter, Kinds
    <2>2. NewItem(w.kind, w.bucket) \in Item
      BY <2>1, NewItemType
    <2>3. queue' \in Seq(Item)
      BY <1>5, <2>2, ElemsAppend DEF Admitted, Appended, TypeOK
    <2>4. QED
      BY <1>5, <2>3 DEF Admitted, Appended, TypeOK, counts, thread, durable
  <1>6. ASSUME NEW w \in waiting, GiveUp(w)
        PROVE  TypeOK'
    BY <1>6 DEF GiveUp, TypeOK, thread, durable, history
  <1>7. CASE Start
    BY <1>7 DEF Start, TypeOK, ThreadPlaces, shared, counts, durable, history
  <1>8. CASE Stop
    BY <1>8 DEF Stop, TypeOK, counts, thread, durable
  <1>9. ASSUME NEW f \in Flushers, FlushCheck(f)
        PROVE  TypeOK'
    BY <1>9 DEF FlushCheck, TypeOK, shared, counts, thread, durable, history
  <1>10. ASSUME NEW f \in Flushers, FlushRequest(f)
         PROVE  TypeOK'
    BY <1>10 DEF FlushRequest, ClearAck, TypeOK, counts, thread, durable
  <1>11. ASSUME NEW f \in Flushers, FlushWait(f)
         PROVE  TypeOK'
    BY <1>11 DEF FlushWait, TypeOK, shared, counts, thread, durable, history
  <1>12. ASSUME NEW f \in Flushers, FlushReturn(f) \/ FlushTimeout(f)
         PROVE  TypeOK'
    BY <1>12, ZenonT(60) DEF FlushReturn, FlushTimeout, TypeOK, shared, counts, thread, durable, history
  <1>13. CASE Connect
    BY <1>13 DEF Connect, TypeOK, ThreadPlaces, shared, counts, durable, history
  <1>14. CASE CollectTake
    <2>1. PICK n \in 1 .. Len(queue) :
             /\ batch' = batch \o SubSeq(queue, 1, n)
             /\ queue' = SubSeq(queue, n + 1, Len(queue))
             /\ tpc' \in {"decide", "collect"}
      BY <1>14 DEF CollectTake
    <2>2. batch' \in Seq(Item) /\ queue' \in Seq(Item)
      <3> DEFINE p == SubSeq(queue, 1, n)
      <3>1. p \in Seq(Item) /\ queue' \in Seq(Item)
        BY <2>1, SplitAt DEF TypeOK
      <3>2. batch' = batch \o p /\ batch \in Seq(Item)
        BY <2>1 DEF TypeOK
      <3> HIDE DEF p
      <3>3. QED BY <3>1, <3>2, ConcatProperties
    <2>3. QED
      BY <1>14, <2>1, <2>2, SMTT(30) DEF CollectTake, TypeOK, ThreadPlaces, counts, durable, history
  <1>15. CASE CollectClose \/ CollectIdle
    BY <1>15 DEF CollectClose, CollectIdle, TypeOK, ThreadPlaces, shared, counts, durable,
                 history
  <1>16. CASE Decide
    BY <1>16 DEF Decide, TypeOK, ThreadPlaces, shared, counts, durable, history
  <1>17. CASE CommitNothing
    BY <1>17 DEF CommitNothing, TypeOK, ThreadPlaces, shared, counts, durable, history
  <1>18. CASE CommitOk
    <2>1. Elems(batch) \subseteq Item
      BY ElemsType DEF TypeOK
    <2>2. /\ open' \subseteq Item /\ rolled' \subseteq Item
          /\ done' \subseteq Item /\ fresh' \subseteq Item /\ batch' \in Seq(Item)
      BY <1>18, <2>1 DEF CommitOk, BucketsLeft, Work, Due, Traces, Kept, TypeOK
    <2>3. QED
      BY <1>18, <2>2 DEF CommitOk, TypeOK, ThreadPlaces, shared, counts, history
  <1>19. CASE Publish
    BY <1>19 DEF Publish, TypeOK, ThreadPlaces, shared, counts, history
  <1>20. CASE CommitBusyRetry
    BY <1>20 DEF CommitBusyRetry, Fault, TypeOK, shared, counts, durable
  <1>21. CASE CommitRequeue
    <2>1. queue' \in Seq(Item) /\ batch' \in Seq(Item)
      BY <1>21, ElemsConcat DEF CommitRequeue, Requeued, TypeOK
    <2>2. QED
      BY <1>21, <2>1 DEF CommitRequeue, Fault, TypeOK, ThreadPlaces, counts, durable
  <1>22. CASE CommitDrop
    <2>1. /\ TraceCount(batch) \in Nat /\ LogCount(batch) \in Nat
          /\ Elems(batch) \subseteq Item
      BY CountsAreNat, ElemsType DEF TypeOK
    <2>2. obsDropped' \in Nat /\ logsDropped' \in Nat /\ lost' \subseteq Item
          /\ batch' \in Seq(Item)
      BY <1>22, <2>1 DEF CommitDrop, TypeOK
    <2>3. QED
      <3>1. /\ retried' = FALSE /\ attempt' = 0 /\ status' = "dropped" /\ tpc' = "warn"
            /\ faults' = faults + 1
            /\ UNCHANGED <<shared, flushSeen, stopSeen, open, fresh, fpc, durable, next,
                           arrived, mark, stopMark, crashed>>
        BY <1>22 DEF CommitDrop, Fault
      <3>2. /\ queue' \in Seq(Item) /\ waiting' \subseteq Waiter
            /\ open' \subseteq Item /\ fresh' \subseteq Item /\ done' \subseteq Item
            /\ rolled' \subseteq Item /\ published' \subseteq Item
        BY <3>1 DEF TypeOK, shared, durable
      <3>3. /\ stopping' \in BOOLEAN /\ flushWanted' \in BOOLEAN /\ flushAck' \in BOOLEAN
            /\ tpc' \in ThreadPlaces /\ flushSeen' \in BOOLEAN /\ stopSeen' \in BOOLEAN
            /\ attempt' \in Nat /\ retried' \in BOOLEAN
            /\ status' \in {"ok", "requeued", "dropped"}
        BY <3>1 DEF TypeOK, ThreadPlaces, shared
      <3>4. /\ UNCHANGED <<fpc, arrived, mark>>
            /\ next' \in Nat /\ stopMark' \in Nat /\ faults' \in Nat /\ crashed' \in BOOLEAN
        BY <3>1 DEF TypeOK
      <3>5. QED
        BY <2>2, <3>2, <3>3, <3>4 DEF TypeOK
  <1>23. CASE Warn
    BY <1>23, OwnLogType DEF Warn, TypeOK, ThreadPlaces, durable
  <1>24. CASE Settle
    BY <1>24 DEF Settle, AckFlush, TypeOK, ThreadPlaces, counts, durable, history
  <1>25. CASE Crash
    BY <1>25, OwnLogType DEF Crash, TypeOK, ThreadPlaces, durable
  <1>26. CASE Exit
    BY <1>26 DEF Exit, AckFlush, TypeOK, ThreadPlaces, counts, durable, history
  <1>27. CASE UNCHANGED vars
    BY <1>27 DEF vars, shared, counts, thread, durable, history, TypeOK
  <1>28. QED
    BY <1>1, <1>2, <1>3, <1>4, <1>5, <1>6, <1>7, <1>8, <1>9, <1>10, <1>11, <1>12, <1>13,
       <1>14, <1>15, <1>16, <1>17, <1>18, <1>19, <1>20, <1>21, <1>22, <1>23, <1>24, <1>25,
       <1>26, <1>27
       DEF Next, WriterStep

\* The writer's variables keep their types, whatever the load and the faults.
THEOREM TypeCorrect == Spec => []TypeOK
  <1>1. Init => TypeOK
    <2>1. <<>> \in Seq(Item)
      BY EmptySeq
    <2>2. ASSUME Init PROVE TypeOK
      BY <2>1, <2>2 DEF Init, TypeOK, ThreadPlaces
    <2>3. QED BY <2>2
  <1>2. QED BY <1>1, TypeStep, PTL DEF Spec

-----------------------------------------------------------------------------
(* What a step does to the pending items: the batch followed by the queue. *)

Pend == batch \o queue

Keeps == Pend' = Pend /\ UNCHANGED <<next, done, lost>>

Accepts ==
  \E e \in Item : /\ e.id = next
                  /\ Len(queue) < QueueMax
                  /\ next' = next + 1
                  /\ Pend' = Append(Pend, e)
                  /\ UNCHANGED <<done, lost>>

Exchanges ==
  \E e \in Item, m \in 1 .. Len(Pend) :
    /\ e.id = next
    /\ next' = next + 1
    /\ Droppable(Pend[m])
    /\ Pend' = Append(Without(Pend, m), e)
    /\ lost' = lost \cup {Pend[m]}
    /\ UNCHANGED done

Commits == /\ tpc = "commit"
           /\ queue' = queue /\ Pend' = queue
           /\ done' = done \cup Elems(batch)
           /\ UNCHANGED <<next, lost>>

Drops == /\ tpc = "commit"
         /\ queue' = queue /\ Pend' = queue
         /\ lost' = lost \cup Elems(batch)
         /\ UNCHANGED <<next, done>>

Effect == Keeps \/ Accepts \/ Exchanges \/ Commits \/ Drops

LEMMA PendType ==
  ASSUME TypeOK
  PROVE  /\ Pend \in Seq(Item)
         /\ Len(Pend) = Len(batch) + Len(queue)
         /\ Len(batch) \in Nat /\ Len(queue) \in Nat
         /\ Elems(Pend) = Live
  <1>1. batch \in Seq(Item) /\ queue \in Seq(Item)
    BY DEF TypeOK
  <1>2. Len(batch) \in Nat /\ Len(queue) \in Nat
    BY <1>1, LenProperties
  <1>3. /\ Pend \in Seq(Item) /\ Len(Pend) = Len(batch) + Len(queue)
        /\ Elems(Pend) = Elems(batch) \cup Elems(queue)
    BY <1>1, ElemsConcat DEF Pend
  <1>4. QED BY <1>2, <1>3 DEF Live

LEMMA AppendEffect ==
  ASSUME TypeOK, NEW k \in Kinds, NEW b \in Nat, Appended(queue, k, b), ~Full,
         UNCHANGED <<batch, done, lost>>
  PROVE  Accepts
  <1>1. NewItem(k, b) \in Item /\ NewItem(k, b).id = next
    BY NewItemType DEF NewItem
  <1>2. queue' = Append(queue, NewItem(k, b)) /\ next' = next + 1
    BY DEF Appended
  <1>3. batch \o Append(queue, NewItem(k, b)) = Append(batch \o queue, NewItem(k, b))
    BY <1>1, ConcatAppend DEF TypeOK
  <1>4. Pend' = Append(Pend, NewItem(k, b))
    BY <1>2, <1>3 DEF Pend
  <1>5. Len(queue) < QueueMax
    BY WriterAssumption, LenProperties DEF Full, TypeOK
  <1>6. QED BY <1>1, <1>2, <1>4, <1>5 DEF Accepts

LEMMA LogLineEffect ==
  ASSUME TypeOK, LogLine, UNCHANGED <<batch, done, lost>>
  PROVE  Keeps \/ Accepts
  <1>1. CASE Full
    BY <1>1 DEF LogLine, Keeps, Pend
  <1>2. CASE ~Full
    <2>1. Appended(queue, "log", 0)
      BY <1>2 DEF LogLine
    <2>2. Accepts
      BY <1>2, <2>1, AppendEffect DEF Kinds
    <2>3. QED BY <2>2
  <1>3. QED BY <1>1, <1>2

LEMMA OwnLogEffect ==
  ASSUME TypeOK, OwnLog, UNCHANGED <<batch, done, lost>>
  PROVE  Keeps \/ Accepts
  <1>1. CASE stopping
    BY <1>1 DEF OwnLog, Keeps, Pend
  <1>2. CASE ~stopping
    BY <1>2, LogLineEffect DEF OwnLog
  <1>3. QED BY <1>1, <1>2

\* Every step keeps the pending items, accepts one, exchanges one, or settles a batch.
LEMMA StepEffect ==
  ASSUME TypeOK, [Next]_vars
  PROVE  Effect
  <1> USE WriterAssumption
  <1>1. ASSUME NEW p \in Producers, NEW k \in TraceKinds, NEW b \in Buckets, Put(p, k, b)
        PROVE  Accepts
    <2>1. /\ k \in Kinds /\ b \in Nat /\ Appended(queue, k, b) /\ ~Full
          /\ UNCHANGED <<batch, done, lost>>
      BY <1>1 DEF Put, Kinds, thread, durable
    <2>2. QED BY <2>1, AppendEffect
  <1>2. ASSUME NEW p \in Producers, NEW b \in Buckets, PutEvicting(p, b)
        PROVE  Exchanges
    <2>1. PICK k \in DOMAIN queue : /\ _evict_kept_non_error(k)
                                    /\ Appended(Without(queue, k), "kept", b)
                                    /\ lost' = lost \cup {queue[k]}
      BY <1>2 DEF PutEvicting
    <2>2. NewItem("kept", b) \in Item /\ NewItem("kept", b).id = next
      BY NewItemType DEF NewItem, Kinds, TraceKinds
    <2>3. batch \in Seq(Item) /\ queue \in Seq(Item) /\ k \in 1 .. Len(queue)
      BY LenProperties DEF TypeOK
    <2>4. UNCHANGED <<batch, done>> /\ next' = next + 1
          /\ queue' = Append(Without(queue, k), NewItem("kept", b))
      BY <1>2, <2>1 DEF PutEvicting, Appended, thread, durable
    <2>5. Without(queue, k) \in Seq(Item)
      BY <2>3, WithoutProperties
    <2>6. Pend' = Append(batch \o Without(queue, k), NewItem("kept", b))
      BY <2>2, <2>3, <2>4, <2>5, ConcatAppend DEF Pend
    <2>7. /\ Len(batch) + k \in 1 .. Len(Pend)
          /\ Pend[Len(batch) + k] = queue[k]
          /\ batch \o Without(queue, k) = Without(Pend, Len(batch) + k)
      BY <2>3, ConcatWithout DEF Pend
    <2>8. Droppable(Pend[Len(batch) + k])
      BY <2>1, <2>7 DEF _evict_kept_non_error
    <2>9. QED BY <2>1, <2>2, <2>4, <2>6, <2>7, <2>8 DEF Exchanges
  <1>3. ASSUME NEW p \in Producers, NEW k \in TraceKinds, NEW b \in Buckets,
               PutBlocked(p, k, b)
        PROVE  Keeps
    BY <1>3 DEF PutBlocked, Keeps, Pend, thread, durable
  <1>4. ASSUME NEW p \in Producers, EnqueueLog(p)
        PROVE  Keeps \/ Accepts
    BY <1>4, LogLineEffect DEF EnqueueLog, thread, durable
  <1>5. ASSUME NEW w \in waiting, Admitted(w)
        PROVE  Accepts
    <2>1. w.kind \in Kinds /\ w.bucket \in Nat
      BY DEF TypeOK, Waiter, Kinds
    <2>2. Appended(queue, w.kind, w.bucket) /\ ~Full /\ UNCHANGED <<batch, done, lost>>
      BY <1>5 DEF Admitted, thread, durable
    <2>3. QED BY <2>1, <2>2, AppendEffect
  <1>6. ASSUME NEW w \in waiting, GiveUp(w)
        PROVE  Keeps
    BY <1>6 DEF GiveUp, Keeps, Pend, thread, durable, history
  <1>7. CASE Start \/ Stop
    BY <1>7 DEF Start, Stop, Keeps, Effect, Pend, shared, thread, durable, history
  <1>8. ASSUME NEW f \in Flushers,
               \/ FlushCheck(f) \/ FlushRequest(f) \/ FlushWait(f)
               \/ FlushReturn(f) \/ FlushTimeout(f)
        PROVE  Keeps
    BY <1>8 DEF FlushCheck, FlushRequest, FlushWait, FlushReturn, FlushTimeout, Keeps, Pend,
                shared, thread, durable, history
  <1>9. CASE Connect \/ CollectClose \/ CollectIdle \/ Decide \/ CommitNothing
    BY <1>9 DEF Connect, CollectClose, CollectIdle, Decide, CommitNothing, Keeps, Effect,
                Pend, shared, durable, history
  <1>10. CASE CollectTake
    <2>1. PICK n \in 1 .. Len(queue) : /\ batch' = batch \o SubSeq(queue, 1, n)
                                       /\ queue' = SubSeq(queue, n + 1, Len(queue))
      BY <1>10 DEF CollectTake
    <2>2. Pend' = Pend
      <3>1. batch \in Seq(Item) /\ queue \in Seq(Item)
        BY DEF TypeOK
      <3>2. \A x, y : x = batch \o SubSeq(queue, 1, n) /\ y = SubSeq(queue, n + 1, Len(queue))
                       => x \o y = batch \o queue
        BY <3>1, TakePrefix
      <3>3. batch' \o queue' = batch \o queue
        BY <2>1, <3>2, Zenon
      <3>4. QED BY <3>3, Zenon DEF Pend
    <2>3. QED BY <1>10, <2>2 DEF CollectTake, Keeps, Effect, durable, history
  <1>11. CASE CommitOk
    <2>1. /\ tpc = "commit" /\ queue' = queue /\ batch' = <<>>
          /\ done' = done \cup Elems(batch) /\ UNCHANGED <<next, lost>>
      BY <1>11 DEF CommitOk, shared, history
    <2>2. Pend' = queue
      BY <2>1, ConcatEmptySeq DEF Pend, TypeOK
    <2>3. QED BY <2>1, <2>2 DEF Commits, Effect
  <1>12. CASE Publish \/ CommitBusyRetry \/ Settle \/ Exit
    BY <1>12 DEF Publish, CommitBusyRetry, Settle, Exit, Keeps, Effect, Pend, shared,
                 durable, history
  <1>13. CASE CommitRequeue
    <2>1. queue' = batch \o queue /\ batch' = <<>> /\ UNCHANGED <<next, done, lost>>
      BY <1>13 DEF CommitRequeue, Requeued, durable
    <2>2. batch \o queue \in Seq(Item)
      BY ElemsConcat DEF TypeOK
    <2>3. Pend' = Pend
      BY <2>1, <2>2, ConcatEmptySeq DEF Pend
    <2>4. QED BY <2>1, <2>3 DEF Keeps, Effect
  <1>14. CASE CommitDrop
    <2>1. /\ tpc = "commit" /\ queue' = queue /\ batch' = <<>>
          /\ lost' = lost \cup Elems(batch) /\ UNCHANGED <<next, done>>
      BY <1>14 DEF CommitDrop, shared, durable
    <2>2. Pend' = queue
      BY <2>1, ConcatEmptySeq DEF Pend, TypeOK
    <2>3. QED BY <2>1, <2>2 DEF Drops, Effect
  <1>15. CASE Warn \/ Crash
    BY <1>15, OwnLogEffect DEF Warn, Crash, durable, Effect
  <1>16. CASE UNCHANGED vars
    BY <1>16 DEF vars, shared, thread, durable, history, Keeps, Effect, Pend
  <1>17. QED
    BY <1>1, <1>2, <1>3, <1>4, <1>5, <1>6, <1>7, <1>8, <1>9, <1>10, <1>11, <1>12, <1>13,
       <1>14, <1>15, <1>16
       DEF Next, WriterStep, Effect

-----------------------------------------------------------------------------
(* Order: no transaction overtakes. *)

OrderInv ==
  /\ Sorted(Pend)
  /\ next >= 1
  /\ \A i \in Live : i.id < next
  /\ \A d \in done : d.id < next
  /\ \A d \in done, i \in Live : d.id < i.id

LEMMA LiveStep ==
  ASSUME TypeOK, TypeOK', Sorted(Pend), [Next]_vars
  PROVE  /\ next' = next \/ next' = next + 1
         /\ \A i \in Live' : i \in Live \/ (i.id = next /\ next' = next + 1)
  <1>1. Effect
    BY StepEffect
  <1>2. /\ Pend \in Seq(Item) /\ Elems(Pend) = Live
        /\ Elems(queue) \subseteq Live
    BY PendType DEF Live
  <1>3. Elems(Pend') = Live'
    <2>1. batch' \in Seq(Item) /\ queue' \in Seq(Item)
      BY DEF TypeOK
    <2>2. Elems(batch' \o queue') = Elems(batch') \cup Elems(queue')
      BY <2>1, ElemsConcat
    <2>3. Live' = Elems(queue') \cup Elems(batch')
      BY DEF Live, Elems
    <2>4. QED BY <2>2, <2>3 DEF Pend
  <1>4. CASE Keeps
    BY <1>2, <1>3, <1>4 DEF Keeps
  <1>5. CASE Accepts
    <2>1. PICK e \in Item : e.id = next /\ next' = next + 1 /\ Pend' = Append(Pend, e)
      BY <1>5 DEF Accepts
    <2>2. Live' = Live \cup {e}
      BY <1>2, <1>3, <2>1, ElemsAppend
    <2>3. QED BY <2>1, <2>2
  <1>6. CASE Exchanges
    <2>1. PICK e \in Item, m \in 1 .. Len(Pend) :
            e.id = next /\ next' = next + 1 /\ Pend' = Append(Without(Pend, m), e)
      BY <1>6 DEF Exchanges
    <2>2. Without(Pend, m) \in Seq(Item) /\ Elems(Without(Pend, m)) = Live \ {Pend[m]}
      BY <1>2, WithoutProperties, SortedWithout
    <2>3. Live' = (Live \ {Pend[m]}) \cup {e}
      BY <1>3, <2>1, <2>2, ElemsAppend
    <2>4. QED BY <2>1, <2>3
  <1>7. CASE Commits \/ Drops
    BY <1>2, <1>3, <1>7 DEF Commits, Drops
  <1>8. QED BY <1>1, <1>4, <1>5, <1>6, <1>7 DEF Effect

LEMMA OrderStep ==
  ASSUME TypeOK, TypeOK', OrderInv, [Next]_vars
  PROVE  OrderInv'
  <1>1. Effect
    BY StepEffect
  <1>2. /\ Pend \in Seq(Item) /\ Elems(Pend) = Live /\ Live \subseteq Item /\ done \subseteq Item
        /\ next \in Nat /\ batch \in Seq(Item) /\ queue \in Seq(Item)
    BY PendType, ElemsType DEF TypeOK
  <1>3. /\ Sorted(Pend) /\ next >= 1
        /\ \A i \in Live : i.id < next
        /\ \A d \in done : d.id < next
        /\ \A d \in done, i \in Live : d.id < i.id
    BY DEF OrderInv
  <1>4. \A i \in Item : i.id \in Nat
    BY DEF Item
  <1>5. /\ next' = next \/ next' = next + 1
        /\ \A i \in Live' : i \in Live \/ (i.id = next /\ next' = next + 1)
    BY <1>3, LiveStep
  <1>6. next' >= 1 /\ next' >= next
    BY <1>2, <1>3, <1>5
  <1>7. \A i \in Live' : i.id < next'
    BY <1>2, <1>3, <1>4, <1>5
  <1>8. Sorted(Pend)'
    <2>1. CASE Keeps
      BY <1>3, <2>1 DEF Keeps, Sorted
    <2>2. CASE Accepts
      <3>1. PICK e \in Item : e.id = next /\ Pend' = Append(Pend, e)
        BY <2>2 DEF Accepts
      <3>2. Sorted(Append(Pend, e))
        BY <1>2, <1>3, <3>1, SortedAppend
      <3>3. QED BY <3>1, <3>2 DEF Sorted
    <2>3. CASE Exchanges
      <3>1. PICK e \in Item, m \in 1 .. Len(Pend) :
              e.id = next /\ Pend' = Append(Without(Pend, m), e)
        BY <2>3 DEF Exchanges
      <3>2. /\ Without(Pend, m) \in Seq(Item) /\ Sorted(Without(Pend, m))
            /\ Elems(Without(Pend, m)) = Live \ {Pend[m]}
        BY <1>2, <1>3, WithoutProperties, SortedWithout
      <3>3. \A x \in Elems(Without(Pend, m)) : x.id < e.id
        BY <1>3, <3>1, <3>2
      <3>4. Sorted(Append(Without(Pend, m), e))
        BY <3>2, <3>3, SortedAppend
      <3>5. QED BY <3>1, <3>4 DEF Sorted
    <2>4. CASE Commits \/ Drops
      <3>1. Sorted(queue)
        BY <1>2, <1>3, SortedConcat DEF Pend
      <3>2. QED BY <2>4, <3>1 DEF Commits, Drops, Sorted
    <2>5. QED BY <1>1, <2>1, <2>2, <2>3, <2>4 DEF Effect
  <1>9. CASE ~Commits
    <2>1. done' = done
      BY <1>1, <1>9 DEF Effect, Keeps, Accepts, Exchanges, Drops
    <2>2. \A d \in done' : d.id < next'
      <3>1. SUFFICES ASSUME NEW d \in done PROVE d.id < next'
        BY <2>1
      <3>2. d.id < next /\ d.id \in Nat /\ next' \in Nat
        BY <1>2, <1>3, <1>4, <1>5
      <3>3. QED BY <1>2, <1>6, <3>2
    <2>3. \A d \in done', i \in Live' : d.id < i.id
      BY <1>3, <1>5, <2>1
    <2>4. QED BY <1>6, <1>7, <1>8, <2>2, <2>3 DEF OrderInv
  <1>10. CASE Commits
    <2>1. done' = done \cup Elems(batch) /\ next' = next /\ Pend' = queue
      BY <1>10 DEF Commits
    <2>2. Elems(batch) \subseteq Live /\ Elems(queue) \subseteq Live
      BY DEF Live
    <2>3. Live' = Elems(queue)
      <3>1. batch' \in Seq(Item) /\ queue' \in Seq(Item)
        BY DEF TypeOK
      <3>2. Elems(batch' \o queue') = Elems(batch') \cup Elems(queue')
        BY <3>1, ElemsConcat
      <3>3. Live' = Elems(queue') \cup Elems(batch')
        BY DEF Live, Elems
      <3>4. QED BY <2>1, <3>2, <3>3 DEF Pend
    <2>4. \A x \in Elems(batch), y \in Elems(queue) : x.id < y.id
      BY <1>2, <1>3, SortedConcat DEF Pend
    <2>5. \A d \in done' : d.id < next'
      BY <1>3, <2>1, <2>2
    <2>6. \A d \in done', i \in Live' : d.id < i.id
      BY <1>3, <2>1, <2>2, <2>3, <2>4
    <2>7. QED BY <1>6, <1>7, <1>8, <2>5, <2>6 DEF OrderInv
  <1>11. QED BY <1>9, <1>10

LEMMA InitOrder ==
  ASSUME Init
  PROVE  OrderInv
  <1>1. queue = <<>> /\ batch = <<>> /\ done = {} /\ next = 1
    BY DEF Init
  <1>2. Pend = <<>>
    BY <1>1, EmptySeq, ConcatEmptySeq DEF Pend
  <1>3. Live = {} /\ DOMAIN Pend = {}
    BY <1>1, <1>2, ElemsEmpty DEF Live
  <1>4. QED BY <1>1, <1>3 DEF OrderInv, Sorted

\* The inductive invariant behind NoOvertaking.
THEOREM OrderHolds == Spec => []OrderInv
  <1>1. Init => OrderInv
    BY InitOrder
  <1>2. OrderInv /\ TypeOK /\ TypeOK' /\ [Next]_vars => OrderInv'
    BY OrderStep
  <1>3. QED BY <1>1, <1>2, TypeCorrect, PTL DEF Spec

\* No transaction overtakes an older pending item, and pending items keep their
\* arrival order through collection, requeue, eviction and loss.
THEOREM NothingOvertakes == Spec => []NoOvertaking
  <1>1. OrderInv => NoOvertaking
    BY DEF OrderInv, NoOvertaking, Sorted, Pend
  <1>2. QED BY <1>1, OrderHolds, PTL

-----------------------------------------------------------------------------
(* Memory: the queue and the batch. *)

BoundInv == QueueBound /\ Len(batch) <= BatchRows

\* Only collecting makes the batch longer, and never beyond batch_rows.
LEMMA BatchStep ==
  ASSUME TypeOK, Len(batch) <= BatchRows, [Next]_vars
  PROVE  Len(batch') <= BatchRows
  <1> USE WriterAssumption
  <1>1. Len(<<>>) <= BatchRows
    OBVIOUS
  <1>2. CASE CollectTake
    <2>1. PICK n \in 1 .. Len(queue) : /\ Len(batch) + n <= BatchRows
                                       /\ batch' = batch \o SubSeq(queue, 1, n)
      BY <1>2 DEF CollectTake
    <2>2. SubSeq(queue, 1, n) \in Seq(Item) /\ Len(SubSeq(queue, 1, n)) = n
      BY SplitAt DEF TypeOK
    <2>3. Len(batch') = Len(batch) + Len(SubSeq(queue, 1, n))
      BY <2>1, <2>2, ElemsConcat DEF TypeOK
    <2>4. QED BY <2>1, <2>2, <2>3
  <1>3. CASE CommitOk \/ CommitRequeue \/ CommitDrop
    BY <1>1, <1>3 DEF CommitOk, CommitRequeue, CommitDrop
  <1>4. CASE ~(CollectTake \/ CommitOk \/ CommitRequeue \/ CommitDrop)
    <2>1. batch' = batch
      BY <1>4 DEF Next, WriterStep, vars, thread, Put, PutEvicting, PutBlocked, EnqueueLog,
                  Admitted, GiveUp, Start, Stop, FlushCheck, FlushRequest, FlushWait,
                  FlushReturn, FlushTimeout, Connect, CollectClose, CollectIdle, Decide,
                  CommitNothing, Publish, CommitBusyRetry, Warn, Settle, Crash, Exit
    <2>2. QED BY <2>1
  <1>5. QED BY <1>2, <1>3, <1>4

LEMMA BoundStep ==
  ASSUME TypeOK, TypeOK', OrderInv, BoundInv, [Next]_vars
  PROVE  BoundInv'
  <1> USE WriterAssumption
  <1>1. Effect
    BY StepEffect
  <1>2. /\ Pend \in Seq(Item) /\ Len(Pend) = Len(batch) + Len(queue)
        /\ Len(batch) \in Nat /\ Len(queue) \in Nat
    BY PendType
  <1>3. Len(Pend') = Len(batch') + Len(queue') /\ Len(batch') \in Nat /\ Len(queue') \in Nat
    <2>1. batch' \in Seq(Item) /\ queue' \in Seq(Item)
      BY DEF TypeOK
    <2>2. Len(batch' \o queue') = Len(batch') + Len(queue')
      BY <2>1, ElemsConcat
    <2>3. QED BY <2>1, <2>2, LenProperties DEF Pend
  <1>4. Len(Pend) <= QueueMax + BatchRows /\ Len(batch) <= BatchRows
    BY <1>2 DEF BoundInv, QueueBound
  <1>5. Len(Pend') <= QueueMax + BatchRows
    <2>1. CASE Keeps
      BY <1>4, <2>1 DEF Keeps
    <2>2. CASE Accepts
      <3>1. PICK e \in Item : Len(queue) < QueueMax /\ Pend' = Append(Pend, e)
        BY <2>2 DEF Accepts
      <3>2. Len(Pend') = Len(Pend) + 1
        BY <1>2, <3>1, ElemsAppend
      <3>3. QED BY <1>2, <1>4, <3>1, <3>2
    <2>3. CASE Exchanges
      <3>1. PICK e \in Item, m \in 1 .. Len(Pend) : Pend' = Append(Without(Pend, m), e)
        BY <2>3 DEF Exchanges
      <3>2. Without(Pend, m) \in Seq(Item) /\ Len(Without(Pend, m)) = Len(Pend) - 1
        BY <1>2, WithoutProperties
      <3>3. Len(Pend') = Len(Without(Pend, m)) + 1
        BY <3>1, <3>2, ElemsAppend
      <3>4. QED BY <1>2, <1>4, <3>2, <3>3
    <2>4. CASE Commits \/ Drops
      BY <1>2, <1>4, <2>4 DEF Commits, Drops
    <2>5. QED BY <1>1, <2>1, <2>2, <2>3, <2>4 DEF Effect
  <1>6. Len(batch') <= BatchRows
    BY <1>4, BatchStep
  <1>7. QED BY <1>3, <1>5, <1>6 DEF BoundInv, QueueBound

\* The queue and the batch together never exceed queue_max plus one batch,
\* requeues included.
THEOREM MemoryBounded == Spec => []QueueBound
  <1>1. Init => BoundInv
    <2>1. ASSUME Init PROVE BoundInv
      BY <2>1, WriterAssumption DEF Init, BoundInv, QueueBound
    <2>2. QED BY <2>1
  <1>2. OrderInv /\ TypeOK /\ TypeOK' /\ BoundInv /\ [Next]_vars => BoundInv'
    BY BoundStep
  <1>3. BoundInv => QueueBound
    BY DEF BoundInv
  <1>4. QED BY <1>1, <1>2, <1>3, OrderHolds, TypeCorrect, PTL DEF Spec

\* The queue keeps its type, its bound and the order of arrival, for every queue and
\* batch size (enqueue, _collect, _commit).
THEOREM QueueIsSound == Spec => []QueueSound
  <1>1. TypeOK /\ QueueBound /\ NoOvertaking => QueueSound
    BY DEF QueueSound
  <1>2. QED BY <1>1, TypeCorrect, MemoryBounded, NothingOvertakes, PTL

-----------------------------------------------------------------------------
(* Rollups and publication. *)

AnyOther == ~CommitOk /\ ~Publish

LEMMA QuietStep ==
  ASSUME [Next]_vars, AnyOther
  PROVE  /\ UNCHANGED <<done, rolled, published, open, fresh>>
         /\ tpc' = "publish" => tpc = "publish"
  BY DEF AnyOther, Next, WriterStep, vars, thread, durable, Put, PutEvicting, PutBlocked,
         EnqueueLog, Admitted, GiveUp, Start, Stop, FlushCheck, FlushRequest, FlushWait,
         FlushReturn, FlushTimeout, Connect, CollectTake, CollectClose, CollectIdle, Decide,
         CommitNothing, CommitBusyRetry, CommitRequeue, CommitDrop, Warn, Settle, Crash, Exit

\* fresh is handed over before the thread does anything else.
HandoverInv == tpc # "publish" => fresh = {}

LEMMA NewlyDone ==
  ASSUME TypeOK, OrderInv
  PROVE  done \cap Elems(batch) = {}
  <1>1. SUFFICES ASSUME NEW x \in done, x \in Elems(batch) PROVE FALSE
    OBVIOUS
  <1>2. x.id < x.id
    BY <1>1 DEF OrderInv, Live
  <1>3. x.id \in Nat
    BY DEF TypeOK, Item
  <1>4. QED BY <1>2, <1>3

LEMMA RollupStep ==
  ASSUME TypeOK, OrderInv, RollupsExact, [Next]_vars
  PROVE  RollupsExact'
  <1>1. CASE CommitOk
    <2>1. PICK D \in SUBSET Buckets : open' = Work \ Due(D) /\ rolled' = rolled \cup Due(D)
      BY <1>1 DEF CommitOk, BucketsLeft
    <2>2. done' = done \cup Elems(batch)
      BY <1>1 DEF CommitOk
    <2>3. done \cap Elems(batch) = {}
      BY NewlyDone
    <2>4. Work = open \cup {i \in Elems(batch) : i.kind # "log"} /\ Due(D) \subseteq Work
      BY DEF Work, Traces, IsTrace, Due
    <2>5. open \cap rolled = {} /\ open \cup rolled = {i \in done : i.kind # "log"}
      BY DEF RollupsExact
    <2>6. Work \cap rolled = {}
      BY <2>3, <2>4, <2>5
    <2>7. open' \cap rolled' = {}
      BY <2>1, <2>6
    <2>8. open' \cup rolled' = Work \cup rolled
      BY <2>1, <2>4
    <2>9. Work \cup rolled = {i \in done' : i.kind # "log"}
      BY <2>2, <2>4, <2>5
    <2>10. QED BY <2>7, <2>8, <2>9 DEF RollupsExact
  <1>2. CASE Publish
    BY <1>2 DEF Publish, RollupsExact
  <1>3. CASE AnyOther
    BY <1>3, QuietStep DEF RollupsExact
  <1>4. QED BY <1>1, <1>2, <1>3 DEF AnyOther

\* Every committed trace is rolled up exactly once, for every schedule of
\* retries, requeues, drops and closed buckets.
THEOREM RolledUpOnce == Spec => []RollupsExact
  <1>1. Init => RollupsExact
    BY DEF Init, RollupsExact
  <1>2. TypeOK /\ OrderInv /\ RollupsExact /\ [Next]_vars => RollupsExact'
    BY RollupStep
  <1>3. QED BY <1>1, <1>2, OrderHolds, TypeCorrect, PTL DEF Spec

LEMMA PublishStep ==
  ASSUME TypeOK, OrderInv, HandoverInv, PublishedIsDurable, [Next]_vars
  PROVE  HandoverInv' /\ PublishedIsDurable'
  <1>1. CASE CommitOk
    <2>1. /\ tpc = "commit" /\ tpc' = "publish" /\ done' = done \cup Elems(batch)
          /\ fresh' = Kept(Elems(batch)) /\ published' = published
      BY <1>1 DEF CommitOk
    <2>2. fresh = {}
      BY <2>1 DEF HandoverInv
    <2>3. Elems(batch) \subseteq Item
      BY ElemsType DEF TypeOK
    <2>4. Kept(Elems(batch)) = {i \in Elems(batch) : i.kind \in {"kept", "error"}}
      BY <2>3 DEF Kept, IsTrace, _is_kept, Item, Kinds, TraceKinds
    <2>5. done \cap Elems(batch) = {}
      BY NewlyDone
    <2>6. QED BY <2>1, <2>2, <2>4, <2>5 DEF HandoverInv, PublishedIsDurable
  <1>2. CASE Publish
    BY <1>2 DEF Publish, HandoverInv, PublishedIsDurable
  <1>3. CASE AnyOther
    <2>1. /\ UNCHANGED <<done, published, fresh>>
          /\ tpc' = "publish" => tpc = "publish"
      BY <1>3, QuietStep
    <2>2. PublishedIsDurable'
      BY <2>1 DEF PublishedIsDurable
    <2>3. CASE tpc = "publish" /\ tpc' # "publish"
      BY <1>3, <2>3 DEF AnyOther, Next, WriterStep, vars, thread, Put, PutEvicting,
         PutBlocked, EnqueueLog, Admitted, GiveUp, Start, Stop, FlushCheck, FlushRequest,
         FlushWait, FlushReturn, FlushTimeout, Connect, CollectTake, CollectClose,
         CollectIdle, Decide, CommitNothing, CommitBusyRetry, CommitRequeue, CommitDrop,
         Warn, Settle, Crash, Exit
    <2>4. CASE ~(tpc = "publish" /\ tpc' # "publish")
      BY <2>1, <2>2, <2>4 DEF HandoverInv
    <2>5. QED BY <2>3, <2>4
  <1>4. QED BY <1>1, <1>2, <1>3 DEF AnyOther

\* Subscribers hear of exactly the kept traces that are durable, one hand-over
\* behind the commits.
THEOREM SubscribersAccurate == Spec => []PublishedIsDurable
  <1>1. Init => HandoverInv /\ PublishedIsDurable
    BY DEF Init, HandoverInv, PublishedIsDurable
  <1>2. TypeOK /\ OrderInv /\ HandoverInv /\ PublishedIsDurable /\ [Next]_vars
          => HandoverInv' /\ PublishedIsDurable'
    BY PublishStep
  <1>3. QED BY <1>1, <1>2, OrderHolds, TypeCorrect, PTL DEF Spec

\* A commit is whole: rows, rollups and published events agree (_commit).
THEOREM CommitIsWhole == Spec => []CommitWhole
  <1>1. RollupsExact /\ PublishedIsDurable => CommitWhole
    BY DEF CommitWhole
  <1>2. QED BY <1>1, RolledUpOnce, SubscribersAccurate, PTL

-----------------------------------------------------------------------------
(* flush_now and stop. *)

Left == {"exit", "dead"}

\* Where the thread is, and what its locals then say about the shared state.
PlaceInv ==
  /\ batch # <<>> => tpc \in {"collect", "decide", "commit"} \/ crashed
  /\ crashed => tpc \in Left
  /\ stopSeen => stopping
  /\ tpc \in Left /\ ~crashed => stopping
  /\ ~stopping => stopMark = 0

LEMMA PlaceStep ==
  ASSUME TypeOK, PlaceInv, [Next]_vars
  PROVE  PlaceInv'
  <1>1. CASE CollectTake
    BY <1>1 DEF CollectTake, PlaceInv, Left, history
  <1>2. CASE Settle
    BY <1>2 DEF Settle, PlaceInv, Left, history
  <1>3. CASE CommitOk \/ CommitRequeue \/ CommitDrop
    BY <1>3 DEF CommitOk, CommitRequeue, CommitDrop, PlaceInv, Left, history, shared
  <1>4. CASE Start \/ Connect \/ CollectClose \/ CollectIdle \/ Decide \/ CommitNothing
              \/ Publish \/ CommitBusyRetry \/ Warn \/ Crash \/ Exit \/ Stop
    BY <1>4 DEF Start, Connect, CollectClose, CollectIdle, Decide, CommitNothing, Publish,
                CommitBusyRetry, Warn, Crash, Exit, Stop, PlaceInv, Left, history, shared,
                thread
  <1>5. CASE UNCHANGED <<thread, stopping, stopMark, crashed>>
    BY <1>5 DEF PlaceInv, Left, thread
  <1>6. QED
    BY <1>1, <1>2, <1>3, <1>4, <1>5
       DEF Next, WriterStep, vars, shared, history, Put, PutEvicting, PutBlocked, EnqueueLog,
           Admitted, GiveUp, FlushCheck, FlushRequest, FlushWait, FlushReturn, FlushTimeout

\* A flusher that was released, or is about to find the event set, has nothing
\* older than its request pending; neither has a stop() whose thread has left.
PromiseInv ==
  /\ stopMark <= next
  /\ tpc \in Left /\ ~crashed => \A i \in Live : i.id >= stopMark
  /\ \A f \in Flushers :
       /\ mark[f] <= next
       /\ tpc \notin Left /\ (fpc[f] = "released" \/ (fpc[f] = "asked" /\ flushAck))
            => \A i \in Live : i.id >= mark[f]

\* Steps of the thread leave a pending item only in the batch or the queue.
LEMMA SettledIsEmpty ==
  ASSUME TypeOK, PlaceInv, Settle, Drained
  PROVE  Live' = {}
  <1>1. tpc = "settle" /\ queue = <<>> /\ UNCHANGED <<queue, batch>>
    BY DEF Settle, Drained
  <1>2. batch = <<>>
    BY <1>1 DEF PlaceInv, Left
  <1>3. queue' = <<>> /\ batch' = <<>>
    BY <1>1, <1>2
  <1>4. Elems(queue') = {} /\ Elems(batch') = {}
    BY <1>3, ElemsEmpty
  <1>5. QED BY <1>4 DEF Live, Elems

LEMMA PromiseStep ==
  ASSUME TypeOK, TypeOK', OrderInv, PlaceInv, PromiseInv, [Next]_vars
  PROVE  PromiseInv'
  <1>1. /\ next \in Nat /\ (next' = next \/ next' = next + 1)
        /\ \A i \in Live' : i \in Live \/ (i.id = next /\ next' = next + 1)
        /\ \A i \in Live : i.id \in Nat
        /\ \A i \in Live' : i.id \in Nat
    <2>1. Sorted(Pend)
      BY DEF OrderInv
    <2>2. Live \subseteq Item
      BY ElemsType DEF Live, TypeOK
    <2>3. Live' \subseteq Item
      <3>1. batch' \in Seq(Item) /\ queue' \in Seq(Item)
        BY DEF TypeOK
      <3>2. Elems(batch') \subseteq Item /\ Elems(queue') \subseteq Item
        BY <3>1, ElemsType
      <3>3. QED BY <3>2 DEF Live, Elems
    <2>4. \A i \in Item : i.id \in Nat
      BY DEF Item
    <2>5. next \in Nat
      BY DEF TypeOK
    <2>6. QED BY <2>1, <2>2, <2>3, <2>4, <2>5, LiveStep
  <1>2. /\ stopMark \in Nat /\ stopMark <= next
        /\ tpc \in Left /\ ~crashed => \A i \in Live : i.id >= stopMark
        /\ \A f \in Flushers :
             /\ mark[f] \in Nat /\ mark[f] <= next
             /\ tpc \notin Left /\ (fpc[f] = "released" \/ (fpc[f] = "asked" /\ flushAck))
                  => \A i \in Live : i.id >= mark[f]
    BY DEF PromiseInv, TypeOK
  \* What was old enough before the step still is: only newcomers join.
  <1>3. ASSUME NEW m \in Nat, m <= next, \A i \in Live : i.id >= m
        PROVE  \A i \in Live' : i.id >= m
    BY <1>1, <1>3
  <1>4. CASE Settle
    <2>1. UNCHANGED <<next, stopMark, mark, crashed>> /\ tpc = "settle"
      BY <1>4 DEF Settle, history
    <2>2. CASE Drained
      <3>1. Live' = {}
        BY <1>4, <2>2, SettledIsEmpty
      <3>2. QED BY <1>2, <2>1, <3>1 DEF PromiseInv
    <2>3. CASE ~Drained
      <3>1. UNCHANGED <<fpc, flushAck>> /\ tpc' = "collect"
        BY <1>4, <2>3 DEF Settle
      <3>2. tpc \notin Left /\ tpc' \notin Left
        BY <2>1, <3>1 DEF Left
      <3>3. \A f \in Flushers :
              (fpc'[f] = "released" \/ (fpc'[f] = "asked" /\ flushAck'))
                => \A i \in Live' : i.id >= mark'[f]
        BY <1>2, <1>3, <2>1, <3>1, <3>2
      <3>4. QED BY <1>2, <2>1, <3>2, <3>3 DEF PromiseInv
    <2>4. QED BY <2>2, <2>3
  <1>5. CASE Exit \/ Crash
    <2>1. /\ UNCHANGED <<stopMark, mark>> /\ tpc' \in Left
          /\ ~crashed' => tpc \in Left /\ ~crashed
      BY <1>5 DEF Exit, Crash, Left, history
    <2>2. ~crashed' => \A i \in Live' : i.id >= stopMark
      BY <1>2, <1>3, <2>1
    <2>3. QED BY <1>1, <1>2, <2>1, <2>2 DEF PromiseInv
  <1>6. CASE Stop
    <2>1. /\ stopMark' = next /\ UNCHANGED <<next, mark, fpc, flushAck, crashed, tpc>>
          /\ ~stopping
      BY <1>6 DEF Stop, thread
    <2>2. ~(tpc' \in Left /\ ~crashed')
      BY <2>1 DEF PlaceInv
    <2>3. \A f \in Flushers :
            tpc' \notin Left /\ (fpc'[f] = "released" \/ (fpc'[f] = "asked" /\ flushAck'))
                => \A i \in Live' : i.id >= mark'[f]
      BY <1>2, <1>3, <2>1
    <2>4. QED BY <1>1, <1>2, <2>1, <2>2, <2>3 DEF PromiseInv
  <1>7. ASSUME NEW f \in Flushers, FlushRequest(f) \/ FlushWait(f)
        PROVE  PromiseInv'
    <2>1. /\ UNCHANGED <<next, stopMark, crashed, tpc>>
          /\ \A g \in Flushers \ {f} : fpc'[g] = fpc[g] /\ mark'[g] = mark[g]
          /\ flushAck' => flushAck
          /\ \/ mark'[f] = next /\ ~flushAck' /\ fpc'[f] = "asked"
             \/ mark'[f] = mark[f] /\ flushAck' = flushAck
                /\ fpc[f] = "asked" /\ (fpc'[f] = "released" => flushAck)
                /\ fpc'[f] # "asked"
      BY <1>7 DEF FlushRequest, ClearAck, FlushWait, thread, history, shared, TypeOK
    <2>2. tpc \in Left /\ ~crashed => \A i \in Live' : i.id >= stopMark
      BY <1>2, <1>3
    <2>3. ASSUME NEW g \in Flushers
          PROVE  /\ mark'[g] <= next
                 /\ tpc' \notin Left
                    /\ (fpc'[g] = "released" \/ (fpc'[g] = "asked" /\ flushAck'))
                      => \A i \in Live' : i.id >= mark'[g]
      <3>1. CASE g = f
        BY <1>1, <1>2, <1>3, <2>1, <3>1
      <3>2. CASE g # f
        BY <1>2, <1>3, <2>1, <3>2
      <3>3. QED BY <3>1, <3>2
    <2>4. QED BY <1>2, <2>1, <2>2, <2>3 DEF PromiseInv
  <1>8. ASSUME NEW f \in Flushers, FlushCheck(f) \/ FlushReturn(f) \/ FlushTimeout(f)
        PROVE  PromiseInv'
    <2>1. /\ UNCHANGED <<next, stopMark, crashed, tpc, mark, flushAck>>
          /\ \A g \in Flushers : fpc'[g] = fpc[g] \/ fpc'[g] \in {"checked", "idle"}
      BY <1>8 DEF FlushCheck, FlushReturn, FlushTimeout, thread, history, shared, TypeOK
    <2>2. tpc \in Left /\ ~crashed => \A i \in Live' : i.id >= stopMark
      BY <1>2, <1>3
    <2>3. \A g \in Flushers :
            tpc' \notin Left /\ (fpc'[g] = "released" \/ (fpc'[g] = "asked" /\ flushAck'))
              => \A i \in Live' : i.id >= mark'[g]
      BY <1>2, <1>3, <2>1
    <2>4. QED BY <1>2, <2>1, <2>2, <2>3 DEF PromiseInv
  <1>9. ASSUME UNCHANGED <<stopMark, crashed, mark, flushAck, fpc>>,
               tpc' = tpc \/ (tpc \notin Left /\ tpc' \notin Left)
        PROVE  PromiseInv'
    <2>1. tpc' \in Left <=> tpc \in Left
      BY <1>9
    <2>2. tpc' \in Left /\ ~crashed' => \A i \in Live' : i.id >= stopMark'
      BY <1>2, <1>3, <1>9, <2>1
    <2>3. \A g \in Flushers :
            tpc' \notin Left /\ (fpc'[g] = "released" \/ (fpc'[g] = "asked" /\ flushAck'))
              => \A i \in Live' : i.id >= mark'[g]
      BY <1>2, <1>3, <1>9, <2>1
    <2>4. stopMark' <= next' /\ \A g \in Flushers : mark'[g] <= next'
      BY <1>1, <1>2, <1>9
    <2>5. QED BY <2>2, <2>3, <2>4 DEF PromiseInv
  <1>10. CASE Connect \/ CollectTake \/ CollectClose \/ CollectIdle \/ Decide \/ CommitNothing
              \/ CommitOk \/ Publish \/ CommitBusyRetry \/ CommitRequeue \/ CommitDrop \/ Warn
              \/ Start
    <2>1. UNCHANGED <<stopMark, crashed, mark, flushAck, fpc>>
          /\ tpc \notin Left /\ tpc' \notin Left
      BY <1>10 DEF Connect, CollectTake, CollectClose, CollectIdle, Decide, CommitNothing,
                   CommitOk, Publish, CommitBusyRetry, CommitRequeue, CommitDrop, Warn, Start,
                   Left, history, shared
    <2>2. QED BY <1>9, <2>1
  <1>11. CASE UNCHANGED <<stopMark, crashed, mark, flushAck, fpc, tpc>>
    BY <1>9, <1>11
  <1>12. QED
    BY <1>4, <1>5, <1>6, <1>7, <1>8, <1>10, <1>11
       DEF Next, WriterStep, vars, shared, thread, history, Put, PutEvicting, PutBlocked,
           EnqueueLog, Admitted, GiveUp

LEMMA InitPromise ==
  ASSUME Init
  PROVE  PlaceInv /\ PromiseInv
  <1>1. queue = <<>> /\ batch = <<>>
    BY DEF Init
  <1>2. Live = {}
    BY <1>1, ElemsEmpty DEF Live
  <1>3. QED BY <1>1, <1>2 DEF Init, PlaceInv, PromiseInv, Left

\* The inductive invariant behind flush_now's and stop()'s promises.
THEOREM PromisesHold == Spec => [](PlaceInv /\ PromiseInv)
  <1>1. Init => PlaceInv /\ PromiseInv
    BY InitPromise
  <1>2. TypeOK /\ TypeOK' /\ OrderInv /\ PlaceInv /\ PromiseInv /\ [Next]_vars
          => PlaceInv' /\ PromiseInv'
    BY PlaceStep, PromiseStep
  <1>3. QED BY <1>1, <1>2, OrderHolds, TypeCorrect, PTL DEF Spec

\* flush_now returns only when everything enqueued before it is settled, however
\* many flushers share the flag and the event.
THEOREM FlushKeepsPromise == Spec => []FlushPromise
  <1>1. PromiseInv => FlushPromise
    BY DEF PromiseInv, FlushPromise, Left
  <1>2. QED BY <1>1, PromisesHold, PTL

\* A thread that leaves its loop on stop() has settled everything queued before.
THEOREM StopKeepsPromise == Spec => []StopDrains
  <1>1. PromiseInv => StopDrains
    BY DEF PromiseInv, StopDrains, Left
  <1>2. QED BY <1>1, PromisesHold, PTL

-----------------------------------------------------------------------------
(* Eviction, and the counted log. *)

\* The pending items before and after a step, by the kind of step.
LEMMA LiveEffect ==
  ASSUME TypeOK, TypeOK', OrderInv, [Next]_vars
  PROVE  \/ Live' = Live /\ UNCHANGED <<next, done, lost>>
         \/ \E e \in Item : /\ e.id = next /\ next' = next + 1
                            /\ Live' = Live \cup {e} /\ UNCHANGED <<done, lost>>
         \/ \E e \in Item, x \in Live : /\ e.id = next /\ next' = next + 1 /\ Droppable(x)
                                        /\ Live' = (Live \ {x}) \cup {e}
                                        /\ lost' = lost \cup {x} /\ UNCHANGED done
         \/ /\ tpc = "commit" /\ Live' = Elems(queue) /\ UNCHANGED next
            /\ \/ done' = done \cup Elems(batch) /\ UNCHANGED lost
               \/ lost' = lost \cup Elems(batch) /\ UNCHANGED done
  <1>1. Effect /\ Sorted(Pend)
    BY StepEffect DEF OrderInv
  <1>2. Pend \in Seq(Item) /\ Elems(Pend) = Live
    BY PendType
  <1>3. Elems(Pend') = Live'
    <2>1. batch' \in Seq(Item) /\ queue' \in Seq(Item)
      BY DEF TypeOK
    <2>2. Elems(batch' \o queue') = Elems(batch') \cup Elems(queue')
      BY <2>1, ElemsConcat
    <2>3. Live' = Elems(queue') \cup Elems(batch')
      BY DEF Live, Elems
    <2>4. QED BY <2>2, <2>3 DEF Pend
  <1>4. CASE Keeps
    BY <1>2, <1>3, <1>4 DEF Keeps
  <1>5. CASE Accepts
    <2>1. PICK e \in Item : /\ e.id = next /\ next' = next + 1 /\ Pend' = Append(Pend, e)
                            /\ UNCHANGED <<done, lost>>
      BY <1>5 DEF Accepts
    <2>2. Live' = Live \cup {e}
      BY <1>2, <1>3, <2>1, ElemsAppend
    <2>3. QED BY <2>1, <2>2
  <1>6. CASE Exchanges
    <2>1. PICK e \in Item, m \in 1 .. Len(Pend) :
            /\ e.id = next /\ next' = next + 1 /\ Droppable(Pend[m])
            /\ Pend' = Append(Without(Pend, m), e)
            /\ lost' = lost \cup {Pend[m]} /\ UNCHANGED done
      BY <1>6 DEF Exchanges
    <2>2. Without(Pend, m) \in Seq(Item) /\ Elems(Without(Pend, m)) = Live \ {Pend[m]}
      BY <1>1, <1>2, WithoutProperties, SortedWithout
    <2>3. Live' = (Live \ {Pend[m]}) \cup {e}
      BY <1>3, <2>1, <2>2, ElemsAppend
    <2>4. Pend[m] \in Live
      BY <1>2, LenProperties DEF Elems
    <2>5. QED BY <2>1, <2>3, <2>4
  <1>7. CASE Commits \/ Drops
    BY <1>3, <1>7 DEF Commits, Drops
  <1>8. QED BY <1>1, <1>4, <1>5, <1>6, <1>7 DEF Effect

\* Backpressure takes only kept non-error traces off the queue.
THEOREM EvictionSpares == Spec => OnlyKeptEvicted
  <1> DEFINE A == \A i \in Live \ Live' : i \in done' \/ tpc = "commit" \/ i.kind = "kept"
  <1>1. TypeOK /\ TypeOK' /\ OrderInv /\ [Next]_vars => [A]_vars
    <2>1. SUFFICES ASSUME TypeOK, TypeOK', OrderInv, [Next]_vars,
                          NEW i \in Live \ Live'
                   PROVE  i \in done' \/ tpc = "commit" \/ i.kind = "kept"
      OBVIOUS
    <2>2. Live \subseteq Item
      BY <2>1, ElemsType DEF Live, TypeOK
    <2>3. \A x \in Item : Droppable(x) => x.kind = "kept"
      BY DEF Droppable, IsTrace, _is_kept, _is_error, Item, Kinds, TraceKinds
    <2>4. QED BY <2>1, <2>2, <2>3, LiveEffect
  <1>2. QED BY <1>1, OrderHolds, TypeCorrect, PTL DEF Spec, OnlyKeptEvicted

\* Arrival numbers identify pending items.
LEMMA IdsDistinct ==
  ASSUME TypeOK, OrderInv
  PROVE  /\ \A x, y \in Live : x.id = y.id => x = y
         /\ \A x \in Elems(batch), y \in Elems(queue) : x.id < y.id
         /\ Live = Elems(batch) \cup Elems(queue)
         /\ Live \subseteq Item /\ \A x \in Item : x.id \in Nat
  <1>1. Pend \in Seq(Item) /\ Elems(Pend) = Live /\ Sorted(Pend)
    BY PendType DEF OrderInv
  <1>2. Live \subseteq Item /\ \A x \in Item : x.id \in Nat
    BY ElemsType DEF Live, TypeOK, Item
  <1>3. ASSUME NEW x \in Live, NEW y \in Live, x.id = y.id PROVE x = y
    <2>1. PICK i \in DOMAIN Pend : x = Pend[i]
      BY <1>1 DEF Elems
    <2>2. PICK j \in DOMAIN Pend : y = Pend[j]
      BY <1>1 DEF Elems
    <2>3. i \in Nat /\ j \in Nat
      BY <1>1, LenProperties
    <2>4. x.id \in Nat /\ y.id \in Nat
      BY <1>2
    <2>5. ~(i < j) /\ ~(j < i)
      BY <1>1, <1>3, <2>1, <2>2, <2>4 DEF Sorted
    <2>6. QED BY <2>1, <2>2, <2>3, <2>5
  <1>4. \A x \in Elems(batch), y \in Elems(queue) : x.id < y.id
    BY <1>1, SortedConcat DEF Pend, TypeOK
  <1>5. Live = Elems(batch) \cup Elems(queue)
    BY DEF Live
  <1>6. QED BY <1>2, <1>3, <1>4, <1>5

LEMMA RefinementStep ==
  ASSUME TypeOK, TypeOK', OrderInv, [Next]_vars
  PROVE  [Abstract!Next]_(Abstract!vars)
  <1>1. /\ \A x, y \in Live : x.id = y.id => x = y
        /\ \A x \in Elems(batch), y \in Elems(queue) : x.id < y.id
        /\ Live = Elems(batch) \cup Elems(queue)
        /\ Live \subseteq Item /\ \A x \in Item : x.id \in Nat
    BY IdsDistinct
  <1>2. next \in Nat
    BY DEF TypeOK
  <1>3. CASE Live' = Live /\ UNCHANGED <<next, done, lost>>
    BY <1>3 DEF Abstract!vars, Ids
  <1>4. ASSUME NEW e \in Item, e.id = next, next' = next + 1, Live' = Live \cup {e},
               UNCHANGED <<done, lost>>
        PROVE  Abstract!Accept
    <2>1. Ids(Live') = Ids(Live) \cup {next - 1 + 1}
      BY <1>2, <1>4 DEF Ids
    <2>2. next' - 1 = next - 1 + 1
      BY <1>2, <1>4
    <2>3. QED BY <1>4, <2>1, <2>2 DEF Abstract!Accept, Ids
  <1>5. ASSUME NEW e \in Item, NEW x \in Live, e.id = next, next' = next + 1,
               Live' = (Live \ {x}) \cup {e}, lost' = lost \cup {x}, UNCHANGED done
        PROVE  Abstract!Exchange
    <2>1. x.id \in Ids(Live)
      BY DEF Ids
    <2>2. Ids(Live \ {x}) = Ids(Live) \ {x.id}
      BY <1>1 DEF Ids
    <2>3. Ids(Live') = (Ids(Live) \ {x.id}) \cup {next - 1 + 1}
      BY <1>2, <1>5, <2>2 DEF Ids
    <2>4. next' - 1 = next - 1 + 1
      BY <1>2, <1>5
    <2>5. Ids(lost') = Ids(lost) \cup {x.id}
      BY <1>5 DEF Ids
    <2>6. QED BY <1>5, <2>1, <2>3, <2>4, <2>5 DEF Abstract!Exchange, Ids
  <1>6. ASSUME Live' = Elems(queue), UNCHANGED next,
               \/ done' = done \cup Elems(batch) /\ UNCHANGED lost
               \/ lost' = lost \cup Elems(batch) /\ UNCHANGED done
        PROVE  Abstract!Commit \/ Abstract!Lose
    <2> DEFINE T == Ids(Elems(batch))
    <2>1. T \in SUBSET Ids(Live)
      BY <1>1 DEF Ids
    <2>2. Ids(Live) \ T = Ids(Elems(queue))
      <3>1. ASSUME NEW n \in Ids(Elems(queue)) PROVE n \in Ids(Live) /\ n \notin T
        <4>1. PICK y \in Elems(queue) : n = y.id
          BY DEF Ids
        <4>2. ASSUME NEW x \in Elems(batch), x.id = n PROVE FALSE
          <5>1. x.id < y.id /\ x.id \in Nat
            BY <1>1
          <5>2. QED BY <4>1, <4>2, <5>1
        <4>3. QED BY <1>1, <4>1, <4>2 DEF Ids
      <3>2. ASSUME NEW n \in Ids(Live) \ T PROVE n \in Ids(Elems(queue))
        BY <1>1 DEF Ids
      <3>3. QED BY <3>1, <3>2
    <2>3. Abstract!Oldest(T)
      <3>1. \A m \in T, n \in Ids(Elems(queue)) : m < n
        BY <1>1 DEF Ids
      <3>2. QED BY <2>2, <3>1 DEF Abstract!Oldest
    <2>4. Ids(Live') = Ids(Live) \ T
      BY <1>6, <2>2
    <2>5. CASE done' = done \cup Elems(batch) /\ UNCHANGED lost
      <3>1. Ids(done') = Ids(done) \cup T
        BY <2>5 DEF Ids
      <3>2. QED BY <1>6, <2>1, <2>3, <2>4, <2>5, <3>1 DEF Abstract!Commit, Ids
    <2>6. CASE lost' = lost \cup Elems(batch) /\ UNCHANGED done
      <3>1. Ids(lost') = Ids(lost) \cup T
        BY <2>6 DEF Ids
      <3>2. QED BY <1>6, <2>1, <2>3, <2>4, <2>6, <3>1 DEF Abstract!Lose, Ids
    <2>7. QED BY <1>6, <2>5, <2>6
  <1>7. QED BY <1>3, <1>4, <1>5, <1>6, LiveEffect DEF Abstract!Next

\* The writer implements the counted log: every accepted item is settled at most
\* once, oldest first, whatever the queue and batch sizes.
THEOREM WriterRefinesLog == Spec => ImplementsCountedLog
  <1>1. Init => Abstract!Init
    <2>1. ASSUME Init PROVE Abstract!Init
      <3>1. queue = <<>> /\ batch = <<>> /\ done = {} /\ lost = {} /\ next = 1
        BY <2>1 DEF Init
      <3>2. Live = {}
        BY <3>1, ElemsEmpty DEF Live
      <3>3. QED BY <3>1, <3>2 DEF Abstract!Init, Ids
    <2>2. QED BY <2>1
  <1>2. TypeOK /\ TypeOK' /\ OrderInv /\ [Next]_vars => [Abstract!Next]_(Abstract!vars)
    BY RefinementStep
  <1>3. QED
    BY <1>1, <1>2, OrderHolds, TypeCorrect, PTL DEF Spec, ImplementsCountedLog, Abstract!Spec

-----------------------------------------------------------------------------
(* Counters: every arrival is waiting, pending, committed or counted. *)

\* The two counters o and l balance the arrivals against what waits and what is held.
Weight(a) == a["sampled"] + a["kept"] + a["error"] + a["sampled"]

Balanced(o, l, a, wait, held) ==
  /\ o = Weight(a) - Cardinality(wait) - Cardinality(Traces(held))
  /\ l = a["log"] - Cardinality(held \ Traces(held))

Held == Live \cup done

CountInv ==
  /\ IsFiniteSet(waiting) /\ IsFiniteSet(Held)
  /\ Balanced(obsDropped, logsDropped, arrived, waiting, Held)

\* The sizes of the two parts of what is held.
LEMMA Parts ==
  ASSUME NEW U, IsFiniteSet(U)
  PROVE  /\ IsFiniteSet(Traces(U)) /\ IsFiniteSet(U \ Traces(U))
         /\ Cardinality(Traces(U)) \in Nat /\ Cardinality(U \ Traces(U)) \in Nat
  <1>1. Traces(U) \in SUBSET U /\ U \ Traces(U) \in SUBSET U
    BY DEF Traces
  <1>2. IsFiniteSet(Traces(U)) /\ IsFiniteSet(U \ Traces(U))
    BY <1>1, FS_Subset
  <1>3. QED BY <1>2, FS_CardinalityType

LEMMA PartsMore ==
  ASSUME NEW U, IsFiniteSet(U), NEW e, e \notin U
  PROVE  /\ IsFiniteSet(U \cup {e})
         /\ IsTrace(e) => /\ Cardinality(Traces(U \cup {e})) = Cardinality(Traces(U)) + 1
                          /\ Cardinality((U \cup {e}) \ Traces(U \cup {e})) = Cardinality(U \ Traces(U))
         /\ ~IsTrace(e) => /\ Cardinality(Traces(U \cup {e})) = Cardinality(Traces(U))
                           /\ Cardinality((U \cup {e}) \ Traces(U \cup {e})) = Cardinality(U \ Traces(U)) + 1
  <1>1. IsFiniteSet(Traces(U)) /\ IsFiniteSet(U \ Traces(U)) /\ e \notin Traces(U) /\ e \notin U \ Traces(U)
    BY Parts DEF Traces
  <1>2. IsFiniteSet(U \cup {e})
    BY FS_AddElement
  <1>3. ASSUME IsTrace(e)
        PROVE  /\ Cardinality(Traces(U \cup {e})) = Cardinality(Traces(U)) + 1
               /\ Cardinality((U \cup {e}) \ Traces(U \cup {e})) = Cardinality(U \ Traces(U))
    <2>1. Traces(U \cup {e}) = Traces(U) \cup {e} /\ (U \cup {e}) \ Traces(U \cup {e}) = U \ Traces(U)
      BY <1>3 DEF Traces
    <2>2. QED BY <1>1, <2>1, FS_AddElement
  <1>4. ASSUME ~IsTrace(e)
        PROVE  /\ Cardinality(Traces(U \cup {e})) = Cardinality(Traces(U))
               /\ Cardinality((U \cup {e}) \ Traces(U \cup {e})) = Cardinality(U \ Traces(U)) + 1
    <2>1. Traces(U \cup {e}) = Traces(U) /\ (U \cup {e}) \ Traces(U \cup {e}) = (U \ Traces(U)) \cup {e}
      BY <1>4 DEF Traces
    <2>2. QED BY <1>1, <2>1, FS_AddElement
  <1>5. QED BY <1>2, <1>3, <1>4

\* The elements of a list without duplicates are as many as its places.
LEMMA PlacesCounted ==
  ASSUME NEW s \in Seq(Item), Sorted(s)
  PROVE  /\ IsFiniteSet(Elems(s))
         /\ Cardinality(Traces(Elems(s))) = TraceCount(s)
         /\ Cardinality(Elems(s) \ Traces(Elems(s))) = LogCount(s)
  <1>1. /\ DOMAIN s = 1 .. Len(s) /\ Len(s) \in Nat /\ IsFiniteSet(DOMAIN s)
        /\ \A i \in DOMAIN s : s[i] \in Item
    BY LenProperties, ElementOfSeq, FS_Interval
  <1>2. \A i, j \in DOMAIN s : s[i] = s[j] => i = j
    <2>1. ASSUME NEW i \in DOMAIN s, NEW j \in DOMAIN s, s[i] = s[j] PROVE i = j
      <3>1. s[i].id \in Nat /\ s[i].id = s[j].id /\ i \in Nat /\ j \in Nat
        BY <1>1, <2>1 DEF Item
      <3>2. ~(i < j) /\ ~(j < i)
        BY <3>1 DEF Sorted
      <3>3. QED BY <3>1, <3>2
    <2>2. QED BY <2>1
  <1>3. ASSUME NEW D \in SUBSET DOMAIN s, NEW T, T = {s[i] : i \in D}
        PROVE  IsFiniteSet(T) /\ Cardinality(T) = Cardinality(D)
    <2>1. IsFiniteSet(D)
      BY <1>1, FS_Subset
    <2>2. PICK f : f = [i \in D |-> s[i]]
      OBVIOUS
    <2>3. f \in [D -> T]
      BY <1>3, <2>2
    <2>4. \A i, j \in D : f[i] = f[j] => i = j
      BY <1>2, <1>3, <2>2
    <2>5. \A x \in T : \E i \in D : f[i] = x
      BY <1>3, <2>2
    <2>6. f \in Bijection(D, T)
      BY <2>3, <2>4, <2>5 DEF Bijection, Injection, IsInjective, Surjection
    <2>7. ExistsBijection(D, T)
      BY <2>6 DEF ExistsBijection
    <2>8. QED BY <2>1, <2>7, FS_Bijection
  <1>4. Traces(Elems(s)) = {s[i] : i \in {j \in DOMAIN s : IsTrace(s[j])}}
    BY DEF Traces, Elems
  <1>5. Elems(s) \ Traces(Elems(s)) = {s[i] : i \in {j \in DOMAIN s : ~IsTrace(s[j])}}
    BY DEF Traces, Elems
  <1>6. Elems(s) = {s[i] : i \in DOMAIN s}
    BY DEF Elems
  <1>7. IsFiniteSet(Elems(s))
    BY <1>3, <1>6
  <1>8. Cardinality(Traces(Elems(s))) = TraceCount(s)
    BY <1>3, <1>4 DEF TraceCount
  <1>9. Cardinality(Elems(s) \ Traces(Elems(s))) = LogCount(s)
    BY <1>3, <1>5 DEF LogCount
  <1>10. QED BY <1>7, <1>8, <1>9

\* What is held loses the batch.
LEMMA PartsLess ==
  ASSUME NEW U, IsFiniteSet(U), NEW s \in Seq(Item), Sorted(s), Elems(s) \subseteq U
  PROVE  /\ IsFiniteSet(U \ Elems(s))
         /\ Cardinality(Traces(U)) = Cardinality(Traces(U \ Elems(s))) + TraceCount(s)
         /\ Cardinality(U \ Traces(U))
               = Cardinality((U \ Elems(s)) \ Traces(U \ Elems(s))) + LogCount(s)
  <1>1. PICK V : V = U \ Elems(s)
    OBVIOUS
  <1>2. IsFiniteSet(V) /\ IsFiniteSet(Elems(s))
    BY <1>1, FS_Subset
  <1>3. /\ IsFiniteSet(Traces(V)) /\ IsFiniteSet(V \ Traces(V))
        /\ Cardinality(Traces(V)) \in Nat /\ Cardinality(V \ Traces(V)) \in Nat
    BY <1>2, Parts
  <1>4. /\ IsFiniteSet(Traces(Elems(s))) /\ IsFiniteSet(Elems(s) \ Traces(Elems(s)))
        /\ Cardinality(Traces(Elems(s))) = TraceCount(s)
        /\ Cardinality(Elems(s) \ Traces(Elems(s))) = LogCount(s)
        /\ TraceCount(s) \in Nat /\ LogCount(s) \in Nat
    BY <1>2, Parts, PlacesCounted, CountsAreNat
  <1>5. ASSUME NEW P, NEW Q, IsFiniteSet(P), IsFiniteSet(Q), P \cap Q = {}
        PROVE  Cardinality(P \cup Q) = Cardinality(P) + Cardinality(Q)
    <2>1. /\ Cardinality(P \cup Q) = Cardinality(P) + Cardinality(Q) - Cardinality(P \cap Q)
          /\ Cardinality(P \cap Q) = 0 /\ Cardinality(P) \in Nat /\ Cardinality(Q) \in Nat
      BY <1>5, FS_Union, FS_EmptySet, FS_CardinalityType
    <2>2. QED BY <2>1
  <1>6. /\ Traces(U) = Traces(V) \cup Traces(Elems(s)) /\ Traces(V) \cap Traces(Elems(s)) = {}
    BY <1>1 DEF Traces
  <1>7. /\ U \ Traces(U) = (V \ Traces(V)) \cup (Elems(s) \ Traces(Elems(s)))
        /\ (V \ Traces(V)) \cap (Elems(s) \ Traces(Elems(s))) = {}
    BY <1>1 DEF Traces
  <1>8. Cardinality(Traces(U)) = Cardinality(Traces(V)) + TraceCount(s)
    BY <1>3, <1>4, <1>5, <1>6
  <1>9. Cardinality(U \ Traces(U)) = Cardinality(V \ Traces(V)) + LogCount(s)
    BY <1>3, <1>4, <1>5, <1>7
  <1>10. QED BY <1>1, <1>2, <1>8, <1>9

\* The kinds of arrival, and what one more of a kind does to the balance.
LEMMA OneMore ==
  ASSUME NEW a \in [Kinds -> Nat], NEW k \in Kinds, NEW b, b = [a EXCEPT ![k] = @ + 1]
  PROVE  /\ k \in TraceKinds =>
              /\ Weight(b) = Weight(a) + 1 + SampledDrop(k)
              /\ b["log"] = a["log"] /\ SampledDrop(k) \in Nat
         /\ k = "log" =>
              /\ Weight(b) = Weight(a)
              /\ b["log"] = a["log"] + 1
  <1>1. /\ {"sampled", "kept", "error", "log"} = Kinds
        /\ a["sampled"] \in Nat /\ a["kept"] \in Nat /\ a["error"] \in Nat /\ a["log"] \in Nat
        /\ \A j \in Kinds : b[j] = IF j = k THEN a[j] + 1 ELSE a[j]
    BY DEF Kinds, TraceKinds
  <1>2. CASE k = "sampled"
    BY <1>1, <1>2 DEF SampledDrop, TraceKinds, Weight
  <1>3. CASE k = "kept"
    BY <1>1, <1>3 DEF SampledDrop, TraceKinds, Weight
  <1>4. CASE k = "error"
    BY <1>1, <1>4 DEF SampledDrop, TraceKinds, Weight
  <1>5. CASE k = "log"
    BY <1>1, <1>5 DEF SampledDrop, TraceKinds, Weight
  <1>6. QED BY <1>1, <1>2, <1>3, <1>4, <1>5

LEMMA BalanceTypes ==
  ASSUME TypeOK, CountInv
  PROVE  /\ obsDropped \in Nat /\ logsDropped \in Nat /\ arrived \in [Kinds -> Nat]
         /\ Weight(arrived) \in Nat /\ arrived["log"] \in Nat /\ Cardinality(waiting) \in Nat
         /\ Cardinality(Traces(Held)) \in Nat /\ Cardinality(Held \ Traces(Held)) \in Nat
         /\ IsFiniteSet(waiting) /\ IsFiniteSet(Held)
         /\ obsDropped = Weight(arrived) - Cardinality(waiting) - Cardinality(Traces(Held))
         /\ logsDropped = arrived["log"] - Cardinality(Held \ Traces(Held))
  <1>1. /\ obsDropped \in Nat /\ logsDropped \in Nat /\ arrived \in [Kinds -> Nat]
        /\ {"sampled", "kept", "error", "log"} = Kinds
    BY DEF TypeOK, Kinds, TraceKinds
  <1>2. IsFiniteSet(waiting) /\ IsFiniteSet(Held) /\ Balanced(obsDropped, logsDropped, arrived, waiting, Held)
    BY DEF CountInv
  <1>3. Cardinality(waiting) \in Nat /\ Cardinality(Traces(Held)) \in Nat /\ Cardinality(Held \ Traces(Held)) \in Nat
    BY <1>2, FS_CardinalityType, Parts
  <1>4. Weight(arrived) \in Nat
    BY <1>1 DEF Weight
  <1>5. QED BY <1>1, <1>2, <1>3, <1>4 DEF Balanced

LEMMA BalanceCounts ==
  ASSUME TypeOK, CountInv
  PROVE  EveryDropCounted
  <1>1. /\ Cardinality(Traces(Held)) = Cardinality(Traces(Live \cup done))
        /\ Cardinality(Held \ Traces(Held)) = Cardinality((Live \cup done) \ Traces(Live \cup done))
    BY DEF Held
  <1>2. /\ arrived["sampled"] \in Nat /\ arrived["kept"] \in Nat /\ arrived["error"] \in Nat
    BY DEF TypeOK, Kinds, TraceKinds
  <1>3. Weight(arrived) = arrived["sampled"] + arrived["kept"] + arrived["error"] + arrived["sampled"]
    BY DEF Weight
  <1>4. QED BY <1>1, <1>2, <1>3, BalanceTypes DEF EveryDropCounted

\* The number of the next item is new.
LEMMA FreshItem ==
  ASSUME TypeOK, OrderInv, NEW k \in Kinds, NEW b \in Nat
  PROVE  /\ NewItem(k, b) \in Item /\ NewItem(k, b) \notin Held
         /\ IsTrace(NewItem(k, b)) <=> k # "log"
  <1>1. NewItem(k, b) \in Item /\ NewItem(k, b).id = next /\ NewItem(k, b).kind = k
    BY NewItemType DEF NewItem
  <1>2. next \in Nat /\ \A x \in Held : x.id < next
    BY DEF TypeOK, OrderInv, Held
  <1>3. QED BY <1>1, <1>2 DEF IsTrace

LEMMA HeldAppended ==
  ASSUME TypeOK, NEW k \in Kinds, NEW b \in Nat, Appended(queue, k, b), UNCHANGED <<batch, done>>
  PROVE  Held' = Held \cup {NewItem(k, b)}
  <1>1. queue \in Seq(Item) /\ NewItem(k, b) \in Item /\ queue' = Append(queue, NewItem(k, b))
    BY NewItemType DEF TypeOK, Appended
  <1>2. PICK e : e = NewItem(k, b)
    OBVIOUS
  <1>3. Elems(queue') = Elems(queue) \cup {e}
    BY <1>1, <1>2, ElemsAppend
  <1>4. Held' = Elems(queue') \cup Elems(batch') \cup done'
    BY DEF Held, Live, Elems
  <1>5. QED BY <1>2, <1>3, <1>4 DEF Held, Live

LEMMA HeldSame ==
  ASSUME TypeOK, TypeOK', Keeps
  PROVE  Held' = Held
  <1>1. Pend' = Pend /\ done' = done
    BY DEF Keeps
  <1>2. Elems(Pend) = Live
    BY PendType
  <1>3. Elems(Pend') = Live'
    <2>1. batch' \in Seq(Item) /\ queue' \in Seq(Item)
      BY DEF TypeOK
    <2>2. Elems(batch' \o queue') = Elems(batch') \cup Elems(queue')
      BY <2>1, ElemsConcat
    <2>3. Live' = Elems(queue') \cup Elems(batch')
      BY DEF Live, Elems
    <2>4. QED BY <2>2, <2>3 DEF Pend
  <1>4. QED BY <1>1, <1>2, <1>3 DEF Held

\* What a step does to the counters, what waits and what is held.
LEMMA CountNext ==
  ASSUME NEW o, NEW l, NEW a, NEW wait, NEW held,
         obsDropped' = o, logsDropped' = l, arrived' = a, waiting' = wait, Held' = held,
         IsFiniteSet(wait), IsFiniteSet(held), Balanced(o, l, a, wait, held)
  PROVE  CountInv'
  BY DEF CountInv, Balanced

LEMMA CountLogLine ==
  ASSUME TypeOK, OrderInv, CountInv, LogLine, arrived' = [arrived EXCEPT !["log"] = @ + 1],
         UNCHANGED <<batch, done, waiting, obsDropped>>
  PROVE  CountInv'
  <1>1. PICK a : a = [arrived EXCEPT !["log"] = @ + 1]
    OBVIOUS
  <1>2. "log" \in Kinds
    BY DEF Kinds
  <1>3. Weight(a) = Weight(arrived) /\ a["log"] = arrived["log"] + 1
    BY <1>1, <1>2, BalanceTypes, OneMore
  <1>4. CASE Full
    <2>1. UNCHANGED <<queue, next>> /\ logsDropped' = logsDropped + 1
      BY <1>4 DEF LogLine
    <2>2. Held' = Held
      BY <2>1 DEF Held, Live, Elems
    <2>3. Balanced(obsDropped, logsDropped + 1, a, waiting, Held)
      BY <1>3, BalanceTypes DEF Balanced
    <2>4. IsFiniteSet(waiting) /\ IsFiniteSet(Held)
      BY BalanceTypes
    <2>5. QED BY <1>1, <2>1, <2>2, <2>3, <2>4, CountNext
  <1>5. CASE ~Full
    <2>1. Appended(queue, "log", 0) /\ logsDropped' = logsDropped
      BY <1>5 DEF LogLine
    <2>2. PICK e : e = NewItem("log", 0)
      OBVIOUS
    <2>3. Held' = Held \cup {e} /\ e \notin Held /\ ~IsTrace(e)
      BY <1>2, <2>1, <2>2, HeldAppended, FreshItem
    <2>4. PICK new : new = Held \cup {e}
      OBVIOUS
    <2>5. /\ IsFiniteSet(new) /\ IsFiniteSet(waiting) /\ Cardinality(Traces(new)) = Cardinality(Traces(Held))
          /\ Cardinality(new \ Traces(new)) = Cardinality(Held \ Traces(Held)) + 1
      BY <2>3, <2>4, BalanceTypes, PartsMore
    <2>6. Balanced(obsDropped, logsDropped, a, waiting, new)
      BY <1>3, <2>5, BalanceTypes DEF Balanced
    <2>7. QED BY <1>1, <2>1, <2>3, <2>4, <2>5, <2>6, CountNext
  <1>6. QED BY <1>4, <1>5

\* A trace is put on the queue, and with it perhaps a waiter leaves.
LEMMA CountPut ==
  ASSUME TypeOK, OrderInv, CountInv, NEW k \in TraceKinds, NEW b \in Nat, Appended(queue, k, b),
         UNCHANGED <<batch, done, logsDropped>>,
         \/ /\ arrived' = [arrived EXCEPT ![k] = @ + 1] /\ obsDropped' = obsDropped + SampledDrop(k)
            /\ waiting' = waiting
         \/ UNCHANGED <<arrived, obsDropped>> /\ \E w \in waiting : waiting' = waiting \ {w}
  PROVE  CountInv'
  <1>0. k \in Kinds /\ k # "log"
    BY DEF Kinds, TraceKinds
  <1>1. PICK e : e = NewItem(k, b)
    OBVIOUS
  <1>2. Held' = Held \cup {e} /\ e \notin Held /\ IsTrace(e)
    BY <1>0, <1>1, HeldAppended, FreshItem
  <1>3. PICK new : new = Held \cup {e}
    OBVIOUS
  <1>4. /\ IsFiniteSet(new) /\ Cardinality(new \ Traces(new)) = Cardinality(Held \ Traces(Held))
        /\ Cardinality(Traces(new)) = Cardinality(Traces(Held)) + 1
    BY <1>2, <1>3, BalanceTypes, PartsMore
  <1>5. CASE /\ arrived' = [arrived EXCEPT ![k] = @ + 1] /\ obsDropped' = obsDropped + SampledDrop(k)
             /\ waiting' = waiting
    <2>1. PICK a : a = [arrived EXCEPT ![k] = @ + 1]
      OBVIOUS
    <2>2. /\ Weight(a) = Weight(arrived) + 1 + SampledDrop(k)
          /\ a["log"] = arrived["log"] /\ SampledDrop(k) \in Nat
      BY <1>0, <2>1, BalanceTypes, OneMore
    <2>3. Balanced(obsDropped + SampledDrop(k), logsDropped, a, waiting, new)
      BY <1>4, <2>2, BalanceTypes DEF Balanced
    <2>4. IsFiniteSet(waiting)
      BY BalanceTypes
    <2>5. QED BY <1>2, <1>3, <1>4, <1>5, <2>1, <2>3, <2>4, CountNext
  <1>6. ASSUME NEW w \in waiting, waiting' = waiting \ {w}, UNCHANGED <<arrived, obsDropped>> PROVE CountInv'
    <2>1. PICK less : less = waiting \ {w}
      OBVIOUS
    <2>2. IsFiniteSet(less) /\ Cardinality(less) = Cardinality(waiting) - 1
      BY <2>1, BalanceTypes, FS_RemoveElement
    <2>3. Balanced(obsDropped, logsDropped, arrived, less, new)
      BY <1>4, <2>2, BalanceTypes DEF Balanced
    <2>4. QED BY <1>2, <1>3, <1>4, <1>6, <2>1, <2>2, <2>3, CountNext
  <1>7. QED BY <1>5, <1>6

LEMMA CountStep ==
  ASSUME TypeOK, TypeOK', OrderInv, CountInv, [Next]_vars
  PROVE  CountInv'
  <1>0. Buckets \subseteq Nat /\ TraceKinds \subseteq Kinds /\ "kept" \in TraceKinds /\ IsFiniteSet(waiting)
        /\ IsFiniteSet(Held)
    BY WriterAssumption, BalanceTypes DEF Kinds, TraceKinds
  <1>1. ASSUME NEW p \in Producers, NEW k \in TraceKinds, NEW b \in Buckets, Put(p, k, b)
        PROVE  CountInv'
    <2>1. /\ b \in Nat /\ Appended(queue, k, b) /\ UNCHANGED <<batch, done, logsDropped, waiting>>
          /\ arrived' = [arrived EXCEPT ![k] = @ + 1] /\ obsDropped' = obsDropped + SampledDrop(k)
      BY <1>0, <1>1 DEF Put, Arrive, thread, durable
    <2>2. QED BY <2>1, CountPut
  <1>2. ASSUME NEW w \in waiting, Admitted(w) PROVE CountInv'
    <2>1. w.kind \in TraceKinds /\ w.bucket \in Nat
      BY <1>0 DEF TypeOK, Waiter
    <2>2. /\ Appended(queue, w.kind, w.bucket) /\ UNCHANGED <<batch, done, logsDropped, obsDropped, arrived>>
          /\ waiting' = waiting \ {w}
      BY <1>2 DEF Admitted, counts, thread, durable
    <2>3. QED BY <2>1, <2>2, CountPut
  <1>3. ASSUME NEW p \in Producers, NEW b \in Buckets, PutEvicting(p, b) PROVE CountInv'
    <2>1. PICK k \in DOMAIN queue : /\ _evict_kept_non_error(k)
                                    /\ Appended(Without(queue, k), "kept", b)
      BY <1>3 DEF PutEvicting
    <2>2. /\ UNCHANGED <<batch, done, logsDropped, waiting>> /\ obsDropped' = obsDropped + 1
          /\ arrived' = [arrived EXCEPT !["kept"] = @ + 1]
      BY <1>3 DEF PutEvicting, Arrive, thread, durable
    <2>3. PICK e : e = NewItem("kept", b)
      OBVIOUS
    <2>4. e \in Item /\ e \notin Held /\ IsTrace(e)
      BY <1>0, <2>3, FreshItem
    <2>5. PICK x : x = queue[k]
      OBVIOUS
    <2>6. batch \in Seq(Item) /\ queue \in Seq(Item) /\ k \in 1 .. Len(queue)
      BY LenProperties DEF TypeOK
    <2>7. Sorted(queue) /\ \A y \in Elems(batch), z \in Elems(queue) : y.id < z.id
      BY <2>6, SortedConcat DEF OrderInv, Pend
    <2>8. Without(queue, k) \in Seq(Item) /\ Elems(Without(queue, k)) = Elems(queue) \ {x}
      BY <2>5, <2>6, <2>7, WithoutProperties, SortedWithout
    <2>9. Elems(queue') = (Elems(queue) \ {x}) \cup {e}
      BY <2>1, <2>3, <2>4, <2>8, ElemsAppend DEF Appended
    <2>10. x \in Elems(queue) /\ x \in Item /\ IsTrace(x)
      BY <2>1, <2>5, <2>6, ElementOfSeq DEF Elems, _evict_kept_non_error, Droppable
    <2>11. x \notin Elems(batch) /\ x \notin done
      <3>1. x \in Live /\ x.id \in Nat
        BY <2>10 DEF Live, Item
      <3>2. ~(x.id < x.id)
        BY <3>1
      <3>3. QED BY <2>7, <2>10, <3>1, <3>2 DEF OrderInv
    <2>12. Held' = (Held \ {x}) \cup {e}
      <3>1. Held' = Elems(queue') \cup Elems(batch') \cup done'
        BY DEF Held, Live, Elems
      <3>2. QED BY <2>2, <2>9, <2>11, <3>1 DEF Held, Live
    <2>13. PICK mid : mid = Held \ {x}
      OBVIOUS
    <2>14. /\ IsFiniteSet(mid) /\ x \notin mid /\ mid \cup {x} = Held /\ e \notin mid
      BY <1>0, <2>4, <2>10, <2>13, FS_RemoveElement DEF Held, Live
    <2>15. PICK new : new = mid \cup {e}
      OBVIOUS
    <2>16. /\ IsFiniteSet(new) /\ Cardinality(new \ Traces(new)) = Cardinality(mid \ Traces(mid))
           /\ Cardinality(Traces(new)) = Cardinality(Traces(mid)) + 1
      BY <2>4, <2>14, <2>15, PartsMore
    <2>17. /\ Cardinality(Held \ Traces(Held)) = Cardinality(mid \ Traces(mid))
           /\ Cardinality(Traces(Held)) = Cardinality(Traces(mid)) + 1
      <3>1. PICK h : h = mid \cup {x}
        OBVIOUS
      <3>2. Cardinality(h \ Traces(h)) = Cardinality(mid \ Traces(mid)) /\ Cardinality(Traces(h)) = Cardinality(Traces(mid)) + 1
        BY <2>10, <2>14, <3>1, PartsMore
      <3>3. QED BY <2>14, <3>1, <3>2
    <2>18. PICK a : a = [arrived EXCEPT !["kept"] = @ + 1]
      OBVIOUS
    <2>19. /\ Weight(a) = Weight(arrived) + 1 + SampledDrop("kept")
           /\ a["log"] = arrived["log"] /\ SampledDrop("kept") = 0
      BY <1>0, <2>18, BalanceTypes, OneMore DEF SampledDrop
    <2>20. Balanced(obsDropped + 1, logsDropped, a, waiting, new)
      BY <2>16, <2>17, <2>19, BalanceTypes DEF Balanced
    <2>21. QED BY <1>0, <2>2, <2>12, <2>13, <2>15, <2>16, <2>18, <2>20, CountNext
  <1>4. ASSUME NEW p \in Producers, NEW k \in TraceKinds, NEW b \in Buckets, PutBlocked(p, k, b)
        PROVE  CountInv'
    <2>1. /\ UNCHANGED <<queue, batch, done, logsDropped>> /\ obsDropped' = obsDropped + SampledDrop(k)
          /\ arrived' = [arrived EXCEPT ![k] = @ + 1] /\ Idle(p)
          /\ waiting' = waiting \cup {[by |-> p, kind |-> k, bucket |-> b]}
      BY <1>4 DEF PutBlocked, Arrive, thread, durable
    <2>2. PICK w : w = [by |-> p, kind |-> k, bucket |-> b]
      OBVIOUS
    <2>3. w.by = p /\ w \notin waiting
      BY <2>1, <2>2 DEF Idle
    <2>4. PICK more : more = waiting \cup {w}
      OBVIOUS
    <2>5. IsFiniteSet(more) /\ Cardinality(more) = Cardinality(waiting) + 1
      BY <1>0, <2>3, <2>4, FS_AddElement
    <2>6. PICK a : a = [arrived EXCEPT ![k] = @ + 1]
      OBVIOUS
    <2>7. /\ Weight(a) = Weight(arrived) + 1 + SampledDrop(k)
          /\ a["log"] = arrived["log"] /\ SampledDrop(k) \in Nat
      BY <1>0, <2>6, BalanceTypes, OneMore
    <2>8. Balanced(obsDropped + SampledDrop(k), logsDropped, a, more, Held)
      BY <2>5, <2>7, BalanceTypes DEF Balanced
    <2>9. Held' = Held
      BY <2>1 DEF Held, Live, Elems
    <2>10. QED BY <1>0, <2>1, <2>2, <2>4, <2>5, <2>6, <2>8, <2>9, CountNext
  <1>5. ASSUME NEW p \in Producers, EnqueueLog(p) PROVE CountInv'
    <2>1. LogLine /\ arrived' = [arrived EXCEPT !["log"] = @ + 1] /\ UNCHANGED <<batch, done, waiting, obsDropped>>
      BY <1>5 DEF EnqueueLog, Arrive, thread, durable
    <2>2. QED BY <2>1, CountLogLine
  <1>6. ASSUME NEW w \in waiting, GiveUp(w) PROVE CountInv'
    <2>1. /\ UNCHANGED <<queue, batch, done, logsDropped, arrived>> /\ obsDropped' = obsDropped + 1
          /\ waiting' = waiting \ {w}
      BY <1>6 DEF GiveUp, thread, durable, history
    <2>2. PICK less : less = waiting \ {w}
      OBVIOUS
    <2>3. IsFiniteSet(less) /\ Cardinality(less) = Cardinality(waiting) - 1
      BY <1>0, <2>2, FS_RemoveElement
    <2>4. Balanced(obsDropped + 1, logsDropped, arrived, less, Held)
      BY <2>3, BalanceTypes DEF Balanced
    <2>5. Held' = Held
      BY <2>1 DEF Held, Live, Elems
    <2>6. QED BY <1>0, <2>1, <2>2, <2>3, <2>4, <2>5, CountNext
  <1>7. ASSUME Held' = Held, UNCHANGED <<obsDropped, logsDropped, arrived, waiting>> PROVE CountInv'
    <2>1. Balanced(obsDropped, logsDropped, arrived, waiting, Held)
      BY DEF CountInv
    <2>2. QED BY <1>0, <1>7, <2>1, CountNext
  <1>8. ASSUME Keeps, UNCHANGED <<obsDropped, logsDropped, arrived, waiting>> PROVE CountInv'
    BY <1>7, <1>8, HeldSame
  <1>9. ASSUME UNCHANGED <<queue, batch, done, obsDropped, logsDropped, arrived, waiting>> PROVE CountInv'
    <2>1. Held' = Held
      BY <1>9 DEF Held, Live, Elems
    <2>2. QED BY <1>7, <1>9, <2>1
  <1>10. CASE Start \/ Stop
    BY <1>9, <1>10 DEF Start, Stop, shared, counts, thread, durable, history
  <1>11. ASSUME NEW f \in Flushers,
                \/ FlushCheck(f) \/ FlushRequest(f) \/ FlushWait(f) \/ FlushReturn(f) \/ FlushTimeout(f)
         PROVE  CountInv'
    BY <1>9, <1>11 DEF FlushCheck, FlushRequest, FlushWait, FlushReturn, FlushTimeout, shared, counts, thread,
                       durable, history
  <1>12. CASE \/ Connect \/ CollectClose \/ CollectIdle \/ Decide \/ CommitNothing \/ Publish
              \/ CommitBusyRetry \/ Settle \/ Exit
    BY <1>9, <1>12 DEF Connect, CollectClose, CollectIdle, Decide, CommitNothing, Publish, CommitBusyRetry,
                       Settle, Exit, shared, counts, durable, history
  <1>13. CASE CollectTake
    <2>1. UNCHANGED <<done, lost, next, obsDropped, logsDropped, arrived, waiting>>
      BY <1>13 DEF CollectTake, counts, durable, history
    <2>2. Pend' = Pend
      <3>1. PICK n \in 1 .. Len(queue) : /\ batch' = batch \o SubSeq(queue, 1, n)
                                         /\ queue' = SubSeq(queue, n + 1, Len(queue))
        BY <1>13 DEF CollectTake
      <3>2. batch \in Seq(Item) /\ queue \in Seq(Item)
        BY DEF TypeOK
      <3>3. \A x, y : x = batch \o SubSeq(queue, 1, n) /\ y = SubSeq(queue, n + 1, Len(queue))
                       => x \o y = batch \o queue
        BY <3>2, TakePrefix
      <3>4. batch' \o queue' = batch \o queue
        BY <3>1, <3>3, Zenon
      <3>5. QED BY <3>4, Zenon DEF Pend
    <2>3. Keeps
      BY <2>1, <2>2 DEF Keeps
    <2>4. QED BY <1>8, <2>1, <2>3
  <1>14. CASE CommitRequeue
    <2>1. /\ queue' = batch \o queue /\ batch' = <<>> /\ UNCHANGED <<next, done, lost>>
          /\ UNCHANGED <<obsDropped, logsDropped, arrived, waiting>>
      BY <1>14 DEF CommitRequeue, Requeued, durable, counts
    <2>2. batch \o queue \in Seq(Item)
      BY ElemsConcat DEF TypeOK
    <2>3. Pend' = Pend
      BY <2>1, <2>2, ConcatEmptySeq DEF Pend
    <2>4. Keeps
      BY <2>1, <2>3 DEF Keeps
    <2>5. QED BY <1>8, <2>1, <2>4
  <1>15. CASE CommitOk
    <2>1. /\ queue' = queue /\ batch' = <<>> /\ done' = done \cup Elems(batch)
          /\ UNCHANGED <<obsDropped, logsDropped, arrived, waiting>>
      BY <1>15 DEF CommitOk, shared, counts, history
    <2>2. Held' = Elems(queue') \cup Elems(batch') \cup done'
      BY DEF Held, Live, Elems
    <2>3. Held' = Held
      BY <2>1, <2>2, ElemsEmpty DEF Held, Live
    <2>4. QED BY <1>7, <2>1, <2>3
  <1>16. CASE CommitDrop
    <2>1. /\ queue' = queue /\ batch' = <<>> /\ UNCHANGED <<done, arrived, waiting>>
          /\ obsDropped' = obsDropped + TraceCount(batch) /\ logsDropped' = logsDropped + LogCount(batch)
      BY <1>16 DEF CommitDrop, shared, durable
    <2>2. /\ batch \in Seq(Item) /\ queue \in Seq(Item) /\ Elems(batch) \subseteq Held
          /\ Elems(batch) \subseteq Live /\ Elems(batch) \subseteq Item
      BY ElemsType DEF TypeOK, Held, Live
    <2>3. Sorted(batch) /\ \A y \in Elems(batch), z \in Elems(queue) : y.id < z.id
      BY <2>2, SortedConcat DEF OrderInv, Pend
    <2>4. ASSUME NEW y \in Elems(batch) PROVE y \notin Elems(queue) /\ y \notin done
      <3>1. y \in Live /\ y.id \in Nat
        BY <2>2, <2>4 DEF Item
      <3>2. ~(y.id < y.id)
        BY <3>1
      <3>3. QED BY <2>3, <2>4, <3>1, <3>2 DEF OrderInv
    <2>5. Held' = Elems(queue') \cup Elems(batch') \cup done'
      BY DEF Held, Live, Elems
    <2>6. Held' = Held \ Elems(batch)
      BY <2>1, <2>4, <2>5, ElemsEmpty DEF Held, Live
    <2>7. PICK new : new = Held \ Elems(batch)
      OBVIOUS
    <2>8. /\ IsFiniteSet(new)
          /\ Cardinality(Traces(Held)) = Cardinality(Traces(new)) + TraceCount(batch)
          /\ Cardinality(Held \ Traces(Held)) = Cardinality(new \ Traces(new)) + LogCount(batch)
      BY <1>0, <2>2, <2>3, <2>7, PartsLess
    <2>9. /\ TraceCount(batch) \in Nat /\ LogCount(batch) \in Nat
          /\ Cardinality(Traces(new)) \in Nat /\ Cardinality(new \ Traces(new)) \in Nat
      BY <2>2, <2>8, CountsAreNat, Parts
    <2>10. Balanced(obsDropped + TraceCount(batch), logsDropped + LogCount(batch), arrived, waiting, new)
      BY <2>8, <2>9, BalanceTypes DEF Balanced
    <2>11. QED BY <1>0, <2>1, <2>6, <2>7, <2>8, <2>10, CountNext
  <1>17. CASE Warn \/ Crash
    <2>1. OwnLog /\ UNCHANGED <<batch, done, waiting, obsDropped>>
      BY <1>17 DEF Warn, Crash, durable
    <2>2. CASE stopping
      <3>1. UNCHANGED <<queue, logsDropped, arrived>>
        BY <2>1, <2>2 DEF OwnLog
      <3>2. QED BY <1>9, <2>1, <3>1
    <2>3. CASE ~stopping
      <3>1. LogLine /\ arrived' = [arrived EXCEPT !["log"] = @ + 1]
        BY <2>1, <2>3 DEF OwnLog
      <3>2. QED BY <2>1, <3>1, CountLogLine
    <2>4. QED BY <2>2, <2>3
  <1>18. CASE UNCHANGED vars
    BY <1>9, <1>18 DEF vars, shared, counts, thread, durable, history
  <1>19. QED
    BY <1>1, <1>2, <1>3, <1>4, <1>5, <1>6, <1>10, <1>11, <1>12, <1>13, <1>14, <1>15, <1>16, <1>17, <1>18
       DEF Next, WriterStep

\* The counters account for every arrival, for every queue size, batch size and load: what
\* neither waits, is pending nor is committed was counted as dropped exactly once
\* (enqueue, enqueue_log, _wait_for_room, _evict_kept_non_error, _drop_batch).
THEOREM DropsAreCounted == Spec => []EveryDropCounted
  <1>1. Init => CountInv
    <2>1. ASSUME Init PROVE CountInv
      <3>1. /\ queue = <<>> /\ batch = <<>> /\ done = {} /\ waiting = {} /\ obsDropped = 0 /\ logsDropped = 0
            /\ arrived = [k \in Kinds |-> 0]
        BY <2>1 DEF Init
      <3>2. Held = {} /\ Traces({}) = {} /\ {} \ {} = {}
        BY <3>1, ElemsEmpty DEF Held, Live, Traces
      <3>3. arrived["sampled"] = 0 /\ arrived["kept"] = 0 /\ arrived["error"] = 0 /\ arrived["log"] = 0
        BY <3>1 DEF Kinds, TraceKinds
      <3>4. IsFiniteSet({}) /\ Cardinality({}) = 0
        BY FS_EmptySet
      <3>5. Weight(arrived) = 0
        BY <3>3 DEF Weight
      <3>6. Balanced(0, 0, arrived, {}, {})
        BY <3>2, <3>3, <3>4, <3>5 DEF Balanced
      <3>7. QED BY <3>1, <3>2, <3>4, <3>6 DEF CountInv
    <2>2. QED BY <2>1
  <1>2. TypeOK /\ TypeOK' /\ OrderInv /\ CountInv /\ [Next]_vars => CountInv'
    BY CountStep
  <1>3. TypeOK /\ CountInv => EveryDropCounted
    BY BalanceCounts
  <1>4. QED BY <1>1, <1>2, <1>3, OrderHolds, TypeCorrect, PTL DEF Spec
=============================================================================
