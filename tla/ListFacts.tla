------------------------------ MODULE ListFacts -----------------------------
(* Facts about lists.  Induction is stated with sets: the set of numbers, or  *)
(* of sequences, that have a property.                                        *)
EXTENDS Lists, FiniteSets, FiniteSetTheorems, SequenceTheorems, WellFoundedInduction, TLAPS

Below == {pair \in Nat \X Nat : pair[1] < pair[2]}

LEMMA BelowWellFounded == IsWellFoundedOn(Below, Nat)
  BY NatLessThanWellFounded, Zenon DEF OpToRel, Below

\* Every non-empty set of natural numbers has a least element.
LEMMA LeastNumber ==
  ASSUME NEW T \in SUBSET Nat, T # {}
  PROVE  \E x \in T : \A y \in T : x <= y
  <1>1. PICK x \in T : \A y \in T : ~(<<y, x>> \in Below)
    BY WFMin, BelowWellFounded
  <1>2. ASSUME NEW y \in T PROVE x <= y
    <2>1. x \in Nat /\ y \in Nat /\ <<y, x>> \notin Below
      BY <1>1
    <2>2. ~(y < x)
      BY <2>1 DEF Below
    <2>3. QED BY <2>1, <2>2
  <1>3. QED BY <1>2

LEMMA NumberInduction ==
  ASSUME NEW M, 0 \in M, \A n \in Nat : n \in M => n + 1 \in M
  PROVE  Nat \subseteq M
  <1> SUFFICES ASSUME Nat \ M # {} PROVE FALSE
    OBVIOUS
  <1>1. PICK x \in Nat \ M : \A y \in Nat \ M : x <= y
    BY LeastNumber
  <1>2. x # 0 /\ x \in Nat
    BY <1>1
  <1>3. x - 1 \in Nat /\ ~(x <= x - 1)
    BY <1>2
  <1>4. x - 1 \in M
    BY <1>1, <1>3
  <1>5. (x - 1) + 1 \in M
    BY <1>3, <1>4
  <1>6. QED BY <1>1, <1>2, <1>5

\* Every non-empty finite set of natural numbers has a greatest element.
LEMMA GreatestNumber ==
  ASSUME NEW T \in SUBSET Nat, IsFiniteSet(T), T # {}
  PROVE  \E x \in T : \A y \in T : x >= y
  <1> DEFINE Good(S) == S # {} => \E x \in S : \A y \in S : x >= y
             M == {n \in Nat : \A S \in SUBSET Nat :
                                  (IsFiniteSet(S) /\ Cardinality(S) = n) => Good(S)}
  <1>1. 0 \in M
    <2>1. ASSUME NEW S \in SUBSET Nat, IsFiniteSet(S), Cardinality(S) = 0 PROVE S = {}
      BY <2>1, FS_EmptySet
    <2>2. QED BY <2>1
  <1>2. ASSUME NEW n \in Nat, n \in M PROVE n + 1 \in M
    <2>1. ASSUME NEW S \in SUBSET Nat, IsFiniteSet(S), Cardinality(S) = n + 1, S # {}
          PROVE  \E x \in S : \A y \in S : x >= y
      <3>1. PICK z \in S : z \in Nat
        BY <2>1
      <3>2. IsFiniteSet(S \ {z}) /\ Cardinality(S \ {z}) = Cardinality(S) - 1
        BY <2>1, <3>1, FS_RemoveElement
      <3>3. Cardinality(S \ {z}) = n /\ S \ {z} \in SUBSET Nat
        BY <2>1, <3>2
      <3>4. Good(S \ {z})
        BY <1>2, <3>2, <3>3
      <3>5. CASE S \ {z} = {}
        BY <3>1, <3>5
      <3>6. CASE S \ {z} # {}
        <4>1. PICK m \in S \ {z} : \A y \in S \ {z} : m >= y
          BY <3>4, <3>6
        <4>2. m \in Nat /\ \A y \in S : y \in Nat
          BY <4>1
        <4>3. CASE z >= m
          <5>1. \A y \in S : z >= y
            BY <3>1, <4>1, <4>2, <4>3
          <5>2. QED BY <3>1, <5>1
        <4>4. CASE ~(z >= m)
          <5>1. \A y \in S : m >= y
            BY <3>1, <4>1, <4>2, <4>4
          <5>2. QED BY <4>1, <5>1
        <4>5. QED BY <4>3, <4>4
      <3>7. QED BY <3>5, <3>6
    <2>2. QED BY <2>1
  <1>3. Nat \subseteq M
    <2> HIDE DEF M
    <2>1. QED BY <1>1, <1>2, NumberInduction
  <1>4. QED BY <1>3, FS_CardinalityType

LEMMA ListInduction ==
  ASSUME NEW A, NEW M, <<>> \in M,
         \A s \in Seq(A), x \in A : s \in M => Append(s, x) \in M
  PROVE  Seq(A) \subseteq M
  <1> DEFINE N == {n \in Nat : \A s \in Seq(A) : Len(s) = n => s \in M}
  <1>1. 0 \in N
    BY EmptySeq
  <1>2. ASSUME NEW n \in Nat, n \in N PROVE n + 1 \in N
    <2>1. ASSUME NEW s \in Seq(A), Len(s) = n + 1 PROVE s \in M
      <3>1. s # <<>>
        BY <2>1
      <3>2. PICK front \in Seq(A), x \in A : s = Append(front, x)
        BY <3>1, SequenceEmptyOrAppend
      <3>3. Len(front) = n
        BY <2>1, <3>2, AppendProperties, LenProperties
      <3>4. QED BY <1>2, <3>2, <3>3
    <2>2. QED BY <2>1
  <1>3. Nat \subseteq N
    <2> HIDE DEF N
    <2>1. QED BY <1>1, <1>2, NumberInduction
  <1>4. QED BY <1>3, LenProperties

-----------------------------------------------------------------------------
(* The recursive function behind Only is well defined ... *)

Trail(f, n, list, members) ==
    f = [i \in 0..n |->
            IF i = 0 THEN <<>>
            ELSE IF list[i] \in members THEN Append(f[i - 1], list[i]) ELSE f[i - 1]]

LEMMA TrailStep ==
  ASSUME NEW f, NEW n \in Nat, NEW list, NEW members, Trail(f, n, list, members)
  PROVE  /\ f[0] = <<>>
         /\ \A i \in 1..n :
               f[i] = IF list[i] \in members THEN Append(f[i - 1], list[i]) ELSE f[i - 1]
  <1> DEFINE g == [i \in 0..n |->
                     IF i = 0 THEN <<>>
                     ELSE IF list[i] \in members THEN Append(f[i - 1], list[i]) ELSE f[i - 1]]
  <1>1. f = g
    BY DEF Trail
  <1>2. g[0] = <<>>
    OBVIOUS
  <1>3. ASSUME NEW i \in 1..n
        PROVE  g[i] = IF list[i] \in members THEN Append(f[i - 1], list[i]) ELSE f[i - 1]
    OBVIOUS
  <1> HIDE DEF g
  <1>4. QED BY <1>1, <1>2, <1>3

LEMMA TrailExists ==
  ASSUME NEW list, NEW members, NEW n \in Nat
  PROVE  \E f : Trail(f, n, list, members)
  <1> DEFINE M == {k \in Nat : \E f : Trail(f, k, list, members)}
  <1>1. 0 \in M
    <2> DEFINE f == [i \in 0..0 |-> <<>>]
    <2>1. Trail(f, 0, list, members)
      BY DEF Trail
    <2>2. QED BY <2>1
  <1>2. ASSUME NEW k \in Nat, k \in M PROVE k + 1 \in M
    <2>1. PICK f : Trail(f, k, list, members)
      BY <1>2
    <2> DEFINE Grown(i) == IF list[i] \in members THEN Append(f[i - 1], list[i]) ELSE f[i - 1]
               g == [i \in 0..(k + 1) |-> IF i <= k THEN f[i] ELSE Grown(i)]
    <2>2. /\ f[0] = <<>>
          /\ \A i \in 1..k : f[i] = Grown(i)
      BY <2>1, TrailStep
    <2>3. ASSUME NEW i \in 0..(k + 1)
          PROVE  g[i] = IF i = 0 THEN <<>>
                        ELSE IF list[i] \in members THEN Append(g[i - 1], list[i]) ELSE g[i - 1]
      <3>1. CASE i = 0
        BY <2>2, <3>1
      <3>2. CASE i # 0
        <4>1. g[i - 1] = f[i - 1]
          BY <3>2
        <4>2. g[i] = Grown(i)
          <5>1. CASE i <= k
            BY <2>2, <3>2, <5>1
          <5>2. CASE ~(i <= k)
            BY <5>2
          <5>3. QED BY <5>1, <5>2
        <4>3. QED BY <3>2, <4>1, <4>2
      <3>3. QED BY <3>1, <3>2
    <2>4. g = [i \in 0..(k + 1) |-> g[i]]
      OBVIOUS
    <2> HIDE DEF g
    <2>5. Trail(g, k + 1, list, members)
      BY <2>3, <2>4 DEF Trail
    <2>6. QED BY <2>5
  <1>3. Nat \subseteq M
    <2> HIDE DEF M
    <2>1. QED BY <1>1, <1>2, NumberInduction
  <1>4. QED BY <1>3

\* ... and any of its solutions gives the list.
LEMMA TrailUnique ==
  ASSUME NEW n \in Nat, NEW m \in Nat, n <= m, NEW a, NEW b, NEW members, NEW f, NEW g,
         Trail(f, n, a, members), Trail(g, m, b, members),
         \A i \in 1..n : a[i] = b[i]
  PROVE  \A i \in 0..n : f[i] = g[i]
  <1> DEFINE M == {k \in Nat : k <= n => f[k] = g[k]}
  <1>1. 0 \in M
    BY TrailStep
  <1>2. ASSUME NEW k \in Nat, k \in M PROVE k + 1 \in M
    <2>1. CASE k + 1 <= n
      <3>1. f[k] = g[k] /\ k + 1 \in 1..n /\ k + 1 \in 1..m /\ a[k + 1] = b[k + 1]
        BY <1>2, <2>1
      <3>2. f[k + 1] = IF a[k + 1] \in members THEN Append(f[(k + 1) - 1], a[k + 1])
                       ELSE f[(k + 1) - 1]
        BY <3>1, TrailStep
      <3>3. g[k + 1] = IF b[k + 1] \in members THEN Append(g[(k + 1) - 1], b[k + 1])
                       ELSE g[(k + 1) - 1]
        BY <3>1, TrailStep
      <3>4. (k + 1) - 1 = k
        OBVIOUS
      <3>5. QED BY <3>1, <3>2, <3>3, <3>4
    <2>2. CASE ~(k + 1 <= n)
      BY <2>2
    <2>3. QED BY <2>1, <2>2
  <1>3. Nat \subseteq M
    <2> HIDE DEF M
    <2>1. QED BY <1>1, <1>2, NumberInduction
  <1>4. QED BY <1>3

LEMMA OnlyIsTrail ==
  ASSUME NEW A, NEW list \in Seq(A), NEW members, NEW f, Trail(f, Len(list), list, members)
  PROVE  Only(list, members) = f[Len(list)]
  <1> DEFINE c == CHOOSE h : Trail(h, Len(list), list, members)
  <1>1. Trail(c, Len(list), list, members)
    BY Zenon
  <1>2. Only(list, members) = c[Len(list)]
    BY Zenon DEF Only, Trail
  <1> HIDE DEF c
  <1>3. Len(list) \in Nat /\ Len(list) \in 0..Len(list)
    BY LenProperties
  <1>4. c[Len(list)] = f[Len(list)]
    BY <1>1, <1>3, TrailUnique
  <1>5. QED BY <1>2, <1>4

-----------------------------------------------------------------------------
(* What Only is, from one end, and what follows by induction on the list. *)

LEMMA OnlyEmpty ==
  ASSUME NEW members
  PROVE  Only(<<>>, members) = <<>>
  <1>1. <<>> \in Seq({}) /\ Len(<<>>) = 0
    BY EmptySeq
  <1>2. PICK f : Trail(f, 0, <<>>, members)
    BY TrailExists
  <1>3. f[0] = <<>>
    BY <1>2, TrailStep
  <1>4. QED BY <1>1, <1>2, <1>3, OnlyIsTrail

LEMMA OnlyAppend ==
  ASSUME NEW A, NEW list \in Seq(A), NEW x \in A, NEW members
  PROVE  Only(Append(list, x), members) =
             IF x \in members THEN Append(Only(list, members), x) ELSE Only(list, members)
  <1> DEFINE n == Len(list)
             longer == Append(list, x)
  <1>1. n \in Nat /\ n + 1 \in Nat /\ n + 1 \in 1..(n + 1) /\ n \in 0..n /\ n <= n + 1
    BY LenProperties
  <1>2. /\ longer \in Seq(A) /\ Len(longer) = n + 1 /\ longer[n + 1] = x
        /\ \A i \in 1..n : list[i] = longer[i]
    BY AppendProperties
  <1> HIDE DEF n, longer
  <1>3. PICK f : Trail(f, n, list, members)
    BY <1>1, TrailExists
  <1>4. PICK g : Trail(g, n + 1, longer, members)
    BY <1>1, TrailExists
  <1>5. f[n] = g[n]
    BY <1>1, <1>2, <1>3, <1>4, TrailUnique
  <1>6. g[n + 1] = IF x \in members THEN Append(g[n], x) ELSE g[n]
    <2>1. g[n + 1] = IF longer[n + 1] \in members THEN Append(g[(n + 1) - 1], longer[n + 1])
                     ELSE g[(n + 1) - 1]
      BY <1>1, <1>4, TrailStep
    <2>2. (n + 1) - 1 = n
      BY <1>1
    <2>3. QED BY <1>2, <2>1, <2>2
  <1>7. Only(list, members) = f[n]
    BY <1>3, OnlyIsTrail DEF n
  <1>8. Only(longer, members) = g[n + 1]
    BY <1>2, <1>4, OnlyIsTrail
  <1>9. QED BY <1>5, <1>6, <1>7, <1>8 DEF longer

\* Only elements of the list, and only members.
LEMMA OnlyType ==
  ASSUME NEW A, NEW list \in Seq(A), NEW members
  PROVE  /\ Only(list, members) \in Seq(A \cap members) /\ Only(list, members) \in Seq(A)
         /\ Len(Only(list, members)) \in Nat
  <1> DEFINE M == {s \in Seq(A) : Only(s, members) \in Seq(A \cap members)}
  <1>1. <<>> \in M
    BY OnlyEmpty, EmptySeq
  <1>2. ASSUME NEW s \in Seq(A), NEW x \in A, s \in M PROVE Append(s, x) \in M
    <2>1. Append(s, x) \in Seq(A)
      BY AppendProperties
    <2>2. Only(Append(s, x), members) \in Seq(A \cap members)
      <3>1. CASE x \in members
        <4>1. Only(Append(s, x), members) = Append(Only(s, members), x)
          BY <3>1, OnlyAppend
        <4>2. Only(s, members) \in Seq(A \cap members) /\ x \in A \cap members
          BY <1>2, <3>1
        <4>3. QED BY <4>1, <4>2, AppendProperties
      <3>2. CASE x \notin members
        BY <1>2, <3>2, OnlyAppend
      <3>3. QED BY <3>1, <3>2
    <2>3. QED BY <2>1, <2>2
  <1>3. Seq(A) \subseteq M
    <2> HIDE DEF M
    <2>1. QED BY <1>1, <1>2, ListInduction
  <1>4. Only(list, members) \in Seq(A \cap members)
    BY <1>3
  <1>5. Only(list, members) \in Seq(A)
    BY <1>4, SeqMonotonic
  <1>6. QED BY <1>4, <1>5, LenProperties

LEMMA OnlyNone ==
  ASSUME NEW A, NEW list \in Seq(A), NEW members, \A i \in 1..Len(list) : list[i] \notin members
  PROVE  Only(list, members) = <<>>
  <1> DEFINE None(s) == \A i \in 1..Len(s) : s[i] \notin members
             M == {s \in Seq(A) : None(s) => Only(s, members) = <<>>}
  <1>1. <<>> \in M
    BY OnlyEmpty, EmptySeq
  <1>2. ASSUME NEW s \in Seq(A), NEW x \in A, s \in M PROVE Append(s, x) \in M
    <2>1. /\ Append(s, x) \in Seq(A) /\ Len(Append(s, x)) = Len(s) + 1 /\ Len(s) \in Nat
          /\ \A i \in 1..Len(s) : Append(s, x)[i] = s[i]
          /\ Append(s, x)[Len(s) + 1] = x
      BY AppendProperties, LenProperties
    <2>2. ASSUME None(Append(s, x)) PROVE None(s) /\ x \notin members
      BY <2>1, <2>2
    <2>3. QED BY <1>2, <2>1, <2>2, OnlyAppend
  <1>3. Seq(A) \subseteq M
    <2> HIDE DEF M
    <2>1. QED BY <1>1, <1>2, ListInduction
  <1>4. QED BY <1>3

\* A second filter keeps what both keep.
LEMMA OnlyTwice ==
  ASSUME NEW A, NEW list \in Seq(A), NEW S, NEW T
  PROVE  Only(Only(list, S), T) = Only(list, S \cap T)
  <1> DEFINE M == {s \in Seq(A) : Only(Only(s, S), T) = Only(s, S \cap T)}
  <1>1. <<>> \in M
    BY OnlyEmpty, EmptySeq
  <1>2. ASSUME NEW s \in Seq(A), NEW x \in A, s \in M PROVE Append(s, x) \in M
    <2>1. Append(s, x) \in Seq(A) /\ Only(s, S) \in Seq(A)
      BY AppendProperties, OnlyType
    <2>2. Only(Append(s, x), S \cap T) =
             IF x \in S \cap T THEN Append(Only(s, S \cap T), x) ELSE Only(s, S \cap T)
      BY OnlyAppend
    <2>3. CASE x \in S
      <3>1. Only(Append(s, x), S) = Append(Only(s, S), x)
        BY <2>3, OnlyAppend
      <3>2. Only(Append(Only(s, S), x), T) =
               IF x \in T THEN Append(Only(Only(s, S), T), x) ELSE Only(Only(s, S), T)
        BY <2>1, OnlyAppend
      <3>3. Only(Only(s, S), T) = Only(s, S \cap T)
        BY <1>2
      <3>4. Only(Only(Append(s, x), S), T) = Only(Append(s, x), S \cap T)
        BY <2>2, <2>3, <3>1, <3>2, <3>3
      <3>5. QED BY <2>1, <3>4
    <2>4. CASE x \notin S
      <3>1. Only(Append(s, x), S) = Only(s, S)
        BY <2>4, OnlyAppend
      <3>2. QED BY <1>2, <2>1, <2>2, <2>4, <3>1
    <2>5. QED BY <2>3, <2>4
  <1>3. Seq(A) \subseteq M
    <2> HIDE DEF M
    <2>1. QED BY <1>1, <1>2, ListInduction
  <1>4. QED BY <1>3

\* The more members, the longer the list; nothing is longer than the list.
LEMMA OnlyLength ==
  ASSUME NEW A, NEW list \in Seq(A), NEW T, NEW S \in SUBSET T
  PROVE  Len(Only(list, S)) <= Len(Only(list, T)) /\ Len(Only(list, T)) <= Len(list)
  <1> DEFINE M == {s \in Seq(A) : /\ Len(Only(s, S)) <= Len(Only(s, T))
                                  /\ Len(Only(s, T)) <= Len(s)}
  <1>1. <<>> \in M
    BY OnlyEmpty, EmptySeq
  <1>2. ASSUME NEW s \in Seq(A), NEW x \in A, s \in M PROVE Append(s, x) \in M
    <2>1. /\ Append(s, x) \in Seq(A) /\ Len(Append(s, x)) = Len(s) + 1 /\ Len(s) \in Nat
          /\ Only(s, S) \in Seq(A) /\ Only(s, T) \in Seq(A)
          /\ Len(Only(s, S)) \in Nat /\ Len(Only(s, T)) \in Nat
      BY AppendProperties, OnlyType, LenProperties
    <2>2. /\ Len(Append(Only(s, S), x)) = Len(Only(s, S)) + 1
          /\ Len(Append(Only(s, T), x)) = Len(Only(s, T)) + 1
      BY <2>1, AppendProperties
    <2>3. Len(Only(Append(s, x), S)) = IF x \in S THEN Len(Only(s, S)) + 1 ELSE Len(Only(s, S))
      BY <2>2, OnlyAppend
    <2>4. Len(Only(Append(s, x), T)) = IF x \in T THEN Len(Only(s, T)) + 1 ELSE Len(Only(s, T))
      BY <2>2, OnlyAppend
    <2>5. QED BY <1>2, <2>1, <2>3, <2>4
  <1>3. Seq(A) \subseteq M
    <2> HIDE DEF M
    <2>1. QED BY <1>1, <1>2, ListInduction
  <1>4. QED BY <1>3

\* Its length counts the places that hold a member.
LEMMA OnlyCounts ==
  ASSUME NEW A, NEW list \in Seq(A), NEW members
  PROVE  /\ IsFiniteSet({i \in 1..Len(list) : list[i] \in members})
         /\ Cardinality({i \in 1..Len(list) : list[i] \in members}) = Len(Only(list, members))
  <1> DEFINE At(s) == {i \in 1..Len(s) : s[i] \in members}
             M == {s \in Seq(A) : /\ IsFiniteSet(At(s))
                                  /\ Cardinality(At(s)) = Len(Only(s, members))}
  <1>1. <<>> \in M
    <2>1. At(<<>>) = {} /\ <<>> \in Seq(A)
      BY EmptySeq
    <2> HIDE DEF At
    <2>2. QED BY <2>1, OnlyEmpty, EmptySeq, FS_EmptySet
  <1>2. ASSUME NEW s \in Seq(A), NEW x \in A, s \in M PROVE Append(s, x) \in M
    <2>1. /\ Append(s, x) \in Seq(A) /\ Len(Append(s, x)) = Len(s) + 1 /\ Len(s) \in Nat
          /\ \A i \in 1..Len(s) : Append(s, x)[i] = s[i]
          /\ Append(s, x)[Len(s) + 1] = x
      BY AppendProperties, LenProperties
    <2>2. At(Append(s, x)) = IF x \in members THEN At(s) \cup {Len(s) + 1} ELSE At(s)
      BY <2>1
    <2>3. Len(s) + 1 \notin At(s)
      BY <2>1
    <2>4. IsFiniteSet(At(s)) /\ Cardinality(At(s)) = Len(Only(s, members))
      BY <1>2
    <2> HIDE DEF At
    <2>5. CASE x \in members
      <3>1. At(Append(s, x)) = At(s) \cup {Len(s) + 1}
        BY <2>2, <2>5
      <3>2. /\ IsFiniteSet(At(Append(s, x)))
            /\ Cardinality(At(Append(s, x))) = Cardinality(At(s)) + 1
        BY <2>3, <2>4, <3>1, FS_AddElement, ZenonT(60)
      <3>3. Len(Only(Append(s, x), members)) = Len(Only(s, members)) + 1
        <4>1. Only(Append(s, x), members) = Append(Only(s, members), x)
          BY <2>5, OnlyAppend
        <4>2. Only(s, members) \in Seq(A)
          BY OnlyType
        <4>3. QED BY <4>1, <4>2, AppendProperties
      <3>4. QED BY <2>1, <2>4, <3>2, <3>3
    <2>6. CASE x \notin members
      <3>1. At(Append(s, x)) = At(s) /\ Only(Append(s, x), members) = Only(s, members)
        BY <2>2, <2>6, OnlyAppend
      <3>2. QED BY <2>1, <2>4, <3>1
    <2>7. QED BY <2>5, <2>6
  <1>3. Seq(A) \subseteq M
    <2> HIDE DEF M
    <2>1. QED BY <1>1, <1>2, ListInduction
  <1>4. QED BY <1>3

=============================================================================
