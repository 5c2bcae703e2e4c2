-------------------------- MODULE Positions_proofs ---------------------------
(* Lemmas about positions and joined sequences that the other proofs rest    *)
(* on.  Induction goes by the least counterexample: a set of naturals has a  *)
(* least element.                                                            *)
EXTENDS Positions, Sequences, SequencesExt, FiniteSetTheorems, WellFoundedInduction, TLAPS

LEMMA LeastNumber ==
    ASSUME NEW T \in SUBSET Nat, T # {}
    PROVE  \E n \in T : \A m \in T : n <= m
<1> DEFINE R == OpToRel(<, Nat)
<1>1. IsWellFoundedOn(R, Nat)
  BY NatLessThanWellFounded
<1>2. \A x, y \in Nat : x < y => <<x, y>> \in R
  BY DEF OpToRel
<1> HIDE DEF R
<1>3. PICK n \in T : \A m \in T : ~(<<m, n>> \in R)
  BY <1>1, WFMin
<1>4. \A m \in T : ~(m < n)
  BY <1>2, <1>3
<1> QED BY <1>4

---------------------------------------------------------------------------
\* Positions in order.

LEMMA RankBounds ==
    ASSUME NEW S \in SUBSET Nat, IsFiniteSet(S)
    PROVE  /\ Cardinality(S) \in Nat
           /\ \A i \in S : Rank(S, i) \in 1..Cardinality(S)
           /\ \A i, j \in S : i < j => Rank(S, i) < Rank(S, j)
           /\ \A i, j \in S : Rank(S, i) = Rank(S, j) => i = j
<1>1. Cardinality(S) \in Nat
    BY FS_CardinalityType
<1>2. ASSUME NEW i \in Nat
      PROVE  /\ IsFiniteSet({x \in S : x <= i}) /\ Rank(S, i) \in Nat
             /\ Rank(S, i) <= Cardinality(S)
    <2>1. {x \in S : x <= i} \in SUBSET S
        OBVIOUS
    <2> QED  BY <2>1, FS_Subset, FS_CardinalityType DEF Rank
<1>3. ASSUME NEW i \in S PROVE Rank(S, i) \in 1..Cardinality(S)
    <2>1. {x \in S : x <= i} # {}
        BY <1>3
    <2>2. Rank(S, i) # 0
        BY <1>2, <1>3, <2>1, FS_EmptySet DEF Rank
    <2>3. Rank(S, i) \in Nat /\ Rank(S, i) <= Cardinality(S)
        BY <1>2, <1>3
    <2> QED  BY <1>1, <2>2, <2>3
<1>4. ASSUME NEW i \in S, NEW j \in S, i < j PROVE Rank(S, i) < Rank(S, j)
    <2> DEFINE low == {x \in S : x <= i}
               high == {x \in S : x <= j}
    <2>0. i \in Nat /\ j \in Nat /\ \A x \in S : x \in Nat
        OBVIOUS
    <2>1. low \in SUBSET high /\ j \in high /\ j \notin low
        <3>1. \A x \in low : x \in high
            BY <2>0, <1>4
        <3>2. j \in high /\ j \notin low
            BY <2>0, <1>4
        <3> QED  BY <3>1, <3>2
    <2>2. IsFiniteSet(high) /\ Cardinality(low) = Rank(S, i) /\ Cardinality(high) = Rank(S, j)
        BY <1>2 DEF Rank
    <2> HIDE DEF low, high
    <2>3. Cardinality(low) <= Cardinality(high) /\ Cardinality(low) # Cardinality(high)
        BY <2>1, <2>2, FS_Subset
    <2>4. Rank(S, i) \in Nat /\ Rank(S, j) \in Nat
        BY <1>2
    <2> QED  BY <2>2, <2>3, <2>4
<1>5. ASSUME NEW i \in S, NEW j \in S, Rank(S, i) = Rank(S, j) PROVE i = j
    <2>0. i \in Nat /\ j \in Nat /\ Rank(S, i) \in Nat /\ Rank(S, j) \in Nat
        BY <1>2
    <2>1. CASE i < j
        BY <2>0, <2>1, <1>4, <1>5
    <2>2. CASE j < i
        BY <2>0, <2>2, <1>4, <1>5
    <2> QED  BY <2>0, <2>1, <2>2
<1> QED  BY <1>1, <1>3, <1>4, <1>5

\* Position k of the order is the k-th, and every position is somewhere in it.
LEMMA InOrderRanks ==
    ASSUME NEW S \in SUBSET Nat, IsFiniteSet(S)
    PROVE  /\ DOMAIN InOrder(S) = 1..Cardinality(S)
           /\ \A k \in 1..Cardinality(S) : InOrder(S)[k] \in S /\ Rank(S, InOrder(S)[k]) = k
           /\ \A i \in S : InOrder(S)[Rank(S, i)] = i
<1> DEFINE N == Cardinality(S)
           r == [i \in S |-> Rank(S, i)]
<1>1. N \in Nat /\ r \in [S -> 1..N] /\ \A i, j \in S : r[i] = r[j] => i = j
    BY RankBounds
<1>2. r \in Injection(S, 1..N)
    BY <1>1 DEF Injection, IsInjective
<1>3. IsFiniteSet(1..N) /\ Cardinality(1..N) = N
    BY <1>1, FS_Interval
<1> HIDE DEF r
<1>4. r \in Surjection(S, 1..N)
    BY <1>2, <1>3, FS_Injection
<1>5. \A k \in 1..N : \E i \in S : r[i] = k
    BY <1>4 DEF Surjection
<1>6. \A k \in 1..N : \E i \in S : Rank(S, i) = k
    BY <1>5 DEF r
<1>7. \A k \in 1..N : InOrder(S)[k] \in S /\ Rank(S, InOrder(S)[k]) = k
    BY <1>6 DEF InOrder
<1>8. \A i \in S : InOrder(S)[Rank(S, i)] = i
    <2> SUFFICES ASSUME NEW i \in S PROVE InOrder(S)[Rank(S, i)] = i
        OBVIOUS
    <2> DEFINE j == InOrder(S)[Rank(S, i)]
    <2>1. Rank(S, i) \in 1..N
        BY RankBounds
    <2>2. j \in S /\ Rank(S, j) = Rank(S, i)
        BY <1>7, <2>1
    <2> HIDE DEF j
    <2>3. j = i
        BY <2>2, RankBounds
    <2> QED  BY <2>3 DEF j
<1> QED  BY <1>7, <1>8 DEF InOrder

---------------------------------------------------------------------------
\* Sequences joined into one.

\* f[i] is the first i of the sequences s, joined.
Joins(f, s, n) == \A i \in 1..n : f[i] = IF i = 1 THEN s[1] ELSE f[i - 1] \o s[i]

LEMMA JoinExists ==
    ASSUME NEW s, Len(s) \in Nat
    PROVE  \E f : f = [i \in 1..Len(s) |-> IF i = 1 THEN s[i] ELSE f[i - 1] \o s[i]]
<1> DEFINE N == Len(s)
           T == {n \in 0..N : ~\E f : Joins(f, s, n)}
<1>1. T = {}
  <2>1. SUFFICES ASSUME T # {} PROVE FALSE
    OBVIOUS
  <2>2. T \in SUBSET Nat
    OBVIOUS
  <2>3. PICK n \in T : \A m \in T : n <= m
    <3> HIDE DEF T
    <3> QED BY <2>1, <2>2, LeastNumber
  <2>4. n \in 0..N /\ ~\E f : Joins(f, s, n)
    OBVIOUS
  <2>5. n # 0
    <3>1. Joins(s, s, 0)
      BY DEF Joins
    <3> QED BY <2>4, <3>1
  <2>6. PICK f : Joins(f, s, n - 1)
    <3>1. n - 1 \in 0..N /\ n - 1 \notin T
      BY <2>3, <2>4, <2>5
    <3> QED BY <3>1
  <2> DEFINE h == [i \in 1..n |-> IF i = 1 THEN s[1] ELSE IF i = n THEN f[n - 1] \o s[n] ELSE f[i]]
  <2>7. \A i \in 1..n : h[i] = IF i = 1 THEN s[1] ELSE IF i = n THEN f[n - 1] \o s[n] ELSE f[i]
    OBVIOUS
  <2>8. \A i \in 1..n : i < n => h[i] = f[i]
    BY <2>4, <2>5, <2>6, <2>7 DEF Joins
  <2> HIDE DEF h
  <2>9. ASSUME NEW i \in 1..n PROVE h[i] = IF i = 1 THEN s[1] ELSE h[i - 1] \o s[i]
    <3>1. CASE i = 1
      BY <2>7, <3>1
    <3>2. CASE i # 1 /\ i = n
      <4>1. n - 1 \in 1..n /\ n - 1 < n
        BY <2>4, <3>2
      <4>2. h[n - 1] = f[n - 1]
        BY <2>8, <4>1
      <4> QED BY <2>7, <3>2, <4>2
    <3>3. CASE i # 1 /\ i # n
      <4>1. i \in 1..(n - 1) /\ i - 1 \in 1..n /\ i - 1 < n /\ i < n
        BY <2>4, <3>3
      <4>2. h[i - 1] = f[i - 1] /\ h[i] = f[i]
        BY <2>8, <4>1
      <4> QED BY <2>6, <3>3, <4>1, <4>2 DEF Joins
    <3> QED BY <3>1, <3>2, <3>3
  <2>10. Joins(h, s, n)
    BY <2>9 DEF Joins
  <2> QED BY <2>4, <2>10
<1>2. PICK f : Joins(f, s, N)
  BY <1>1
<1> DEFINE g == [i \in 1..N |-> f[i]]
<1>3. \A i \in 1..N : g[i] = f[i] /\ (i # 1 => g[i - 1] = f[i - 1])
  OBVIOUS
<1>4. g = [i \in 1..N |-> g[i]]
  OBVIOUS
<1> HIDE DEF g
<1>5. \A i \in 1..N : g[i] = IF i = 1 THEN s[i] ELSE g[i - 1] \o s[i]
  BY <1>2, <1>3 DEF Joins
<1>6. g = [i \in 1..N |-> IF i = 1 THEN s[i] ELSE g[i - 1] \o s[i]]
  BY <1>4, <1>5, Zenon
<1> QED BY <1>6

\* What FlattenSeq computes.
LEMMA FlattenJoins ==
    ASSUME NEW s, Len(s) \in Nat \ {0}
    PROVE  \E g : Joins(g, s, Len(s)) /\ FlattenSeq(s) = g[Len(s)]
<1> DEFINE IsJoin(f) == f = [i \in 1..Len(s) |-> IF i = 1 THEN s[i] ELSE f[i - 1] \o s[i]]
           g == CHOOSE f : IsJoin(f)
<1>1. FlattenSeq(s) = g[Len(s)]
  BY DEF FlattenSeq
<1>2. IsJoin(g)
  <2>1. \E f : IsJoin(f)
    BY JoinExists
  <2> HIDE DEF IsJoin
  <2> QED BY <2>1
<1> HIDE DEF g
<1>3. Joins(g, s, Len(s))
  BY <1>2 DEF Joins
<1> QED BY <1>1, <1>3

LEMMA FlattenElements ==
    ASSUME NEW S, NEW s \in Seq(Seq(S))
    PROVE  /\ FlattenSeq(s) \in Seq(S)
           /\ Range(FlattenSeq(s)) = UNION {Range(s[k]) : k \in DOMAIN s}
<1>1. CASE Len(s) = 0
  <2>1. s = <<>> /\ FlattenSeq(s) = s
    BY <1>1 DEF FlattenSeq
  <2>2. DOMAIN s = {} /\ Range(s) = {}
    BY <2>1 DEF Range
  <2>3. UNION {Range(s[k]) : k \in DOMAIN s} = {}
    BY <2>2
  <2>4. s \in Seq(S)
    BY <2>1
  <2> QED BY <2>1, <2>2, <2>3, <2>4
<1>2. CASE Len(s) # 0
  <2> DEFINE N == Len(s)
  <2>1. N \in Nat \ {0} /\ DOMAIN s = 1..N /\ \A k \in 1..N : s[k] \in Seq(S)
    BY <1>2
  <2>2. PICK g : Joins(g, s, N) /\ FlattenSeq(s) = g[N]
    BY <2>1, FlattenJoins
  <2> DEFINE Right(i) == g[i] \in Seq(S) /\ Range(g[i]) = UNION {Range(s[k]) : k \in 1..i}
             T == {i \in 1..N : ~Right(i)}
  <2> HIDE DEF N
  <2>3. ASSUME NEW i \in 1..N, i # 1 => Right(i - 1) PROVE Right(i)
    <3>1. CASE i = 1
      <4>1. g[1] = s[1] /\ 1..i = {1}
        BY <2>2, <3>1 DEF Joins
      <4>2. UNION {Range(s[k]) : k \in {1}} = Range(s[1])
        OBVIOUS
      <4> QED BY <2>1, <3>1, <4>1, <4>2
    <3>2. CASE i # 1
      <4>1. g[i] = g[i - 1] \o s[i] /\ g[i - 1] \in Seq(S) /\ s[i] \in Seq(S)
        BY <2>1, <2>2, <2>3, <3>2 DEF Joins
      <4>2. g[i] \in Seq(S)
        BY <4>1
      <4>3. Range(g[i]) = Range(g[i - 1]) \cup Range(s[i])
        <5> DEFINE a == g[i - 1]
                   b == s[i]
        <5>1. a \in Seq(S) /\ b \in Seq(S)
          BY <4>1
        <5> HIDE DEF a, b
        <5>2. /\ DOMAIN a = 1..Len(a) /\ DOMAIN b = 1..Len(b) /\ Len(a) \in Nat /\ Len(b) \in Nat
              /\ DOMAIN (a \o b) = 1..(Len(a) + Len(b))
              /\ \A k \in 1..(Len(a) + Len(b)) : (a \o b)[k] = IF k <= Len(a) THEN a[k] ELSE b[k - Len(a)]
          BY <5>1
        <5>3. ASSUME NEW x \in Range(a \o b) PROVE x \in Range(a) \cup Range(b)
          <6>1. PICK k \in 1..(Len(a) + Len(b)) : x = (a \o b)[k]
            BY <5>2, <5>3 DEF Range
          <6>2. CASE k <= Len(a)
            <7>1. k \in DOMAIN a /\ x = a[k]
              BY <5>2, <6>1, <6>2
            <7> QED BY <7>1 DEF Range
          <6>3. CASE ~(k <= Len(a))
            <7>1. k - Len(a) \in DOMAIN b /\ x = b[k - Len(a)]
              BY <5>2, <6>1, <6>3
            <7> QED BY <7>1 DEF Range
          <6> QED BY <6>2, <6>3
        <5>4. ASSUME NEW x \in Range(a) PROVE x \in Range(a \o b)
          <6>1. PICK k \in 1..Len(a) : x = a[k]
            BY <5>2, <5>4 DEF Range
          <6>2. k \in DOMAIN (a \o b) /\ x = (a \o b)[k]
            BY <5>2, <6>1
          <6> QED BY <6>2 DEF Range
        <5>5. ASSUME NEW x \in Range(b) PROVE x \in Range(a \o b)
          <6>1. PICK k \in 1..Len(b) : x = b[k]
            BY <5>2, <5>5 DEF Range
          <6>2. Len(a) + k \in DOMAIN (a \o b) /\ ~(Len(a) + k <= Len(a)) /\ Len(a) + k - Len(a) = k
            BY <5>2, <6>1
          <6>3. x = (a \o b)[Len(a) + k]
            BY <5>2, <6>1, <6>2
          <6> QED BY <6>2, <6>3 DEF Range
        <5>6. Range(a \o b) = Range(a) \cup Range(b)
          BY <5>3, <5>4, <5>5
        <5> QED BY <4>1, <5>6 DEF a, b
      <4>4. Range(g[i - 1]) = UNION {Range(s[k]) : k \in 1..(i - 1)}
        BY <2>3, <3>2
      <4>5. 1..i = 1..(i - 1) \cup {i}
        BY <2>1
      <4> QED BY <4>2, <4>3, <4>4, <4>5
    <3> QED BY <3>1, <3>2
  <2> HIDE DEF Right
  <2>4. T = {}
    <3>1. SUFFICES ASSUME T # {} PROVE FALSE
      OBVIOUS
    <3>2. T \in SUBSET Nat
      OBVIOUS
    <3>3. PICK n \in T : \A m \in T : n <= m
      <4> HIDE DEF T
      <4> QED BY <3>1, <3>2, LeastNumber
    <3>4. n # 1 => n - 1 \in 1..N /\ n - 1 \notin T
      BY <2>1, <3>3
    <3>5. n # 1 => Right(n - 1)
      BY <3>4
    <3> QED BY <2>3, <3>5
  <2>5. Right(N)
    BY <2>1, <2>4
  <2> QED BY <2>1, <2>2, <2>5 DEF Right, N
<1> QED BY <1>1, <1>2

\* Positions counted in order, from any increasing list of them.
LEMMA InOrderIs ==
    ASSUME NEW n \in Nat, NEW f, \A k \in 1..n : f[k] \in Nat,
           \A k, l \in 1..n : k < l => f[k] < f[l]
    PROVE  LET S == {f[k] : k \in 1..n}
           IN  /\ S \in SUBSET Nat /\ IsFiniteSet(S) /\ Cardinality(S) = n
               /\ \A k \in 1..n : InOrder(S)[k] = f[k]
<1> DEFINE S == {f[k] : k \in 1..n}
<1>1. S \in SUBSET Nat
  OBVIOUS
<1>2. ASSUME NEW m \in 0..n
      PROVE  IsFiniteSet({f[k] : k \in 1..m}) /\ Cardinality({f[k] : k \in 1..m}) = m
  <2> DEFINE T == {f[k] : k \in 1..m}
             h == [k \in 1..m |-> f[k]]
  <2>1. \A k \in 1..m : k \in 1..n
    OBVIOUS
  <2>2. h \in [1..m -> T] /\ \A k \in 1..m : h[k] = f[k]
    OBVIOUS
  <2>3. ASSUME NEW k \in 1..m, NEW l \in 1..m, h[k] = h[l] PROVE k = l
    <3>1. f[k] = f[l] /\ f[k] \in Nat
      BY <2>1, <2>2, <2>3
    <3>2. ~(k < l) /\ ~(l < k)
      BY <2>1, <3>1
    <3> QED BY <3>2
  <2>4. \A t \in T : \E k \in 1..m : h[k] = t
    BY <2>2
  <2> HIDE DEF h, T
  <2>5. h \in Injection(1..m, T) /\ h \in Surjection(1..m, T)
    BY <2>2, <2>3, <2>4 DEF Injection, IsInjective, Surjection
  <2>6. ExistsBijection(1..m, T)
    BY <2>5 DEF ExistsBijection, Bijection
  <2>7. IsFiniteSet(1..m) /\ Cardinality(1..m) = m
    BY FS_Interval
  <2>8. IsFiniteSet(T) /\ Cardinality(T) = m
    BY <2>6, <2>7, FS_Bijection
  <2> QED BY <2>8 DEF T
<1>3. IsFiniteSet(S) /\ Cardinality(S) = n
  BY <1>2
<1>4. ASSUME NEW k \in 1..n PROVE InOrder(S)[k] = f[k]
  <2>1. {j \in S : j <= f[k]} = {f[j] : j \in 1..k}
    <3>1. ASSUME NEW j \in 1..n, f[j] <= f[k] PROVE j \in 1..k
      <4>1. ~(k < j)
        BY <3>1
      <4> QED BY <4>1
    <3>2. ASSUME NEW j \in 1..k PROVE j \in 1..n /\ f[j] <= f[k]
      <4>1. j \in 1..n /\ (j < k \/ j = k)
        OBVIOUS
      <4> QED BY <4>1
    <3> QED BY <3>1, <3>2
  <2>2. Rank(S, f[k]) = k
    BY <1>2, <2>1 DEF Rank
  <2>3. f[k] \in S
    OBVIOUS
  <2> HIDE DEF S
  <2> QED BY <1>1, <1>3, <2>2, <2>3, InOrderRanks
<1> QED BY <1>1, <1>3, <1>4

\* InOrder counts upwards.
LEMMA InOrderIncreases ==
    ASSUME NEW S \in SUBSET Nat, IsFiniteSet(S)
    PROVE  /\ Cardinality(S) \in Nat /\ DOMAIN InOrder(S) = 1..Cardinality(S)
           /\ \A k \in 1..Cardinality(S) : InOrder(S)[k] \in S
           /\ \A k, l \in 1..Cardinality(S) : k < l => InOrder(S)[k] < InOrder(S)[l]
           /\ \A i \in S : \E k \in 1..Cardinality(S) : InOrder(S)[k] = i
<1> DEFINE N == Cardinality(S)
           f == InOrder(S)
<1>1. N \in Nat /\ DOMAIN f = 1..N
      /\ (\A k \in 1..N : f[k] \in S /\ Rank(S, f[k]) = k) /\ \A i \in S : f[Rank(S, i)] = i
  BY InOrderRanks, RankBounds
<1>2. (\A i \in S : Rank(S, i) \in 1..N) /\ \A i, j \in S : i < j => Rank(S, i) < Rank(S, j)
  BY RankBounds
<1> HIDE DEF N, f
<1>3. ASSUME NEW k \in 1..N, NEW l \in 1..N, k < l PROVE f[k] < f[l]
  <2>1. f[k] \in Nat /\ f[l] \in Nat /\ f[k] # f[l]
    <3>1. f[k] \in S /\ f[l] \in S /\ Rank(S, f[k]) = k /\ Rank(S, f[l]) = l
      BY <1>1
    <3>2. k # l
      BY <1>1, <1>3
    <3> QED BY <3>1, <3>2
  <2>2. ~(f[l] < f[k])
    <3>1. SUFFICES ASSUME f[l] < f[k] PROVE FALSE
      OBVIOUS
    <3>2. Rank(S, f[l]) < Rank(S, f[k])
      BY <1>1, <1>2, <3>1
    <3> QED BY <1>1, <1>3, <3>2
  <2> QED BY <2>1, <2>2
<1>4. \A i \in S : \E k \in 1..N : f[k] = i
  BY <1>1, <1>2
<1> QED BY <1>1, <1>3, <1>4 DEF N, f

---------------------------------------------------------------------------
\* Where the elements of joined sequences come to stand: those of s[k] begin
\* after the first o[k - 1].

Offsets(o, s) ==
    /\ o \in [0..Len(s) -> Nat] /\ o[0] = 0
    /\ \A k \in 1..Len(s) : o[k] = o[k - 1] + Len(s[k])

\* joined holds the first n of the sequences s.
PlacedAt(o, s, joined, n) ==
    /\ Len(joined) = o[n]
    /\ \A k \in 1..n : \A j \in 1..Len(s[k]) :
          o[k - 1] + j \in 1..Len(joined) /\ joined[o[k - 1] + j] = s[k][j]
    /\ \A m \in 1..Len(joined) : \E k \in 1..n : \E j \in 1..Len(s[k]) : m = o[k - 1] + j

\* Later sequences begin no earlier.
LEMMA OffsetsGrow ==
    ASSUME NEW s, Len(s) \in Nat, \A k \in 1..Len(s) : Len(s[k]) \in Nat, NEW o, Offsets(o, s)
    PROVE  \A k, l \in 0..Len(s) : k <= l => o[k] <= o[l]
<1> DEFINE N == Len(s)
<1>1. o \in [0..N -> Nat] /\ \A k \in 1..N : o[k] = o[k - 1] + Len(s[k])
  BY DEF Offsets
<1>2. N \in Nat /\ \A k \in 1..N : Len(s[k]) \in Nat
  OBVIOUS
<1> HIDE DEF N
<1>3. SUFFICES ASSUME NEW k \in 0..N PROVE \A l \in 0..N : k <= l => o[k] <= o[l]
  BY DEF N
<1> DEFINE T == {l \in 0..N : k <= l /\ ~(o[k] <= o[l])}
<1>4. T = {}
  <2>1. SUFFICES ASSUME T # {} PROVE FALSE
    OBVIOUS
  <2>2. T \in SUBSET Nat
    OBVIOUS
  <2>3. PICK l \in T : \A m \in T : l <= m
    <3> HIDE DEF T
    <3> QED BY <2>1, <2>2, LeastNumber
  <2>4. l \in 0..N /\ k <= l /\ ~(o[k] <= o[l])
    OBVIOUS
  <2>5. l # k
    BY <1>1, <2>4
  <2>6. l - 1 \in 0..N /\ k <= l - 1 /\ l \in 1..N
    BY <1>2, <2>4, <2>5
  <2>7. o[k] <= o[l - 1]
    BY <2>3, <2>6
  <2>8. o[l] = o[l - 1] + Len(s[l]) /\ Len(s[l]) \in Nat
    BY <1>1, <1>2, <2>6
  <2>9. o[l] \in Nat /\ o[l - 1] \in Nat /\ o[k] \in Nat
    BY <1>1, <2>4, <2>6
  <2> QED BY <2>4, <2>7, <2>8, <2>9
<1> QED BY <1>4

\* Step by step, the joined sequences come to stand at their offsets.
LEMMA JoinsPlaced ==
    ASSUME NEW S, NEW s \in Seq(Seq(S)), NEW g, Joins(g, s, Len(s)),
           NEW o, Offsets(o, s), NEW n \in 1..Len(s)
    PROVE  g[n] \in Seq(S) /\ PlacedAt(o, s, g[n], n)
<1> DEFINE N == Len(s)
           Right(i) ==
              /\ g[i] \in Seq(S) /\ Len(g[i]) = o[i]
              /\ \A k \in 1..i : \A j \in 1..Len(s[k]) :
                   o[k - 1] + j \in 1..Len(g[i]) /\ g[i][o[k - 1] + j] = s[k][j]
              /\ \A m \in 1..Len(g[i]) : \E k \in 1..i : \E j \in 1..Len(s[k]) : m = o[k - 1] + j
           T == {i \in 1..N : ~Right(i)}
<1>1. N \in Nat /\ \A k \in 1..N : s[k] \in Seq(S) /\ Len(s[k]) \in Nat
  OBVIOUS
<1>2. o \in [0..N -> Nat] /\ o[0] = 0 /\ \A k \in 1..N : o[k] = o[k - 1] + Len(s[k])
  BY DEF Offsets
<1>3. \A i \in 1..N : g[i] = IF i = 1 THEN s[1] ELSE g[i - 1] \o s[i]
  BY DEF Joins
<1> HIDE DEF N
<1>4. ASSUME NEW i \in 1..N, i # 1 => Right(i - 1) PROVE Right(i)
  <2>1. CASE i = 1
    <3>1. g[1] = s[1] /\ o[1] = Len(s[1]) /\ s[1] \in Seq(S) /\ Len(s[1]) \in Nat /\ o[0] = 0
      BY <1>1, <1>2, <1>3, <2>1
    <3>2. \A k \in 1..1 : k = 1
      OBVIOUS
    <3>3. \A m \in 1..Len(s[1]) : \E k \in 1..1 : \E j \in 1..Len(s[k]) : m = o[k - 1] + j
      BY <3>1, Z3
    <3> QED BY <2>1, <3>1, <3>2, <3>3
  <2>2. CASE i # 1
    <3> DEFINE a == g[i - 1]
               b == s[i]
    <3>0. Right(i - 1) /\ i - 1 \in 1..N
      BY <1>1, <1>4, <2>2
    <3>1. a \in Seq(S) /\ b \in Seq(S) /\ g[i] = a \o b
      BY <1>1, <1>3, <2>2, <3>0
    <3>2. Len(a) = o[i - 1] /\ o[i] = o[i - 1] + Len(b) /\ Len(a) \in Nat /\ Len(b) \in Nat
      BY <1>1, <1>2, <3>0
    <3>3. /\ \A k \in 1..(i - 1) : \A j \in 1..Len(s[k]) :
               o[k - 1] + j \in 1..Len(a) /\ a[o[k - 1] + j] = s[k][j]
          /\ \A m \in 1..Len(a) : \E k \in 1..(i - 1) : \E j \in 1..Len(s[k]) : m = o[k - 1] + j
      BY <3>0
    <3>4. s[i] = b
      OBVIOUS
    <3> HIDE DEF a, b, Right
    <3>5. /\ a \o b \in Seq(S) /\ Len(a \o b) = Len(a) + Len(b)
          /\ \A k \in 1..Len(a) : (a \o b)[k] = a[k]
          /\ \A j \in 1..Len(b) : (a \o b)[Len(a) + j] = b[j]
      <4>1. PICK x, y : x = a /\ y = b
        OBVIOUS
      <4>2. x \in Seq(S) /\ y \in Seq(S)
        BY <3>1, <4>1
      <4>3. /\ x \o y \in Seq(S) /\ Len(x \o y) = Len(x) + Len(y)
            /\ \A k \in 1..(Len(x) + Len(y)) : (x \o y)[k] = IF k <= Len(x) THEN x[k] ELSE y[k - Len(x)]
            /\ Len(x) \in Nat /\ Len(y) \in Nat
        BY <4>2
      <4>4. \A k \in 1..Len(x) : (x \o y)[k] = x[k]
        BY <4>3
      <4>5. ASSUME NEW j \in 1..Len(y) PROVE (x \o y)[Len(x) + j] = y[j]
        <5>1. Len(x) + j \in 1..(Len(x) + Len(y)) /\ ~(Len(x) + j <= Len(x)) /\ (Len(x) + j) - Len(x) = j
          BY <4>3
        <5> QED BY <4>3, <5>1
      <4> QED BY <4>1, <4>3, <4>4, <4>5
    <3>6. ASSUME NEW k \in 1..i, NEW j \in 1..Len(s[k])
          PROVE  o[k - 1] + j \in 1..Len(a \o b) /\ (a \o b)[o[k - 1] + j] = s[k][j]
      <4>1. CASE k = i
        <5>1. j \in 1..Len(b) /\ o[k - 1] = Len(a) /\ s[k][j] = b[j]
          BY <3>2, <3>4, <3>6, <4>1
        <5>2. Len(a) + j \in 1..(Len(a) + Len(b))
          BY <3>2, <5>1
        <5> QED BY <3>5, <5>1, <5>2
      <4>2. CASE k # i
        <5>1. k \in 1..(i - 1)
          BY <4>2
        <5>2. o[k - 1] + j \in 1..Len(a) /\ a[o[k - 1] + j] = s[k][j]
          BY <3>3, <3>6, <5>1
        <5>3. \A m \in 1..Len(a) : m \in 1..(Len(a) + Len(b))
          BY <3>2
        <5> QED BY <3>5, <5>2, <5>3
      <4> QED BY <4>1, <4>2
    <3>7. ASSUME NEW m \in 1..Len(a \o b)
          PROVE  \E k \in 1..i : \E j \in 1..Len(s[k]) : m = o[k - 1] + j
      <4>1. CASE m <= Len(a)
        <5>1. m \in 1..Len(a)
          BY <3>2, <4>1
        <5>2. \A k \in 1..(i - 1) : k \in 1..i
          OBVIOUS
        <5> QED BY <3>3, <5>1, <5>2
      <4>2. CASE ~(m <= Len(a))
        <5>1. m - Len(a) \in 1..Len(b) /\ m = o[i - 1] + (m - Len(a))
          BY <3>2, <3>5, <4>2
        <5>2. i \in 1..i
          BY <1>1
        <5> QED BY <3>4, <5>1, <5>2
      <4> QED BY <4>1, <4>2
    <3>8. g[i] \in Seq(S) /\ Len(g[i]) = o[i]
      BY <3>1, <3>2, <3>5
    <3> QED BY <3>1, <3>6, <3>7, <3>8 DEF Right
  <2> QED BY <2>1, <2>2
<1> HIDE DEF Right
<1>5. T = {}
  <2>1. SUFFICES ASSUME T # {} PROVE FALSE
    OBVIOUS
  <2>2. T \in SUBSET Nat
    OBVIOUS
  <2>3. PICK i \in T : \A m \in T : i <= m
    <3> HIDE DEF T
    <3> QED BY <2>1, <2>2, LeastNumber
  <2>4. i # 1 => i - 1 \in 1..N /\ i - 1 \notin T
    BY <1>1, <2>3
  <2>5. i # 1 => Right(i - 1)
    BY <2>4
  <2> QED BY <1>4, <2>5
<1>6. Right(n)
  BY <1>5 DEF N
<1> QED BY <1>6 DEF Right, PlacedAt

\* Joined sequences stand one after the other, and nothing else is there.
LEMMA FlattenPlaced ==
    ASSUME NEW S, NEW s \in Seq(Seq(S))
    PROVE  \E o : Offsets(o, s) /\ PlacedAt(o, s, FlattenSeq(s), Len(s))
<1> DEFINE N == Len(s)
<1>1. N \in Nat /\ \A k \in 1..N : s[k] \in Seq(S) /\ Len(s[k]) \in Nat
  OBVIOUS
<1>2. CASE N = 0
  <2> DEFINE o == [k \in 0..N |-> 0]
  <2>1. FlattenSeq(s) = s
    BY <1>2 DEF FlattenSeq
  <2>2. o \in [0..N -> Nat] /\ o[0] = 0 /\ o[N] = 0
    BY <1>2
  <2> HIDE DEF o
  <2>3. Offsets(o, s)
    BY <1>2, <2>2 DEF Offsets
  <2>4. PlacedAt(o, s, s, Len(s))
    BY <1>2, <2>2 DEF PlacedAt
  <2> QED BY <2>1, <2>3, <2>4
<1>3. CASE N # 0
  <2>1. PICK g : Joins(g, s, N) /\ FlattenSeq(s) = g[N]
    BY <1>1, <1>3, FlattenJoins
  <2> HIDE DEF N
  <2>2. \A i \in 1..N : g[i] = IF i = 1 THEN s[1] ELSE g[i - 1] \o s[i]
    BY <2>1 DEF Joins
  <2> DEFINE T == {i \in 1..N : g[i] \notin Seq(S)}
  <2>3. T = {}
    <3>1. SUFFICES ASSUME T # {} PROVE FALSE
      OBVIOUS
    <3>2. T \in SUBSET Nat
      OBVIOUS
    <3>3. PICK i \in T : \A m \in T : i <= m
      <4> HIDE DEF T
      <4> QED BY <3>1, <3>2, LeastNumber
    <3>4. i \in 1..N /\ g[i] \notin Seq(S)
      OBVIOUS
    <3>5. i # 1
      BY <1>1, <2>2, <3>4
    <3>6. i - 1 \in 1..N /\ i - 1 \notin T
      BY <1>1, <3>3, <3>4, <3>5
    <3>7. g[i - 1] \in Seq(S) /\ s[i] \in Seq(S) /\ g[i] = g[i - 1] \o s[i]
      BY <1>1, <2>2, <3>4, <3>5, <3>6
    <3>8. g[i] \in Seq(S)
      BY <3>7
    <3> QED BY <3>4, <3>8
  <2> DEFINE o == [k \in 0..N |-> IF k = 0 THEN 0 ELSE Len(g[k])]
  <2>4. \A i \in 1..N : g[i] \in Seq(S) /\ Len(g[i]) \in Nat
    BY <2>3
  <2>5. o[0] = 0 /\ \A k \in 1..N : o[k] = Len(g[k])
    BY <1>1
  <2>6. o \in [0..N -> Nat]
    BY <2>4
  <2> HIDE DEF o
  <2>7. ASSUME NEW k \in 1..N PROVE o[k] = o[k - 1] + Len(s[k])
    <3>1. CASE k = 1
      BY <1>1, <2>2, <2>5, <3>1
    <3>2. CASE k # 1
      <4>0. N \in Nat
        BY <1>1
      <4>1. k - 1 \in 1..N
        BY <4>0, <3>2
      <4>5. g[k] = g[k - 1] \o s[k]
        BY <2>2, <3>2
      <4>2. g[k - 1] \in Seq(S) /\ s[k] \in Seq(S)
        BY <1>1, <2>4, <4>1
      <4>3. Len(g[k - 1] \o s[k]) = Len(g[k - 1]) + Len(s[k])
        BY <4>2
      <4> QED BY <2>5, <4>1, <4>3, <4>5
    <3> QED BY <3>1, <3>2
  <2>8. Offsets(o, s)
    BY <2>5, <2>6, <2>7 DEF Offsets, N
  <2>9. N \in 1..N
    BY <1>1, <1>3
  <2>10. Joins(g, s, Len(s)) /\ Len(s) \in 1..Len(s) /\ N = Len(s)
    BY <2>1, <2>9 DEF N
  <2>11. PlacedAt(o, s, g[Len(s)], Len(s))
    BY <2>8, <2>10, JoinsPlaced
  <2> QED BY <2>1, <2>8, <2>10, <2>11
<1> QED BY <1>2, <1>3

\* Places come in the order of the sequences, and within each in its own.
LEMMA PlacesInOrder ==
    ASSUME NEW s, Len(s) \in Nat, \A k \in 1..Len(s) : Len(s[k]) \in Nat, NEW o, Offsets(o, s),
           NEW k \in 1..Len(s), NEW l \in 1..Len(s),
           NEW i \in 1..Len(s[k]), NEW j \in 1..Len(s[l])
    PROVE  /\ o[k - 1] + i \in Nat /\ o[l - 1] + j \in Nat
           /\ o[k - 1] + i < o[l - 1] + j <=> k < l \/ (k = l /\ i < j)
           /\ o[k - 1] + i = o[l - 1] + j <=> k = l /\ i = j
<1>1. /\ o[k] \in Nat /\ o[l] \in Nat /\ o[k - 1] \in Nat /\ o[l - 1] \in Nat
      /\ o[k] = o[k - 1] + Len(s[k]) /\ o[l] = o[l - 1] + Len(s[l])
  <2>1. k \in 0..Len(s) /\ l \in 0..Len(s) /\ k - 1 \in 0..Len(s) /\ l - 1 \in 0..Len(s)
    OBVIOUS
  <2> QED BY <2>1 DEF Offsets
<1>2. k < l => o[k] <= o[l - 1]
  <2>1. k < l => k \in 0..Len(s) /\ l - 1 \in 0..Len(s) /\ k <= l - 1
    OBVIOUS
  <2> QED BY <2>1, OffsetsGrow
<1>3. l < k => o[l] <= o[k - 1]
  <2>1. l < k => l \in 0..Len(s) /\ k - 1 \in 0..Len(s) /\ l <= k - 1
    OBVIOUS
  <2> QED BY <2>1, OffsetsGrow
<1>4. /\ Len(s[k]) \in Nat /\ Len(s[l]) \in Nat /\ i \in Nat \ {0} /\ j \in Nat \ {0}
      /\ i <= Len(s[k]) /\ j <= Len(s[l]) /\ k \in Nat /\ l \in Nat
  OBVIOUS
<1>5. \A a, b, c, d, m, n \in Nat : \A x, y \in Nat \ {0} :
        /\ c = a + m /\ d = b + n /\ x <= m /\ y <= n
        /\ k < l => c <= b
        /\ l < k => d <= a
        /\ k = l => a = b
        => /\ a + x \in Nat /\ b + y \in Nat
           /\ a + x < b + y <=> k < l \/ (k = l /\ x < y)
           /\ a + x = b + y <=> k = l /\ x = y
  BY <1>4
<1>6. k = l => o[k - 1] = o[l - 1]
  OBVIOUS
<1>7. PICK a \in Nat, b \in Nat, c \in Nat, d \in Nat, m \in Nat, n \in Nat :
        a = o[k - 1] /\ b = o[l - 1] /\ c = o[k] /\ d = o[l] /\ m = Len(s[k]) /\ n = Len(s[l])
  BY <1>1, <1>4
<1>8. /\ c = a + m /\ d = b + n /\ i <= m /\ j <= n
      /\ k < l => c <= b
      /\ l < k => d <= a
      /\ k = l => a = b
  BY <1>1, <1>2, <1>3, <1>4, <1>6, <1>7
<1>9. /\ a + i \in Nat /\ b + j \in Nat
      /\ a + i < b + j <=> k < l \/ (k = l /\ i < j)
      /\ a + i = b + j <=> k = l /\ i = j
  BY <1>4, <1>5, <1>8
<1> QED BY <1>7, <1>9

\* Two lists of sequences of the same lengths are joined alike.
JoinedAlike(s, t) ==
    /\ Len(FlattenSeq(s)) \in Nat /\ Len(FlattenSeq(t)) = Len(FlattenSeq(s))
    /\ \A m \in 1..Len(FlattenSeq(s)) : \E k \in 1..Len(s) : \E j \in 1..Len(s[k]) :
         FlattenSeq(s)[m] = s[k][j] /\ FlattenSeq(t)[m] = t[k][j]

LEMMA FlattenAlike ==
    ASSUME NEW S, NEW s \in Seq(Seq(S)), NEW t \in Seq(Seq(S)), Len(t) = Len(s),
           \A k \in 1..Len(s) : Len(t[k]) = Len(s[k])
    PROVE  JoinedAlike(s, t)
<1>1. Len(s) \in Nat /\ \A k \in 1..Len(s) : Len(s[k]) \in Nat
  OBVIOUS
<1>2. PICK o : Offsets(o, s) /\ PlacedAt(o, s, FlattenSeq(s), Len(s))
  BY FlattenPlaced
<1>3. PICK p : Offsets(p, t) /\ PlacedAt(p, t, FlattenSeq(t), Len(t))
  BY FlattenPlaced
<1>4. Offsets(p, s)
  <2>1. Len(t) \in Nat
    OBVIOUS
  <2> QED BY <1>1, <1>3, <2>1 DEF Offsets
<1>5. \A k \in 0..Len(s) : o[k] = p[k]
  <2> DEFINE T == {k \in 0..Len(s) : o[k] # p[k]}
  <2>1. SUFFICES ASSUME T # {} PROVE FALSE
    OBVIOUS
  <2>2. T \in SUBSET Nat
    OBVIOUS
  <2>3. PICK k \in T : \A m \in T : k <= m
    <3> HIDE DEF T
    <3> QED BY <2>1, <2>2, LeastNumber
  <2>4. k \in 0..Len(s) /\ o[k] # p[k]
    OBVIOUS
  <2>5. k # 0
    BY <1>2, <1>4, <2>4 DEF Offsets
  <2>6. k \in 1..Len(s) /\ k - 1 \in 0..Len(s) /\ k - 1 \notin T
    BY <1>1, <2>3, <2>4, <2>5
  <2>7. o[k - 1] = p[k - 1]
    BY <2>6
  <2>8. o[k] = o[k - 1] + Len(s[k]) /\ p[k] = p[k - 1] + Len(s[k])
    BY <1>2, <1>4, <2>6 DEF Offsets
  <2> QED BY <2>4, <2>7, <2>8
<1>6. PICK a, b : a = FlattenSeq(s) /\ b = FlattenSeq(t)
  OBVIOUS
<1>7. Len(a) = Len(b) /\ Len(a) \in Nat
  <2>1. Len(a) = o[Len(s)] /\ Len(b) = p[Len(t)]
    BY <1>2, <1>3, <1>6 DEF PlacedAt
  <2>2. o[Len(s)] \in Nat /\ o[Len(s)] = p[Len(s)]
    BY <1>1, <1>2, <1>5 DEF Offsets
  <2> QED BY <2>1, <2>2
<1>8. ASSUME NEW m \in 1..Len(a)
      PROVE  \E k \in 1..Len(s) : \E j \in 1..Len(s[k]) : a[m] = s[k][j] /\ b[m] = t[k][j]
  <2>0. PICK k \in 1..Len(s) : \E j \in 1..Len(s[k]) : m = o[k - 1] + j
    BY <1>2, <1>6 DEF PlacedAt
  <2>1. PICK j \in 1..Len(s[k]) : m = o[k - 1] + j
    BY <2>0
  <2>2. a[m] = s[k][j]
    BY <1>2, <1>6, <2>1 DEF PlacedAt
  <2>3. k - 1 \in 0..Len(s) /\ k \in 1..Len(t) /\ j \in 1..Len(t[k])
    BY <1>1, <2>1
  <2>4. m = p[k - 1] + j
    BY <1>5, <2>1, <2>3
  <2>5. b[m] = t[k][j]
    BY <1>3, <1>6, <2>3, <2>4 DEF PlacedAt
  <2> QED BY <2>2, <2>5
<1> QED BY <1>6, <1>7, <1>8 DEF JoinedAlike

\* A single sequence is joined to itself.
LEMMA FlattenOne ==
    ASSUME NEW s, Len(s) = 1
    PROVE  FlattenSeq(s) = s[1]
<1>1. Len(s) \in Nat \ {0}
  OBVIOUS
<1>2. PICK g : Joins(g, s, Len(s)) /\ FlattenSeq(s) = g[Len(s)]
  BY <1>1, FlattenJoins
<1>3. 1 \in 1..1
  OBVIOUS
<1> QED BY <1>2, <1>3 DEF Joins

=============================================================================
