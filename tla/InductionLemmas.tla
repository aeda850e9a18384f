-------------------------- MODULE InductionLemmas --------------------------
(***************************************************************************)
(* Facts that the proofs of the components share and that need induction:  *)
(* sets of numbers have a least element, the elements of a finite set can  *)
(* be counted off in their order, and what a loop collects is a sequence.  *)
(***************************************************************************)
EXTENDS Integers, Sequences, SequencesExt, FiniteSetTheorems, SequenceTheorems, Filter, TLAPS

\* Every set of natural numbers has a least one: of the intervals 1..n, ordered
\* by inclusion, one is minimal.
LEMMA LeastNumber ==
  ASSUME NEW T \in SUBSET Nat, T # {}
  PROVE  \E n \in T : \A m \in T : n <= m
<1> DEFINE below(n) == 1..n
           family   == {below(n) : n \in T}
<1>1. family \subseteq FiniteSubsetsOf(Nat) /\ family # {}
  <2>1. \A n \in T : below(n) \in SUBSET Nat /\ IsFiniteSet(below(n))
    BY FS_Interval
  <2>2. QED
    BY <2>1 DEF FiniteSubsetsOf
<1>2. PICK s \in family : \A t \in family : <<t, s>> \notin StrictSubsetOrdering(Nat)
  <2>1. IsWellFoundedOn(StrictSubsetOrdering(Nat), FiniteSubsetsOf(Nat))
    BY FS_StrictSubsetOrderingWellFounded
  <2>2. QED
    BY <1>1, <2>1, WFMin
<1>3. PICK n \in T : s = below(n)
  OBVIOUS
<1>4. ASSUME NEW m \in T, m < n PROVE FALSE
  <2>1. below(m) \in SUBSET Nat /\ below(n) \in SUBSET Nat
    OBVIOUS
  <2>2. below(m) \subseteq below(n)
    BY <1>4
  <2>3. n \in below(n) /\ n \notin below(m)
    BY <1>4
  <2>4. <<below(m), below(n)>> \in StrictSubsetOrdering(Nat)
    <3> HIDE DEF below
    <3> QED
      BY <2>1, <2>2, <2>3 DEF StrictSubsetOrdering
  <2>5. below(m) \in family
    OBVIOUS
  <2>6. QED
    BY <1>2, <1>3, <2>4, <2>5
<1>5. QED
  BY <1>4

\* How many elements of S there are up to i.
Rank(S, i) == Cardinality({j \in S : j <= i})

LEMMA RankTyped ==
  ASSUME NEW n \in Nat, NEW S \in SUBSET (1..n)
  PROVE  /\ IsFiniteSet(S) /\ Cardinality(S) \in Nat
         /\ \A i \in Int : Rank(S, i) \in Nat
         /\ \A i, k \in Int : i <= k => Rank(S, i) <= Rank(S, k)
         /\ Rank(S, 0) = 0 /\ Rank(S, n) = Cardinality(S)
<1>0. \A j \in S : j \in Int /\ 1 <= j /\ j <= n
  OBVIOUS
<1>1. IsFiniteSet(S)
  <2>1. IsFiniteSet(1..n)
    BY FS_Interval
  <2>2. QED
    BY <2>1, FS_Subset
<1>2. Cardinality(S) \in Nat
  BY <1>1, FS_CardinalityType
<1>3. \A i \in Int : IsFiniteSet({j \in S : j <= i})
  BY <1>1, FS_Subset
<1>4. \A i \in Int : Rank(S, i) \in Nat
  BY <1>3, FS_CardinalityType DEF Rank
<1>5. ASSUME NEW i \in Int, NEW k \in Int, i <= k PROVE Rank(S, i) <= Rank(S, k)
  <2>1. {j \in S : j <= i} \in SUBSET {j \in S : j <= k}
    <3>1. \A j \in S : j <= i => j <= k
      BY <1>0, <1>5
    <3>2. QED
      BY <3>1
  <2>2. QED
    BY <1>3, <2>1, FS_Subset DEF Rank
<1>6. Rank(S, 0) = 0
  <2>1. {j \in S : j <= 0} = {}
    <3>1. \A j \in S : ~(j <= 0)
      BY <1>0
    <3>2. QED
      BY <3>1
  <2>2. QED
    BY <2>1, FS_EmptySet DEF Rank
<1>7. Rank(S, n) = Cardinality(S)
  <2>1. {j \in S : j <= n} = S
    BY <1>0
  <2>2. QED
    BY <2>1 DEF Rank
<1>8. QED
  BY <1>1, <1>2, <1>4, <1>5, <1>6, <1>7

\* There is a k-th element.
LEMMA RankReached ==
  ASSUME NEW n \in Nat, NEW S \in SUBSET (1..n), NEW k \in 1..Cardinality(S)
  PROVE  \E i \in S : Rank(S, i) = k
<1> DEFINE T == {i \in Nat : Rank(S, i) >= k}
<1>0. \A j \in S : j \in Int /\ 1 <= j /\ j <= n
  OBVIOUS
<1>1. Cardinality(S) \in Nat /\ k \in Nat \ {0}
  BY RankTyped
<1>2. T \in SUBSET Nat /\ n \in T
  BY <1>1, RankTyped
<1>3. PICK i \in T : \A m \in T : i <= m
  BY <1>2, LeastNumber
<1>4. i \in Nat \ {0} /\ Rank(S, i) >= k
  BY <1>1, RankTyped
<1>5. Rank(S, i - 1) \in Nat /\ Rank(S, i - 1) < k
  <2>1. i - 1 \in Nat /\ i - 1 \notin T
    BY <1>3, <1>4
  <2>2. Rank(S, i - 1) \in Nat
    BY <2>1, RankTyped
  <2>3. QED
    BY <1>1, <2>1, <2>2
<1>6. CASE i \notin S
  <2>1. {j \in S : j <= i} = {j \in S : j <= i - 1}
    <3>1. \A j \in S : j <= i <=> j <= i - 1
      BY <1>0, <1>4, <1>6
    <3>2. QED
      BY <3>1
  <2>2. Rank(S, i) = Rank(S, i - 1)
    BY <2>1 DEF Rank
  <2>3. QED
    BY <1>1, <1>4, <1>5, <2>2
<1>7. CASE i \in S
  <2> DEFINE before == {j \in S : j <= i - 1}
  <2>1. {j \in S : j <= i} = before \cup {i} /\ i \notin before
    <3>1. \A j \in S : j <= i <=> j <= i - 1 \/ j = i
      BY <1>0, <1>4
    <3>2. ~(i <= i - 1)
      BY <1>4
    <3>3. QED
      BY <1>7, <3>1, <3>2
  <2>2. IsFiniteSet(before)
    BY RankTyped, FS_Subset
  <2>3. Rank(S, i) = Rank(S, i - 1) + 1
    BY <2>1, <2>2, FS_AddElement DEF Rank
  <2>4. QED
    BY <1>1, <1>4, <1>5, <1>7, <2>3
<1>8. QED
  BY <1>6, <1>7

\* An element of higher rank is larger.
LEMMA RankIncreases ==
  ASSUME NEW n \in Nat, NEW S \in SUBSET (1..n), NEW i \in S, NEW k \in S,
         Rank(S, i) < Rank(S, k)
  PROVE  i < k
<1>1. i \in Int /\ k \in Int /\ Rank(S, i) \in Nat /\ Rank(S, k) \in Nat
  <2>1. i \in Int /\ k \in Int
    OBVIOUS
  <2>2. \A j \in Int : Rank(S, j) \in Nat
    BY RankTyped
  <2>3. QED
    BY <2>1, <2>2
<1>2. k <= i => Rank(S, k) <= Rank(S, i)
  BY <1>1, RankTyped
<1>3. QED
  BY <1>1, <1>2

\* Numbers counted from 1 without a gap.
LEMMA InitialSegment ==
  ASSUME NEW n \in Nat, NEW S \in SUBSET (1..n), \A i \in S, k \in 1..n : k <= i => k \in S
  PROVE  Cardinality(S) \in 0..n /\ S = 1..Cardinality(S)
<1>1. \E m \in 0..n : S = 1..m
  <2>1. CASE S = 1..n
    BY <2>1
  <2>2. CASE S # 1..n
    <3> DEFINE T == (1..n) \ S
    <3>1. T \in SUBSET Nat /\ T # {}
      <4>1. \A i \in 1..n : i \in Nat
        OBVIOUS
      <4>2. QED
        BY <2>2, <4>1, Zenon
    <3>2. PICK k \in T : \A m \in T : k <= m
      BY <3>1, LeastNumber
    <3>3. k - 1 \in 0..n
      BY <3>2
    <3>4. \A i \in 1..n : i \in S <=> i <= k - 1
      <4>1. ASSUME NEW i \in 1..n, i \in S, k <= i PROVE FALSE
        BY <3>2, <4>1
      <4>2. ASSUME NEW i \in 1..n, i \notin S, i < k PROVE FALSE
        BY <3>2, <4>2
      <4>3. k \in Int
        BY <3>2
      <4>4. QED
        BY <4>1, <4>2, <4>3
    <3>5. S = 1..(k - 1)
      <4>1. \A i \in S : i \in 1..(k - 1)
        BY <3>3, <3>4
      <4>2. \A i \in 1..(k - 1) : i \in S
        BY <3>3, <3>4
      <4>3. QED
        BY <4>1, <4>2
    <3>6. QED
      BY <3>3, <3>5
  <2>3. QED
    BY <2>1, <2>2
<1>2. PICK m \in 0..n : S = 1..m
  BY <1>1
<1>3. Cardinality(1..m) = IF 1 > m THEN 0 ELSE m - 1 + 1
  BY FS_Interval
<1>4. Cardinality(S) = m
  BY <1>2, <1>3
<1>5. QED
  BY <1>2, <1>4

\* What holds at 0 and is passed on holds up to N.
LEMMA Climb ==
  ASSUME NEW N \in Nat, NEW T, 0 \in T, \A n \in 0..N : n # N /\ n \in T => n + 1 \in T
  PROVE  \A n \in 0..N : n \in T
<1> DEFINE bad == {n \in 0..N : n \notin T}
<1>1. bad = {}
  <2> SUFFICES ASSUME bad # {} PROVE FALSE
    OBVIOUS
  <2>1. PICK m \in bad : \A k \in bad : m <= k
    <3>1. bad \in SUBSET Nat
      OBVIOUS
    <3>2. QED
      BY <3>1, LeastNumber
  <2>2. m \in 0..N /\ m # 0 /\ m \notin T
    BY <2>1
  <2>3. m - 1 \in 0..N /\ m - 1 # N /\ m - 1 \notin bad /\ m = (m - 1) + 1
    BY <2>1, <2>2
  <2>4. m - 1 \in T
    BY <2>3
  <2> HIDE DEF bad
  <2>5. (m - 1) + 1 \in T
    BY <2>3, <2>4
  <2>6. QED
    BY <2>2, <2>3, <2>5
<1>2. QED
  BY <1>1

\* What body[i] makes of a function depends only on indices of a smaller rank.
Descends(I, X, N, rank, body) ==
    /\ rank \in [I -> 0..N]
    /\ body \in [I -> [[I -> X] -> X]]
    /\ \A i \in I : \A g, h \in [I -> X] :
          (\A j \in I : rank[j] < rank[i] => g[j] = h[j]) => body[i][g] = body[i][h]

\* Such a definition by recursion has a solution.
LEMMA Recursion ==
  ASSUME NEW I, NEW X, X # {}, NEW N \in Nat, NEW rank, NEW body, Descends(I, X, N, rank, body)
  PROVE  \E f \in [I -> X] : \A i \in I : f[i] = body[i][f]
<1>0. PICK x0 : x0 \in X
  OBVIOUS
<1> rank \in [I -> 0..N] /\ body \in [I -> [[I -> X] -> X]]
  BY DEF Descends
<1> DEFINE Solves(f, m) == f \in [I -> X] /\ \A i \in I : rank[i] < m => f[i] = body[i][f]
           T == {m \in 0..(N + 1) : \E f : Solves(f, m)}
<1>1. 0 \in T
  <2>1. Solves([i \in I |-> x0], 0)
    <3>1. \A i \in I : rank[i] \in Nat
      OBVIOUS
    <3>2. \A i \in I : ~(rank[i] < 0)
      BY <3>1
    <3>3. [i \in I |-> x0] \in [I -> X]
      BY <1>0
    <3>4. QED
      BY <3>2, <3>3
  <2>2. 0 \in 0..(N + 1)
    OBVIOUS
  <2> HIDE DEF Solves
  <2>3. QED
    BY <2>1, <2>2
<1>2. ASSUME NEW m \in 0..(N + 1), m # N + 1, m \in T
      PROVE  m + 1 \in T
  <2>1. PICK f : Solves(f, m)
    BY <1>2
  <2> DEFINE g == [i \in I |-> IF rank[i] = m THEN body[i][f] ELSE f[i]]
  <2>2. g \in [I -> X]
    BY <2>1
  <2>3. ASSUME NEW i \in I, rank[i] < m + 1
        PROVE  g[i] = body[i][g]
    <3>1. rank[i] \in Int /\ rank[i] <= m /\ m \in Int
      BY <2>3
    <3>2. \A j \in I : rank[j] < rank[i] => f[j] = g[j]
      <4>1. \A j \in I : rank[j] < rank[i] => rank[j] # m
        BY <3>1
      <4>2. QED
        BY <4>1
    <3>3. f \in [I -> X]
      BY <2>1
    <3> HIDE DEF g
    <3>4. body[i][f] = body[i][g]
      BY <2>2, <3>2, <3>3 DEF Descends
    <3>5. g[i] = IF rank[i] = m THEN body[i][f] ELSE f[i]
      BY DEF g
    <3>6. CASE rank[i] = m
      BY <3>4, <3>5, <3>6
    <3>7. CASE rank[i] # m
      <4>1. \A a, b \in Int : a <= b /\ a # b => a < b
        OBVIOUS
      <4>2. rank[i] < m
        BY <3>1, <3>7, <4>1
      <4>3. f[i] = body[i][f]
        BY <2>1, <4>2
      <4>4. QED
        BY <3>4, <3>5, <3>7, <4>3
    <3>8. QED
      BY <3>6, <3>7
  <2> HIDE DEF g
  <2>4. Solves(g, m + 1)
    BY <2>2, <2>3
  <2> HIDE DEF Solves
  <2>5. m + 1 \in 0..(N + 1)
    BY <1>2
  <2>6. QED
    BY <2>4, <2>5
<1>3. N + 1 \in T
  <2> HIDE DEF T
  <2>1. N + 1 \in Nat
    OBVIOUS
  <2> DEFINE M == N + 1
  <2>2. M \in Nat /\ 0 \in T /\ \A n \in 0..M : n # M /\ n \in T => n + 1 \in T
    BY <1>1, <1>2
  <2> HIDE DEF M
  <2>3. \A n \in 0..M : n \in T
    BY <2>2, Climb
  <2>4. QED
    BY <2>1, <2>3 DEF M
<1>4. PICK f : Solves(f, N + 1)
  BY <1>3
<1>5. \A i \in I : rank[i] < N + 1
  OBVIOUS
<1>6. QED
  BY <1>4, <1>5

LEMMA ConcatSeq == \A S : \A s, t \in Seq(S) : s \o t \in Seq(S)
  OBVIOUS

Regroup(s, t, u) == (s \o t) \o u = s \o (t \o u)

LEMMA Associative == \A S : \A s, t, u \in Seq(S) : Regroup(s, t, u)
<1> TAKE S
<1> TAKE s, t, u \in Seq(S)
<1>1. (s \o t) \o u = s \o (t \o u)
  BY ConcatAssociative
<1> QED
  BY <1>1 DEF Regroup

\* A function on 1..n is a sequence.
LEMMA SequenceOf == ASSUME NEW n \in Nat, NEW T, NEW f \in [1..n -> T] PROVE f \in Seq(T) /\ Len(f) = n
  OBVIOUS

\* f[n] is what a loop over 1..N has collected after round n.
Collects(f, N, part) ==
    f = [n \in 0..N |-> IF n = 0 THEN <<>> ELSE f[n - 1] \o part[n]]

LEMMA Collected ==
  ASSUME NEW S, NEW N \in Nat, NEW part \in [1..N -> Seq(S)]
  PROVE  /\ \E f : Collects(f, N, part)
         /\ \A f : Collects(f, N, part) => f \in [0..N -> Seq(S)]
<1> DEFINE Rounds(f, m) == /\ f \in [0..m -> Seq(S)] /\ f[0] = <<>>
                           /\ \A n \in 1..m : f[n] = f[n - 1] \o part[n]
           ok(m) == \E f : Rounds(f, m)
           bad   == {m \in 0..N : ~ok(m)}
<1>1. bad = {}
  <2> SUFFICES ASSUME bad # {} PROVE FALSE
    OBVIOUS
  <2>1. ok(0)
    <3>1. Rounds([n \in 0..0 |-> <<>>], 0)
      OBVIOUS
    <3>2. QED
      BY <3>1
  <2> HIDE DEF ok
  <2>2. bad \in SUBSET Nat
    OBVIOUS
  <2>3. PICK m \in bad : \A k \in bad : m <= k
    BY <2>2, LeastNumber
  <2>4. m \in Nat /\ m <= N /\ m # 0
    BY <2>1, <2>3
  <2>5. m - 1 \in 0..N /\ m - 1 \notin bad
    BY <2>3, <2>4
  <2>6. PICK f : Rounds(f, m - 1)
    BY <2>5 DEF ok
  <2> DEFINE g == [n \in 0..m |-> IF n = m THEN f[m - 1] \o part[m] ELSE f[n]]
  <2>7. \A n \in 0..m : n # m => n \in 0..(m - 1)
    BY <2>4
  <2>8. f[m - 1] \o part[m] \in Seq(S)
    <3>1. m - 1 \in 0..(m - 1) /\ m \in 1..N
      BY <2>4
    <3>2. f[m - 1] \in Seq(S) /\ part[m] \in Seq(S)
      BY <2>6, <3>1
    <3>3. QED
      BY <3>2
  <2>9. g \in [0..m -> Seq(S)]
    BY <2>6, <2>7, <2>8
  <2>10. g[0] = <<>>
    <3>1. 0 \in 0..m /\ 0 # m
      BY <2>4
    <3>2. QED
      BY <2>6, <3>1
  <2>11. \A n \in 1..m : g[n] = g[n - 1] \o part[n]
    <3> SUFFICES ASSUME NEW n \in 1..m PROVE g[n] = g[n - 1] \o part[n]
      OBVIOUS
    <3>1. n \in 0..m /\ n - 1 \in 0..m /\ n - 1 # m
      BY <2>4
    <3>2. g[n - 1] = f[n - 1]
      BY <3>1
    <3>3. CASE n = m
      BY <3>1, <3>2, <3>3
    <3>4. CASE n # m
      <4>1. n \in 1..(m - 1)
        BY <2>4, <3>4
      <4>2. f[n] = f[n - 1] \o part[n]
        BY <2>6, <4>1
      <4>3. QED
        BY <3>1, <3>2, <3>4, <4>2
    <3>5. QED
      BY <3>3, <3>4
  <2>12. Rounds(g, m)
    BY <2>9, <2>10, <2>11
  <2>13. QED
    BY <2>3, <2>12 DEF ok
<1>2. PICK f : Rounds(f, N)
  <2>1. N \in 0..N
    OBVIOUS
  <2>2. QED
    BY <1>1, <2>1
<1>3. f = [n \in 0..N |-> IF n = 0 THEN <<>> ELSE f[n - 1] \o part[n]]
  <2>1. \A n \in 0..N : n # 0 => n \in 1..N
    OBVIOUS
  <2>2. \A n \in 0..N : f[n] = IF n = 0 THEN <<>> ELSE f[n - 1] \o part[n]
    BY <1>2, <2>1
  <2>3. f = [n \in 0..N |-> f[n]]
    BY <1>2
  <2>4. QED
    BY <2>2, <2>3
<1>4. ASSUME NEW h, h = [n \in 0..N |-> IF n = 0 THEN <<>> ELSE h[n - 1] \o part[n]]
      PROVE  h \in [0..N -> Seq(S)]
  <2> DEFINE wrong == {n \in 0..N : h[n] \notin Seq(S)}
  <2>1. h[0] = <<>> /\ \A n \in 1..N : h[n] = h[n - 1] \o part[n]
    <3>1. 0 \in 0..N /\ \A n \in 1..N : n \in 0..N /\ n # 0
      OBVIOUS
    <3>2. \A n \in 0..N : h[n] = IF n = 0 THEN <<>> ELSE h[n - 1] \o part[n]
      BY <1>4
    <3>3. QED
      BY <3>1, <3>2
  <2>2. wrong = {}
    <3> SUFFICES ASSUME wrong # {} PROVE FALSE
      OBVIOUS
    <3>1. PICK m \in wrong : \A k \in wrong : m <= k
      <4>1. wrong \in SUBSET Nat
        OBVIOUS
      <4>2. QED
        BY <4>1, LeastNumber
    <3>2. m # 0 /\ m \in 0..N
      <4>1. h[0] \in Seq(S)
        BY <2>1
      <4>2. h[m] \notin Seq(S)
        BY <3>1
      <4>3. QED
        BY <3>1, <4>1, <4>2
    <3>3. m \in 1..N /\ m - 1 \in 0..N /\ m - 1 \notin wrong
      BY <3>1, <3>2
    <3>4. h[m - 1] \in Seq(S) /\ part[m] \in Seq(S)
      BY <3>3
    <3>5. h[m] \in Seq(S)
      <4>1. h[m] = h[m - 1] \o part[m]
        BY <2>1, <3>3
      <4>2. QED
        BY <3>4, <4>1, ConcatSeq
    <3>6. QED
      BY <3>1, <3>5
  <2>3. DOMAIN h = 0..N /\ h = [n \in 0..N |-> h[n]]
    BY <1>4
  <2>4. QED
    BY <2>2, <2>3
<1>5. QED
  BY <1>3, <1>4 DEF Collects

LEMMA CollectsStep ==
  ASSUME NEW N \in Nat, NEW part, NEW f, Collects(f, N, part)
  PROVE  f[0] = <<>> /\ \A n \in 1..N : f[n] = f[n - 1] \o part[n]
<1>1. f = [n \in 0..N |-> IF n = 0 THEN <<>> ELSE f[n - 1] \o part[n]]
  BY DEF Collects
<1>2. 0 \in 0..N /\ \A n \in 1..N : n \in 0..N /\ n # 0
  OBVIOUS
<1>3. \A n \in 0..N : f[n] = IF n = 0 THEN <<>> ELSE f[n - 1] \o part[n]
  BY <1>1, Zenon
<1>4. QED
  BY <1>2, <1>3

\* FlattenSeq is such a loop, and starts with the first part.
LEMMA Flattened ==
  ASSUME NEW S, NEW s \in Seq(Seq(S))
  PROVE  /\ \E g : Collects(g, Len(s), s) /\ g[Len(s)] = FlattenSeq(s)
         /\ FlattenSeq(s) \in Seq(S)
<1> DEFINE N == Len(s)
           Loop(f) == f = [i \in 1..N |-> IF i = 1 THEN s[i] ELSE f[i - 1] \o s[i]]
           f == CHOOSE f : Loop(f)
           g == [n \in 0..N |-> IF n = 0 THEN <<>> ELSE f[n]]
<1>1. N \in Nat /\ s \in [1..N -> Seq(S)]
  OBVIOUS
<1>2. FlattenSeq(s) = IF N = 0 THEN s ELSE f[N]
  BY DEF FlattenSeq
<1> HIDE DEF N
<1>3. Loop(f)
  <2>1. PICK h : Collects(h, N, s) /\ h \in [0..N -> Seq(S)]
    BY <1>1, Collected
  <2> DEFINE k == [i \in 1..N |-> h[i]]
  <2>2. h[0] = <<>> /\ \A i \in 1..N : h[i] = h[i - 1] \o s[i]
    BY <1>1, <2>1, CollectsStep
  <2>3. \A i \in 1..N : k[i] = IF i = 1 THEN s[i] ELSE k[i - 1] \o s[i]
    <3> SUFFICES ASSUME NEW i \in 1..N PROVE k[i] = IF i = 1 THEN s[i] ELSE k[i - 1] \o s[i]
      OBVIOUS
    <3>1. k[i] = h[i - 1] \o s[i]
      BY <2>2
    <3>2. CASE i = 1
      <4>1. h[i - 1] = <<>> /\ s[1] \in Seq(S)
        BY <1>1, <2>2, <3>2
      <4>2. QED
        BY <3>1, <3>2, <4>1
    <3>3. CASE i # 1
      <4>1. i - 1 \in 1..N
        BY <1>1, <3>3
      <4>2. QED
        BY <3>1, <3>3, <4>1
    <3>4. QED
      BY <3>2, <3>3
  <2>4. k = [i \in 1..N |-> k[i]]
    OBVIOUS
  <2>5. Loop(k)
    <3> HIDE DEF k
    <3>1. QED
      BY <2>3, <2>4
  <2> HIDE DEF Loop
  <2>6. QED
    BY <2>5, Zenon
<1>4. Collects(g, N, s)
  <2> HIDE DEF f
  <2>1. \A i \in 1..N : f[i] = IF i = 1 THEN s[i] ELSE f[i - 1] \o s[i]
    BY <1>3
  <2>2. \A n \in 0..N : g[n] = IF n = 0 THEN <<>> ELSE g[n - 1] \o s[n]
    <3> SUFFICES ASSUME NEW n \in 0..N, n # 0 PROVE g[n] = g[n - 1] \o s[n]
      OBVIOUS
    <3>1. n \in 1..N /\ n - 1 \in 0..N
      BY <1>1
    <3>2. g[n] = f[n]
      OBVIOUS
    <3>3. CASE n = 1
      <4>1. g[n - 1] = <<>> /\ s[1] \in Seq(S)
        BY <1>1, <3>1, <3>3
      <4>2. f[n] = s[1]
        BY <2>1, <3>1, <3>3
      <4>3. <<>> \o s[1] = s[1]
        BY <4>1
      <4> HIDE DEF g
      <4>4. QED
        BY <3>2, <3>3, <4>1, <4>2, <4>3
    <3>4. CASE n # 1
      <4>1. g[n - 1] = f[n - 1]
        BY <1>1, <3>1, <3>4
      <4>2. QED
        BY <2>1, <3>1, <3>2, <3>4, <4>1
    <3>5. QED
      BY <3>3, <3>4
  <2>3. g = [n \in 0..N |-> g[n]]
    OBVIOUS
  <2> HIDE DEF g
  <2>4. QED
    BY <2>2, <2>3 DEF Collects
<1>5. g[N] = FlattenSeq(s)
  <2>1. N \in 0..N
    BY <1>1
  <2> HIDE DEF f
  <2>2. CASE N = 0
    <3>1. s = <<>>
      BY <2>2 DEF N
    <3>2. QED
      BY <1>2, <2>1, <2>2, <3>1
  <2>3. CASE N # 0
    BY <1>2, <2>1, <2>3
  <2>4. QED
    BY <2>2, <2>3
<1> HIDE DEF g, f
<1>6. g[N] \in Seq(S)
  <2>1. N \in 0..N
    BY <1>1
  <2>2. g \in [0..N -> Seq(S)]
    BY <1>1, <1>4, Collected
  <2>3. QED
    BY <2>1, <2>2
<1>7. QED
  BY <1>4, <1>5, <1>6 DEF N

\* Parts of one element each make the sequence of these elements.
LEMMA FlattenSingles ==
  ASSUME NEW S, NEW w \in Seq(S), NEW s, s = [k \in 1..Len(w) |-> <<w[k]>>]
  PROVE  FlattenSeq(s) = w
<1> DEFINE N == Len(w)
<1>1. N \in Nat /\ DOMAIN w = 1..N /\ \A k \in 1..N : w[k] \in S
  OBVIOUS
<1>2. s \in [1..N -> Seq(S)] /\ \A k \in 1..N : s[k] = <<w[k]>>
  OBVIOUS
<1> HIDE DEF N
<1>3. s \in Seq(Seq(S)) /\ Len(s) = N
  BY <1>1, <1>2
<1>4. PICK g : Collects(g, N, s) /\ g[N] = FlattenSeq(s)
  BY <1>3, Flattened
<1>5. g[0] = <<>> /\ \A n \in 1..N : g[n] = g[n - 1] \o s[n]
  BY <1>1, <1>4, CollectsStep
<1> DEFINE bad == {n \in 0..N : g[n] # SubSeq(w, 1, n)}
<1>6. bad = {}
  <2> SUFFICES ASSUME bad # {} PROVE FALSE
    OBVIOUS
  <2>1. PICK m \in bad : \A k \in bad : m <= k
    <3>1. bad \in SUBSET Nat
      OBVIOUS
    <3>2. QED
      BY <3>1, LeastNumber
  <2>2. m # 0
    <3>1. SubSeq(w, 1, 0) = <<>>
      OBVIOUS
    <3>2. QED
      BY <1>5, <2>1, <3>1
  <2>3. m \in 1..N /\ m - 1 \in 0..N /\ m - 1 \notin bad
    BY <1>1, <2>1, <2>2
  <2>4. g[m] = SubSeq(w, 1, m - 1) \o <<w[m]>>
    BY <1>2, <1>5, <2>3
  <2>5. SubSeq(w, 1, m - 1) \o <<w[m]>> = SubSeq(w, 1, m)
    BY <1>1, <2>3 DEF N
  <2>6. QED
    BY <2>1, <2>4, <2>5
<1>7. N \in 0..N /\ SubSeq(w, 1, N) = w
  BY <1>1 DEF N
<1>8. QED
  BY <1>4, <1>6, <1>7

-----------------------------------------------------------------------------
(* What a filter keeps.                                                    *)

LEMMA KeptIsSeq ==
  ASSUME NEW T, NEW s \in Seq(T), NEW S
  PROVE  Kept(s, S) \in Seq(T \cap S)
<1> DEFINE U    == T \cap S
           part == [i \in 1..Len(s) |-> IF s[i] \in S THEN <<s[i]>> ELSE <<>>]
<1>1. Len(s) \in Nat /\ DOMAIN s = 1..Len(s)
  OBVIOUS
<1>2. \A i \in 1..Len(s) : part[i] \in Seq(U)
  <2> SUFFICES ASSUME NEW i \in 1..Len(s) PROVE part[i] \in Seq(U)
    OBVIOUS
  <2>1. s[i] \in S => s[i] \in U
    OBVIOUS
  <2> HIDE DEF U
  <2>2. QED
    BY <2>1
<1>3. Kept(s, S) = FlattenSeq(part)
  BY <1>1 DEF Kept
<1>4. part = [i \in 1..Len(s) |-> part[i]]
  OBVIOUS
<1> HIDE DEF U, part
<1>5. part \in Seq(Seq(U))
  <2>1. part \in [1..Len(s) -> Seq(U)]
    BY <1>2, <1>4
  <2>2. QED
    BY <1>1, <2>1
<1>6. FlattenSeq(part) \in Seq(U)
  BY <1>5, Flattened
<1>7. QED
  BY <1>3, <1>6 DEF U

\* The elements of r are some of the first n of s, in their order.
TakenFrom(r, s, n) ==
    /\ Len(r) <= n
    /\ \A i \in 1..Len(r) : \E p \in 1..n : r[i] = s[p]
    /\ \A i, j \in 1..Len(r) : i < j => \E p, q \in 1..n : p < q /\ r[i] = s[p] /\ r[j] = s[q]

LEMMA TakenOneMore ==
  ASSUME NEW T, NEW s \in Seq(T), NEW n \in Nat, n + 1 <= Len(s), NEW r \in Seq(T),
         TakenFrom(r, s, n), NEW x \in {<<>>, <<s[n + 1]>>}
  PROVE  TakenFrom(r \o x, s, n + 1)
<1> DEFINE N == n + 1
           l == Len(r)
           y == r \o <<s[N]>>
<1>1. /\ N \in 1..N /\ \A p \in 1..n : p \in 1..N /\ p < N
      /\ l \in Nat /\ l <= n /\ s[N] \in T
  BY DEF TakenFrom
<1>2. /\ \A i \in 1..l : \E p \in 1..n : r[i] = s[p]
      /\ \A i, j \in 1..l : i < j => \E p, q \in 1..n : p < q /\ r[i] = s[p] /\ r[j] = s[q]
  BY DEF TakenFrom
<1>3. CASE x = <<>>
  <2>1. r \o x = r
    BY <1>3
  <2>2. Len(r) <= N
    BY <1>1
  <2> HIDE DEF N, l
  <2>3. TakenFrom(r, s, N)
    BY <1>1, <1>2, <2>2 DEF TakenFrom, l
  <2>4. QED
    BY <2>1, <2>3 DEF N
<1>4. CASE x = <<s[N]>>
  <2>1. /\ Len(y) = l + 1 /\ y[l + 1] = s[N]
        /\ \A i \in 1..l : y[i] = r[i]
    BY <1>1
  <2> HIDE DEF y, l
  <2>2. Len(y) <= N /\ \A i \in 1..Len(y) : i \in 1..l \/ i = l + 1
    BY <1>1, <2>1
  <2> HIDE DEF N
  <2>3. ASSUME NEW i \in 1..Len(y) PROVE \E p \in 1..N : y[i] = s[p]
    <3>1. CASE i \in 1..l
      <4>1. PICK p \in 1..n : r[i] = s[p]
        BY <1>2, <3>1
      <4>2. p \in 1..N /\ y[i] = r[i]
        BY <1>1, <2>1, <3>1
      <4>3. QED
        BY <4>1, <4>2
    <3>2. CASE i = l + 1
      BY <1>1, <2>1, <3>2
    <3>3. QED
      BY <2>2, <3>1, <3>2
  <2>4. ASSUME NEW i \in 1..Len(y), NEW j \in 1..Len(y), i < j
        PROVE  \E p, q \in 1..N : p < q /\ y[i] = s[p] /\ y[j] = s[q]
    <3>1. i \in 1..l
      BY <1>1, <2>1, <2>4
    <3>2. CASE j \in 1..l
      <4>1. PICK p \in 1..n, q \in 1..n : p < q /\ r[i] = s[p] /\ r[j] = s[q]
        BY <1>2, <2>4, <3>1, <3>2
      <4>2. p \in 1..N /\ q \in 1..N /\ y[i] = s[p] /\ y[j] = s[q]
        BY <1>1, <2>1, <3>1, <3>2, <4>1
      <4>3. QED
        BY <4>1, <4>2
    <3>3. CASE j = l + 1
      <4>1. PICK p \in 1..n : r[i] = s[p]
        BY <1>2, <3>1
      <4>2. p \in 1..N /\ p < N /\ y[i] = s[p] /\ y[j] = s[N]
        BY <1>1, <2>1, <3>1, <3>3, <4>1
      <4>3. QED
        BY <1>1, <4>2
    <3>4. QED
      BY <2>2, <3>2, <3>3
  <2>5. TakenFrom(y, s, N)
    BY <2>2, <2>3, <2>4 DEF TakenFrom
  <2>6. QED
    BY <1>4, <2>5 DEF y, N
<1>5. QED
  BY <1>3, <1>4

LEMMA KeptInOrder ==
  ASSUME NEW T, NEW s \in Seq(T), NEW S
  PROVE  TakenFrom(Kept(s, S), s, Len(s))
<1> DEFINE N    == Len(s)
           part == [i \in 1..N |-> IF s[i] \in S THEN <<s[i]>> ELSE <<>>]
<1>1. N \in Nat /\ DOMAIN s = 1..N
  OBVIOUS
<1>2. Kept(s, S) = FlattenSeq(part)
  BY <1>1 DEF Kept
<1>3. part = [i \in 1..N |-> part[i]] /\ \A i \in 1..N : part[i] \in {<<>>, <<s[i]>>}
  OBVIOUS
<1>4. \A i \in 1..N : part[i] \in Seq(T)
  OBVIOUS
<1> HIDE DEF part, N
<1>5. part \in [1..N -> Seq(T)] /\ part \in Seq(Seq(T)) /\ Len(part) = N
  <2>1. part \in [1..N -> Seq(T)]
    BY <1>3, <1>4
  <2>2. QED
    BY <1>1, <2>1
<1>6. PICK g : Collects(g, N, part) /\ g[N] = FlattenSeq(part)
  BY <1>5, Flattened
<1>7. g \in [0..N -> Seq(T)]
  BY <1>1, <1>5, <1>6, Collected
<1>8. g[0] = <<>> /\ \A n \in 1..N : g[n] = g[n - 1] \o part[n]
  BY <1>1, <1>6, CollectsStep
<1> DEFINE bad == {n \in 0..N : ~TakenFrom(g[n], s, n)}
<1>9. bad = {}
  <2> SUFFICES ASSUME bad # {} PROVE FALSE
    OBVIOUS
  <2>1. PICK m \in bad : \A k \in bad : m <= k
    <3>1. bad \in SUBSET Nat
      OBVIOUS
    <3>2. QED
      BY <3>1, LeastNumber
  <2>2. m # 0
    BY <1>8, <2>1 DEF TakenFrom
  <2> DEFINE n == m - 1
  <2>3. n \in Nat /\ m = n + 1 /\ m \in 1..N /\ n \in 0..N /\ n \notin bad
    BY <1>1, <2>1, <2>2
  <2> HIDE DEF n
  <2>4. TakenFrom(g[n], s, n) /\ g[n] \in Seq(T) /\ n + 1 <= Len(s)
    BY <1>7, <2>3 DEF N
  <2>5. part[m] \in {<<>>, <<s[n + 1]>>}
    BY <1>3, <2>3
  <2>6. TakenFrom(g[n] \o part[m], s, n + 1)
    BY <2>3, <2>4, <2>5, TakenOneMore
  <2>7. g[m] = g[n] \o part[m]
    BY <1>8, <2>3 DEF n
  <2>8. QED
    BY <2>1, <2>3, <2>6, <2>7
<1>10. N \in 0..N
  BY <1>1
<1>11. TakenFrom(g[N], s, N)
  BY <1>9, <1>10
<1>12. QED
  BY <1>2, <1>6, <1>11 DEF N

\* FlattenSeq one part at a time.
LEMMA FlattenLoop ==
  ASSUME NEW S, NEW s \in Seq(Seq(S))
  PROVE  \E g \in [0..Len(s) -> Seq(S)] :
            /\ g[0] = <<>> /\ \A n \in 1..Len(s) : g[n] = g[n - 1] \o s[n]
            /\ g[Len(s)] = FlattenSeq(s)
<1>1. PICK g : Collects(g, Len(s), s) /\ g[Len(s)] = FlattenSeq(s)
  BY Flattened
<1>2. Len(s) \in Nat /\ s \in [1..Len(s) -> Seq(S)]
  OBVIOUS
<1>3. g \in [0..Len(s) -> Seq(S)]
  BY <1>1, <1>2, Collected
<1>4. g[0] = <<>> /\ \A n \in 1..Len(s) : g[n] = g[n - 1] \o s[n]
  BY <1>1, <1>2, CollectsStep
<1>5. QED
  BY <1>1, <1>3, <1>4

LEMMA FlattenConcat ==
  ASSUME NEW S, NEW a \in Seq(Seq(S)), NEW b \in Seq(Seq(S))
  PROVE  FlattenSeq(a \o b) = FlattenSeq(a) \o FlattenSeq(b)
<1> DEFINE A == Len(a)
           B == Len(b)
           c == a \o b
<1>1. /\ c \in Seq(Seq(S)) /\ Len(c) = A + B /\ A \in Nat /\ B \in Nat
      /\ \A i \in 1..A : c[i] = a[i] /\ a[i] \in Seq(S)
      /\ \A i \in 1..B : c[A + i] = b[i] /\ b[i] \in Seq(S)
  OBVIOUS
<1>2. PICK f \in [0..A -> Seq(S)] :
           /\ f[0] = <<>> /\ \A n \in 1..A : f[n] = f[n - 1] \o a[n]
           /\ f[A] = FlattenSeq(a)
  BY FlattenLoop
<1>3. PICK g \in [0..B -> Seq(S)] :
           /\ g[0] = <<>> /\ \A n \in 1..B : g[n] = g[n - 1] \o b[n]
           /\ g[B] = FlattenSeq(b)
  BY FlattenLoop
<1>4. PICK h \in [0..(A + B) -> Seq(S)] :
           /\ h[0] = <<>> /\ \A n \in 1..(A + B) : h[n] = h[n - 1] \o c[n]
           /\ h[A + B] = FlattenSeq(c)
  <2>1. c \in Seq(Seq(S)) /\ Len(c) = A + B
    BY <1>1
  <2> HIDE DEF A, B, c
  <2>2. PICK h \in [0..Len(c) -> Seq(S)] :
             /\ h[0] = <<>> /\ \A n \in 1..Len(c) : h[n] = h[n - 1] \o c[n]
             /\ h[Len(c)] = FlattenSeq(c)
    BY <2>1, FlattenLoop
  <2>3. QED
    BY <2>1, <2>2
<1> HIDE DEF A, B, c
<1>5. h[A] = f[A]
  <2> DEFINE T == {n \in 0..A : h[n] = f[n]}
  <2>1. 0 \in T
    BY <1>1, <1>2, <1>4
  <2>2. ASSUME NEW n \in 0..A, n # A, n \in T
        PROVE  n + 1 \in T
    <3> DEFINE m == n + 1
    <3>1. m \in 1..A /\ m \in 1..(A + B) /\ m - 1 = n /\ m \in 0..A
      BY <1>1, <2>2
    <3> HIDE DEF m
    <3>2. h[m] = h[n] \o a[m] /\ f[m] = f[n] \o a[m]
      BY <1>1, <1>2, <1>4, <3>1
    <3>3. m \in T
      BY <2>2, <3>1, <3>2
    <3>4. QED
      BY <3>3 DEF m
  <2>3. A \in 0..A
    BY <1>1
  <2> HIDE DEF T
  <2>4. A \in T
    BY <1>1, <2>1, <2>2, <2>3, Climb
  <2>5. QED
    BY <2>4 DEF T
<1>6. h[A + B] = f[A] \o g[B]
  <2> DEFINE T == {n \in 0..B : h[A + n] = f[A] \o g[n]}
  <2>0. f[A] \in Seq(S) /\ \A n \in 0..B : g[n] \in Seq(S)
    BY <1>1, <1>2, <1>3
  <2>1. 0 \in T
    <3>1. A + 0 = A /\ 0 \in 0..B
      BY <1>1
    <3>2. f[A] \o g[0] = f[A]
      BY <1>3, <2>0
    <3>3. QED
      BY <1>5, <3>1, <3>2
  <2>2. ASSUME NEW n \in 0..B, n # B, n \in T
        PROVE  n + 1 \in T
    <3> DEFINE m == n + 1
               k == A + m
    <3>1. m \in 1..B /\ k \in 1..(A + B) /\ m - 1 = n /\ k - 1 = A + n /\ m \in 0..B
      BY <1>1, <2>2
    <3>2. c[k] = b[m] /\ b[m] \in Seq(S)
      BY <1>1, <3>1
    <3> HIDE DEF k
    <3>3. h[k] = h[A + n] \o b[m]
      BY <1>4, <3>1, <3>2
    <3> HIDE DEF m
    <3>4. h[k] = (f[A] \o g[n]) \o b[m]
      BY <2>2, <3>3
    <3>5. (f[A] \o g[n]) \o b[m] = f[A] \o (g[n] \o b[m])
      <4>1. f[A] \in Seq(S) /\ g[n] \in Seq(S) /\ b[m] \in Seq(S)
        BY <2>0, <3>2
      <4>2. Regroup(f[A], g[n], b[m])
        BY <4>1, Associative
      <4>3. QED
        BY <4>2 DEF Regroup
    <3>6. g[m] = g[n] \o b[m]
      BY <1>3, <3>1
    <3>7. m \in T
      BY <3>1, <3>4, <3>5, <3>6 DEF k
    <3>8. QED
      BY <3>7 DEF m
  <2>3. B \in 0..B
    BY <1>1
  <2> HIDE DEF T
  <2>4. B \in T
    BY <1>1, <2>1, <2>2, <2>3, Climb
  <2>5. QED
    BY <2>4 DEF T
<1>7. QED
  BY <1>2, <1>3, <1>4, <1>6 DEF c

\* The singletons that Kept puts together.
Chosen(s, S) == [i \in DOMAIN s |-> IF s[i] \in S THEN <<s[i]>> ELSE <<>>]

LEMMA ChosenTyped ==
  ASSUME NEW T, NEW s \in Seq(T), NEW S
  PROVE  /\ Chosen(s, S) \in Seq(Seq(T)) /\ Len(Chosen(s, S)) = Len(s)
         /\ \A i \in 1..Len(s) : Chosen(s, S)[i] = IF s[i] \in S THEN <<s[i]>> ELSE <<>>
         /\ Kept(s, S) = FlattenSeq(Chosen(s, S))
<1> DEFINE c == [i \in 1..Len(s) |-> IF s[i] \in S THEN <<s[i]>> ELSE <<>>]
<1>1. Len(s) \in Nat /\ DOMAIN s = 1..Len(s)
  OBVIOUS
<1>2. Chosen(s, S) = c
  BY <1>1 DEF Chosen
<1>3. \A i \in 1..Len(s) : c[i] \in Seq(T)
  OBVIOUS
<1>4. c \in Seq(Seq(T)) /\ Len(c) = Len(s)
  <2> DEFINE n == Len(s)
  <2>1. c \in [1..n -> Seq(T)] /\ n \in Nat
    BY <1>1, <1>3
  <2> HIDE DEF c, n
  <2>2. QED
    BY <2>1 DEF n
<1>5. QED
  BY <1>2, <1>4 DEF Kept, Chosen

LEMMA KeptConcat ==
  ASSUME NEW T, NEW s \in Seq(T), NEW u \in Seq(T), NEW S
  PROVE  Kept(s \o u, S) = Kept(s, S) \o Kept(u, S)
<1> DEFINE a == Chosen(s, S)
           b == Chosen(u, S)
           c == Chosen(s \o u, S)
<1>1. s \o u \in Seq(T) /\ Len(s) \in Nat /\ Len(u) \in Nat /\ Len(s \o u) = Len(s) + Len(u)
  OBVIOUS
<1>2. /\ a \in Seq(Seq(T)) /\ Len(a) = Len(s)
      /\ \A i \in 1..Len(s) : a[i] = IF s[i] \in S THEN <<s[i]>> ELSE <<>>
      /\ Kept(s, S) = FlattenSeq(a)
  BY ChosenTyped
<1>3. /\ b \in Seq(Seq(T)) /\ Len(b) = Len(u)
      /\ \A i \in 1..Len(u) : b[i] = IF u[i] \in S THEN <<u[i]>> ELSE <<>>
      /\ Kept(u, S) = FlattenSeq(b)
  BY ChosenTyped
<1>4. /\ c \in Seq(Seq(T)) /\ Len(c) = Len(s \o u)
      /\ \A i \in 1..Len(s \o u) : c[i] = IF (s \o u)[i] \in S THEN <<(s \o u)[i]>> ELSE <<>>
      /\ Kept(s \o u, S) = FlattenSeq(c)
  BY <1>1, ChosenTyped
<1> HIDE DEF a, b, c
<1>5. c = a \o b
  <2>1. /\ a \o b \in Seq(Seq(T)) /\ Len(a \o b) = Len(c)
    <3>1. a \o b \in Seq(Seq(T)) /\ Len(a \o b) = Len(a) + Len(b)
      BY <1>2, <1>3, ConcatProperties
    <3>2. QED
      BY <1>1, <1>2, <1>3, <1>4, <3>1
  <2>2. ASSUME NEW i \in 1..Len(c) PROVE c[i] = (a \o b)[i]
    <3>1. CASE i <= Len(s)
      <4>1. i \in 1..Len(s) /\ (s \o u)[i] = s[i]
        BY <1>1, <1>4, <3>1, ConcatProperties
      <4>a. (a \o b)[i] = a[i]
        BY <1>1, <1>2, <1>3, <1>4, <3>1, ConcatProperties
      <4>2. QED
        BY <1>2, <1>4, <4>1, <4>a
    <3>2. CASE ~(i <= Len(s))
      <4> DEFINE j == i - Len(s)
      <4>1. j \in 1..Len(u) /\ (s \o u)[i] = u[j]
        BY <1>1, <1>4, <3>2, ConcatProperties
      <4>a. (a \o b)[i] = b[j]
        <5>1. i \in 1..(Len(a) + Len(b)) /\ ~(i <= Len(a)) /\ i - Len(a) = j
          BY <1>1, <1>2, <1>3, <1>4, <3>2
        <5> HIDE DEF j
        <5>2. (a \o b)[i] = b[i - Len(a)]
          BY <1>2, <1>3, <5>1, ConcatProperties
        <5>3. QED
          BY <5>1, <5>2
      <4> HIDE DEF j
      <4>2. QED
        BY <1>3, <1>4, <4>1, <4>a
    <3>3. QED
      BY <3>1, <3>2
  <2>3. QED
    BY <1>4, <2>1, <2>2, SeqEqual
<1>6. QED
  BY <1>2, <1>3, <1>4, <1>5, FlattenConcat

\* Kept looks at nothing but the elements of the list.
LEMMA KeptSame ==
  ASSUME NEW T, NEW s \in Seq(T), NEW S, NEW U, \A i \in DOMAIN s : s[i] \in S <=> s[i] \in U
  PROVE  Kept(s, S) = Kept(s, U)
<1>1. Chosen(s, S) = Chosen(s, U)
  BY DEF Chosen
<1>2. QED
  BY <1>1 DEF Kept, Chosen

\* FlattenSeq leaves no element of a part out.
LEMMA FlattenHas ==
  ASSUME NEW T, NEW c \in Seq(Seq(T)), NEW i \in 1..Len(c), NEW p \in 1..Len(c[i])
  PROVE  \E k \in 1..Len(FlattenSeq(c)) : FlattenSeq(c)[k] = c[i][p]
<1> DEFINE N == Len(c)
           x == c[i][p]
           Has(r) == \E k \in 1..Len(r) : r[k] = x
<1>1. N \in Nat /\ i \in 1..N /\ \A n \in 1..N : c[n] \in Seq(T)
  OBVIOUS
<1>2. PICK g \in [0..N -> Seq(T)] :
           /\ g[0] = <<>> /\ \A n \in 1..N : g[n] = g[n - 1] \o c[n]
           /\ g[N] = FlattenSeq(c)
  BY FlattenLoop
<1>3. Has(c[i])
  OBVIOUS
<1> HIDE DEF N, x
<1>4. \A r \in Seq(T), q \in Seq(T) : Has(r) => Has(r \o q)
  OBVIOUS
<1>5. \A r \in Seq(T), q \in Seq(T) : Has(q) => Has(r \o q)
  <2> SUFFICES ASSUME NEW r \in Seq(T), NEW q \in Seq(T), NEW k \in 1..Len(q), q[k] = x
               PROVE  Has(r \o q)
    OBVIOUS
  <2> DEFINE j == Len(r) + k
  <2>1. j \in 1..Len(r \o q) /\ (r \o q)[j] = x
    OBVIOUS
  <2> HIDE DEF j
  <2>2. QED
    BY <2>1
<1> HIDE DEF Has
<1>6. Has(g[N])
  <2> DEFINE U == {n \in 0..N : i <= n => Has(g[n])}
  <2>1. 0 \in U
    BY <1>1
  <2>2. ASSUME NEW n \in 0..N, n # N, n \in U
        PROVE  n + 1 \in U
    <3> DEFINE m == n + 1
    <3>1. m \in 1..N /\ m \in 0..N /\ m - 1 = n /\ (i <= m => i <= n \/ i = m)
      BY <1>1, <2>2
    <3> HIDE DEF m
    <3>2. g[m] = g[n] \o c[m] /\ g[n] \in Seq(T) /\ c[m] \in Seq(T)
      BY <1>1, <1>2, <3>1
    <3>3. i <= n => Has(g[m])
      BY <1>4, <2>2, <3>2
    <3>4. i = m => Has(g[m])
      BY <1>3, <1>5, <3>2
    <3>5. m \in U
      BY <3>1, <3>3, <3>4
    <3>6. QED
      BY <3>5 DEF m
  <2>3. N \in 0..N /\ i <= N
    BY <1>1
  <2> HIDE DEF U
  <2>4. N \in U
    BY <1>1, <2>1, <2>2, <2>3, Climb
  <2>5. QED
    BY <2>3, <2>4 DEF U
<1>7. QED
  BY <1>2, <1>6 DEF Has, x

\* Nothing that is in S is left out.
LEMMA KeptHas ==
  ASSUME NEW T, NEW s \in Seq(T), NEW S, NEW i \in 1..Len(s), s[i] \in S
  PROVE  \E k \in 1..Len(Kept(s, S)) : Kept(s, S)[k] = s[i]
<1> DEFINE c == Chosen(s, S)
<1>1. c \in Seq(Seq(T)) /\ Len(c) = Len(s) /\ c[i] = <<s[i]>> /\ Kept(s, S) = FlattenSeq(c)
  BY ChosenTyped
<1> HIDE DEF c
<1>2. i \in 1..Len(c) /\ 1 \in 1..Len(c[i]) /\ c[i][1] = s[i]
  BY <1>1
<1>3. \E k \in 1..Len(FlattenSeq(c)) : FlattenSeq(c)[k] = c[i][1]
  <2>1. \A p \in 1..Len(c[i]) : \E k \in 1..Len(FlattenSeq(c)) : FlattenSeq(c)[k] = c[i][p]
    <3> TAKE p \in 1..Len(c[i])
    <3>1. c \in Seq(Seq(T)) /\ i \in 1..Len(c)
      BY <1>1, <1>2
    <3> QED
      BY <3>1, FlattenHas
  <2>2. QED
    BY <1>2, <2>1
<1>4. QED
  BY <1>1, <1>2, <1>3

\* What follows from its holding further on holds everywhere.
LEMMA FromTheEnd ==
  ASSUME NEW K \in Nat, NEW T, \A i \in 1..K : (\A j \in 1..K : i < j => j \in T) => i \in T
  PROVE  \A i \in 1..K : i \in T
<1> DEFINE bad == {K - i : i \in {j \in 1..K : j \notin T}}
<1> SUFFICES ASSUME NEW x \in 1..K, x \notin T PROVE FALSE
  OBVIOUS
<1>1. bad \in SUBSET Nat
  OBVIOUS
<1>2. bad # {}
  <2>1. K - x \in bad
    OBVIOUS
  <2>2. QED
    BY <2>1
<1>3. PICK d \in bad : \A e \in bad : d <= e
  BY <1>1, <1>2, LeastNumber
<1>4. PICK i \in 1..K : i \notin T /\ d = K - i
  BY <1>3
<1>5. \A j \in 1..K : i < j => j \in T
  <2> SUFFICES ASSUME NEW j \in 1..K, i < j, j \notin T PROVE FALSE
    OBVIOUS
  <2>1. K - j \in bad
    OBVIOUS
  <2>2. d <= K - j
    BY <1>3, <2>1
  <2>3. QED
    BY <1>4, <2>2
<1>6. QED
  BY <1>4, <1>5
\* r puts together the parts of at most one element each: at[k] is where the
\* k-th element comes from.
Picked(f, n, r, m, at) ==
    /\ at \in [1..m -> 1..n]
    /\ \A i, k \in 1..m : i < k => at[i] < at[k]
    /\ \A k \in 1..m : f[at[k]] # <<>>
    /\ \A i \in 1..n : f[i] # <<>> => \E k \in 1..m : at[k] = i
    /\ r \in [1..m -> {f[i][1] : i \in 1..n}]
    /\ \A k \in 1..m : r[k] = f[at[k]][1]

LEMMA PickedOneMore ==
  ASSUME NEW S, NEW f \in Seq(Seq(S)), NEW n \in Nat, n + 1 <= Len(f), Len(f[n + 1]) <= 1,
         NEW m \in Nat, NEW r \in Seq(S), NEW at, Picked(f, n, r, m, at)
  PROVE  \E m2 \in Nat : \E at2 : Picked(f, n + 1, r \o f[n + 1], m2, at2)
<1> DEFINE N == n + 1
           x == f[N]
<1>1. N \in Nat /\ N \in 1..N /\ N \in 1..Len(f) /\ x \in Seq(S)
  OBVIOUS
<1>2. \A i \in 1..n : i \in 1..N /\ i < N /\ i # N
  OBVIOUS
<1>3. \A i \in 1..N : i = N \/ i \in 1..n
  OBVIOUS
<1> HIDE DEF N
<1>4. CASE x = <<>>
  <2>1. r \o x = r
    BY <1>4
  <2>2. Picked(f, N, r, m, at)
    <3>1. at \in [1..m -> 1..N]
      BY <1>2 DEF Picked
    <3>2. r \in [1..m -> {f[i][1] : i \in 1..N}]
      <4>1. {f[i][1] : i \in 1..n} \subseteq {f[i][1] : i \in 1..N}
        BY <1>2
      <4>2. QED
        BY <4>1 DEF Picked
    <3>3. \A i \in 1..N : f[i] # <<>> => \E k \in 1..m : at[k] = i
      BY <1>3, <1>4 DEF Picked
    <3>4. QED
      BY <3>1, <3>2, <3>3 DEF Picked
  <2>3. QED
    BY <2>1, <2>2 DEF N
<1>5. CASE x # <<>>
  <2> DEFINE y   == x[1]
             M   == m + 1
             at2 == [k \in 1..M |-> IF k = M THEN N ELSE at[k]]
             r2  == [k \in 1..M |-> IF k = M THEN y ELSE r[k]]
  <2>1. x = <<y>> /\ y \in S
    <3>1. Len(x) = 1
      <4>1. Len(x) <= 1
        BY DEF N
      <4> HIDE DEF x
      <4> DEFINE l == Len(x)
      <4>2. l \in Nat /\ l # 0 /\ l <= 1
        BY <1>1, <1>5, <4>1
      <4> HIDE DEF l
      <4>3. l = 1
        BY <4>2
      <4>4. QED
        BY <4>3 DEF l
    <3>2. QED
      BY <1>1, <3>1
  <2>2. DOMAIN r = 1..m /\ Len(r) = m
    <3>1. DOMAIN r = 1..m
      BY DEF Picked
    <3>2. QED
      BY <3>1
  <2>3. r \o x = r2
    <3>1. r \o <<y>> = Append(r, y)
      OBVIOUS
    <3>2. Append(r, y) = r2
      BY <2>1, <2>2
    <3>3. QED
      BY <2>1, <3>1, <3>2
  <2>4. /\ M \in 1..M /\ M \in Nat
        /\ \A k \in 1..M : k = M \/ (k # M /\ k \in 1..m)
        /\ \A k \in 1..m : k # M /\ k \in 1..M /\ ~(M < k)
    OBVIOUS
  <2> HIDE DEF x, y, M
  <2>5. /\ at2[M] = N /\ \A k \in 1..m : at2[k] = at[k] /\ at[k] \in 1..n
        /\ r2[M] = y /\ \A k \in 1..m : r2[k] = r[k]
    BY <2>4 DEF Picked
  <2>6. y = f[N][1] /\ f[N] # <<>>
    BY <1>5 DEF x, y
  <2>7. at2 \in [1..M -> 1..N]
    BY <1>1, <1>2, <2>4, <2>5
  <2>8. r2 \in [1..M -> {f[i][1] : i \in 1..N}]
    <3>1. ASSUME NEW k \in 1..M PROVE r2[k] \in {f[i][1] : i \in 1..N}
      <4>1. CASE k = M
        <5>1. N \in 1..N
          BY <1>1 DEF N
        <5>2. QED
          BY <2>5, <2>6, <4>1, <5>1
      <4>2. CASE k \in 1..m
        <5>1. r2[k] = f[at[k]][1] /\ at[k] \in 1..n
          BY <2>5, <4>2 DEF Picked
        <5>2. at[k] \in 1..N
          BY <1>2, <5>1
        <5>3. QED
          BY <5>1, <5>2
      <4>3. QED
        BY <2>4, <4>1, <4>2
    <3>2. QED
      BY <3>1
  <2> HIDE DEF at2, r2
  <2>9. ASSUME NEW i \in 1..M, NEW k \in 1..M, i < k PROVE at2[i] < at2[k]
    <3>1. i \in 1..m
      BY <2>4, <2>9 DEF M
    <3>2. CASE k = M
      BY <1>2, <2>5, <3>1, <3>2
    <3>3. CASE k \in 1..m
      BY <2>5, <2>9, <3>1, <3>3 DEF Picked
    <3>4. QED
      BY <2>4, <3>2, <3>3
  <2>10. \A k \in 1..M : f[at2[k]] # <<>> /\ r2[k] = f[at2[k]][1]
    BY <2>4, <2>5, <2>6 DEF Picked
  <2>11. ASSUME NEW i \in 1..N, f[i] # <<>> PROVE \E k \in 1..M : at2[k] = i
    <3>1. CASE i = N
      BY <2>4, <2>5, <3>1
    <3>2. CASE i \in 1..n
      <4>1. PICK k \in 1..m : at[k] = i
        BY <2>11, <3>2 DEF Picked
      <4>2. QED
        BY <2>4, <2>5, <4>1
    <3>3. QED
      BY <1>3, <3>1, <3>2
  <2>12. Picked(f, N, r2, M, at2)
    BY <2>7, <2>8, <2>9, <2>10, <2>11 DEF Picked
  <2>13. QED
    BY <2>3, <2>4, <2>12 DEF N, x
<1>6. QED
  BY <1>4, <1>5

LEMMA FlattenPicked ==
  ASSUME NEW S, NEW f \in Seq(Seq(S)), \A i \in 1..Len(f) : Len(f[i]) <= 1
  PROVE  \E m \in Nat : \E at : Picked(f, Len(f), FlattenSeq(f), m, at)
<1> DEFINE N == Len(f)
<1>1. N \in Nat
  OBVIOUS
<1>2. PICK g \in [0..N -> Seq(S)] :
           /\ g[0] = <<>> /\ \A n \in 1..N : g[n] = g[n - 1] \o f[n]
           /\ g[N] = FlattenSeq(f)
  BY FlattenLoop
<1> DEFINE Some(n) == \E m \in Nat : \E at : Picked(f, n, g[n], m, at)
           T == {n \in 0..N : Some(n)}
<1>3. 0 \in T
  <2> DEFINE at == [k \in 1..0 |-> 1]
  <2>1. Picked(f, 0, <<>>, 0, at)
    BY DEF Picked
  <2>2. Some(0)
    BY <1>2, <2>1
  <2>3. QED
    BY <1>1, <2>2
<1>4. ASSUME NEW n \in 0..N, n # N, n \in T PROVE n + 1 \in T
  <2>1. n \in Nat /\ n + 1 \in 1..N /\ n + 1 <= N /\ n + 1 \in 0..N /\ (n + 1) - 1 = n
    BY <1>1, <1>4
  <2>2. PICK m \in Nat : \E at : Picked(f, n, g[n], m, at)
    BY <1>4
  <2>3. PICK at : Picked(f, n, g[n], m, at)
    BY <2>2
  <2>4. g[n + 1] = g[n] \o f[n + 1] /\ g[n] \in Seq(S)
    BY <1>2, <2>1
  <2>5. Len(f[n + 1]) <= 1
    BY <2>1
  <2>6. \E m2 \in Nat : \E at2 : Picked(f, n + 1, g[n] \o f[n + 1], m2, at2)
    BY <2>1, <2>3, <2>4, <2>5, PickedOneMore
  <2>7. Some(n + 1)
    BY <2>4, <2>6
  <2>8. QED
    BY <2>1, <2>7
<1>5. \A n \in 0..N : n \in T
  <2> HIDE DEF T, N
  <2>1. QED
    BY <1>1, <1>3, <1>4, Climb
<1>6. N \in T
  BY <1>1, <1>5
<1>7. QED
  BY <1>2, <1>6

\* What a sequence of parts makes has no element that is in no part.
LEMMA FlattenFrom ==
  ASSUME NEW S, NEW c \in Seq(Seq(S)), NEW k \in 1..Len(FlattenSeq(c))
  PROVE  \E i \in 1..Len(c) : \E p \in 1..Len(c[i]) : FlattenSeq(c)[k] = c[i][p]
<1> DEFINE n == Len(c)
           U == {y \in S : \E i \in 1..n : \E p \in 1..Len(c[i]) : y = c[i][p]}
<1>1. n \in Nat /\ \A i \in 1..n : c[i] \in Seq(S)
  OBVIOUS
<1>2. ASSUME NEW i \in 1..n PROVE c[i] \in Seq(U)
  <2> DEFINE d == c[i]
  <2>1. d \in Seq(S)
    BY <1>1
  <2>2. \A p \in 1..Len(d) : d[p] \in S /\ d[p] \in U
    BY <2>1
  <2> HIDE DEF d, U
  <2>3. Len(d) \in Nat /\ d \in [1..Len(d) -> U]
    BY <2>1, <2>2
  <2>4. d \in Seq(U)
    BY <2>3, SequenceOf
  <2>5. QED
    BY <2>4 DEF d
<1>3. c \in Seq(Seq(U))
  <2> DEFINE Y == Seq(U)
             Z == Seq(S)
  <2>1. c \in Seq(Z) /\ \A i \in 1..n : c[i] \in Y
    BY <1>2
  <2> HIDE DEF Y, Z
  <2>2. c \in [1..n -> Y]
    BY <2>1
  <2> HIDE DEF n
  <2>3. c \in Seq(Y)
    BY <1>1, <2>2, SequenceOf
  <2>4. QED
    BY <2>3 DEF Y
<1> HIDE DEF U
<1>4. FlattenSeq(c) \in Seq(U)
  BY <1>3, Flattened
<1>5. FlattenSeq(c)[k] \in U
  BY <1>4
<1>6. QED
  BY <1>5 DEF U

LEMMA FlattenOne == ASSUME NEW S, NEW z \in Seq(S) PROVE FlattenSeq(<<z>>) = z
<1> DEFINE s == <<z>>
<1>1. s \in Seq(Seq(S)) /\ Len(s) = 1 /\ s[1] = z
  <2> DEFINE Y == Seq(S)
  <2>1. z \in Y
    OBVIOUS
  <2> HIDE DEF Y
  <2>2. s \in Seq(Y) /\ Len(s) = 1 /\ s[1] = z
    BY <2>1
  <2>3. QED
    BY <2>2 DEF Y
<1> HIDE DEF s
<1>2. PICK g \in [0..Len(s) -> Seq(S)] :
           /\ g[0] = <<>> /\ \A n \in 1..Len(s) : g[n] = g[n - 1] \o s[n]
           /\ g[Len(s)] = FlattenSeq(s)
  BY <1>1, FlattenLoop
<1>3. 1 \in 1..Len(s) /\ 1 - 1 = 0
  BY <1>1
<1>4. FlattenSeq(s) = <<>> \o z
  BY <1>1, <1>2, <1>3
<1>5. QED
  BY <1>4, ConcatEmptySeq DEF s

\* Where the elements of two sequences are in the two one after the other.
Placed(a, b, S) ==
    /\ a \o b \in Seq(S) /\ Len(a \o b) = Len(a) + Len(b)
    /\ \A k \in 1..Len(a) : (a \o b)[k] = a[k]
    /\ \A k \in 1..Len(b) : (a \o b)[Len(a) + k] = b[k]

LEMMA JoinedPlaces ==
  ASSUME NEW S, NEW a \in Seq(S), NEW b \in Seq(S)
  PROVE  Placed(a, b, S)
  BY DEF Placed
=============================================================================
