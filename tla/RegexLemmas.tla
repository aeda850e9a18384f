----------------------------- MODULE RegexLemmas -----------------------------
(***************************************************************************)
(* What a match of a regular expression is: MatchEnd takes as much as it   *)
(* can, token by token, and there is a match exactly where the tokens fit. *)
(***************************************************************************)
EXTENDS RegexTokens, InductionLemmas

LEMMA MaxElement ==
  ASSUME NEW n \in Nat, NEW S \in SUBSET (0..n), S # {}
  PROVE  Max(S) \in S /\ \A m \in S : m <= Max(S)
<1> DEFINE T == {n - m : m \in S}
<1>1. T \in SUBSET Nat /\ T # {}
  <2>1. PICK m \in S : TRUE
    OBVIOUS
  <2>2. n - m \in T
    OBVIOUS
  <2>3. QED
    BY <2>2
<1>2. PICK d \in T : \A e \in T : d <= e
  BY <1>1, LeastNumber
<1>3. PICK m \in S : d = n - m
  BY <1>2
<1>4. \A k \in S : k <= m
  <2> SUFFICES ASSUME NEW k \in S PROVE k <= m
    OBVIOUS
  <2>1. n - m <= n - k
    BY <1>2, <1>3
  <2>2. m \in Int /\ k \in Int
    OBVIOUS
  <2>3. QED
    BY <2>1, <2>2
<1>5. QED
  BY <1>4 DEF Max

\* The positions after t's token tok from which row finds a way to the end.
After(t, p, tok, row) == {q \in Ends(t, p, tok) : row[q] # 0}

Row(t, re, k, f) ==
    [p \in 1..(Len(t) + 1) |->
        IF k > Len(re) THEN p
        ELSE IF After(t, p, re[k], f[k + 1]) = {} THEN 0
        ELSE f[k + 1][Max(After(t, p, re[k], f[k + 1]))]]

LEMMA EndsInside ==
  ASSUME NEW X, NEW t \in Seq(X), NEW p \in 1..(Len(t) + 1), NEW tok \in Token
  PROVE  Ends(t, p, tok) \in SUBSET (p..(Len(t) + 1))
<1>1. CASE tok.rep = "bound"
  BY <1>1 DEF Ends
<1>2. CASE tok.rep # "bound"
  BY <1>2 DEF Ends, Token
<1>3. QED
  BY <1>1, <1>2

LEMMA RowTyped ==
  ASSUME NEW X, NEW t \in Seq(X), NEW re \in Seq(Token), NEW k \in 1..(Len(re) + 1), NEW f,
         k # Len(re) + 1 => f[k + 1] \in [1..(Len(t) + 1) -> 0..(Len(t) + 1)]
  PROVE  Row(t, re, k, f) \in [1..(Len(t) + 1) -> 0..(Len(t) + 1)]
<1>1. Len(re) \in Nat /\ Len(t) \in Nat
  OBVIOUS
<1>2. CASE k = Len(re) + 1
  BY <1>1, <1>2 DEF Row
<1>3. CASE k # Len(re) + 1
  <2>1. re[k] \in Token /\ ~(k > Len(re))
    BY <1>3
  <2>2. ASSUME NEW p \in 1..(Len(t) + 1), After(t, p, re[k], f[k + 1]) # {}
        PROVE  f[k + 1][Max(After(t, p, re[k], f[k + 1]))] \in 0..(Len(t) + 1)
    <3> DEFINE A == After(t, p, re[k], f[k + 1])
    <3>1. A \in SUBSET (1..(Len(t) + 1))
      <4>1. Ends(t, p, re[k]) \in SUBSET (p..(Len(t) + 1))
        BY <2>1, EndsInside
      <4>2. p..(Len(t) + 1) \subseteq 1..(Len(t) + 1)
        OBVIOUS
      <4>3. QED
        BY <4>1, <4>2 DEF After
    <3> HIDE DEF A
    <3>2. A \in SUBSET (0..(Len(t) + 1)) /\ Len(t) + 1 \in Nat
      BY <1>1, <3>1
    <3>3. Max(A) \in A
      BY <2>2, <3>2, MaxElement DEF A
    <3>4. QED
      BY <1>3, <3>1, <3>3 DEF A
  <2>3. 0 \in 0..(Len(t) + 1)
    BY <1>1
  <2>4. QED
    BY <2>1, <2>2, <2>3 DEF Row
<1>4. QED
  BY <1>2, <1>3

\* MatchEnd looks up the first row of a table of ends.
LEMMA MatchEndTable ==
  ASSUME NEW X, NEW t \in Seq(X), NEW re \in Seq(Token)
  PROVE  \E end \in [1..(Len(re) + 1) -> [1..(Len(t) + 1) -> 0..(Len(t) + 1)]] :
            /\ \A k \in 1..(Len(re) + 1) : end[k] = Row(t, re, k, end)
            /\ \A i : MatchEnd(t, i, re) = end[1][i]
<1> DEFINE L == Len(re)
           I == 1..(L + 1)
           R == [1..(Len(t) + 1) -> 0..(Len(t) + 1)]
           Solved(f) == f = [k \in I |-> Row(t, re, k, f)]
           end == CHOOSE f : Solved(f)
           rank == [k \in I |-> L + 1 - k]
           body == [k \in I |-> [f \in [I -> R] |-> Row(t, re, k, f)]]
<1>1. L \in Nat /\ Len(t) \in Nat
  OBVIOUS
<1>2. \A k \in I : k # L + 1 => k \in 1..L /\ k + 1 \in I
  OBVIOUS
<1>3. \A k \in I : \A f : (k # L + 1 => f[k + 1] \in R) => Row(t, re, k, f) \in R
  BY RowTyped
<1>4. \A i : MatchEnd(t, i, re) = end[1][i]
  BY DEF MatchEnd, Row, After
<1> HIDE DEF L
<1>5. \E f \in [I -> R] : \A k \in I : f[k] = body[k][f]
  <2>1. rank \in [I -> 0..L]
    BY <1>1
  <2>2. body \in [I -> [[I -> R] -> R]]
    <3>1. \A k \in I : \A f \in [I -> R] : Row(t, re, k, f) \in R
      BY <1>2, <1>3
    <3>2. QED
      BY <3>1
  <2>3. ASSUME NEW k \in I, NEW g \in [I -> R], NEW h \in [I -> R],
               \A j \in I : rank[j] < rank[k] => g[j] = h[j]
        PROVE  body[k][g] = body[k][h]
    <3>1. CASE k = L + 1
      BY <1>1, <3>1 DEF Row, L
    <3>2. CASE k # L + 1
      <4>1. rank[k + 1] < rank[k]
        BY <1>1, <1>2, <3>2
      <4>2. g[k + 1] = h[k + 1]
        BY <1>2, <2>3, <3>2, <4>1
      <4>3. Row(t, re, k, g) = Row(t, re, k, h)
        BY <4>2 DEF Row
      <4>4. QED
        BY <4>3
    <3>3. QED
      BY <3>1, <3>2
  <2>4. R # {}
    <3>1. [p \in 1..(Len(t) + 1) |-> 0] \in R
      BY <1>1
    <3>2. QED
      BY <3>1
  <2> HIDE DEF body, rank, R, I
  <2>5. Descends(I, R, L, rank, body)
    BY <2>1, <2>2, <2>3 DEF Descends
  <2>6. QED
    BY <1>1, <2>4, <2>5, Recursion
<1>6. PICK f \in [I -> R] : \A k \in I : f[k] = body[k][f]
  BY <1>5
<1>7. \A k \in I : f[k] = Row(t, re, k, f)
  BY <1>6
<1>8. Solved(f)
  <2> HIDE DEF I, R
  <2>1. f = [k \in I |-> f[k]]
    BY <1>6
  <2>2. QED
    BY <1>7, <2>1
<1>9. Solved(end)
  <2> HIDE DEF Solved
  <2> QED
    BY <1>8, Zenon
<1> HIDE DEF end
<1>10. \A k \in I : end[k] = Row(t, re, k, end)
  BY <1>9
<1>11. \A k \in I : end[k] \in R
  <2> DEFINE T == {n \in 0..L : end[L + 1 - n] \in R}
  <2>1. 0 \in T
    <3>1. L + 1 \in I /\ L + 1 - 0 = L + 1 /\ 0 \in 0..L
      BY <1>1
    <3> HIDE DEF R, I
    <3>2. QED
      BY <1>3, <1>10, <3>1
  <2>2. \A n \in 0..L : n # L /\ n \in T => n + 1 \in T
    <3> SUFFICES ASSUME NEW n \in 0..L, n # L, n \in T PROVE n + 1 \in T
      OBVIOUS
    <3> DEFINE k == L + 1 - (n + 1)
    <3>1. k \in I /\ k + 1 = L + 1 - n /\ n + 1 \in 0..L
      BY <1>1
    <3> HIDE DEF R, I, k
    <3>2. end[k] \in R
      BY <1>3, <1>10, <3>1
    <3>3. QED
      BY <3>1, <3>2 DEF k
  <2> HIDE DEF T
  <2>3. \A n \in 0..L : n \in T
    BY <1>1, <2>1, <2>2, Climb
  <2>4. \A k \in I : L + 1 - k \in 0..L /\ L + 1 - (L + 1 - k) = k
    BY <1>1
  <2>5. QED
    BY <2>3, <2>4 DEF T
<1>12. end \in [I -> R]
  <2> HIDE DEF I, R
  <2>1. end = [k \in I |-> end[k]]
    BY <1>9, <1>10
  <2>2. QED
    BY <1>11, <2>1
<1>13. QED
  BY <1>4, <1>10, <1>12 DEF L

\* c[k], c[k + 1], ... are positions at which the tokens of re from the k-th on can begin.
Fits(t, re, k, c) ==
    /\ c \in [k..(Len(re) + 1) -> 1..(Len(t) + 1)]
    /\ \A j \in k..Len(re) : c[j + 1] \in Ends(t, c[j], re[j])

\* The end of a match from p on is the end of one from where a token may end.
GoesOn(t, tok, row, next, p) ==
    /\ row[p] # 0 => \E q \in Ends(t, p, tok) : row[p] = next[q] /\ q \in 1..(Len(t) + 1)
    /\ \A q \in Ends(t, p, tok) : next[q] # 0 => row[p] # 0

LEMMA TableStep ==
  ASSUME NEW X, NEW t \in Seq(X), NEW re \in Seq(Token), NEW k \in 1..Len(re),
         NEW end \in [1..(Len(re) + 1) -> [1..(Len(t) + 1) -> 0..(Len(t) + 1)]],
         end[k] = Row(t, re, k, end), NEW p \in 1..(Len(t) + 1)
  PROVE  GoesOn(t, re[k], end[k], end[k + 1], p)
<1> DEFINE A == After(t, p, re[k], end[k + 1])
<1>1. re[k] \in Token /\ ~(k > Len(re)) /\ Len(t) \in Nat
  OBVIOUS
<1>2. end[k][p] = IF A = {} THEN 0 ELSE end[k + 1][Max(A)]
  BY <1>1 DEF Row
<1>3. A \in SUBSET (1..(Len(t) + 1))
  <2>1. Ends(t, p, re[k]) \in SUBSET (p..(Len(t) + 1))
    BY <1>1, EndsInside
  <2>2. p..(Len(t) + 1) \subseteq 1..(Len(t) + 1)
    OBVIOUS
  <2>3. QED
    BY <2>1, <2>2 DEF After
<1>4. \A q : q \in A <=> q \in Ends(t, p, re[k]) /\ end[k + 1][q] # 0
  BY DEF After
<1> HIDE DEF A
<1>5. A # {} => Max(A) \in A
  <2>1. A \in SUBSET (0..(Len(t) + 1)) /\ Len(t) + 1 \in Nat
    BY <1>1, <1>3
  <2>2. QED
    BY <2>1, MaxElement
<1>6. QED
  BY <1>2, <1>3, <1>4, <1>5, Zenon DEF GoesOn

\* A match is a way to fit the tokens in from i on, and it is one if there is one.
LEMMA MatchFits ==
  ASSUME NEW X, NEW t \in Seq(X), NEW re \in Seq(Token), NEW i \in 1..(Len(t) + 1)
  PROVE  /\ MatchEnd(t, i, re) # 0
               => \E c : Fits(t, re, 1, c) /\ c[1] = i /\ c[Len(re) + 1] = MatchEnd(t, i, re)
         /\ \A c : Fits(t, re, 1, c) /\ c[1] = i => MatchEnd(t, i, re) # 0
<1> DEFINE L == Len(re)
           P == 1..(Len(t) + 1)
<1>1. L \in Nat /\ Len(t) \in Nat
  OBVIOUS
<1>2. PICK end \in [1..(L + 1) -> [P -> 0..(Len(t) + 1)]] :
           /\ \A k \in 1..(L + 1) : end[k] = Row(t, re, k, end)
           /\ \A j : MatchEnd(t, j, re) = end[1][j]
  BY MatchEndTable
<1>3. \A p \in P : end[L + 1][p] = p
  <2>1. end[L + 1] = Row(t, re, L + 1, end)
    BY <1>1, <1>2
  <2>2. QED
    BY <1>1, <2>1 DEF Row
<1>4. \A k \in 1..L, p \in P :
          /\ end[k][p] # 0 => \E q \in Ends(t, p, re[k]) : end[k][p] = end[k + 1][q] /\ q \in P
          /\ \A q \in Ends(t, p, re[k]) : end[k + 1][q] # 0 => end[k][p] # 0
  <2> SUFFICES ASSUME NEW k \in 1..L, NEW p \in P
               PROVE  GoesOn(t, re[k], end[k], end[k + 1], p)
    BY Zenon DEF GoesOn
  <2>1. end[k] = Row(t, re, k, end)
    BY <1>2
  <2>2. end \in [1..(Len(re) + 1) -> [1..(Len(t) + 1) -> 0..(Len(t) + 1)]]
    BY <1>2
  <2>3. k \in 1..Len(re) /\ p \in 1..(Len(t) + 1)
    OBVIOUS
  <2>4. QED
    BY <2>1, <2>2, <2>3, TableStep
<1> HIDE DEF L, P
<1>5. \A n \in 0..L : n + 1 \in 1..(L + 1) /\ L + 1 - n \in 1..(L + 1)
  BY <1>1
<1>6. ASSUME NEW n \in 0..L, n # L
      PROVE  /\ L - n \in 1..L /\ L + 1 - (n + 1) = L - n /\ L - n + 1 = L + 1 - n
             /\ n + 1 \in 0..L /\ L + 1 - n \in 1..(L + 1)
  BY <1>1, <1>6
<1>7. ASSUME end[1][i] # 0
      PROVE  \E c : Fits(t, re, 1, c) /\ c[1] = i /\ c[L + 1] = end[1][i]
  <2> DEFINE Way(k, p) == \E c : Fits(t, re, k, c) /\ c[k] = p /\ c[L + 1] = end[k][p]
             T == {n \in 0..L : \A p \in P : end[L + 1 - n][p] # 0 => Way(L + 1 - n, p)}
  <2>1. 0 \in T
    <3> SUFFICES ASSUME NEW p \in P PROVE Way(L + 1, p)
      BY <1>1
    <3> DEFINE c == [j \in (L + 1)..(L + 1) |-> p]
    <3>1. Fits(t, re, L + 1, c)
      BY <1>1 DEF Fits, L, P
    <3>2. c[L + 1] = p /\ end[L + 1][p] = p
      BY <1>1, <1>3
    <3> HIDE DEF c
    <3>3. QED
      BY <3>1, <3>2
  <2>2. ASSUME NEW n \in 0..L, n # L, n \in T
        PROVE  n + 1 \in T
    <3> DEFINE k == L - n
    <3>1. /\ k \in 1..L /\ L + 1 - (n + 1) = k /\ k + 1 = L + 1 - n /\ n + 1 \in 0..L
      BY <1>6, <2>2
    <3> HIDE DEF k
    <3>2. \A p \in P : end[k + 1][p] # 0 => Way(k + 1, p)
      BY <2>2, <3>1
    <3> SUFFICES ASSUME NEW p \in P, end[k][p] # 0 PROVE Way(k, p)
      BY <3>1
    <3>3. PICK q \in Ends(t, p, re[k]) : end[k][p] = end[k + 1][q] /\ q \in P
      BY <1>4, <3>1
    <3>4. PICK c : Fits(t, re, k + 1, c) /\ c[k + 1] = q /\ c[L + 1] = end[k + 1][q]
      BY <3>2, <3>3
    <3> DEFINE d == [j \in k..(L + 1) |-> IF j = k THEN p ELSE c[j]]
    <3>5. /\ k \in k..(L + 1) /\ L + 1 \in k..(L + 1) /\ L + 1 # k
          /\ \A j \in k..(L + 1) : j # k => j \in (k + 1)..(L + 1)
          /\ \A j \in k..L : j + 1 # k /\ j + 1 \in k..(L + 1) /\ j \in k..(L + 1) /\ (j # k => j \in (k + 1)..L)
      BY <1>1, <3>1
    <3>6. /\ c \in [(k + 1)..(L + 1) -> P]
          /\ \A j \in (k + 1)..L : c[j + 1] \in Ends(t, c[j], re[j])
      BY <3>4 DEF Fits, L, P
    <3>7. d \in [k..(L + 1) -> P]
      BY <3>5, <3>6
    <3>8. \A j \in k..L : d[j + 1] \in Ends(t, d[j], re[j])
      BY <3>3, <3>4, <3>5, <3>6
    <3>9. d[k] = p /\ d[L + 1] = end[k][p]
      BY <3>3, <3>4, <3>5
    <3> HIDE DEF d
    <3>10. Fits(t, re, k, d)
      BY <3>7, <3>8 DEF Fits, L, P
    <3>11. QED
      BY <3>9, <3>10
  <2> HIDE DEF T
  <2>3. \A n \in 0..L : n \in T
    BY <1>1, <2>1, <2>2, Climb
  <2>4. L \in T /\ L + 1 - L = 1
    BY <1>1, <2>3
  <2>5. \A p \in P : end[1][p] # 0 => Way(1, p)
    BY <2>4 DEF T
  <2>6. i \in P
    BY DEF P
  <2>7. QED
    BY <1>7, <2>5, <2>6
<1>8. ASSUME NEW c, Fits(t, re, 1, c), c[1] = i
      PROVE  end[1][i] # 0
  <2>1. c \in [1..(L + 1) -> P] /\ \A j \in 1..L : c[j + 1] \in Ends(t, c[j], re[j])
    BY <1>8 DEF Fits, L, P
  <2> DEFINE T == {n \in 0..L : end[L + 1 - n][c[L + 1 - n]] # 0}
  <2>2. 0 \in T
    <3>1. c[L + 1] \in P /\ end[L + 1][c[L + 1]] = c[L + 1]
      BY <1>1, <1>3, <2>1
    <3>2. c[L + 1] # 0
      BY <1>1, <3>1 DEF P
    <3>3. QED
      BY <1>1, <3>1, <3>2
  <2>3. ASSUME NEW n \in 0..L, n # L, n \in T
        PROVE  n + 1 \in T
    <3> DEFINE k == L - n
    <3>1. /\ k \in 1..L /\ L + 1 - (n + 1) = k /\ k + 1 = L + 1 - n /\ n + 1 \in 0..L
      BY <1>6, <2>3
    <3>2. k \in 1..(L + 1)
      BY <1>1, <3>1
    <3> HIDE DEF k
    <3>3. end[k + 1][c[k + 1]] # 0
      BY <2>3, <3>1
    <3>4. c[k] \in P /\ c[k + 1] \in Ends(t, c[k], re[k])
      BY <2>1, <3>1, <3>2
    <3>5. end[k][c[k]] # 0
      BY <1>4, <3>1, <3>3, <3>4
    <3>6. QED
      BY <3>1, <3>5
  <2> HIDE DEF T
  <2>4. \A n \in 0..L : n \in T
    BY <1>1, <2>2, <2>3, Climb
  <2>5. L \in T /\ L + 1 - L = 1
    BY <1>1, <2>4
  <2>6. QED
    BY <1>8, <2>5 DEF T
<1>9. QED
  BY <1>2, <1>7, <1>8 DEF L

\* The tokens follow each other: each begins where the one before it ends, and
\* the symbols in between are of its class.
LEMMA FitsGrow ==
  ASSUME NEW X, NEW t \in Seq(X), NEW re \in Seq(Token), NEW c, Fits(t, re, 1, c)
  PROVE  /\ \A k \in 1..Len(re) :
               /\ c[k] <= c[k + 1] /\ (re[k].rep \in {"one", "plus"} => c[k] < c[k + 1])
               /\ \A x \in c[k]..(c[k + 1] - 1) : re[k].rep # "bound" /\ t[x].sym \in re[k].chars
         /\ \A k \in 1..(Len(re) + 1) :
               /\ c[k] \in 1..(Len(t) + 1)
               /\ c[1] <= c[k] /\ c[k] <= c[Len(re) + 1]
         /\ \A x \in c[1]..(c[Len(re) + 1] - 1) :
               \E k \in 1..Len(re) : re[k].rep # "bound" /\ t[x].sym \in re[k].chars
<1> DEFINE L == Len(re)
<1>1. L \in Nat /\ Len(t) \in Nat
  OBVIOUS
<1>2. /\ c \in [1..(L + 1) -> 1..(Len(t) + 1)]
      /\ \A j \in 1..L : c[j + 1] \in Ends(t, c[j], re[j])
  BY DEF Fits
<1>3. \A k \in 1..L : re[k] \in Token
  OBVIOUS
<1> HIDE DEF L
<1>4. \A k \in 1..(L + 1) : c[k] \in 1..(Len(t) + 1)
  BY <1>2
<1>5. \A k \in 1..L : k \in 1..(L + 1) /\ k + 1 \in 1..(L + 1)
  BY <1>1
<1>6. ASSUME NEW k \in 1..L
      PROVE  /\ c[k] <= c[k + 1] /\ (re[k].rep \in {"one", "plus"} => c[k] < c[k + 1])
             /\ \A x \in c[k]..(c[k + 1] - 1) : re[k].rep # "bound" /\ t[x].sym \in re[k].chars
  <2> DEFINE p == c[k]
             q == c[k + 1]
             least == IF re[k].rep = "star" THEN 0 ELSE 1
  <2>1. q \in Ends(t, p, re[k]) /\ p \in Int /\ q \in Int
    BY <1>2, <1>4, <1>5
  <2> HIDE DEF p, q
  <2>2. CASE re[k].rep # "bound"
    <3>1. q \in (p + least)..(Len(t) + 1) /\ \A x \in p..(q - 1) : t[x].sym \in re[k].chars
      BY <2>1, <2>2 DEF Ends
    <3>2. p <= q /\ (re[k].rep \in {"one", "plus"} => p < q)
      BY <1>1, <2>1, <3>1
    <3>3. QED
      BY <2>2, <3>1, <3>2 DEF p, q
  <2>3. CASE re[k].rep = "bound"
    <3>1. q = p
      BY <2>1, <2>3 DEF Ends
    <3>2. p <= q /\ \A x \in p..(q - 1) : FALSE
      BY <2>1, <3>1
    <3>3. QED
      BY <2>3, <3>2 DEF p, q
  <2>4. QED
    BY <2>2, <2>3
<1>7. \A k \in 1..(L + 1) : c[1] <= c[k]
  <2> DEFINE T == {n \in 0..L : c[1] <= c[n + 1]}
  <2>1. 0 \in T
    BY <1>1, <1>4
  <2>2. ASSUME NEW n \in 0..L, n # L, n \in T
        PROVE  n + 1 \in T
    <3> DEFINE k == n + 1
    <3>1. k \in 1..L /\ k \in 0..L
      BY <1>1, <2>2
    <3> HIDE DEF k
    <3>2. c[1] <= c[k] /\ c[k] <= c[k + 1]
      BY <1>6, <2>2, <3>1 DEF k
    <3>3. c[1] \in Int /\ c[k] \in Int /\ c[k + 1] \in Int
      BY <1>1, <1>4, <1>5, <3>1
    <3>4. c[1] <= c[k + 1]
      BY <3>2, <3>3
    <3>5. QED
      BY <3>1, <3>4 DEF k
  <2> HIDE DEF T
  <2>3. \A n \in 0..L : n \in T
    BY <1>1, <2>1, <2>2, Climb
  <2>4. \A k \in 1..(L + 1) : k - 1 \in 0..L /\ (k - 1) + 1 = k
    BY <1>1
  <2>5. QED
    BY <2>3, <2>4 DEF T
<1>8. \A k \in 1..(L + 1) : c[k] <= c[L + 1]
  <2> DEFINE T == {n \in 0..L : c[L + 1 - n] <= c[L + 1]}
  <2>1. 0 \in T
    BY <1>1, <1>4
  <2>2. ASSUME NEW n \in 0..L, n # L, n \in T
        PROVE  n + 1 \in T
    <3> DEFINE k == L - n
    <3>1. k \in 1..L /\ n + 1 \in 0..L /\ L + 1 - n = k + 1 /\ L + 1 - (n + 1) = k
      BY <1>1, <2>2
    <3> HIDE DEF k
    <3>2. c[k + 1] <= c[L + 1] /\ c[k] <= c[k + 1]
      BY <1>6, <2>2, <3>1
    <3>3. c[L + 1] \in Int /\ c[k] \in Int /\ c[k + 1] \in Int
      BY <1>1, <1>4, <1>5, <3>1
    <3>4. c[k] <= c[L + 1]
      BY <3>2, <3>3
    <3>5. QED
      BY <3>1, <3>4
  <2> HIDE DEF T
  <2>3. \A n \in 0..L : n \in T
    BY <1>1, <2>1, <2>2, Climb
  <2>4. \A k \in 1..(L + 1) : L + 1 - k \in 0..L /\ L + 1 - (L + 1 - k) = k
    BY <1>1
  <2>5. QED
    BY <2>3, <2>4 DEF T
<1>9. ASSUME NEW x \in c[1]..(c[L + 1] - 1)
      PROVE  \E k \in 1..L : re[k].rep # "bound" /\ t[x].sym \in re[k].chars
  <2> DEFINE T == {n \in Nat : n \in 0..L /\ x < c[n + 1]}
  <2>0. c[1] \in Int /\ c[L + 1] \in Int
    BY <1>1, <1>4
  <2>1. x \in Int /\ c[1] <= x /\ x < c[L + 1]
    BY <1>9, <2>0
  <2>2. T \in SUBSET Nat /\ L \in T
    BY <1>1, <2>1
  <2>3. PICK k \in T : \A n \in T : k <= n
    BY <2>2, LeastNumber
  <2>4. k \in 0..L /\ x < c[k + 1]
    BY <2>3
  <2>5. k # 0
    <3>1. ~(x < c[1])
      BY <2>0, <2>1
    <3>2. QED
      BY <2>4, <3>1
  <2>6. k \in 1..L /\ k - 1 \in Nat /\ k - 1 \in 0..L /\ ~(k <= k - 1) /\ k - 1 + 1 = k
    <3>1. k \in 0..L /\ k # 0 /\ L \in Nat
      BY <1>1, <2>4, <2>5
    <3> HIDE DEF T
    <3>2. QED
      BY <3>1
  <2>7. ~(x < c[k])
    BY <2>3, <2>6
  <2>8. c[k] \in Int /\ c[k + 1] \in Int
    BY <1>4, <1>5, <2>6
  <2>9. x \in c[k]..(c[k + 1] - 1)
    BY <2>1, <2>4, <2>7, <2>8
  <2>10. QED
    BY <1>6, <2>6, <2>9
<1>10. QED
  BY <1>4, <1>6, <1>7, <1>8, <1>9 DEF L

\* Where a match can end, and that it is not empty unless the expression allows it.
LEMMA MatchRange ==
  ASSUME NEW X, NEW t \in Seq(X), NEW re \in Seq(Token), NEW i \in 1..(Len(t) + 1)
  PROVE  /\ MatchEnd(t, i, re) \in 0..(Len(t) + 1)
         /\ MatchEnd(t, i, re) # 0 =>
               /\ i <= MatchEnd(t, i, re)
               /\ ~MatchesEmpty(re) => i < MatchEnd(t, i, re)
               /\ \A x \in i..(MatchEnd(t, i, re) - 1) :
                     \E k \in 1..Len(re) : re[k].rep # "bound" /\ t[x].sym \in re[k].chars
<1> DEFINE e == MatchEnd(t, i, re)
           L == Len(re)
<1>1. L \in Nat /\ Len(t) \in Nat
  OBVIOUS
<1>2. e \in 0..(Len(t) + 1)
  <2>1. PICK end \in [1..(L + 1) -> [1..(Len(t) + 1) -> 0..(Len(t) + 1)]] :
             \A j : MatchEnd(t, j, re) = end[1][j]
    BY MatchEndTable
  <2>2. 1 \in 1..(L + 1)
    BY <1>1
  <2> HIDE DEF L
  <2>3. QED
    BY <2>1, <2>2
<1> HIDE DEF e
<1>3. ASSUME e # 0
      PROVE  /\ i <= e /\ (~MatchesEmpty(re) => i < e)
             /\ \A x \in i..(e - 1) :
                   \E k \in 1..L : re[k].rep # "bound" /\ t[x].sym \in re[k].chars
  <2>1. PICK c : Fits(t, re, 1, c) /\ c[1] = i /\ c[L + 1] = e
    BY <1>3, MatchFits DEF e
  <2>2. /\ \A k \in 1..L : c[k] <= c[k + 1] /\ (re[k].rep \in {"one", "plus"} => c[k] < c[k + 1])
        /\ \A k \in 1..(L + 1) : c[k] \in 1..(Len(t) + 1) /\ i <= c[k] /\ c[k] <= e
        /\ \A x \in i..(e - 1) :
              \E k \in 1..L : re[k].rep # "bound" /\ t[x].sym \in re[k].chars
    BY <2>1, FitsGrow
  <2>3. i <= e
    <3>1. L + 1 \in 1..(L + 1)
      BY <1>1
    <3> HIDE DEF L
    <3>2. QED
      BY <2>1, <2>2, <3>1
  <2>4. ASSUME ~MatchesEmpty(re) PROVE i < e
    <3>1. PICK k \in DOMAIN re : re[k].rep \in {"one", "plus"}
      <4>1. PICK k \in DOMAIN re : re[k].rep \notin {"star", "bound"}
        BY <2>4 DEF MatchesEmpty
      <4>2. re[k] \in Token
        OBVIOUS
      <4>3. QED
        BY <4>1, <4>2 DEF Token
    <3>2. k \in 1..L /\ k \in 1..(L + 1) /\ k + 1 \in 1..(L + 1)
      OBVIOUS
    <3> HIDE DEF L
    <3>3. c[k] < c[k + 1] /\ i <= c[k] /\ c[k + 1] <= e
      BY <2>2, <3>1, <3>2
    <3>4. c[k] \in Int /\ c[k + 1] \in Int /\ e \in Int
      BY <1>2, <2>2, <3>2
    <3>5. QED
      BY <3>3, <3>4
  <2>5. QED
    BY <2>2, <2>3, <2>4
<1>4. QED
  BY <1>2, <1>3 DEF e

\* A token that takes symbols takes the same ones elsewhere.
LEMMA EndsMove ==
  ASSUME NEW t, Len(t) \in Nat, NEW u, Len(u) \in Nat, NEW tok \in Token, tok.rep # "bound",
         NEW i \in Int, NEW e \in Int, NEW j \in Nat \ {0}, j + (e - i) <= Len(u) + 1,
         \A x \in i..(e - 1) : u[j + (x - i)].sym = t[x].sym,
         NEW p \in Int, NEW q \in Int, i <= p, p <= q, q <= e, q \in Ends(t, p, tok)
  PROVE  q - i + j \in Ends(u, p - i + j, tok)
<1> DEFINE least == IF tok.rep = "star" THEN 0 ELSE 1
           lo    == p - i + j
           hi    == q - i + j
           n     == Len(u)
<1>1. /\ q \in (p + least)..(Len(t) + 1)
      /\ q <= p + (IF tok.rep = "one" THEN 1 ELSE Len(t))
      /\ \A x \in p..(q - 1) : t[x].sym \in tok.chars
  BY DEF Ends
<1>2. /\ lo = p - i + j /\ hi = q - i + j /\ lo \in 1..(n + 1) /\ hi \in 1..(n + 1)
      /\ n \in Nat /\ least \in {0, 1} /\ p + least <= q
  BY <1>1
<1>3. ASSUME NEW y \in lo..(hi - 1)
      PROVE  u[y].sym \in tok.chars
  <2> DEFINE x == y - j + i
  <2>1. x \in p..(q - 1) /\ x \in i..(e - 1) /\ j + (x - i) = y
    BY <1>2, <1>3
  <2> HIDE DEF x
  <2>2. QED
    BY <1>1, <2>1
<1> HIDE DEF least, lo, hi, n
<1>4. hi \in (lo + least)..(n + 1)
  BY <1>2
<1>5. hi <= lo + (IF tok.rep = "one" THEN 1 ELSE n)
  <2>1. CASE tok.rep = "one"
    <3>1. q <= p + 1
      BY <1>1, <2>1
    <3>2. hi <= lo + 1
      BY <1>2, <3>1
    <3>3. QED
      BY <2>1, <3>2
  <2>2. CASE tok.rep # "one"
    <3>1. hi <= lo + n
      BY <1>2
    <3>2. QED
      BY <2>2, <3>1
  <2>3. QED
    BY <2>1, <2>2
<1>6. hi \in Ends(u, lo, tok)
  BY <1>3, <1>4, <1>5 DEF Ends, least, n
<1>7. QED
  BY <1>6 DEF lo, hi

\* From i to e of t the edges of words are where they are from j on in u, for
\* the words of each \b of the expression.
SameEdges(t, i, e, u, j, re) ==
    \A k \in DOMAIN re : re[k].rep = "bound" =>
        \A x \in i..e : WordEdge(t, x, re[k].chars) <=> WordEdge(u, j + (x - i), re[k].chars)

\* The same symbols with the same edges of words are a match as well.
LEMMA MatchCarried ==
  ASSUME NEW X, NEW t \in Seq(X), NEW Y, NEW u \in Seq(Y), NEW re \in Seq(Token),
         NEW i \in 1..(Len(t) + 1), NEW j \in 1..(Len(u) + 1), MatchEnd(t, i, re) # 0,
         j + (MatchEnd(t, i, re) - i) <= Len(u) + 1,
         SameEdges(t, i, MatchEnd(t, i, re), u, j, re),
         \A x \in i..(MatchEnd(t, i, re) - 1) : u[j + (x - i)].sym = t[x].sym
  PROVE  MatchEnd(u, j, re) # 0
<1> DEFINE L == Len(re)
           e == MatchEnd(t, i, re)
<1>1. L \in Nat /\ Len(t) \in Nat /\ Len(u) \in Nat
  OBVIOUS
<1>2. PICK c : Fits(t, re, 1, c) /\ c[1] = i /\ c[L + 1] = e
  BY MatchFits
<1>3. /\ \A k \in 1..L : c[k] <= c[k + 1]
      /\ \A k \in 1..(L + 1) : c[k] \in 1..(Len(t) + 1) /\ i <= c[k] /\ c[k] <= e
  BY <1>2, FitsGrow
<1>4. \A k \in 1..L : c[k + 1] \in Ends(t, c[k], re[k]) /\ re[k] \in Token
  <2>1. \A k \in 1..L : re[k] \in Token
    OBVIOUS
  <2>2. \A k \in 1..L : c[k + 1] \in Ends(t, c[k], re[k])
    BY <1>2 DEF Fits
  <2>3. QED
    BY <2>1, <2>2
<1>5. e \in Int /\ j + (e - i) <= Len(u) + 1
  BY MatchRange
<1>6. \A x \in i..(e - 1) : u[j + (x - i)].sym = t[x].sym
  OBVIOUS
<1>11. ASSUME NEW k \in 1..L, re[k].rep = "bound", NEW x \in i..e
       PROVE  WordEdge(t, x, re[k].chars) <=> WordEdge(u, j + (x - i), re[k].chars)
  <2>1. k \in DOMAIN re
    OBVIOUS
  <2>2. QED
    BY <1>11, <2>1 DEF SameEdges
<1> HIDE DEF L, e
<1> DEFINE d == [k \in 1..(L + 1) |-> c[k] - i + j]
<1>7. d \in [1..(L + 1) -> 1..(Len(u) + 1)]
  <2> SUFFICES ASSUME NEW k \in 1..(L + 1) PROVE c[k] - i + j \in 1..(Len(u) + 1)
    OBVIOUS
  <2> DEFINE p == c[k]
  <2>1. p \in Int /\ i <= p /\ p <= e
    BY <1>3
  <2> HIDE DEF p
  <2>2. p - i + j \in 1..(Len(u) + 1)
    BY <1>1, <1>5, <2>1
  <2>3. QED
    BY <2>2 DEF p
<1>8. ASSUME NEW k \in 1..L
      PROVE  d[k + 1] \in Ends(u, d[k], re[k])
  <2> DEFINE p == c[k]
             q == c[k + 1]
  <2>1. k \in 1..(L + 1) /\ k + 1 \in 1..(L + 1)
    BY <1>1
  <2>2. p \in Int /\ q \in Int /\ i <= p /\ p <= q /\ q <= e
    BY <1>3, <2>1
  <2>3. q \in Ends(t, p, re[k]) /\ re[k] \in Token
    BY <1>4
  <2>4. d[k] = p - i + j /\ d[k + 1] = q - i + j
    BY <2>1
  <2> HIDE DEF p, q, d
  <2>7. CASE re[k].rep = "bound"
    <3>1. q = p /\ WordEdge(t, p, re[k].chars)
      BY <2>3, <2>7 DEF Ends
    <3>2. p \in i..e /\ j + (p - i) = p - i + j
      BY <1>1, <1>5, <2>2
    <3>3. WordEdge(u, j + (p - i), re[k].chars)
      BY <1>11, <2>7, <3>1, <3>2
    <3>4. d[k + 1] = d[k] /\ WordEdge(u, d[k], re[k].chars)
      BY <2>4, <3>1, <3>2, <3>3
    <3>5. QED
      BY <2>7, <3>4 DEF Ends
  <2>5. ASSUME re[k].rep # "bound" PROVE q - i + j \in Ends(u, p - i + j, re[k])
    <3> DEFINE tok == re[k]
    <3>1. i \in Int /\ e \in Int /\ j \in Nat \ {0}
      BY <1>1, <1>5
    <3>2. q \in Ends(t, p, tok) /\ tok \in Token /\ tok.rep # "bound"
      BY <2>3, <2>5
    <3> HIDE DEF tok
    <3>3. q - i + j \in Ends(u, p - i + j, tok)
      BY <1>1, <1>5, <1>6, <2>2, <3>1, <3>2, EndsMove
    <3>4. QED
      BY <3>3 DEF tok
  <2>6. QED
    BY <2>4, <2>5, <2>7
<1>9. Fits(u, re, 1, d) /\ d[1] = j
  <2>1. d[1] = j
    BY <1>1, <1>2
  <2> HIDE DEF d
  <2>2. QED
    BY <1>7, <1>8, <2>1 DEF Fits, L
<1> HIDE DEF d
<1>10. QED
  BY <1>9, MatchFits

LEMMA MatchMoves ==
  ASSUME NEW X, NEW t \in Seq(X), NEW Y, NEW u \in Seq(Y), NEW re \in Seq(Token),
         NEW i \in 1..(Len(t) + 1), NEW j \in 1..(Len(u) + 1), MatchEnd(t, i, re) # 0,
         j + (MatchEnd(t, i, re) - i) <= Len(u) + 1, ~HasBoundary(re),
         \A x \in i..(MatchEnd(t, i, re) - 1) : u[j + (x - i)].sym = t[x].sym
  PROVE  MatchEnd(u, j, re) # 0
<1>1. SameEdges(t, i, MatchEnd(t, i, re), u, j, re)
  BY DEF SameEdges, HasBoundary
<1>2. QED
  BY <1>1, MatchCarried

\* Where each token takes all it can and there is a way on, that is the match.
LEMMA TightMatch ==
  ASSUME NEW X, NEW t \in Seq(X), NEW re \in Seq(Token),
         NEW c \in [1..(Len(re) + 1) -> 1..(Len(t) + 1)],
         \A k \in 1..Len(re) : /\ c[k + 1] \in Ends(t, c[k], re[k])
                               /\ \A q \in Ends(t, c[k], re[k]) : q <= c[k + 1]
  PROVE  MatchEnd(t, c[1], re) = c[Len(re) + 1]
<1> DEFINE L == Len(re)
           P == 1..(Len(t) + 1)
<1>1. L \in Nat /\ Len(t) \in Nat
  OBVIOUS
<1>2. PICK end \in [1..(L + 1) -> [P -> 0..(Len(t) + 1)]] :
           /\ \A k \in 1..(L + 1) : end[k] = Row(t, re, k, end)
           /\ \A j : MatchEnd(t, j, re) = end[1][j]
  BY MatchEndTable
<1> DEFINE e == c[L + 1]
           T == {k \in 1..(L + 1) : end[k][c[k]] = e}
<1>3. e \in P /\ e # 0
  BY <1>1
<1>4. ASSUME NEW k \in 1..(L + 1), \A j \in 1..(L + 1) : k < j => j \in T
      PROVE  k \in T
  <2>1. c[k] \in P /\ end[k] = Row(t, re, k, end)
    BY <1>2
  <2>2. CASE k = L + 1
    <3>1. k > Len(re)
      BY <1>1, <2>2
    <3>2. end[k][c[k]] = c[k]
      BY <2>1, <3>1 DEF Row
    <3>3. QED
      BY <2>2, <3>2
  <2>3. CASE k # L + 1
    <3> DEFINE n == c[k + 1]
               A == After(t, c[k], re[k], end[k + 1])
    <3>1. k \in 1..L /\ k + 1 \in 1..(L + 1) /\ k < k + 1 /\ ~(k > Len(re))
      BY <1>1, <2>3
    <3>2. k + 1 \in T
      BY <1>4, <3>1
    <3>3. end[k + 1][n] = e
      BY <3>2
    <3>4. /\ n \in Ends(t, c[k], re[k]) /\ n \in P
          /\ \A q \in Ends(t, c[k], re[k]) : q <= n
      BY <3>1
    <3> HIDE DEF n, e
    <3>5. n \in A /\ \A q \in A : q <= n
      BY <1>3, <3>3, <3>4 DEF After
    <3>6. A \in SUBSET (0..(Len(t) + 1))
      <4>1. re[k] \in Token
        BY <3>1
      <4>2. Ends(t, c[k], re[k]) \in SUBSET (c[k]..(Len(t) + 1))
        BY <2>1, <4>1, EndsInside
      <4>3. c[k]..(Len(t) + 1) \subseteq 0..(Len(t) + 1)
        BY <1>1, <2>1
      <4>4. QED
        BY <4>2, <4>3 DEF After
    <3> HIDE DEF A
    <3>7. Max(A) \in A /\ \A q \in A : q <= Max(A)
      <4>1. Len(t) + 1 \in Nat /\ A # {}
        BY <1>1, <3>5
      <4>2. QED
        BY <3>6, <4>1, MaxElement
    <3>8. Max(A) = n
      <4>1. Max(A) <= n /\ n <= Max(A) /\ Max(A) \in 0..(Len(t) + 1) /\ n \in 0..(Len(t) + 1)
        BY <3>5, <3>6, <3>7
      <4>2. QED
        BY <1>1, <4>1
    <3>9. end[k][c[k]] = end[k + 1][Max(A)]
      BY <2>1, <3>1, <3>5 DEF Row, A
    <3>10. QED
      BY <3>3, <3>8, <3>9
  <2>4. QED
    BY <2>2, <2>3
<1>5. 1 \in 1..(L + 1) /\ L + 1 \in Nat
  BY <1>1
<1>6. 1 \in T
  <2> HIDE DEF T
  <2>1. \A k \in 1..(L + 1) : k \in T
    BY <1>4, <1>5, FromTheEnd
  <2>2. QED
    BY <1>5, <2>1
<1>7. QED
  BY <1>2, <1>6

\* end is the table of ends that MatchEnd looks up.
Table(t, re, end) ==
    /\ end \in [1..(Len(re) + 1) -> [1..(Len(t) + 1) -> 0..(Len(t) + 1)]]
    /\ \A k \in 1..(Len(re) + 1) : end[k] = Row(t, re, k, end)
    /\ \A i : MatchEnd(t, i, re) = end[1][i]

LEMMA SomeTable ==
  ASSUME NEW X, NEW t \in Seq(X), NEW re \in Seq(Token)
  PROVE  \E end : Table(t, re, end)
  BY MatchEndTable DEF Table

\* The first token takes as much as the rest of the expression lets it.
TakesFirst(t, p, tok, rest, e) ==
    LET A == {q \in Ends(t, p, tok) : MatchEnd(t, q, rest) # 0}
    IN  /\ A = {} => e = 0
        /\ A # {} => Max(A) \in A /\ (\A q \in A : q <= Max(A)) /\ e = MatchEnd(t, Max(A), rest)

LEMMA MatchCons ==
  ASSUME NEW X, NEW t \in Seq(X), NEW re \in Seq(Token), re # <<>>, NEW p \in 1..(Len(t) + 1)
  PROVE  TakesFirst(t, p, re[1], Tail(re), MatchEnd(t, p, re))
<1> DEFINE L    == Len(re)
           rest == Tail(re)
           P    == 1..(Len(t) + 1)
<1>1. /\ L \in Nat /\ L # 0 /\ 1 \in 1..L /\ re[1] \in Token /\ Len(t) \in Nat
      /\ rest \in Seq(Token) /\ Len(rest) = L - 1 /\ \A k \in 1..(L - 1) : rest[k] = re[k + 1]
  OBVIOUS
<1> HIDE DEF rest
<1>2. PICK E \in [1..(L + 1) -> [P -> 0..(Len(t) + 1)]] :
           /\ \A k \in 1..(L + 1) : E[k] = Row(t, re, k, E)
           /\ \A j : MatchEnd(t, j, re) = E[1][j]
  BY MatchEndTable
<1>3. PICK F \in [1..L -> [P -> 0..(Len(t) + 1)]] :
           /\ \A k \in 1..L : F[k] = Row(t, rest, k, F)
           /\ \A j : MatchEnd(t, j, rest) = F[1][j]
  <2>1. PICK F : Table(t, rest, F)
    BY <1>1, SomeTable
  <2>2. Len(rest) + 1 = L
    BY <1>1
  <2>3. QED
    BY <2>1, <2>2 DEF Table
<1> HIDE DEF L
<1> DEFINE T == {k \in 1..L : E[k + 1] = F[k]}
<1>4. ASSUME NEW k \in 1..L, \A j \in 1..L : k < j => j \in T
      PROVE  k \in T
  <2>1. k + 1 \in 1..(L + 1) /\ E[k + 1] = Row(t, re, k + 1, E) /\ F[k] = Row(t, rest, k, F)
    BY <1>1, <1>2, <1>3
  <2>2. CASE k = L
    <3>1. k + 1 > Len(re) /\ k > Len(rest)
      BY <1>1, <2>2 DEF L
    <3>2. QED
      BY <2>1, <3>1 DEF Row
  <2>3. CASE k # L
    <3>1. /\ ~(k + 1 > Len(re)) /\ ~(k > Len(rest)) /\ k \in 1..(L - 1) /\ k + 1 \in 1..L /\ k < k + 1
      BY <1>1, <2>3 DEF L
    <3>2. rest[k] = re[k + 1] /\ E[(k + 1) + 1] = F[k + 1]
      BY <1>1, <1>4, <3>1
    <3>3. Row(t, re, k + 1, E) = Row(t, rest, k, F)
      BY <3>1, <3>2 DEF Row
    <3>4. QED
      BY <2>1, <3>3
  <2>4. QED
    BY <2>2, <2>3
<1>5. E[2] = F[1]
  <2> HIDE DEF T
  <2>1. 1 \in T
    BY <1>1, <1>4, FromTheEnd
  <2>2. 1 + 1 = 2
    OBVIOUS
  <2>3. QED
    BY <2>1, <2>2 DEF T
<1> DEFINE A == {q \in Ends(t, p, re[1]) : MatchEnd(t, q, rest) # 0}
<1>6. A = After(t, p, re[1], E[2])
  BY <1>3, <1>5 DEF After
<1>7. E[1][p] = IF A = {} THEN 0 ELSE E[2][Max(A)]
  <2>1. E[1] = Row(t, re, 1, E) /\ ~(1 > Len(re)) /\ 1 + 1 = 2
    BY <1>1, <1>2 DEF L
  <2>2. QED
    BY <1>6, <2>1 DEF Row
<1>8. A \in SUBSET (0..(Len(t) + 1))
  <2>1. Ends(t, p, re[1]) \in SUBSET (p..(Len(t) + 1))
    BY <1>1, EndsInside
  <2>2. p..(Len(t) + 1) \subseteq 0..(Len(t) + 1)
    BY <1>1
  <2>3. QED
    BY <2>1, <2>2
<1>9. A # {} => Max(A) \in A /\ \A q \in A : q <= Max(A)
  <2>1. Len(t) + 1 \in Nat
    BY <1>1
  <2> HIDE DEF A
  <2>2. QED
    BY <1>8, <2>1, MaxElement
<1>10. MatchEnd(t, p, re) = E[1][p] /\ \A q : MatchEnd(t, q, rest) = E[2][q]
  BY <1>2, <1>3, <1>5
<1> HIDE DEF A
<1>11. /\ A = {} => MatchEnd(t, p, re) = 0
       /\ A # {} => /\ Max(A) \in A /\ (\A q \in A : q <= Max(A))
                    /\ MatchEnd(t, p, re) = MatchEnd(t, Max(A), rest)
  BY <1>7, <1>9, <1>10
<1>12. QED
  BY <1>11 DEF TakesFirst, A, rest

LEMMA MatchNil ==
  ASSUME NEW X, NEW t \in Seq(X), NEW p \in 1..(Len(t) + 1)
  PROVE  MatchEnd(t, p, <<>>) = p
<1> DEFINE re == <<>>
<1>1. re \in Seq(Token) /\ Len(re) = 0 /\ 1 \in 1..(Len(re) + 1) /\ 1 > Len(re)
  OBVIOUS
<1> HIDE DEF re
<1>2. PICK E : Table(t, re, E)
  BY <1>1, SomeTable
<1>3. E[1][p] = p
  BY <1>1, <1>2 DEF Row, Table
<1>4. QED
  BY <1>2, <1>3 DEF re, Table

\* u has at j what the match of re at i of t consists of, and the same edges.
SameMatch(t, u, re, i, j) ==
    LET e == MatchEnd(t, i, re)
    IN  /\ i \in 1..(Len(t) + 1) /\ j \in 1..(Len(u) + 1) /\ e # 0
        /\ j + (e - i) <= Len(u) + 1
        /\ \A x \in i..(e - 1) : u[j + (x - i)].sym = t[x].sym
        /\ SameEdges(t, i, e, u, j, re)

Reaches(t, u, re, i, j) ==
    SameMatch(t, u, re, i, j) => MatchEnd(u, j, re) >= j + (MatchEnd(t, i, re) - i)

LEMMA ReachStep ==
  ASSUME NEW X, NEW t \in Seq(X), NEW Y, NEW u \in Seq(Y), NEW re \in Seq(Token), re # <<>>,
         \A i, j \in Nat : Reaches(t, u, Tail(re), i, j), NEW i \in Nat, NEW j \in Nat
  PROVE  Reaches(t, u, re, i, j)
<1> DEFINE tok  == re[1]
           rest == Tail(re)
           e    == MatchEnd(t, i, re)
           A    == {q \in Ends(t, i, tok) : MatchEnd(t, q, rest) # 0}
           B    == {q \in Ends(u, j, tok) : MatchEnd(u, q, rest) # 0}
           a    == Max(A)
           b    == Max(B)
           n    == Len(t)
           m    == Len(u)
<1> SUFFICES ASSUME SameMatch(t, u, re, i, j) PROVE MatchEnd(u, j, re) >= j + (e - i)
  BY DEF Reaches
<1>1. /\ i \in 1..(n + 1) /\ j \in 1..(m + 1) /\ e # 0
      /\ j + (e - i) <= m + 1
      /\ \A x \in i..(e - 1) : u[j + (x - i)].sym = t[x].sym
      /\ SameEdges(t, i, e, u, j, re)
  BY DEF SameMatch
<1>2. /\ n \in Nat /\ m \in Nat /\ tok \in Token /\ rest \in Seq(Token)
  OBVIOUS
<1>0. /\ tok.rep = "bound" => (WordEdge(t, i, tok.chars) <=> WordEdge(u, j, tok.chars))
      /\ SameEdges(t, i, e, u, j, rest)
  <2>1. 1 \in DOMAIN re /\ \A k \in DOMAIN rest : k + 1 \in DOMAIN re /\ rest[k] = re[k + 1]
    OBVIOUS
  <2>2. i \in i..e /\ j + (i - i) = j
    <3>1. e \in 0..(n + 1) /\ i <= e
      BY <1>1, <1>2, MatchRange
    <3> HIDE DEF e
    <3>2. QED
      BY <1>1, <1>2, <3>1
  <2>3. tok.rep = "bound" => \A x \in i..e : WordEdge(t, x, tok.chars) <=> WordEdge(u, j + (x - i), tok.chars)
    BY <1>1, <2>1 DEF SameEdges
  <2>4. tok.rep = "bound" => (WordEdge(t, i, tok.chars) <=> WordEdge(u, j, tok.chars))
    <3> HIDE DEF tok, e
    <3> QED
      BY <2>2, <2>3
  <2> HIDE DEF rest
  <2>5. SameEdges(t, i, e, u, j, rest)
    <3> HIDE DEF e, tok
    <3> QED
      BY <1>1, <2>1 DEF SameEdges
  <2>6. QED
    BY <2>4, <2>5
<1>3. TakesFirst(t, i, tok, rest, e) /\ TakesFirst(u, j, tok, rest, MatchEnd(u, j, re))
  BY <1>1, MatchCons
<1>4. a \in Ends(t, i, tok) /\ (\A q \in A : q <= a) /\ e = MatchEnd(t, a, rest)
  BY <1>1, <1>3 DEF TakesFirst
<1>5. a \in i..(n + 1) /\ e \in a..(n + 1)
  <2>1. a \in i..(n + 1)
    <3>1. Ends(t, i, tok) \in SUBSET (i..(n + 1))
      BY <1>1, <1>2, EndsInside
    <3> HIDE DEF a
    <3>2. QED
      BY <1>4, <3>1
  <2> HIDE DEF a, e, rest, tok, n
  <2>2. a \in 1..(n + 1)
    BY <1>1, <1>2, <2>1
  <2>3. e \in 0..(n + 1) /\ a <= e
    BY <1>1, <1>2, <1>4, <2>2, MatchRange DEF n
  <2>4. e \in a..(n + 1)
    BY <1>2, <2>2, <2>3
  <2>5. QED
    BY <2>1, <2>4
<1>6. /\ TakesFirst(u, j, tok, rest, MatchEnd(u, j, re))
      /\ \A p, q \in Nat : Reaches(t, u, rest, p, q)
  BY <1>3
<1> DEFINE c == j + (a - i)
<1> HIDE DEF e, a, tok, rest, n, m
<1>7. c \in j..(m + 1) /\ c + (e - a) = j + (e - i) /\ c \in 1..(m + 1)
  BY <1>1, <1>2, <1>5
<1>8. SameMatch(t, u, rest, a, c)
  <2>1. a \in 1..(n + 1) /\ c \in 1..(m + 1) /\ e # 0 /\ c + (e - a) <= m + 1
    BY <1>1, <1>2, <1>5, <1>7
  <2>2. \A x \in a..(e - 1) : u[c + (x - a)].sym = t[x].sym
    <3> SUFFICES ASSUME NEW x \in a..(e - 1) PROVE u[c + (x - a)].sym = t[x].sym
      OBVIOUS
    <3>1. x \in i..(e - 1) /\ c + (x - a) = j + (x - i)
      BY <1>1, <1>2, <1>5
    <3>2. QED
      BY <1>1, <3>1
  <2>4. SameEdges(t, a, e, u, c, rest)
    <3> SUFFICES ASSUME NEW k \in DOMAIN rest, rest[k].rep = "bound", NEW x \in a..e
                 PROVE  WordEdge(t, x, rest[k].chars) <=> WordEdge(u, c + (x - a), rest[k].chars)
      BY DEF SameEdges
    <3>1. x \in i..e /\ c + (x - a) = j + (x - i)
      BY <1>1, <1>2, <1>5
    <3>2. WordEdge(t, x, rest[k].chars) <=> WordEdge(u, j + (x - i), rest[k].chars)
      BY <1>0, <3>1 DEF SameEdges
    <3>3. QED
      BY <3>1, <3>2
  <2>3. QED
    BY <1>4, <2>1, <2>2, <2>4 DEF SameMatch, n, m
<1>9. MatchEnd(u, c, rest) >= j + (e - i) /\ MatchEnd(u, c, rest) \in 0..(m + 1)
  <2>1. MatchEnd(u, c, rest) >= c + (e - a)
    <3>1. a \in Nat /\ c \in Nat
      <4> HIDE DEF c
      <4>1. a \in Nat
        BY <1>1, <1>2, <1>5
      <4>2. c \in Nat
        BY <1>1, <1>2, <1>7
      <4>3. QED
        BY <4>1, <4>2
    <3>2. QED
      BY <1>4, <1>6, <1>8, <3>1 DEF Reaches
  <2>2. MatchEnd(u, c, rest) \in 0..(m + 1)
    BY <1>2, <1>7, MatchRange DEF m
  <2>3. QED
    BY <1>7, <2>1, <2>2
<1>10. \A q \in i..e : q \in Ends(t, i, tok) <=> j + (q - i) \in Ends(u, j, tok)
  <2> SUFFICES ASSUME NEW q \in i..e
               PROVE  q \in Ends(t, i, tok) <=> j + (q - i) \in Ends(u, j, tok)
    OBVIOUS
  <2> DEFINE least == IF tok.rep = "star" THEN 0 ELSE 1
             d == q - i
  <2>1. d \in 0..(e - i) /\ q = i + d /\ q \in Int /\ d \in Int /\ d <= n /\ d <= m
        /\ q <= n + 1 /\ j + d <= m + 1
    BY <1>1, <1>2, <1>5
  <2>2. \A x \in i..(q - 1) : x \in i..(e - 1) /\ x - i \in 0..(d - 1)
    BY <1>1, <1>2, <1>5, <2>1
  <2>3. \A x \in 0..(d - 1) : i + x \in i..(q - 1) /\ i + x \in i..(e - 1) /\ (i + x) - i = x
    BY <1>1, <1>2, <1>5, <2>1
  <2>4. \A x \in 0..(d - 1) : u[j + x].sym = t[i + x].sym
    BY <1>1, <2>3
  <2> HIDE DEF d
  <2>8. CASE tok.rep = "bound"
    <3>1. (q = i) <=> (j + d = j)
      BY <1>1, <2>1
    <3>2. /\ q \in Ends(t, i, tok) <=> q = i /\ WordEdge(t, i, tok.chars)
          /\ j + d \in Ends(u, j, tok) <=> j + d = j /\ WordEdge(u, j, tok.chars)
      BY <2>8 DEF Ends
    <3>3. WordEdge(t, i, tok.chars) <=> WordEdge(u, j, tok.chars)
      BY <1>0, <2>8
    <3>4. q \in Ends(t, i, tok) <=> j + d \in Ends(u, j, tok)
      BY <3>1, <3>2, <3>3, Zenon
    <3>5. QED
      BY <3>4 DEF d
  <2>5. tok.rep # "bound" =>
          (q \in Ends(t, i, tok) <=>
           least <= d /\ (tok.rep = "one" => d <= 1) /\ \A x \in 0..(d - 1) : t[i + x].sym \in tok.chars)
    <3>1. (\A x \in i..(q - 1) : t[x].sym \in tok.chars) <=> \A x \in 0..(d - 1) : t[i + x].sym \in tok.chars
      <4>1. \A x \in i..(q - 1) : x - i \in 0..(d - 1) /\ i + (x - i) = x
        BY <1>1, <1>2, <2>1, <2>2
      <4>2. QED
        BY <2>3, <4>1
    <3>2. (q \in (i + least)..(n + 1)) <=> least <= d
      BY <1>1, <1>2, <2>1
    <3>3. (q <= i + (IF tok.rep = "one" THEN 1 ELSE n)) <=> (tok.rep = "one" => d <= 1)
      BY <1>1, <1>2, <2>1
    <3>4. QED
      BY <1>2, <3>1, <3>2, <3>3 DEF Ends, n
  <2>6. tok.rep # "bound" =>
          (j + d \in Ends(u, j, tok) <=>
           least <= d /\ (tok.rep = "one" => d <= 1) /\ \A x \in 0..(d - 1) : u[j + x].sym \in tok.chars)
    <3>1. (\A x \in j..((j + d) - 1) : u[x].sym \in tok.chars) <=> \A x \in 0..(d - 1) : u[j + x].sym \in tok.chars
      <4>1. \A x \in j..((j + d) - 1) : x - j \in 0..(d - 1) /\ j + (x - j) = x
        BY <1>1, <1>2, <2>1
      <4>2. \A x \in 0..(d - 1) : j + x \in j..((j + d) - 1)
        BY <1>1, <1>2, <2>1
      <4>3. QED
        BY <4>1, <4>2
    <3>2. (j + d \in (j + least)..(m + 1)) <=> least <= d
      BY <1>1, <1>2, <2>1
    <3>3. (j + d <= j + (IF tok.rep = "one" THEN 1 ELSE m)) <=> (tok.rep = "one" => d <= 1)
      BY <1>1, <1>2, <2>1
    <3> DEFINE y == j + d
    <3>4. (\A x \in j..(y - 1) : u[x].sym \in tok.chars) <=> \A x \in 0..(d - 1) : u[j + x].sym \in tok.chars
      BY <3>1, Zenon
    <3>5. (y \in (j + least)..(m + 1)) <=> least <= d
      BY <3>2, Zenon
    <3>6. (y <= j + (IF tok.rep = "one" THEN 1 ELSE m)) <=> (tok.rep = "one" => d <= 1)
      BY <3>3, Zenon
    <3> HIDE DEF y
    <3>7. tok.rep # "bound" =>
            (y \in Ends(u, j, tok) <=>
             least <= d /\ (tok.rep = "one" => d <= 1) /\ \A x \in 0..(d - 1) : u[j + x].sym \in tok.chars)
      BY <1>2, <3>4, <3>5, <3>6 DEF Ends, m
    <3>8. QED
      BY <3>7 DEF y
  <2>7. QED
    BY <2>4, <2>5, <2>6, <2>8 DEF d
<1>11. c \in B
  <2>1. a \in i..e
    BY <1>1, <1>2, <1>5
  <2>2. c \in Ends(u, j, tok)
    BY <1>4, <1>10, <2>1
  <2>3. MatchEnd(u, c, rest) # 0
    BY <1>1, <1>2, <1>5, <1>9
  <2>4. QED
    BY <2>2, <2>3
<1>12. b \in B /\ (\A q \in B : q <= b) /\ MatchEnd(u, j, re) = MatchEnd(u, b, rest)
  BY <1>6, <1>11 DEF TakesFirst
<1>13. b \in 1..(m + 1) /\ c <= b
  <2>1. Ends(u, j, tok) \in SUBSET (j..(m + 1))
    BY <1>1, <1>2, EndsInside DEF m
  <2> HIDE DEF b
  <2>2. QED
    BY <1>1, <1>2, <1>11, <1>12, <2>1
<1> DEFINE f == MatchEnd(u, b, rest)
<1>14. f # 0 /\ f \in b..(m + 1)
  <2>1. f # 0
    BY <1>12
  <2>2. f \in 0..(m + 1) /\ b <= f
    <3> HIDE DEF b, f
    <3> QED
      BY <1>2, <1>13, <2>1, MatchRange DEF m, f
  <2> HIDE DEF b, f
  <2>3. QED
    BY <1>2, <1>13, <2>1, <2>2
<1> HIDE DEF b, B
<1>15. CASE f >= j + (e - i)
  BY <1>12, <1>15
<1>16. CASE b = c
  BY <1>9, <1>12, <1>16
<1>17. CASE b # c /\ ~(f >= j + (e - i))
  <2> DEFINE q == i + (b - j)
  <2> HIDE DEF f
  <2>0. /\ i \in Nat \ {0} /\ j \in Nat \ {0} /\ a \in Nat /\ b \in Nat /\ e \in Nat /\ f \in Nat
        /\ i <= a /\ a <= e /\ e <= n + 1 /\ j + (a - i) < b /\ b <= f /\ f < j + (e - i)
    <3>1. a \in Nat /\ e \in Nat /\ i <= a /\ a <= e /\ e <= n + 1
      BY <1>1, <1>2, <1>5
    <3>2. b \in Nat /\ f \in Nat /\ b <= f
      BY <1>2, <1>13, <1>14
    <3>3. f < j + (e - i)
      BY <1>17, <3>1, <3>2
    <3>4. j + (a - i) < b
      BY <1>13, <1>17, <3>1, <3>2
    <3>5. QED
      BY <1>1, <3>1, <3>2, <3>3, <3>4
  <2>1. q \in i..e /\ a < q /\ j + (q - i) = b /\ q + (f - b) <= e /\ q \in 1..(n + 1)
        /\ q + (f - b) <= n + 1
    <3>1. q \in Int /\ a < q /\ j + (q - i) = b
      BY <2>0
    <3>2. q + (f - b) <= e /\ q <= e
      BY <2>0
    <3> HIDE DEF q
    <3>3. q \in i..e /\ q \in 1..(n + 1) /\ q + (f - b) <= n + 1
      BY <1>2, <2>0, <3>1, <3>2
    <3>4. QED
      BY <3>1, <3>2, <3>3
  <2>2. \A x \in b..(f - 1) : t[q + (x - b)].sym = u[x].sym
    <3> SUFFICES ASSUME NEW x \in b..(f - 1) PROVE t[q + (x - b)].sym = u[x].sym
      OBVIOUS
    <3> DEFINE y == q + (x - b)
    <3>1. y \in i..(e - 1) /\ j + (y - i) = x
      BY <1>1, <1>2, <1>5, <1>13, <1>14, <2>1
    <3> HIDE DEF y
    <3>2. u[j + (y - i)].sym = t[y].sym
      BY <1>1, <3>1
    <3>3. QED
      BY <3>1, <3>2 DEF y
  <2> HIDE DEF q
  <2>3. MatchEnd(t, q, rest) # 0
    <3>1. SameEdges(u, b, f, t, q, rest)
      <4> SUFFICES ASSUME NEW k \in DOMAIN rest, rest[k].rep = "bound", NEW x \in b..f
                   PROVE  WordEdge(u, x, rest[k].chars) <=> WordEdge(t, q + (x - b), rest[k].chars)
        BY DEF SameEdges
      <4> DEFINE y == q + (x - b)
      <4>1. y \in i..e /\ j + (y - i) = x
        BY <2>0, <2>1
      <4> HIDE DEF y
      <4>2. WordEdge(t, y, rest[k].chars) <=> WordEdge(u, j + (y - i), rest[k].chars)
        BY <1>0, <4>1 DEF SameEdges
      <4>3. QED
        BY <4>1, <4>2 DEF y
    <3>2. QED
      BY <1>2, <1>13, <1>14, <2>1, <2>2, <3>1, MatchCarried DEF n, m, f
  <2>4. q \in Ends(t, i, tok)
    <3>1. b \in Ends(u, j, tok)
      BY <1>12 DEF B
    <3>2. QED
      BY <1>10, <2>1, <3>1
  <2>5. q <= a
    BY <1>4, <2>3, <2>4
  <2>6. FALSE
    BY <1>1, <1>2, <1>5, <2>1, <2>5
  <2>7. QED
    BY <2>6
<1>18. QED
  BY <1>15, <1>16, <1>17 DEF e

\* Where u repeats what t has in a match, the match of u goes at least as far.
LEMMA MatchReaches ==
  ASSUME NEW X, NEW t \in Seq(X), NEW Y, NEW u \in Seq(Y), NEW re \in Seq(Token),
         NEW i \in Nat, NEW j \in Nat
  PROVE  Reaches(t, u, re, i, j)
<1> DEFINE T == {n \in Nat : \A w \in Seq(Token) :
                    Len(w) = n => \A p, q \in Nat : Reaches(t, u, w, p, q)}
<1>1. 0 \in T
  <2> SUFFICES ASSUME NEW w \in Seq(Token), Len(w) = 0, NEW p \in Nat, NEW q \in Nat,
                      SameMatch(t, u, w, p, q)
               PROVE  MatchEnd(u, q, w) >= q + (MatchEnd(t, p, w) - p)
    BY DEF Reaches
  <2>1. w = <<>> /\ p \in 1..(Len(t) + 1) /\ q \in 1..(Len(u) + 1)
    BY DEF SameMatch
  <2>2. MatchEnd(t, p, w) = p /\ MatchEnd(u, q, w) = q
    BY <2>1, MatchNil
  <2>3. QED
    BY <2>2
<1>2. ASSUME NEW n \in Nat, n \in T PROVE n + 1 \in T
  <2> SUFFICES ASSUME NEW w \in Seq(Token), Len(w) = n + 1, NEW p \in Nat, NEW q \in Nat
               PROVE  Reaches(t, u, w, p, q)
    OBVIOUS
  <2>1. w # <<>> /\ Tail(w) \in Seq(Token) /\ Len(Tail(w)) = n
    OBVIOUS
  <2>2. \A x, y \in Nat : Reaches(t, u, Tail(w), x, y)
    BY <1>2, <2>1
  <2>3. QED
    BY <2>1, <2>2, ReachStep
<1>3. Len(re) \in T
  <2>1. Len(re) \in Nat /\ Len(re) \in 0..Len(re)
    OBVIOUS
  <2> HIDE DEF T
  <2>2. \A n \in 0..Len(re) : n # Len(re) /\ n \in T => n + 1 \in T
    BY <1>2, <2>1
  <2>3. QED
    BY <1>1, <2>1, <2>2, Climb
<1>4. QED
  BY <1>3

\* Two texts that agree on n symbols, from i and from j on.
Agree(t, i, u, j, n) ==
    /\ i \in 1..(Len(t) + 1) /\ j \in 1..(Len(u) + 1)
    /\ n \in Nat /\ i + n <= Len(t) + 1 /\ j + n <= Len(u) + 1
    /\ \A x \in 0..(n - 1) : t[i + x].sym = u[j + x].sym

\* They also agree on the edges of words there.
AgreeOnEdges(t, i, u, j, n, re) ==
    \A k \in DOMAIN re : re[k].rep = "bound" =>
        \A x \in 0..n : WordEdge(t, i + x, re[k].chars) <=> WordEdge(u, j + x, re[k].chars)

\* A match that does not go beyond what the texts agree on is as long in the other.
LEMMA MatchAgrees ==
  ASSUME NEW X, NEW t \in Seq(X), NEW Y, NEW u \in Seq(Y), NEW re \in Seq(Token),
         NEW i, NEW j, NEW n, Agree(t, i, u, j, n), AgreeOnEdges(t, i, u, j, n, re),
         MatchEnd(t, i, re) # 0, MatchEnd(t, i, re) <= i + n
  PROVE  /\ MatchEnd(u, j, re) # 0
         /\ MatchEnd(u, j, re) >= j + (MatchEnd(t, i, re) - i)
<1> DEFINE e == MatchEnd(t, i, re)
           d == MatchEnd(u, j, re)
<1>1. /\ Len(t) \in Nat /\ Len(u) \in Nat /\ i \in 1..(Len(t) + 1) /\ j \in 1..(Len(u) + 1)
      /\ n \in Nat /\ i + n <= Len(t) + 1 /\ j + n <= Len(u) + 1
      /\ \A x \in 0..(n - 1) : t[i + x].sym = u[j + x].sym
  BY DEF Agree
<1>2. e \in 0..(Len(t) + 1) /\ e # 0 /\ i <= e /\ d \in 0..(Len(u) + 1)
  BY <1>1, MatchRange
<1>3. e <= i + n
  OBVIOUS
<1> HIDE DEF e, d
<1>4. j + (e - i) <= Len(u) + 1
  BY <1>1, <1>2, <1>3
<1>5. ASSUME NEW x \in i..(e - 1) PROVE u[j + (x - i)].sym = t[x].sym
  <2>1. x - i \in 0..(n - 1) /\ i + (x - i) = x
    BY <1>1, <1>2, <1>3
  <2>2. QED
    BY <1>1, <2>1
<1>10. SameEdges(t, i, e, u, j, re)
  <2> SUFFICES ASSUME NEW k \in DOMAIN re, re[k].rep = "bound", NEW x \in i..e
               PROVE  WordEdge(t, x, re[k].chars) <=> WordEdge(u, j + (x - i), re[k].chars)
    BY DEF SameEdges
  <2> DEFINE y == x - i
  <2>1. y \in 0..n /\ i + y = x
    BY <1>1, <1>2, <1>3
  <2> HIDE DEF y
  <2>2. WordEdge(t, i + y, re[k].chars) <=> WordEdge(u, j + y, re[k].chars)
    BY <2>1 DEF AgreeOnEdges
  <2>3. QED
    BY <2>1, <2>2 DEF y
<1>6. SameMatch(t, u, re, i, j)
  BY <1>1, <1>2, <1>4, <1>5, <1>10 DEF SameMatch, e
<1>7. d >= j + (e - i)
  <2>1. Reaches(t, u, re, i, j)
    BY <1>1, MatchReaches
  <2>2. QED
    BY <1>6, <2>1 DEF Reaches, e, d
<1>8. d # 0
  BY <1>1, <1>2, <1>7
<1>9. QED
  BY <1>7, <1>8 DEF e, d

LEMMA AgreeTurned ==
  ASSUME NEW t, NEW i, NEW u, NEW j, NEW n, NEW re, Agree(t, i, u, j, n), AgreeOnEdges(t, i, u, j, n, re)
  PROVE  Agree(u, j, t, i, n) /\ AgreeOnEdges(u, j, t, i, n, re)
  BY DEF Agree, AgreeOnEdges

LEMMA MatchSame ==
  ASSUME NEW X, NEW t \in Seq(X), NEW Y, NEW u \in Seq(Y), NEW re \in Seq(Token),
         NEW i, NEW j, NEW n, Agree(t, i, u, j, n), AgreeOnEdges(t, i, u, j, n, re),
         MatchEnd(t, i, re) <= i + n, MatchEnd(u, j, re) <= j + n
  PROVE  /\ MatchEnd(t, i, re) = 0 <=> MatchEnd(u, j, re) = 0
         /\ MatchEnd(t, i, re) # 0 => MatchEnd(u, j, re) = j + (MatchEnd(t, i, re) - i)
<1> DEFINE e == MatchEnd(t, i, re)
           d == MatchEnd(u, j, re)
<1>1. /\ Len(t) \in Nat /\ Len(u) \in Nat /\ i \in 1..(Len(t) + 1) /\ j \in 1..(Len(u) + 1)
  BY DEF Agree
<1>2. e \in Nat /\ d \in Nat
  BY <1>1, MatchRange
<1>3. e # 0 => d # 0 /\ d >= j + (e - i)
  BY MatchAgrees
<1>4. d # 0 => e # 0 /\ e >= i + (d - j)
  BY AgreeTurned, MatchAgrees
<1> HIDE DEF e, d
<1>5. e = 0 <=> d = 0
  BY <1>3, <1>4
<1>6. e # 0 => d = j + (e - i)
  BY <1>1, <1>2, <1>3, <1>4
<1>7. QED
  BY <1>5, <1>6 DEF e, d

\* The symbol is in no class of the expression, so that it is taken by none of
\* its tokens and is no word symbol to it.
Strange(s, re) == \A k \in DOMAIN re : s \notin re[k].chars

\* No match begins at a symbol that is strange, unless it takes nothing.
LEMMA NoneAtStrange ==
  ASSUME NEW X, NEW t \in Seq(X), NEW re \in Seq(Token), ~MatchesEmpty(re), NEW i \in 1..Len(t),
         Strange(t[i].sym, re)
  PROVE  MatchEnd(t, i, re) = 0
<1> DEFINE e == MatchEnd(t, i, re)
<1>1. Len(t) \in Nat /\ i \in 1..(Len(t) + 1)
  OBVIOUS
<1>2. /\ e \in 0..(Len(t) + 1)
      /\ e # 0 => /\ i < e
                  /\ \A x \in i..(e - 1) : \E k \in 1..Len(re) : re[k].rep # "bound" /\ t[x].sym \in re[k].chars
  BY <1>1, MatchRange
<1>3. DOMAIN re = 1..Len(re)
  OBVIOUS
<1>4. e # 0 => i \in i..(e - 1)
  <2> HIDE DEF e
  <2> QED
    BY <1>1, <1>2
<1>5. QED
  BY <1>2, <1>3, <1>4 DEF Strange

\* What stands before a text moves its matches and nothing else, if at the seam
\* it has a strange symbol or the match begins later.
Moved(e, n) == IF e = 0 THEN 0 ELSE n + e

LEMMA MatchBehind ==
  ASSUME NEW X, NEW u \in Seq(X), NEW v \in Seq(X), NEW re \in Seq(Token), NEW q \in 1..(Len(v) + 1),
         q > 1 \/ u = <<>> \/ Strange(u[Len(u)].sym, re)
  PROVE  MatchEnd(u \o v, Len(u) + q, re) = Moved(MatchEnd(v, q, re), Len(u))
<1> DEFINE t == u \o v
           k == Len(u)
           m == Len(v)
           n == m + 1 - q
           i == k + q
           e == MatchEnd(t, i, re)
           d == MatchEnd(v, q, re)
<1>1. /\ t \in Seq(X) /\ k \in Nat /\ m \in Nat /\ Len(t) = k + m
      /\ \A y \in 1..m : t[k + y] = v[y]
      /\ k # 0 => t[k] = u[k]
      /\ k = 0 \/ q > 1 \/ Strange(u[k].sym, re)
      /\ DOMAIN t = 1..Len(t) /\ DOMAIN v = 1..m
  OBVIOUS
<1> HIDE DEF t, k, m
<1>2. i \in 1..(Len(t) + 1) /\ q \in 1..(m + 1) /\ n \in Nat /\ i + n = Len(t) + 1 /\ q + n = m + 1
  BY <1>1 DEF m
<1>3. ASSUME NEW x \in 0..(n - 1) PROVE t[i + x].sym = v[q + x].sym
  <2>1. q + x \in 1..m /\ i + x = k + (q + x)
    BY <1>1, <1>2
  <2>2. QED
    BY <1>1, <2>1
<1>4. Agree(t, i, v, q, n)
  BY <1>2, <1>3 DEF Agree, m
<1>5. e \in 0..(Len(t) + 1) /\ d \in 0..(m + 1)
  BY <1>1, <1>2, MatchRange DEF m
<1>6. e <= i + n /\ d <= q + n
  BY <1>1, <1>2, <1>5
<1>10. AgreeOnEdges(t, i, v, q, n, re)
  <2> SUFFICES ASSUME NEW b \in DOMAIN re, re[b].rep = "bound", NEW x \in 0..n
               PROVE  WordEdge(t, i + x, re[b].chars) <=> WordEdge(v, q + x, re[b].chars)
    BY DEF AgreeOnEdges
  <2> DEFINE y     == q + x
             W     == re[b].chars
             In(z) == z \in DOMAIN v /\ v[z].sym \in W
             On(z) == z \in DOMAIN t /\ t[z].sym \in W
  <2>1. y \in 1..(m + 1) /\ i + x = k + y /\ (i + x) - 1 = k + (y - 1) /\ y - 1 \in 0..m /\ (q > 1 => y > 1)
    BY <1>1, <1>2
  <2>2. ASSUME NEW z \in 1..(m + 1) PROVE On(k + z) <=> In(z)
    <3>1. k + z \in DOMAIN t <=> z \in DOMAIN v
      BY <1>1, <2>2
    <3>2. z \in DOMAIN v => t[k + z] = v[z]
      BY <1>1
    <3>3. QED
      BY <3>1, <3>2
  <2>3. On(k + (y - 1)) <=> In(y - 1)
    <3>1. CASE y = 1
      <4>1. ~In(y - 1) /\ k + (y - 1) = k
        BY <1>1, <3>1
      <4>2. ~On(k)
        <5>1. CASE k = 0
          BY <1>1, <5>1
        <5>2. CASE k # 0
          BY <1>1, <2>1, <3>1, <5>2 DEF Strange
        <5>3. QED
          BY <5>1, <5>2
      <4>3. QED
        BY <4>1, <4>2
    <3>2. CASE y # 1
      <4>1. y - 1 \in 1..(m + 1)
        BY <1>1, <2>1, <3>2
      <4>2. QED
        BY <2>2, <4>1
    <3>3. QED
      BY <3>1, <3>2
  <2>4. On(k + y) <=> In(y)
    BY <2>1, <2>2
  <2>5. /\ WordEdge(t, i + x, W) <=> ~(On((i + x) - 1) <=> On(i + x))
        /\ WordEdge(v, y, W) <=> ~(In(y - 1) <=> In(y))
    BY DEF WordEdge
  <2> HIDE DEF On, In, y, W
  <2>6. WordEdge(t, i + x, W) <=> WordEdge(v, y, W)
    BY <2>1, <2>3, <2>4, <2>5
  <2>7. QED
    BY <2>6 DEF y, W
<1>7. (e = 0 <=> d = 0) /\ (e # 0 => d = q + (e - i))
  <2>1. t \in Seq(X) /\ e <= i + n /\ d <= q + n /\ Agree(t, i, v, q, n) /\ AgreeOnEdges(t, i, v, q, n, re)
    BY <1>1, <1>4, <1>6, <1>10
  <2> HIDE DEF i, n
  <2>2. QED
    BY <2>1, MatchSame
<1> HIDE DEF e, d
<1>8. e = Moved(d, k)
  <2>1. CASE d = 0
    BY <1>7, <2>1 DEF Moved
  <2>2. CASE d # 0
    <3>1. e = k + d
      <4>1. d = q + (e - i) /\ i = k + q
        BY <1>7, <2>2
      <4>2. e \in Int /\ d \in Int /\ q \in Int /\ k \in Int
        BY <1>1, <1>2, <1>5
      <4> HIDE DEF i
      <4>3. QED
        BY <4>1, <4>2
    <3>2. QED
      BY <2>2, <3>1 DEF Moved
  <2>3. QED
    BY <2>1, <2>2
<1>9. QED
  BY <1>8 DEF t, e, d, k, m, i

\* A match does not see a strange symbol, nor what comes behind it.
LEMMA MatchBefore ==
  ASSUME NEW X, NEW u \in Seq(X), NEW v \in Seq(X), NEW re \in Seq(Token), NEW p \in 1..(Len(u) + 1),
         v = <<>> \/ Strange(v[1].sym, re)
  PROVE  MatchEnd(u \o v, p, re) = MatchEnd(u, p, re)
<1> DEFINE t == u \o v
           k == Len(u)
           m == Len(v)
           n == k + 1 - p
           e == MatchEnd(t, p, re)
           d == MatchEnd(u, p, re)
<1>1. /\ t \in Seq(X) /\ k \in Nat /\ m \in Nat /\ Len(t) = k + m
      /\ \A y \in 1..k : t[y] = u[y]
      /\ m # 0 => t[k + 1] = v[1]
      /\ v = <<>> => m = 0
      /\ DOMAIN t = 1..Len(t) /\ DOMAIN u = 1..k /\ DOMAIN re = 1..Len(re)
  OBVIOUS
<1> HIDE DEF t, k, m
<1>2. p \in 1..(Len(t) + 1) /\ p \in 1..(k + 1) /\ n \in Nat /\ p + n = k + 1 /\ p + n <= Len(t) + 1
  BY <1>1 DEF k
<1>3. ASSUME NEW x \in 0..(n - 1) PROVE t[p + x].sym = u[p + x].sym
  <2>1. p + x \in 1..k
    BY <1>1, <1>2
  <2>2. QED
    BY <1>1, <2>1
<1>4. Agree(t, p, u, p, n)
  BY <1>2, <1>3 DEF Agree, k
<1>5. /\ e \in 0..(Len(t) + 1) /\ d \in 0..(k + 1)
      /\ e # 0 => \A x \in p..(e - 1) : \E c \in 1..Len(re) : re[c].rep # "bound" /\ t[x].sym \in re[c].chars
  BY <1>1, <1>2, MatchRange DEF k
<1>6. e <= p + n
  <2> SUFFICES ASSUME ~(e <= p + n) PROVE FALSE
    OBVIOUS
  <2> HIDE DEF e
  <2>1. m # 0 /\ k + 1 \in p..(e - 1) /\ e # 0
    BY <1>1, <1>2, <1>5
  <2>2. \E c \in 1..Len(re) : re[c].rep # "bound" /\ v[1].sym \in re[c].chars
    BY <1>1, <1>5, <2>1
  <2>3. QED
    BY <1>1, <2>1, <2>2 DEF Strange
<1>7. d <= p + n
  BY <1>2, <1>5
<1>11. AgreeOnEdges(t, p, u, p, n, re)
  <2> SUFFICES ASSUME NEW b \in DOMAIN re, re[b].rep = "bound", NEW x \in 0..n
               PROVE  WordEdge(t, p + x, re[b].chars) <=> WordEdge(u, p + x, re[b].chars)
    BY DEF AgreeOnEdges
  <2> DEFINE y     == p + x
             W     == re[b].chars
             In(z) == z \in DOMAIN u /\ u[z].sym \in W
             On(z) == z \in DOMAIN t /\ t[z].sym \in W
  <2>1. y \in 1..(k + 1) /\ y - 1 \in 0..k
    BY <1>1, <1>2
  <2>2. ASSUME NEW z \in 0..(k + 1) PROVE On(z) <=> In(z)
    <3>1. CASE z \in 1..k
      <4>1. z \in DOMAIN t /\ z \in DOMAIN u /\ t[z] = u[z]
        BY <1>1, <3>1
      <4>2. QED
        BY <4>1
    <3>2. CASE z = 0
      BY <1>1, <3>2
    <3>3. CASE z = k + 1
      <4>1. z \notin DOMAIN u
        BY <1>1, <3>3
      <4>2. z \in DOMAIN t => m # 0 /\ t[z] = v[1]
        BY <1>1, <3>3
      <4>3. QED
        BY <1>1, <4>1, <4>2 DEF Strange
    <3>4. QED
      BY <1>1, <2>2, <3>1, <3>2, <3>3
  <2>3. (On(y - 1) <=> In(y - 1)) /\ (On(y) <=> In(y))
    <3>1. y - 1 \in 0..(k + 1) /\ y \in 0..(k + 1)
      BY <1>1, <2>1
    <3>2. QED
      BY <2>2, <3>1
  <2>4. /\ WordEdge(t, y, W) <=> ~(On(y - 1) <=> On(y))
        /\ WordEdge(u, y, W) <=> ~(In(y - 1) <=> In(y))
    BY DEF WordEdge
  <2> HIDE DEF On, In, y, W
  <2>5. WordEdge(t, y, W) <=> WordEdge(u, y, W)
    BY <2>3, <2>4
  <2>6. QED
    BY <2>5 DEF y, W
<1>8. (e = 0 <=> d = 0) /\ (e # 0 => d = p + (e - p))
  BY <1>1, <1>4, <1>6, <1>7, <1>11, MatchSame
<1> HIDE DEF e, d
<1>9. e = d
  BY <1>1, <1>2, <1>5, <1>8
<1>10. QED
  BY <1>9 DEF t, e, d

\* Where tokens that fit in take a symbol, the match takes one as well.
Takes(t, w) ==
    \A c : Fits(t, w, 1, c) /\ c[1] < c[Len(w) + 1] => Consumes(t, c[1], w)

LEMMA TakeStep ==
  ASSUME NEW X, NEW t \in Seq(X), NEW w \in Seq(Token), w # <<>>, Takes(t, Tail(w))
  PROVE  Takes(t, w)
<1> DEFINE L    == Len(w)
           rest == Tail(w)
<1> SUFFICES ASSUME NEW c, Fits(t, w, 1, c), c[1] < c[L + 1]
             PROVE  MatchEnd(t, c[1], w) > c[1]
  BY DEF Takes, Consumes
<1>1. /\ L \in Nat /\ L # 0 /\ 1 \in 1..L /\ w[1] \in Token /\ Len(t) \in Nat
      /\ rest \in Seq(Token) /\ Len(rest) = L - 1 /\ \A k \in 1..(L - 1) : rest[k] = w[k + 1]
  OBVIOUS
<1>2. /\ c \in [1..(L + 1) -> 1..(Len(t) + 1)]
      /\ \A j \in 1..L : c[j + 1] \in Ends(t, c[j], w[j])
  BY DEF Fits
<1> DEFINE p == c[1]
           q == c[2]
           d == [k \in 1..L |-> c[k + 1]]
<1> HIDE DEF L, rest
<1>3. p \in 1..(Len(t) + 1) /\ q \in 1..(Len(t) + 1) /\ q \in Ends(t, p, w[1])
  <2>1. 1 \in 1..(L + 1) /\ 2 \in 1..(L + 1) /\ 1 + 1 = 2
    BY <1>1
  <2>2. QED
    BY <1>1, <1>2, <2>1
<1>4. Fits(t, rest, 1, d) /\ d[1] = q /\ d[L] = c[L + 1]
  <2>1. Len(rest) + 1 = L
    BY <1>1
  <2>2. d \in [1..L -> 1..(Len(t) + 1)]
    BY <1>1, <1>2
  <2>3. ASSUME NEW j \in 1..(L - 1) PROVE d[j + 1] \in Ends(t, d[j], rest[j])
    <3>1. j \in 1..L /\ j + 1 \in 1..L /\ rest[j] = w[j + 1]
      BY <1>1
    <3>2. QED
      BY <1>2, <3>1
  <2>4. d[1] = q /\ d[L] = c[L + 1]
    <3>1. 1 \in 1..L /\ L \in 1..L /\ 1 + 1 = 2
      BY <1>1
    <3>2. QED
      BY <3>1
  <2> HIDE DEF d
  <2>5. QED
    BY <1>1, <2>1, <2>2, <2>3, <2>4 DEF Fits
<1>5. MatchEnd(t, q, rest) # 0
  BY <1>1, <1>3, <1>4, MatchFits
<1>6. p <= q
  <2>1. Ends(t, p, w[1]) \in SUBSET (p..(Len(t) + 1))
    BY <1>1, <1>3, EndsInside
  <2> HIDE DEF p, q
  <2>2. QED
    BY <1>3, <2>1
<1> DEFINE A == {r \in Ends(t, p, w[1]) : MatchEnd(t, r, rest) # 0}
           m == Max(A)
           e == MatchEnd(t, p, w)
<1>7. TakesFirst(t, p, w[1], rest, e)
  BY <1>3, MatchCons DEF rest
<1>8. m \in A /\ q <= m /\ e = MatchEnd(t, m, rest)
  BY <1>3, <1>5, <1>7 DEF TakesFirst
<1>9. m \in 1..(Len(t) + 1)
  <2>1. Ends(t, p, w[1]) \in SUBSET (p..(Len(t) + 1))
    BY <1>1, <1>3, EndsInside
  <2>2. m \in p..(Len(t) + 1)
    BY <1>8, <2>1
  <2> HIDE DEF p, m
  <2>3. QED
    BY <1>1, <1>3, <2>2
<1>10. e # 0 /\ m <= e /\ e \in 0..(Len(t) + 1)
  <2>1. MatchEnd(t, m, rest) # 0
    BY <1>8
  <2> HIDE DEF m, e
  <2>2. QED
    BY <1>1, <1>8, <1>9, <2>1, MatchRange
<1>11. CASE p < m
  <2> HIDE DEF p, q, m, e
  <2>1. p < e
    BY <1>3, <1>9, <1>10, <1>11
  <2>2. QED
    BY <1>3, <1>10, <2>1 DEF p, e
<1>12. CASE ~(p < m)
  <2>1. m = q /\ p = q
    <3> HIDE DEF p, q, m, e
    <3> QED
      BY <1>3, <1>6, <1>8, <1>9, <1>12
  <2>2. d[1] < d[Len(rest) + 1]
    <3>1. Len(rest) + 1 = L
      BY <1>1
    <3>2. QED
      BY <1>4, <2>1, <3>1 DEF L
  <2>3. Consumes(t, q, rest)
    <3> HIDE DEF d
    <3> QED
      BY <1>4, <2>2 DEF Takes, rest
  <2>4. e > p
    BY <1>8, <2>1, <2>3 DEF Consumes
  <2>5. QED
    BY <2>4
<1>13. QED
  BY <1>11, <1>12

LEMMA MatchTakes ==
  ASSUME NEW X, NEW t \in Seq(X), NEW re \in Seq(Token)
  PROVE  Takes(t, re)
<1> DEFINE T == {n \in Nat : \A w \in Seq(Token) : Len(w) = n => Takes(t, w)}
<1>1. 0 \in T
  <2> SUFFICES ASSUME NEW w \in Seq(Token), Len(w) = 0, NEW c, Fits(t, w, 1, c), c[1] < c[Len(w) + 1]
               PROVE  FALSE
    BY DEF Takes
  <2>1. c[1] < c[1] /\ c[1] \in 1..(Len(t) + 1)
    BY DEF Fits
  <2>2. QED
    BY <2>1
<1>2. ASSUME NEW n \in Nat, n \in T PROVE n + 1 \in T
  <2> SUFFICES ASSUME NEW w \in Seq(Token), Len(w) = n + 1 PROVE Takes(t, w)
    OBVIOUS
  <2>1. w # <<>> /\ Tail(w) \in Seq(Token) /\ Len(Tail(w)) = n
    OBVIOUS
  <2>2. Takes(t, Tail(w))
    BY <1>2, <2>1
  <2>3. QED
    BY <2>1, <2>2, TakeStep
<1>3. Len(re) \in T
  <2>1. Len(re) \in Nat /\ Len(re) \in 0..Len(re)
    OBVIOUS
  <2> HIDE DEF T
  <2>2. \A n \in 0..Len(re) : n # Len(re) /\ n \in T => n + 1 \in T
    BY <1>2, <2>1
  <2>3. QED
    BY <1>1, <2>1, <2>2, Climb
<1>4. QED
  BY <1>3
=============================================================================
