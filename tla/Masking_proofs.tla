--------------------------- MODULE Masking_proofs ---------------------------
(***************************************************************************)
(* Proofs about MaskLine, for every line and all rules: what a text shows  *)
(* only shrinks from rule to rule, so a member that a field rule removed   *)
(* is not brought back, and neither is a match that a rule replaced.  What *)
(* logcloak audit concludes from a scan with all patterns rests on that.   *)
(***************************************************************************)
EXTENDS Audit, RegexLemmas

-----------------------------------------------------------------------------
(* One regular expression.                                                 *)

\* What a text consists of; the provers do not know a quoted word for a string.
Symbols == STRING \cup {" ", ",", "u0026"}

\* Texts that show no cells but those of I.
Texts(I) == Seq([sym : Symbols, id : I])

\* The expression of a rule for text.
Expression(w) == w \in Seq(Token)

\* What stands before the symbol at i for an empty match.
Empty(t, w, s, i) == IF MatchEnd(t, i, w) = i THEN <<Cell(s)>> ELSE <<>>

\* What a search that goes on at i makes of the rest of t.
Rest(t, w, s, i, from) ==
    IF i > Len(t) THEN <<>>
    ELSE IF Consumes(t, i, w) THEN <<Cell(s)>> \o from[MatchEnd(t, i, w)]
    ELSE <<t[i]>> \o Empty(t, w, s, i + 1) \o from[i + 1]

LEMMA EmptyTyped ==
  ASSUME NEW I, Added \in I, NEW t, NEW w, NEW s \in Symbols, NEW i
  PROVE  Empty(t, w, s, i) \in Texts(I)
<1> DEFINE C == [sym : Symbols, id : I]
<1>1. Cell(s) \in C
  BY DEF Cell
<1>2. \A x \in C : <<x>> \in Seq(C)
  <2> HIDE DEF C
  <2> QED
    OBVIOUS
<1>3. <<>> \in Seq(C)
  OBVIOUS
<1>4. QED
  BY <1>1, <1>2, <1>3 DEF Empty, Texts

LEMMA ConsumesRange ==
  ASSUME NEW C, NEW t \in Seq(C), NEW w, Expression(w), NEW i \in 1..(Len(t) + 1), Consumes(t, i, w)
  PROVE  MatchEnd(t, i, w) \in (i + 1)..(Len(t) + 1) /\ i \in 1..Len(t)
<1> DEFINE e == MatchEnd(t, i, w)
<1>1. e \in 0..(Len(t) + 1) /\ e > i /\ Len(t) \in Nat
  BY MatchRange DEF Expression, Consumes
<1> HIDE DEF e
<1>2. e \in (i + 1)..(Len(t) + 1) /\ i \in 1..Len(t)
  BY <1>1
<1>3. QED
  BY <1>2 DEF e

LEMMA RestTyped ==
  ASSUME NEW I, Added \in I, NEW t \in Texts(I), NEW w, Expression(w), NEW s \in Symbols,
         NEW i \in 1..(Len(t) + 1), NEW f,
         \A j \in 1..(Len(t) + 1) : i < j => f[j] \in Texts(I)
  PROVE  Rest(t, w, s, i, f) \in Texts(I)
<1> DEFINE C == [sym : Symbols, id : I]
           e == MatchEnd(t, i, w)
<1>1. t \in Seq(C) /\ Len(t) \in Nat
  BY DEF Texts
<1>2. Cell(s) \in C /\ \A k \in 1..Len(t) : t[k] \in C
  <2>1. Cell(s) \in C
    BY DEF Cell
  <2> HIDE DEF C
  <2>2. \A k \in 1..Len(t) : t[k] \in C
    BY <1>1
  <2>3. QED
    BY <2>1, <2>2
<1> DEFINE takes == Consumes(t, i, w)
<1>3. takes => e \in 1..(Len(t) + 1) /\ i < e
  <2> HIDE DEF C
  <2>1. takes => e \in (i + 1)..(Len(t) + 1)
    BY <1>1, ConsumesRange
  <2> HIDE DEF e, takes
  <2>2. QED
    BY <1>1, <2>1
<1> HIDE DEF C, e, takes
<1>4. CASE i > Len(t)
  BY <1>4 DEF Rest, Texts
<1>5. CASE ~(i > Len(t)) /\ takes
  <2>1. f[e] \in Seq(C)
    BY <1>3, <1>5 DEF Texts, C
  <2>2. Rest(t, w, s, i, f) = <<Cell(s)>> \o f[e]
    BY <1>5 DEF Rest, e, takes
  <2>3. <<Cell(s)>> \in Seq(C)
    <3>1. \A x \in C : <<x>> \in Seq(C)
      OBVIOUS
    <3>2. QED
      BY <1>2, <3>1
  <2>4. QED
    BY <2>1, <2>2, <2>3, ConcatSeq DEF Texts, C
<1>6. CASE ~(i > Len(t)) /\ ~takes
  <2> DEFINE u == Empty(t, w, s, i + 1)
  <2>1. i \in 1..Len(t) /\ i + 1 \in 1..(Len(t) + 1) /\ i < i + 1
    BY <1>1, <1>6
  <2>2. f[i + 1] \in Seq(C) /\ u \in Seq(C)
    BY <2>1, EmptyTyped DEF Texts, C
  <2>3. Rest(t, w, s, i, f) = (<<t[i]>> \o u) \o f[i + 1]
    BY <1>6 DEF Rest, takes
  <2>4. <<t[i]>> \in Seq(C)
    BY <1>2, <2>1
  <2> HIDE DEF u
  <2>5. <<t[i]>> \o u \in Seq(C)
    BY <2>2, <2>4, ConcatSeq
  <2>6. (<<t[i]>> \o u) \o f[i + 1] \in Seq(C)
    BY <2>2, <2>5, ConcatSeq
  <2>7. QED
    BY <2>3, <2>6 DEF Texts, C
<1>7. QED
  BY <1>4, <1>5, <1>6

Rests(t, w, s, I, from) ==
    /\ from \in [1..(Len(t) + 1) -> Texts(I)]
    /\ \A i \in 1..(Len(t) + 1) : from[i] = Rest(t, w, s, i, from)

\* ReplaceMatches looks up the first entry of a table of rests.
LEMMA ReplaceTable ==
  ASSUME NEW I, Added \in I, NEW t \in Texts(I), NEW w, Expression(w), NEW s \in Symbols
  PROVE  \E from : Rests(t, w, s, I, from) /\ ReplaceMatches(t, w, s) = Empty(t, w, s, 1) \o from[1]
<1> DEFINE N == Len(t)
           P == 1..(N + 1)
           X == Texts(I)
           Solved(f) == f = [i \in P |-> Rest(t, w, s, i, f)]
           from == CHOOSE f : Solved(f)
           rank == [i \in P |-> N + 1 - i]
           body == [i \in P |-> [f \in [P -> X] |-> Rest(t, w, s, i, f)]]
<1>1. N \in Nat /\ t \in Seq([sym : Symbols, id : I])
  BY DEF Texts
<1>2. ReplaceMatches(t, w, s) = Empty(t, w, s, 1) \o from[1]
  BY DEF ReplaceMatches, Rest, Empty
<1>3. \A i \in P : \A f : (\A j \in P : i < j => f[j] \in X) => Rest(t, w, s, i, f) \in X
  BY RestTyped
<1>4. \A i \in P : \A g, h :
          (\A j \in P : i < j => g[j] = h[j]) => Rest(t, w, s, i, g) = Rest(t, w, s, i, h)
  <2> SUFFICES ASSUME NEW i \in P, NEW g, NEW h, \A j \in P : i < j => g[j] = h[j]
               PROVE  Rest(t, w, s, i, g) = Rest(t, w, s, i, h)
    OBVIOUS
  <2> DEFINE e == MatchEnd(t, i, w)
             takes == Consumes(t, i, w)
  <2>1. takes => e \in P /\ i < e
    <3>1. takes => e \in (i + 1)..(Len(t) + 1)
      BY <1>1, ConsumesRange
    <3> HIDE DEF e, takes
    <3>2. QED
      BY <1>1, <3>1
  <2>2. ~(i > N) => i + 1 \in P /\ i < i + 1
    BY <1>1
  <2> HIDE DEF e, takes, P
  <2>3. QED
    BY <2>1, <2>2 DEF Rest, e, takes
<1> HIDE DEF N
<1>5. \E f \in [P -> X] : \A i \in P : f[i] = body[i][f]
  <2>1. rank \in [P -> 0..N]
    BY <1>1
  <2>2. body \in [P -> [[P -> X] -> X]]
    <3>1. \A i \in P : \A f \in [P -> X] : Rest(t, w, s, i, f) \in X
      BY <1>3
    <3> HIDE DEF P, X
    <3>2. QED
      BY <3>1
  <2>3. ASSUME NEW i \in P, NEW g \in [P -> X], NEW h \in [P -> X],
               \A j \in P : rank[j] < rank[i] => g[j] = h[j]
        PROVE  body[i][g] = body[i][h]
    <3>1. \A j \in P : i < j => rank[j] < rank[i]
      BY <1>1
    <3>2. Rest(t, w, s, i, g) = Rest(t, w, s, i, h)
      BY <1>4, <2>3, <3>1
    <3> HIDE DEF P, X
    <3>3. QED
      BY <3>2
  <2>4. X # {}
    BY DEF Texts
  <2> HIDE DEF body, rank, X, P
  <2>5. Descends(P, X, N, rank, body)
    BY <2>1, <2>2, <2>3 DEF Descends
  <2>6. QED
    BY <1>1, <2>4, <2>5, Recursion
<1>6. PICK f \in [P -> X] : \A i \in P : f[i] = body[i][f]
  BY <1>5
<1>7. Solved(f)
  <2> HIDE DEF P, X
  <2>1. \A i \in P : f[i] = Rest(t, w, s, i, f)
    BY <1>6
  <2>2. f = [i \in P |-> f[i]]
    BY <1>6
  <2>3. QED
    BY <2>1, <2>2
<1>8. Solved(from)
  <2> HIDE DEF Solved
  <2> QED
    BY <1>7, Zenon
<1> HIDE DEF from
<1>9. \A i \in P : from[i] = Rest(t, w, s, i, from)
  <2> HIDE DEF P
  <2> QED
    BY <1>8
<1>10. \A i \in P : from[i] \in X
  <2> DEFINE T == {i \in P : from[i] \in X}
             K == N + 1
  <2>1. K \in Nat /\ P = 1..K
    BY <1>1
  <2>2. ASSUME NEW i \in P, \A j \in P : i < j => j \in T
        PROVE  i \in T
    BY <1>3, <1>9, <2>2
  <2> HIDE DEF T, K, P
  <2>3. \A i \in P : i \in T
    BY <2>1, <2>2, FromTheEnd
  <2>4. QED
    BY <2>3 DEF T
<1>11. from \in [P -> X]
  <2> HIDE DEF P, X
  <2>1. from = [i \in P |-> from[i]]
    BY <1>8, <1>9
  <2>2. QED
    BY <1>10, <2>1
<1>12. QED
  BY <1>2, <1>9, <1>11 DEF N, Rests

\* A regular expression shows nothing that the text did not show.
LEMMA ReplaceTyped ==
  ASSUME NEW I, Added \in I, NEW t \in Texts(I), NEW w, Expression(w), NEW s \in Symbols
  PROVE  ReplaceMatches(t, w, s) \in Texts(I)
<1>1. PICK from : /\ Rests(t, w, s, I, from)
                  /\ ReplaceMatches(t, w, s) = Empty(t, w, s, 1) \o from[1]
  BY ReplaceTable
<1>2. 1 \in 1..(Len(t) + 1)
  BY DEF Texts
<1>3. from[1] \in Texts(I) /\ Empty(t, w, s, 1) \in Texts(I)
  BY <1>1, <1>2, EmptyTyped DEF Rests
<1>4. QED
  BY <1>1, <1>3, ConcatSeq DEF Texts

\* A match of w in t may end at p.
EndsAt(t, w, p) == \E i \in 1..(Len(t) + 1) : MatchEnd(t, i, w) = p

\* A cell that stems from position y of t, or none when y is 0, comes behind what
\* stood before position p.
Follows(t, w, p, y) == y = p \/ (y = 0 /\ MatchesAt(t, p, w))

\* q[x] is the position of t from which cell x of r stems, and 0 for a replacement,
\* when a search that goes on at i has made r of the rest of t.
Sources(t, w, s, i, r, q) ==
    /\ q \in [1..Len(r) -> 0..Len(t)]
    /\ \A x \in 1..Len(r) : /\ q[x] = 0 => r[x].sym = s
                            /\ q[x] # 0 => r[x] = t[q[x]] /\ ~Consumes(t, q[x], w)
    /\ \A x \in 1..(Len(r) - 1) : /\ q[x] # 0 => Follows(t, w, q[x] + 1, q[x + 1])
                                  /\ q[x] = 0 /\ q[x + 1] # 0 => EndsAt(t, w, q[x + 1])
    /\ Len(r) = 0 => i = Len(t) + 1
    /\ Len(r) # 0 => Follows(t, w, i, q[1]) /\ (q[Len(r)] # 0 => q[Len(r)] = Len(t))

\* At i the search puts c, which stems from p, and goes on at e.
Puts(t, w, s, i, e, c, p) ==
    \/ p = 0 /\ c.sym = s /\ MatchEnd(t, i, w) = e /\ e # 0
    \/ p # 0 /\ p = i /\ c = t[i] /\ e = i + 1 /\ ~Consumes(t, i, w)

\* The same of a text that begins with a cell of its own, a replacement or the next one.
LEMMA SourcesStep ==
  ASSUME NEW C, NEW t \in Seq(C), NEW w, NEW s, NEW i \in 1..(Len(t) + 1), NEW e,
         NEW r \in Seq(C), NEW c \in C, NEW q, Sources(t, w, s, e, r, q), NEW p \in 0..Len(t),
         Puts(t, w, s, i, e, c, p)
  PROVE  \E z : Sources(t, w, s, i, <<c>> \o r, z)
<1> DEFINE N == Len(t)
           M == Len(r)
           R == <<c>> \o r
           z == [x \in 1..(M + 1) |-> IF x = 1 THEN p ELSE q[x - 1]]
<1>1. /\ R \in Seq(C) /\ Len(R) = M + 1 /\ M \in Nat /\ R[1] = c
      /\ \A x \in 2..(M + 1) : R[x] = r[x - 1]
  OBVIOUS
<1>2. /\ N \in Nat /\ i \in 1..(N + 1) /\ p \in 0..N
      /\ p = 0 => c.sym = s /\ MatchEnd(t, i, w) = e /\ e # 0
      /\ p # 0 => p = i /\ c = t[i] /\ e = i + 1 /\ ~Consumes(t, i, w)
  BY DEF Puts
<1>3. /\ q \in [1..M -> 0..N]
      /\ \A x \in 1..M : /\ q[x] = 0 => r[x].sym = s
                         /\ q[x] # 0 => r[x] = t[q[x]] /\ ~Consumes(t, q[x], w)
      /\ \A x \in 1..(M - 1) : /\ q[x] # 0 => Follows(t, w, q[x] + 1, q[x + 1])
                               /\ q[x] = 0 /\ q[x + 1] # 0 => EndsAt(t, w, q[x + 1])
      /\ M = 0 => e = N + 1
      /\ M # 0 => Follows(t, w, e, q[1]) /\ (q[M] # 0 => q[M] = N)
  BY DEF Sources
<1>4. z[1] = p /\ \A x \in 2..(M + 1) : z[x] = q[x - 1] /\ x - 1 \in 1..M
  BY <1>1
<1>5. z \in [1..(M + 1) -> 0..N]
  BY <1>1, <1>2, <1>3
<1> HIDE DEF N, M, R, z
<1>6. ASSUME NEW x \in 1..(M + 1)
      PROVE  /\ z[x] = 0 => R[x].sym = s
             /\ z[x] # 0 => R[x] = t[z[x]] /\ ~Consumes(t, z[x], w)
  <2>1. CASE x = 1
    BY <1>1, <1>2, <1>4, <2>1
  <2>2. CASE x # 1
    <3>1. x \in 2..(M + 1)
      BY <1>1, <2>2
    <3>2. R[x] = r[x - 1] /\ z[x] = q[x - 1] /\ x - 1 \in 1..M
      BY <1>1, <1>4, <3>1
    <3>3. QED
      BY <1>3, <3>2
  <2>3. QED
    BY <2>1, <2>2
<1>7. ASSUME NEW x \in 1..M
      PROVE  /\ z[x] # 0 => Follows(t, w, z[x] + 1, z[x + 1])
             /\ z[x] = 0 /\ z[x + 1] # 0 => EndsAt(t, w, z[x + 1])
  <2>1. CASE x = 1
    <3>1. z[x] = p /\ z[x + 1] = q[1] /\ M # 0
      <4>1. 2 \in 2..(M + 1) /\ x + 1 = 2 /\ 2 - 1 = 1 /\ M # 0
        BY <1>1, <2>1
      <4>2. QED
        BY <1>4, <2>1, <4>1
    <3>2. Follows(t, w, e, q[1])
      BY <1>3, <3>1
    <3>3. p # 0 => Follows(t, w, p + 1, q[1])
      BY <1>2, <3>2
    <3>4. p = 0 /\ q[1] # 0 => EndsAt(t, w, q[1])
      BY <1>2, <3>2 DEF Follows, EndsAt, N
    <3>5. QED
      BY <3>1, <3>3, <3>4
  <2>2. CASE x # 1
    <3>1. x \in 2..(M + 1) /\ x + 1 \in 2..(M + 1) /\ x - 1 \in 1..(M - 1) /\ (x + 1) - 1 = (x - 1) + 1
      BY <1>1, <2>2
    <3>2. z[x] = q[x - 1] /\ z[x + 1] = q[(x - 1) + 1]
      BY <1>4, <3>1
    <3>3. QED
      BY <1>3, <3>1, <3>2
  <2>3. QED
    BY <2>1, <2>2
<1>8. Follows(t, w, i, z[1])
  BY <1>2, <1>4 DEF Follows, MatchesAt
<1>9. z[M + 1] # 0 => z[M + 1] = N
  <2>1. CASE M = 0
    BY <1>2, <1>3, <1>4, <2>1
  <2>2. CASE M # 0
    <3>1. M + 1 \in 2..(M + 1) /\ (M + 1) - 1 = M
      BY <1>1, <2>2
    <3>2. z[M + 1] = q[M]
      BY <1>4, <3>1
    <3>3. QED
      BY <1>3, <2>2, <3>2
  <2>3. QED
    BY <2>1, <2>2
<1>10. Sources(t, w, s, i, R, z)
  <2>1. Len(R) = M + 1 /\ Len(R) - 1 = M /\ Len(R) # 0 /\ Len(t) = N
    BY <1>1 DEF N
  <2>2. QED
    BY <1>5, <1>6, <1>7, <1>8, <1>9, <2>1 DEF Sources
<1>11. QED
  BY <1>10 DEF R

\* An empty match at i puts a replacement before the rest.
LEMMA SourcesEmpty ==
  ASSUME NEW I, Added \in I, NEW t \in Texts(I), NEW w, NEW s \in Symbols, NEW i \in 1..(Len(t) + 1),
         NEW r \in Texts(I), \E q : Sources(t, w, s, i, r, q)
  PROVE  \E q : Sources(t, w, s, i, Empty(t, w, s, i) \o r, q)
<1> DEFINE C == [sym : Symbols, id : I]
<1>1. Cell(s) \in C /\ Cell(s).sym = s /\ t \in Seq(C) /\ r \in Seq(C) /\ Len(t) \in Nat
  BY DEF Cell, Texts
<1>2. PICK q : Sources(t, w, s, i, r, q)
  OBVIOUS
<1>3. CASE MatchEnd(t, i, w) = i
  <2>1. Empty(t, w, s, i) = <<Cell(s)>>
    BY <1>3 DEF Empty
  <2>2. 0 \in 0..Len(t) /\ i # 0
    BY <1>1
  <2>3. Puts(t, w, s, i, i, Cell(s), 0)
    BY <1>1, <1>3, <2>2 DEF Puts
  <2> HIDE DEF C
  <2>4. \E z : Sources(t, w, s, i, <<Cell(s)>> \o r, z)
    BY <1>1, <1>2, <2>2, <2>3, SourcesStep
  <2>5. QED
    BY <2>1, <2>4
<1>4. CASE MatchEnd(t, i, w) # i
  <2>1. Empty(t, w, s, i) = <<>>
    BY <1>4 DEF Empty
  <2>2. <<>> \o r = r
    <3> HIDE DEF C
    <3> QED
      BY <1>1
  <2>3. QED
    BY <1>2, <2>1, <2>2
<1>5. QED
  BY <1>3, <1>4

LEMMA Survive ==
  ASSUME NEW I, Added \in I, NEW t \in Texts(I), NEW w, Expression(w), NEW s \in Symbols
  PROVE  \E q : Sources(t, w, s, 1, ReplaceMatches(t, w, s), q)
<1> DEFINE C == [sym : Symbols, id : I]
           N == Len(t)
           P == 1..(N + 1)
<1>1. PICK from : /\ Rests(t, w, s, I, from)
                  /\ ReplaceMatches(t, w, s) = Empty(t, w, s, 1) \o from[1]
  BY ReplaceTable
<1>2. N \in Nat /\ t \in Seq(C) /\ \A k \in 1..N : t[k] \in C
  <2>1. t \in Seq(C)
    BY DEF Texts
  <2> HIDE DEF C
  <2>2. QED
    BY <2>1
<1>3. Cell(s) \in C /\ Cell(s).sym = s
  BY DEF Cell
<1>4. \A i \in P : from[i] \in Texts(I) /\ from[i] \in Seq(C) /\ from[i] = Rest(t, w, s, i, from)
  BY <1>1 DEF Rests, Texts
<1> DEFINE T == {i \in P : \E q : Sources(t, w, s, i, from[i], q)}
<1> HIDE DEF C, N
<1>5. ASSUME NEW i \in P, \A j \in P : i < j => j \in T
      PROVE  i \in T
  <2>1. CASE i = N + 1
    <3>0. i > Len(t)
      BY <1>2, <2>1 DEF N
    <3>1. from[i] = <<>>
      BY <1>4, <3>0 DEF Rest
    <3>2. Sources(t, w, s, i, <<>>, [x \in 1..0 |-> 0])
      <4>1. Len(<<>>) = 0 /\ 1..0 = {} /\ 1..(0 - 1) = {}
        OBVIOUS
      <4>2. QED
        BY <2>1, <4>1 DEF Sources, N
    <3>3. QED
      BY <3>1, <3>2
  <2>2. CASE i # N + 1 /\ Consumes(t, i, w)
    <3> DEFINE e == MatchEnd(t, i, w)
    <3>1. e \in (i + 1)..(N + 1) /\ i \in 1..N
      BY <1>2, <2>2, ConsumesRange DEF N
    <3>2. e \in P /\ i < e /\ e # 0 /\ ~(i > Len(t)) /\ 0 \in 0..Len(t) /\ i \in 1..(Len(t) + 1)
      <4> HIDE DEF e
      <4> QED
        BY <1>2, <3>1 DEF N
    <3>3. from[i] = <<Cell(s)>> \o from[e]
      BY <1>4, <2>2, <3>2 DEF Rest
    <3>4. PICK q : Sources(t, w, s, e, from[e], q)
      BY <1>5, <3>2
    <3>5. Puts(t, w, s, i, e, Cell(s), 0)
      BY <1>3, <3>2 DEF Puts
    <3> HIDE DEF e
    <3>6. \E z : Sources(t, w, s, i, <<Cell(s)>> \o from[e], z)
      BY <1>2, <1>3, <1>4, <3>2, <3>4, <3>5, SourcesStep
    <3>7. QED
      BY <3>3, <3>6
  <2>3. CASE i # N + 1 /\ ~Consumes(t, i, w)
    <3> DEFINE e == i + 1
               u == Empty(t, w, s, e)
               r == u \o from[e]
    <3>1. e \in P /\ i < e /\ i \in 1..N /\ ~(i > Len(t)) /\ i # 0 /\ i \in 0..Len(t) /\ i \in 1..(Len(t) + 1)
          /\ e \in 1..(Len(t) + 1)
      BY <1>2, <2>3 DEF N
    <3>2. from[i] = (<<t[i]>> \o u) \o from[e]
      BY <1>4, <2>3, <3>1 DEF Rest
    <3>3. \E q : Sources(t, w, s, e, from[e], q)
      BY <1>5, <3>1
    <3>4. t[i] \in C /\ e = i + 1 /\ from[e] \in Texts(I)
      BY <1>2, <1>4, <3>1
    <3> HIDE DEF e
    <3>5. PICK q : Sources(t, w, s, e, r, q)
      BY <3>1, <3>3, <3>4, SourcesEmpty
    <3>6. u \in Seq(C) /\ <<t[i]>> \in Seq(C) /\ from[e] \in Seq(C)
      BY <1>4, <3>1, <3>4, EmptyTyped DEF Texts, C
    <3> HIDE DEF u
    <3>7. r \in Seq(C)
      BY <3>6, ConcatSeq
    <3>8. from[i] = <<t[i]>> \o r
      <4>1. Regroup(<<t[i]>>, u, from[e])
        BY <3>6, Associative
      <4>2. QED
        BY <3>2, <4>1 DEF Regroup
    <3> HIDE DEF r
    <3>9. Puts(t, w, s, i, e, t[i], i)
      BY <2>3, <3>1, <3>4 DEF Puts
    <3>10. \E z : Sources(t, w, s, i, <<t[i]>> \o r, z)
      BY <1>2, <3>1, <3>4, <3>5, <3>7, <3>9, SourcesStep
    <3>11. QED
      BY <3>8, <3>10
  <2>4. QED
    BY <2>1, <2>2, <2>3
<1>6. \A i \in P : i \in T
  <2> DEFINE K == N + 1
  <2>1. K \in Nat /\ P = 1..K
    BY <1>2
  <2> HIDE DEF T, K, P
  <2>2. QED
    BY <1>5, <2>1, FromTheEnd
<1>7. 1 \in P /\ 1 \in 1..(Len(t) + 1)
  BY <1>2 DEF N
<1>8. \E q : Sources(t, w, s, 1, from[1], q)
  BY <1>6, <1>7
<1>9. \E q : Sources(t, w, s, 1, Empty(t, w, s, 1) \o from[1], q)
  BY <1>4, <1>7, <1>8, SourcesEmpty
<1>10. QED
  BY <1>1, <1>9

\* Where a match of w begins and where it ends there is every boundary v asks for.
LEMMA DelimitedEdges ==
  ASSUME NEW C, NEW t \in Seq(C), NEW w, Expression(w), NEW v, Delimits(w, v),
         NEW k \in DOMAIN v, v[k].rep = "bound", NEW p \in 1..(Len(t) + 1),
         MatchesAt(t, p, w) \/ EndsAt(t, w, p)
  PROVE  WordEdge(t, p, v[k].chars)
<1> DEFINE L == Len(w)
<1>1. w # <<>> /\ w[1] = v[k] /\ w[L] = v[k]
  BY DEF Delimits
<1>2. L \in Nat /\ 1 \in 1..L /\ L \in 1..L /\ w \in Seq(Token) /\ Len(t) \in Nat
  BY <1>1 DEF Expression
<1>3. PICK i \in 1..(Len(t) + 1) : MatchEnd(t, i, w) # 0 /\ (p = i \/ p = MatchEnd(t, i, w))
  BY <1>2 DEF MatchesAt, EndsAt
<1>4. PICK c : Fits(t, w, 1, c) /\ c[1] = i /\ c[L + 1] = MatchEnd(t, i, w)
  BY <1>2, <1>3, MatchFits
<1>5. \A j \in 1..L : c[j + 1] \in Ends(t, c[j], w[j])
  BY <1>4 DEF Fits
<1> HIDE DEF L
<1>6. /\ c[1 + 1] \in Ends(t, c[1], v[k])
      /\ c[L + 1] \in Ends(t, c[L], v[k])
  BY <1>1, <1>2, <1>5
<1>7. WordEdge(t, c[1], v[k].chars)
  BY <1>6 DEF Ends
<1>8. WordEdge(t, c[L + 1], v[k].chars)
  BY <1>6 DEF Ends
<1>9. QED
  BY <1>3, <1>4, <1>7, <1>8

\* A word symbol of words stands at position i of t.
WordAt(t, i, words) == i \in DOMAIN t /\ t[i].sym \in words

\* A match in what is left was a match before, and not one of the rule that ran.
LEMMA MatchOld ==
  ASSUME NEW I, Added \in I, NEW t \in Texts(I), NEW w, Expression(w), NEW s \in Symbols,
         NEW v, Expression(v), Foreign(s, v), Delimits(w, v),
         NEW i \in DOMAIN ReplaceMatches(t, w, s), Consumes(ReplaceMatches(t, w, s), i, v)
  PROVE  \E p \in DOMAIN t : Consumes(t, p, v) /\ ~Consumes(t, p, w)
<1> DEFINE C == [sym : Symbols, id : I]
           r == ReplaceMatches(t, w, s)
           e == MatchEnd(r, i, v)
           L == Len(v)
           N == Len(t)
           M == Len(r)
<1>1. t \in Seq(C) /\ r \in Seq(C)
  BY ReplaceTyped DEF Texts
<1>2. v \in Seq(Token) /\ L \in Nat /\ DOMAIN v = 1..L /\ \A k \in 1..L : v[k] \in Token
  BY DEF Expression
<1>3. PICK q : Sources(t, w, s, 1, r, q)
  BY Survive
<1> HIDE DEF C
<1>4. N \in Nat /\ DOMAIN t = 1..N /\ M \in Nat /\ DOMAIN r = 1..M /\ i \in 1..M
  <2>1. i \in DOMAIN r
    OBVIOUS
  <2> HIDE DEF r
  <2>2. QED
    BY <1>1, <2>1
<1>5. Consumes(r, i, v)
  OBVIOUS
<1> HIDE DEF r
<1>6. e \in (i + 1)..(M + 1)
  BY <1>1, <1>4, <1>5, ConsumesRange
<1>7. PICK c : Fits(r, v, 1, c) /\ c[1] = i /\ c[L + 1] = e
  <2>1. i \in 1..(Len(r) + 1) /\ e # 0
    <3> HIDE DEF e
    <3> QED
      BY <1>4, <1>6
  <2>2. QED
    BY <1>1, <1>2, <2>1, MatchFits
<1>8. /\ \A k \in 1..L : c[k] <= c[k + 1]
      /\ \A k \in 1..(L + 1) : c[k] \in 1..(M + 1) /\ i <= c[k] /\ c[k] <= e
      /\ \A x \in i..(e - 1) : \E k \in 1..L : v[k].rep # "bound" /\ r[x].sym \in v[k].chars
  BY <1>1, <1>2, <1>7, FitsGrow
<1>9. \A k \in 1..L : c[k + 1] \in Ends(r, c[k], v[k])
  BY <1>7 DEF Fits
<1>10. /\ q \in [1..M -> 0..N]
       /\ \A x \in 1..M : /\ q[x] = 0 => r[x].sym = s
                          /\ q[x] # 0 => r[x] = t[q[x]] /\ ~Consumes(t, q[x], w)
       /\ \A x \in 1..(M - 1) : /\ q[x] # 0 => Follows(t, w, q[x] + 1, q[x + 1])
                                /\ q[x] = 0 /\ q[x + 1] # 0 => EndsAt(t, w, q[x + 1])
       /\ M # 0 => Follows(t, w, 1, q[1]) /\ (q[M] # 0 => q[M] = N)
  BY <1>3 DEF Sources
<1> HIDE DEF e, L, N, M
<1>11. \A x \in i..(e - 1) : x \in 1..M /\ q[x] # 0
  <2> SUFFICES ASSUME NEW x \in i..(e - 1) PROVE x \in 1..M /\ q[x] # 0
    OBVIOUS
  <2>1. x \in 1..M
    BY <1>4, <1>6
  <2>2. r[x].sym # s
    BY <1>2, <1>8 DEF Foreign
  <2>3. QED
    BY <1>10, <2>1, <2>2
<1> DEFINE p == q[i]
<1>12. p \in 1..N
  <2>1. i \in i..(e - 1)
    BY <1>4, <1>6
  <2>2. p # 0 /\ p \in 0..N
    BY <1>10, <1>11, <2>1
  <2> HIDE DEF p
  <2>3. QED
    BY <1>4, <2>2
<1>13. \A x \in i..(e - 1) : q[x] = p + (x - i)
  <2> DEFINE K == e - 1 - i
             T == {n \in 0..K : q[i + n] = p + n}
  <2>1. K \in Nat
    BY <1>4, <1>6
  <2>2. 0 \in T
    BY <1>4, <1>12, <2>1
  <2>3. ASSUME NEW n \in 0..K, n # K, n \in T
        PROVE  n + 1 \in T
    <3> DEFINE x == i + n
    <3>1. x \in i..(e - 1) /\ x + 1 \in i..(e - 1) /\ x + 1 = i + (n + 1) /\ n + 1 \in 0..K
      BY <1>4, <1>6, <2>1, <2>3
    <3>2. q[x] = p + n
      BY <2>3
    <3> HIDE DEF x, K, p
    <3>3. x \in 1..(M - 1) /\ q[x] # 0 /\ q[x + 1] # 0
      <4>1. x \in 1..M /\ x + 1 \in 1..M
        BY <1>11, <3>1
      <4>2. x \in 1..(M - 1)
        BY <1>4, <4>1
      <4>3. QED
        BY <1>11, <3>1, <4>2
    <3>4. Follows(t, w, q[x] + 1, q[x + 1])
      BY <1>10, <3>3
    <3>5. q[x + 1] = p + n + 1
      BY <3>2, <3>3, <3>4 DEF Follows
    <3>6. q[i + (n + 1)] = p + (n + 1)
      BY <1>12, <3>1, <3>5
    <3>7. QED
      BY <3>1, <3>6
  <2> HIDE DEF T
  <2>4. \A n \in 0..K : n \in T
    BY <2>1, <2>2, <2>3, Climb
  <2>5. \A x \in i..(e - 1) : x - i \in 0..K /\ i + (x - i) = x
    BY <1>4, <1>6
  <2> HIDE DEF K
  <2>6. QED
    BY <2>4, <2>5 DEF T
<1> HIDE DEF p
<1>14. \A x \in i..(e - 1) : p + (x - i) \in 1..N /\ r[x] = t[p + (x - i)]
  <2> SUFFICES ASSUME NEW x \in i..(e - 1) PROVE p + (x - i) \in 1..N /\ r[x] = t[p + (x - i)]
    OBVIOUS
  <2>1. x \in 1..M /\ q[x] # 0 /\ q[x] = p + (x - i)
    BY <1>11, <1>13
  <2>2. q[x] \in 0..N /\ r[x] = t[q[x]]
    BY <1>10, <2>1
  <2>3. q[x] \in 1..N
    BY <1>4, <2>1, <2>2
  <2>4. QED
    BY <2>1, <2>2, <2>3
<1>15. e - 1 \in i..(e - 1) /\ q[e - 1] = p + (e - 1 - i) /\ q[e - 1] # 0
  BY <1>4, <1>6, <1>11, <1>13
<1>16. p + (e - i) \in 1..(N + 1)
  <2>1. p + (e - 1 - i) \in 1..N
    BY <1>14, <1>15
  <2>2. QED
    BY <1>4, <1>6, <1>12, <2>1
<1>17. ASSUME NEW k \in 1..L, v[k].rep = "bound", NEW y \in i..e, WordEdge(r, y, v[k].chars)
       PROVE  WordEdge(t, p + (y - i), v[k].chars)
  <2> DEFINE words == v[k].chars
             z     == p + (y - i)
             edge  == WordEdge(t, z, words)
  <2>1. z \in 1..(Len(t) + 1) /\ k \in DOMAIN v
    BY <1>2, <1>4, <1>6, <1>12, <1>16, <1>17 DEF N
  <2>2. MatchesAt(t, z, w) \/ EndsAt(t, w, z) => edge
    BY <1>1, <1>17, <2>1, DelimitedEdges
  <2> HIDE DEF words
  <2>3. edge \/ (WordAt(r, y, words) <=> WordAt(t, z, words))
    <3>1. CASE y # e
      <4>1. y \in i..(e - 1)
        BY <1>4, <1>6, <1>17, <3>1
      <4>2. y \in 1..M /\ z \in 1..N /\ r[y] = t[z]
        BY <1>11, <1>14, <4>1
      <4>3. QED
        BY <1>4, <4>2 DEF WordAt
    <3>2. CASE y = e /\ e = M + 1
      <4>1. y \notin 1..M
        BY <1>4, <3>2
      <4>2. q[M] # 0 /\ M # 0 /\ e - 1 = M
        BY <1>4, <1>15, <3>2
      <4>3. p + (e - 1 - i) = N
        BY <1>10, <1>15, <4>2
      <4>4. z \notin 1..N
        BY <1>4, <1>6, <1>12, <3>2, <4>3
      <4>5. QED
        BY <1>4, <4>1, <4>4 DEF WordAt
    <3>3. CASE y = e /\ e # M + 1
      <4>1. e - 1 \in 1..(M - 1) /\ (e - 1) + 1 = e /\ q[e - 1] + 1 = z /\ e \in 1..M
        BY <1>4, <1>6, <1>12, <1>15, <3>3
      <4>2. Follows(t, w, z, q[e])
        BY <1>10, <1>15, <4>1
      <4>3. CASE MatchesAt(t, z, w)
        BY <2>2, <4>3
      <4>4. CASE q[e] = z
        <5>1. z \in Nat /\ z # 0 /\ z \in 1..N
          <6>1. q[e] \in 0..N /\ z # 0
            BY <1>10, <2>1, <4>1
          <6> HIDE DEF z
          <6>2. QED
            BY <1>4, <4>4, <6>1
        <5>2. r[e] = t[z]
          BY <1>10, <4>1, <4>4, <5>1
        <5>3. QED
          BY <1>4, <3>3, <4>1, <5>1, <5>2 DEF WordAt
      <4>5. QED
        BY <4>2, <4>3, <4>4 DEF Follows
    <3>4. QED
      BY <3>1, <3>2, <3>3
  <2>4. edge \/ (WordAt(r, y - 1, words) <=> WordAt(t, z - 1, words))
    <3>1. CASE y # i
      <4>1. y - 1 \in i..(e - 1) /\ p + (y - 1 - i) = z - 1
        BY <1>4, <1>6, <1>12, <1>17, <3>1
      <4>2. y - 1 \in 1..M /\ z - 1 \in 1..N /\ r[y - 1] = t[z - 1]
        BY <1>11, <1>14, <4>1
      <4>3. QED
        BY <1>4, <4>2 DEF WordAt
    <3>2. CASE y = i /\ i = 1
      <4>1. M # 0 /\ Follows(t, w, 1, q[1])
        BY <1>4, <1>10, <3>2
      <4>2. z = 1
        BY <1>12, <3>2, <4>1 DEF Follows, p
      <4>3. y - 1 \notin 1..M /\ z - 1 \notin 1..N
        BY <1>4, <3>2, <4>2
      <4>4. QED
        BY <1>4, <4>3 DEF WordAt
    <3>3. CASE y = i /\ i # 1
      <4>1. i - 1 \in 1..(M - 1) /\ (i - 1) + 1 = i /\ z = q[i] /\ q[i] # 0 /\ i - 1 \in 1..M
        BY <1>4, <1>12, <3>3 DEF p
      <4>2. CASE q[i - 1] = 0
        <5>1. EndsAt(t, w, z)
          BY <1>10, <4>1, <4>2
        <5>2. QED
          BY <2>2, <5>1
      <4>3. CASE q[i - 1] # 0
        <5>1. Follows(t, w, q[i - 1] + 1, q[i])
          BY <1>10, <4>1, <4>3
        <5>2. q[i] = q[i - 1] + 1
          BY <4>1, <5>1 DEF Follows
        <5>3. r[i - 1] = t[q[i - 1]] /\ q[i - 1] \in 0..N
          BY <1>10, <4>1, <4>3
        <5>4. z - 1 = q[i - 1]
          <6> DEFINE a == q[i - 1]
          <6>1. a \in Nat /\ q[i] = a + 1
            BY <1>4, <5>2, <5>3
          <6> HIDE DEF a
          <6>2. z - 1 = a
            BY <4>1, <6>1
          <6>3. QED
            BY <6>2 DEF a
        <5>5. z - 1 \in 1..N
          <6> HIDE DEF z
          <6> QED
            BY <1>4, <4>3, <5>3, <5>4
        <5>6. QED
          BY <1>4, <3>3, <4>1, <5>3, <5>4, <5>5 DEF WordAt
      <4>4. QED
        BY <4>2, <4>3
    <3>4. QED
      BY <3>1, <3>2, <3>3
  <2>5. ~(WordAt(r, y - 1, words) <=> WordAt(r, y, words))
    BY <1>17 DEF WordEdge, WordAt, words
  <2>6. (~(WordAt(t, z - 1, words) <=> WordAt(t, z, words))) => edge
    BY DEF WordEdge, WordAt
  <2> HIDE DEF edge, z
  <2>7. edge
    BY <2>3, <2>4, <2>5, <2>6
  <2>8. QED
    BY <2>7 DEF edge, z, words
<1> DEFINE d == [k \in 1..(L + 1) |-> c[k] - i + p]
<1>18. \A k \in 1..(L + 1) : d[k] \in 1..(N + 1)
  <2> SUFFICES ASSUME NEW k \in 1..(L + 1) PROVE c[k] - i + p \in 1..(N + 1)
    OBVIOUS
  <2> DEFINE x == c[k]
  <2>1. x \in Int /\ i <= x /\ x <= e
    BY <1>8
  <2> HIDE DEF x
  <2>2. x - i + p \in 1..(N + 1)
    BY <1>4, <1>6, <1>12, <1>16, <2>1
  <2>3. QED
    BY <2>2 DEF x
<1>19. ASSUME NEW k \in 1..L
       PROVE  d[k + 1] \in Ends(t, d[k], v[k])
  <2> DEFINE a   == c[k]
             b   == c[k + 1]
             tok == v[k]
  <2>1. k \in 1..(L + 1) /\ k + 1 \in 1..(L + 1)
    BY <1>2
  <2>2. a \in Int /\ b \in Int /\ i <= a /\ a <= b /\ b <= e
    BY <1>8, <2>1
  <2>3. b \in Ends(r, a, tok) /\ tok \in Token
    BY <1>2, <1>9
  <2>4. d[k] = a - i + p /\ d[k + 1] = b - i + p
    BY <2>1
  <2> HIDE DEF a, b, d
  <2>5. CASE tok.rep # "bound"
    <3>1. i \in Int /\ e \in Int /\ p \in Nat \ {0} /\ Len(r) \in Nat /\ Len(t) \in Nat
      BY <1>4, <1>6, <1>12 DEF N, M
    <3>2. p + (e - i) <= Len(t) + 1
      BY <1>4, <1>16 DEF N
    <3>3. \A x \in i..(e - 1) : t[p + (x - i)].sym = r[x].sym
      BY <1>14
    <3> HIDE DEF tok
    <3>4. b - i + p \in Ends(t, a - i + p, tok)
      BY <2>2, <2>3, <2>5, <3>1, <3>2, <3>3, EndsMove
    <3>5. QED
      BY <2>4, <3>4 DEF tok
  <2>6. CASE tok.rep = "bound"
    <3>1. b = a /\ WordEdge(r, a, v[k].chars)
      BY <2>3, <2>6 DEF Ends
    <3>2. a \in i..e /\ p + (a - i) = a - i + p
      BY <1>4, <1>6, <1>12, <2>2
    <3>3. WordEdge(t, p + (a - i), v[k].chars)
      BY <1>17, <2>6, <3>1, <3>2
    <3>4. d[k + 1] = d[k] /\ WordEdge(t, d[k], v[k].chars)
      BY <2>4, <3>1, <3>2, <3>3
    <3>5. QED
      BY <2>6, <3>4 DEF Ends
  <2>7. QED
    BY <2>5, <2>6
<1>20. d[1] = p /\ d[L + 1] = e - i + p
  BY <1>2, <1>4, <1>7, <1>12
<1>21. Fits(t, v, 1, d)
  <2>1. d \in [1..(L + 1) -> 1..(N + 1)]
    BY <1>18
  <2> HIDE DEF d
  <2>2. QED
    BY <1>19, <2>1 DEF Fits, L, N
<1>22. Consumes(t, p, v)
  <2>1. d[1] < d[Len(v) + 1]
    <3>1. p < e - i + p
      BY <1>4, <1>6, <1>12
    <3>2. QED
      BY <1>20, <3>1 DEF L
  <2>2. Takes(t, v)
    BY <1>1, <1>2, MatchTakes
  <2> HIDE DEF d
  <2>3. QED
    BY <1>20, <1>21, <2>1, <2>2 DEF Takes
<1>23. ~Consumes(t, p, w)
  BY <1>4, <1>10, <1>12 DEF p
<1>24. QED
  BY <1>4, <1>12, <1>22, <1>23

-----------------------------------------------------------------------------
(* Field rules.                                                            *)

RuleSet == [name : STRING, pattern : STRING, field : STRING, replace : STRING]

\* The positions of keys in path that one of frs names.
NamedAt(path, frs) == {d \in 1..Len(path) : \E i \in DOMAIN frs : frs[i].field = path[d]}

LEMMA NamedFirst ==
  ASSUME NEW path \in Seq(STRING), NEW frs
  PROVE  /\ Named(path, frs) = IF NamedAt(path, frs) = {} THEN 0 ELSE Min(NamedAt(path, frs))
         /\ NamedAt(path, frs) # {} => Named(path, frs) \in NamedAt(path, frs)
         /\ Named(path, frs) # 0 <=> NamedAt(path, frs) # {}
<1> DEFINE D == NamedAt(path, frs)
<1>1. Named(path, frs) = IF D = {} THEN 0 ELSE Min(D)
  BY DEF Named, SelectInSeq, NamedAt
<1>2. D # {} => Min(D) \in D
  <2> SUFFICES ASSUME D # {} PROVE Min(D) \in D
    OBVIOUS
  <2>1. D \in SUBSET Nat
    BY DEF NamedAt
  <2> HIDE DEF D
  <2>2. \E n \in D : \A m \in D : n <= m
    BY <2>1, LeastNumber
  <2>3. QED
    BY <2>2 DEF Min
<1>3. 0 \notin D
  BY DEF NamedAt
<1> HIDE DEF D
<1>4. QED
  BY <1>1, <1>2, <1>3 DEF D

RulesFor(key, frs) == {i \in 1..Len(frs) : frs[i].field = key}

LEMMA RuleForLast ==
  ASSUME NEW frs \in Seq(RuleSet), NEW key, RulesFor(key, frs) # {}
  PROVE  /\ RuleFor(key, frs) = frs[Max(RulesFor(key, frs))]
         /\ Max(RulesFor(key, frs)) \in RulesFor(key, frs)
         /\ RuleFor(key, frs) \in RuleSet
<1>1. RuleFor(key, frs) = frs[Max(RulesFor(key, frs))]
  BY DEF RuleFor, SelectLastInSeq, RulesFor
<1>2. Max(RulesFor(key, frs)) \in RulesFor(key, frs)
  <2>1. RulesFor(key, frs) \in SUBSET (0..Len(frs)) /\ Len(frs) \in Nat
    BY DEF RulesFor
  <2>2. QED
    BY <2>1, MaxElement
<1>3. \A i \in RulesFor(key, frs) : frs[i] \in RuleSet
  BY DEF RulesFor
<1>4. QED
  BY <1>1, <1>2, <1>3

\* Members of an object whose values show no cells but those of I.
MemberSet(I) == [path : Seq(STRING), value : Texts(I)]

\* A text is made of the members' values, each between other cells.
Parts(ms, I, before, after) ==
    /\ before \in [1..Len(ms) -> Texts(I)] /\ after \in [1..Len(ms) -> Texts(I)]
    /\ [m \in 1..Len(ms) |-> before[m] \o ms[m].value \o after[m]] \in Seq(Texts(I))

LEMMA TextParts ==
  ASSUME NEW I, Added \in I, NEW ms \in Seq(MemberSet(I)), NEW spaced
  PROVE  \E before, after :
            /\ Parts(ms, I, before, after)
            /\ Text(ms, spaced) = FlattenSeq([m \in 1..Len(ms) |-> before[m] \o ms[m].value \o after[m]])
<1> DEFINE C == [sym : Symbols, id : I]
           n == Len(ms)
           keys(m) == [d \in DOMAIN ms[m].path |-> Cell(ms[m].path[d])]
           blank == IF spaced THEN <<Cell(" ")>> ELSE <<>>
           comma(m) == IF ms[m].path = <<>> THEN <<>> ELSE <<Cell(",")>>
           before == [m \in 1..n |-> keys(m) \o blank]
           after  == [m \in 1..n |-> comma(m)]
           parts == [m \in 1..n |-> before[m] \o ms[m].value \o after[m]]
<1>1. n \in Nat /\ DOMAIN ms = 1..n
  OBVIOUS
<1>2. \A x \in Symbols : Cell(x) \in C
  BY DEF Cell
<1>3. Text(ms, spaced) = FlattenSeq([m \in 1..n |-> keys(m) \o blank \o ms[m].value \o comma(m)])
  BY <1>1 DEF Text
<1>4. ASSUME NEW m \in 1..n
      PROVE  keys(m) \in Seq(C) /\ blank \in Seq(C) /\ ms[m].value \in Seq(C) /\ comma(m) \in Seq(C)
  <2>0. ms[m] \in MemberSet(I)
    OBVIOUS
  <2>1. ms[m].path \in Seq(STRING) /\ ms[m].value \in Seq(C)
    BY <2>0 DEF MemberSet, Texts
  <2> HIDE DEF C
  <2>2. keys(m) \in Seq(C)
    <3> DEFINE path == ms[m].path
               l    == Len(path)
               cells == [d \in 1..l |-> Cell(path[d])]
    <3>1. l \in Nat /\ DOMAIN path = 1..l /\ \A d \in 1..l : path[d] \in Symbols
      <4>1. l \in Nat /\ DOMAIN path = 1..l /\ \A d \in 1..l : path[d] \in STRING
        BY <2>1
      <4>2. QED
        BY <4>1 DEF Symbols
    <3> HIDE DEF path, l
    <3>2. cells \in [1..l -> C]
      BY <1>2, <3>1
    <3>3. cells \in Seq(C)
      <4> HIDE DEF cells
      <4> QED
        BY <3>1, <3>2
    <3>4. QED
      BY <3>1, <3>3 DEF path
  <2>3. \A x \in Symbols : <<Cell(x)>> \in Seq(C)
    <3>1. \A c \in C : <<c>> \in Seq(C)
      OBVIOUS
    <3>2. QED
      BY <1>2, <3>1
  <2>4. <<>> \in Seq(C)
    OBVIOUS
  <2>5. blank \in Seq(C) /\ comma(m) \in Seq(C)
    <3>1. " " \in Symbols /\ "," \in Symbols
      BY DEF Symbols
    <3>2. QED
      BY <2>3, <2>4, <3>1, Zenon
  <2>6. QED
    BY <2>1, <2>2, <2>5
<1> HIDE DEF C, n, keys, blank, comma
<1>5. \A m \in 1..n : keys(m) \o blank \in Seq(C) /\ before[m] = keys(m) \o blank /\ after[m] = comma(m)
  BY <1>4, ConcatSeq
<1>6. before \in [1..n -> Seq(C)] /\ after \in [1..n -> Seq(C)]
  BY <1>4, <1>5
<1>7. \A m \in 1..n : parts[m] = keys(m) \o blank \o ms[m].value \o comma(m)
  BY <1>5
<1>8. \A m \in 1..n : parts[m] \in Seq(C)
  BY <1>4, <1>5, <1>7, ConcatSeq
<1>9. parts = [m \in 1..n |-> keys(m) \o blank \o ms[m].value \o comma(m)]
  BY <1>7
<1> HIDE DEF before, after
<1>10. parts \in Seq(Seq(C))
  <2>1. parts = [m \in 1..n |-> parts[m]]
    OBVIOUS
  <2> HIDE DEF parts
  <2>2. parts \in [1..n -> Seq(C)]
    BY <1>8, <2>1
  <2>3. QED
    BY <1>1, <2>2
<1>11. Parts(ms, I, before, after)
  BY <1>6, <1>10 DEF Parts, Texts, C, n
<1>12. Text(ms, spaced) = FlattenSeq(parts)
  BY <1>3, <1>9
<1>13. QED
  BY <1>11, <1>12 DEF n

LEMMA TextTyped ==
  ASSUME NEW I, Added \in I, NEW ms \in Seq(MemberSet(I)), NEW spaced
  PROVE  Text(ms, spaced) \in Texts(I)
<1>1. PICK before, after :
          /\ Parts(ms, I, before, after)
          /\ Text(ms, spaced) = FlattenSeq([m \in 1..Len(ms) |-> before[m] \o ms[m].value \o after[m]])
  BY TextParts
<1>2. QED
  BY <1>1, Flattened DEF Parts, Texts

Shows(t, v) == \A p \in DOMAIN v : \E k \in DOMAIN t : t[k] = v[p]

\* A text shows every cell of every value in it.
LEMMA TextShows ==
  ASSUME NEW I, Added \in I, NEW ms \in Seq(MemberSet(I)), NEW spaced,
         NEW i \in 1..Len(ms)
  PROVE  Shows(Text(ms, spaced), ms[i].value)
<1> SUFFICES ASSUME NEW p \in DOMAIN ms[i].value
             PROVE  \E k \in DOMAIN Text(ms, spaced) : Text(ms, spaced)[k] = ms[i].value[p]
  BY DEF Shows
<1> DEFINE C == [sym : Symbols, id : I]
<1>1. PICK before, after :
          /\ Parts(ms, I, before, after)
          /\ Text(ms, spaced) = FlattenSeq([m \in 1..Len(ms) |-> before[m] \o ms[m].value \o after[m]])
  BY TextParts
<1> DEFINE parts == [m \in 1..Len(ms) |-> before[m] \o ms[m].value \o after[m]]
           a == before[i]
           v == ms[i].value
           b == after[i]
           q == Len(a) + p
           u == a \o v
<1>2. parts \in Seq(Seq(C)) /\ a \in Seq(C) /\ b \in Seq(C)
  BY <1>1 DEF Parts, Texts
<1>3. v \in Seq(C) /\ p \in DOMAIN v
  <2>1. ms[i] \in MemberSet(I)
    OBVIOUS
  <2>2. QED
    BY <2>1 DEF MemberSet, Texts
<1>4. Len(parts) = Len(ms) /\ parts[i] = u \o b /\ Text(ms, spaced) = FlattenSeq(parts)
  <2> DEFINE part(m) == before[m] \o ms[m].value \o after[m]
  <2>1. Len(ms) \in Nat /\ part(i) = u \o b
    OBVIOUS
  <2>2. parts = [m \in 1..Len(ms) |-> part(m)] /\ Text(ms, spaced) = FlattenSeq(parts)
    BY <1>1
  <2> HIDE DEF parts, part, u, b
  <2>3. Len(parts) = Len(ms)
    BY <2>1, <2>2
  <2>4. parts[i] = u \o b
    BY <2>1, <2>2
  <2>5. QED
    BY <2>2, <2>3, <2>4
<1> HIDE DEF C, parts, a, v, b
<1>5. u \in Seq(C) /\ q \in 1..Len(u) /\ u[q] = v[p]
  BY <1>2, <1>3
<1> HIDE DEF q, u
<1>6. q \in 1..Len(u \o b) /\ (u \o b)[q] = v[p]
  BY <1>2, <1>5
<1>7. i \in 1..Len(parts) /\ q \in 1..Len(parts[i]) /\ parts[i][q] = v[p]
  BY <1>4, <1>6
<1>8. PICK k \in 1..Len(FlattenSeq(parts)) : FlattenSeq(parts)[k] = v[p]
  <2>1. \A j \in 1..Len(parts) : \A r \in 1..Len(parts[j]) :
            \E k \in 1..Len(FlattenSeq(parts)) : FlattenSeq(parts)[k] = parts[j][r]
    BY <1>2, FlattenHas
  <2>2. QED
    BY <1>7, <2>1
<1>9. FlattenSeq(parts) \in Seq(C)
  BY <1>2, Flattened
<1>10. k \in DOMAIN FlattenSeq(parts)
  BY <1>8, <1>9
<1>11. QED
  BY <1>4, <1>8, <1>10 DEF v

WithEscapes(v) == [p \in DOMAIN v |-> IF v[p].sym = "&" THEN [v[p] EXCEPT !.sym = "u0026"] ELSE v[p]]

LEMMA EscapedTyped ==
  ASSUME NEW I, NEW v \in Texts(I)
  PROVE  WithEscapes(v) \in Texts(I) /\ DOMAIN WithEscapes(v) = DOMAIN v /\ \A p \in DOMAIN v : WithEscapes(v)[p].id = v[p].id
<1> DEFINE C == [sym : Symbols, id : I]
           n == Len(v)
           esc(c) == IF c.sym = "&" THEN [c EXCEPT !.sym = "u0026"] ELSE c
<1>1. n \in Nat /\ DOMAIN v = 1..n /\ v \in [1..n -> C]
  <2>1. v \in Seq(C)
    BY DEF Texts
  <2> HIDE DEF C
  <2>2. QED
    BY <2>1
<1>2. \A c \in C : esc(c) \in C /\ esc(c).id = c.id
  <2> SUFFICES ASSUME NEW c \in C PROVE esc(c) \in C /\ esc(c).id = c.id
    OBVIOUS
  <2> DEFINE d == [c EXCEPT !.sym = "u0026"]
  <2>0. c.id \in I /\ d = [sym |-> "u0026", id |-> c.id]
    OBVIOUS
  <2>1. d \in C /\ d.id = c.id
    BY <2>0 DEF Symbols
  <2> HIDE DEF d
  <2>2. QED
    BY <2>1 DEF d
<1>3. WithEscapes(v) = [p \in 1..n |-> esc(v[p])]
  BY <1>1 DEF WithEscapes
<1> HIDE DEF C, n, esc
<1>4. WithEscapes(v) \in [1..n -> C] /\ \A p \in DOMAIN v : WithEscapes(v)[p].id = v[p].id
  BY <1>1, <1>2, <1>3
<1>5. WithEscapes(v) \in Seq(C)
  BY <1>1, <1>4
<1>6. QED
  BY <1>1, <1>4, <1>5 DEF Texts, C

LEMMA MarshalTyped ==
  ASSUME NEW I, Added \in I, NEW ms \in Seq(MemberSet(I))
  PROVE  Marshal(ms) \in Texts(I)
<1> DEFINE n   == Len(ms)
           mem(m) == [ms[m] EXCEPT !.value = WithEscapes(ms[m].value)]
           es  == [m \in 1..n |-> mem(m)]
<1>1. n \in Nat /\ DOMAIN ms = 1..n
  OBVIOUS
<1>2. Marshal(ms) = Text(es, FALSE)
  BY <1>1 DEF Marshal, WithEscapes
<1>3. ASSUME NEW m \in 1..n PROVE mem(m) \in MemberSet(I)
  <2>1. ms[m] \in MemberSet(I)
    OBVIOUS
  <2>2. ms[m].value \in Texts(I)
    BY <2>1 DEF MemberSet
  <2>3. WithEscapes(ms[m].value) \in Texts(I)
    BY <2>2, EscapedTyped
  <2>4. QED
    BY <2>1, <2>3 DEF MemberSet
<1> HIDE DEF n, mem
<1>4. es \in [1..n -> MemberSet(I)]
  BY <1>3
<1> HIDE DEF es
<1>5. es \in Seq(MemberSet(I))
  BY <1>1, <1>4
<1>6. QED
  BY <1>2, <1>5, TextTyped

LineSet == [object : BOOLEAN, spaced : BOOLEAN,
            members : Seq([path : Seq(STRING), value : Seq(STRING)])]

LEMMA TextsGrow ==
  ASSUME NEW I, NEW J, I \subseteq J
  PROVE  Texts(I) \subseteq Texts(J)
<1> DEFINE C == [sym : Symbols, id : I]
           D == [sym : Symbols, id : J]
<1>1. C \subseteq D
  OBVIOUS
<1> HIDE DEF C, D
<1>2. Seq(C) \subseteq Seq(D)
  BY <1>1
<1>3. QED
  BY <1>2 DEF Texts, C, D

\* The cells of a member's value are its own.
LEMMA MembersTyped ==
  ASSUME NEW l \in LineSet
  PROVE  /\ Members(l) \in Seq(MemberSet(Nat \X Nat))
         /\ Len(Members(l)) = Len(l.members)
         /\ \A m \in 1..Len(l.members) :
               /\ Members(l)[m].path = l.members[m].path
               /\ Members(l)[m].path \in Seq(STRING)
               /\ Members(l)[m].value \in Texts({<<m, p>> : p \in Nat})
<1> DEFINE n == Len(l.members)
           val(m) == [p \in DOMAIN l.members[m].value |->
                         [sym |-> l.members[m].value[p], id |-> <<m, p>>]]
           mem(m) == [path |-> l.members[m].path, value |-> val(m)]
           ms == [m \in 1..n |-> mem(m)]
<1>1. l.members \in Seq([path : Seq(STRING), value : Seq(STRING)])
  BY DEF LineSet
<1>2. n \in Nat /\ DOMAIN l.members = 1..n
  BY <1>1
<1>3. Members(l) = ms
  BY <1>2 DEF Members
<1>4. ASSUME NEW m \in 1..n
      PROVE  l.members[m].path \in Seq(STRING) /\ val(m) \in Texts({<<m, p>> : p \in Nat})
  <2> DEFINE v == l.members[m].value
             k == Len(v)
             C == [sym : Symbols, id : {<<m, p>> : p \in Nat}]
             c(p) == [sym |-> v[p], id |-> <<m, p>>]
  <2>1. l.members[m] \in [path : Seq(STRING), value : Seq(STRING)]
    <3>1. \A S : \A q \in Seq(S) : \A j \in 1..Len(q) : q[j] \in S
      OBVIOUS
    <3>2. QED
      BY <1>1, <3>1
  <2>2. l.members[m].path \in Seq(STRING) /\ v \in Seq(STRING)
    BY <2>1
  <2> HIDE DEF v
  <2>3. k \in Nat /\ DOMAIN v = 1..k /\ \A p \in 1..k : v[p] \in STRING
    BY <2>2
  <2>4. \A p \in 1..k : c(p) \in C
    <3> SUFFICES ASSUME NEW p \in 1..k PROVE c(p) \in C
      OBVIOUS
    <3>1. v[p] \in Symbols /\ p \in Nat
      <4>1. v[p] \in STRING
        BY <2>3
      <4>2. p \in Nat
        BY <2>3
      <4>3. QED
        BY <4>1, <4>2 DEF Symbols
    <3>2. <<m, p>> \in {<<m, q>> : q \in Nat}
      BY <3>1
    <3>3. QED
      BY <3>1, <3>2
  <2>5. val(m) = [p \in 1..k |-> c(p)]
    BY <2>3 DEF v
  <2> HIDE DEF val, c, C, k
  <2>6. val(m) \in Seq(C)
    BY <2>3, <2>4, <2>5
  <2>7. QED
    BY <2>2, <2>6 DEF Texts, C
<1>5. \A m \in 1..n : mem(m) \in MemberSet(Nat \X Nat)
  <2> SUFFICES ASSUME NEW m \in 1..n PROVE mem(m) \in MemberSet(Nat \X Nat)
    OBVIOUS
  <2> HIDE DEF val
  <2>1. {<<m, p>> : p \in Nat} \subseteq Nat \X Nat
    OBVIOUS
  <2>2. Texts({<<m, p>> : p \in Nat}) \subseteq Texts(Nat \X Nat)
    BY <2>1, TextsGrow
  <2>3. val(m) \in Texts(Nat \X Nat)
    BY <1>4, <2>2
  <2>4. QED
    BY <1>4, <2>3 DEF MemberSet
<1> HIDE DEF n, val
<1>6. \A m \in 1..n : ms[m].path = l.members[m].path /\ ms[m].value = val(m)
  OBVIOUS
<1>7. ms \in [1..n -> MemberSet(Nat \X Nat)]
  <2> HIDE DEF mem
  <2> QED
    BY <1>5
<1> HIDE DEF ms
<1>8. ms \in Seq(MemberSet(Nat \X Nat)) /\ Len(ms) = n
  BY <1>2, <1>7
<1>9. QED
  BY <1>3, <1>4, <1>6, <1>8 DEF n

\* The members that no rule names are kept as they are.
KeepsRest(kept, ms, frs) ==
    \A m \in 1..Len(ms) : Named(ms[m].path, frs) = 0 => \E i \in 1..Len(kept) : kept[i] = ms[m]

\* What is left of an object are the members that no rule names and one for each
\* key that a rule names; its value shows nothing of what it was.
LEMMA MaskMembersTyped ==
  ASSUME NEW J, NEW I, Added \in I, NEW ms \in Seq(MemberSet(J)), NEW frs \in Seq(RuleSet),
         \A m \in 1..Len(ms) : Named(ms[m].path, frs) = 0 => ms[m].value \in Texts(I)
  PROVE  /\ MaskMembers(ms, frs) \in Seq(MemberSet(I))
         /\ KeepsRest(MaskMembers(ms, frs), ms, frs)
<1> DEFINE n == Len(ms)
           masked == [m \in 1..n |-> MaskMember(ms[m], frs)]
           all == [m \in 1..n |-> m]
           firsts == {m \in 1..n : Named(ms[m].path, frs) # 0 =>
                                      \A k \in 1..(m - 1) : masked[k].path # masked[m].path}
           kept == Kept(all, firsts)
           r == [i \in DOMAIN kept |-> masked[kept[i]]]
<1>1. n \in Nat /\ DOMAIN ms = 1..n
  OBVIOUS
<1>2. MaskMembers(ms, frs) = r
  BY <1>1 DEF MaskMembers
<1>3. \A m \in 1..n : Named(ms[m].path, frs) = 0 => m \in firsts
  OBVIOUS
<1>4. \A m \in 1..n : masked[m] \in MemberSet(I)
  <2> SUFFICES ASSUME NEW m \in 1..n PROVE MaskMember(ms[m], frs) \in MemberSet(I)
    OBVIOUS
  <2> DEFINE x == ms[m]
             d == Named(x.path, frs)
  <2>0. x \in MemberSet(J)
    OBVIOUS
  <2>1. x \in MemberSet(J) /\ x.path \in Seq(STRING)
    BY <2>0 DEF MemberSet
  <2>2. d = 0 => x.value \in Texts(I)
    OBVIOUS
  <2> HIDE DEF x
  <2>3. CASE d = 0
    BY <2>1, <2>2, <2>3 DEF MaskMember, MemberSet, x
  <2>4. CASE d # 0
    <3> DEFINE key == x.path[d]
               s == RuleFor(key, frs).replace
    <3>1. d \in NamedAt(x.path, frs)
      BY <2>1, <2>4, NamedFirst
    <3>2. d \in 1..Len(x.path) /\ \E i \in DOMAIN frs : frs[i].field = key
      BY <3>1 DEF NamedAt
    <3> HIDE DEF d
    <3>3. SubSeq(x.path, 1, d) \in Seq(STRING)
      BY <2>1, <3>2
    <3> HIDE DEF key
    <3>4. RulesFor(key, frs) # {}
      BY <3>2 DEF RulesFor
    <3>5. RuleFor(key, frs) \in RuleSet
      BY <3>4, RuleForLast
    <3>6. s \in Symbols
      BY <3>5 DEF RuleSet, Symbols
    <3> HIDE DEF s
    <3>7. Cell(s) \in [sym : Symbols, id : I]
      BY <3>6 DEF Cell
    <3>8. <<Cell(s)>> \in Texts(I)
      <4> DEFINE C == [sym : Symbols, id : I]
      <4>1. \A c \in C : <<c>> \in Seq(C)
        <5> HIDE DEF C
        <5> QED
          OBVIOUS
      <4>2. QED
        BY <3>7, <4>1 DEF Texts
    <3>9. MaskMember(x, frs) = [path |-> SubSeq(x.path, 1, d), value |-> <<Cell(s)>>]
      BY <2>4 DEF MaskMember, d, key, s
    <3>10. QED
      BY <3>3, <3>8, <3>9 DEF MemberSet, x
  <2>5. QED
    BY <2>3, <2>4
<1>5. kept \in Seq(1..n \cap firsts)
  <2>1. all \in Seq(1..n)
    BY <1>1
  <2> HIDE DEF all, firsts
  <2>2. QED
    BY <2>1, KeptIsSeq
<1>6. \A m \in 1..n : m \in firsts => \E i \in 1..Len(kept) : kept[i] = m
  <2>1. all \in Seq(1..n) /\ Len(all) = n /\ \A m \in 1..n : all[m] = m
    BY <1>1
  <2> HIDE DEF all, firsts
  <2>2. \A m \in 1..n : all[m] \in firsts => \E i \in 1..Len(kept) : kept[i] = all[m]
    BY <2>1, KeptHas
  <2>3. QED
    BY <2>1, <2>2
<1> HIDE DEF n, masked, firsts, kept
<1>7. DOMAIN kept = 1..Len(kept) /\ Len(kept) \in Nat /\ \A i \in 1..Len(kept) : kept[i] \in 1..n /\ kept[i] \in firsts
  BY <1>5
<1>8. r \in [1..Len(kept) -> MemberSet(I)] /\ \A i \in 1..Len(kept) : r[i] = masked[kept[i]]
  BY <1>3, <1>4, <1>7
<1> HIDE DEF r
<1>9. r \in Seq(MemberSet(I)) /\ Len(r) = Len(kept)
  BY <1>7, <1>8
<1>10. ASSUME NEW m \in 1..n, Named(ms[m].path, frs) = 0
       PROVE  \E i \in 1..Len(r) : r[i] = ms[m]
  <2>1. PICK i \in 1..Len(kept) : kept[i] = m
    BY <1>3, <1>6, <1>10
  <2>2. r[i] = ms[m]
    BY <1>8, <1>10, <2>1 DEF masked, MaskMember
  <2>3. QED
    BY <1>9, <2>1, <2>2
<1>11. QED
  BY <1>2, <1>9, <1>10 DEF n, KeepsRest

\* What MaskLine makes of a line, and its texts on the way, when they show no cells but those of I.
Results(I) == [text : Texts(I), matched : SUBSET STRING]

Reformatted(l, frs) == l.object /\ FieldMatches(Members(l), frs) # {}

\* The field rules leave of a line what no rule names; if no rule matched it is the line.
LEMMA MaskFieldsTyped ==
  ASSUME NEW l \in LineSet, NEW frs \in Seq(RuleSet), NEW I, Added \in I,
         \A m \in 1..Len(l.members) :
            \/ Reformatted(l, frs) /\ Named(Members(l)[m].path, frs) # 0
            \/ Members(l)[m].value \in Texts(I)
  PROVE  /\ MaskFields(l, frs) \in Results(I)
         /\ MaskFields(l, frs).matched = {} => MaskFields(l, frs).text = Original(l)
<1> DEFINE ms == Members(l)
           n  == Len(l.members)
<1>1. /\ ms \in Seq(MemberSet(Nat \X Nat)) /\ Len(ms) = n
      /\ \A m \in 1..n : ms[m].path \in Seq(STRING)
  BY MembersTyped
<1>2. \A m \in 1..n : \/ Reformatted(l, frs) /\ Named(ms[m].path, frs) # 0
                      \/ ms[m].value \in Texts(I)
  OBVIOUS
<1>3. MaskFields(l, frs) = IF Reformatted(l, frs)
                           THEN [text |-> Marshal(MaskMembers(ms, frs)), matched |-> FieldMatches(ms, frs)]
                           ELSE [text |-> Original(l), matched |-> {}]
  BY DEF MaskFields, Reformatted
<1>4. Reformatted(l, frs) => FieldMatches(ms, frs) # {}
  BY DEF Reformatted
<1>5. Original(l) = Text(ms, l.spaced)
  BY DEF Original
<1> HIDE DEF ms, n
<1>6. CASE Reformatted(l, frs)
  <2>1. MaskMembers(ms, frs) \in Seq(MemberSet(I))
    BY <1>1, <1>2, MaskMembersTyped
  <2>2. Marshal(MaskMembers(ms, frs)) \in Texts(I)
    BY <2>1, MarshalTyped
  <2>3. FieldMatches(ms, frs) \in SUBSET STRING
    <3> SUFFICES ASSUME NEW x \in FieldMatches(ms, frs) PROVE x \in STRING
      OBVIOUS
    <3>1. PICK m \in DOMAIN ms : /\ Named(ms[m].path, frs) # 0
                                 /\ x = RuleFor(ms[m].path[Named(ms[m].path, frs)], frs).name
      BY DEF FieldMatches
    <3> DEFINE path == ms[m].path
               d == Named(path, frs)
               key == path[d]
    <3>2. path \in Seq(STRING)
      BY <1>1
    <3> HIDE DEF path
    <3>3. d \in NamedAt(path, frs)
      BY <3>1, <3>2, NamedFirst DEF path
    <3>4. \E i \in DOMAIN frs : frs[i].field = key
      BY <3>3 DEF NamedAt
    <3> HIDE DEF key
    <3>5. RulesFor(key, frs) # {}
      BY <3>4 DEF RulesFor
    <3>6. RuleFor(key, frs) \in RuleSet
      BY <3>5, RuleForLast
    <3>7. x = RuleFor(key, frs).name
      BY <3>1 DEF key, path
    <3>8. QED
      BY <3>6, <3>7 DEF RuleSet
  <2>4. QED
    BY <1>3, <1>4, <1>6, <2>2, <2>3 DEF Results
<1>7. CASE ~Reformatted(l, frs)
  <2>1. \A m \in 1..n : ms[m] \in MemberSet(I)
    <3> SUFFICES ASSUME NEW m \in 1..n PROVE ms[m] \in MemberSet(I)
      OBVIOUS
    <3>1. ms[m] \in MemberSet(Nat \X Nat) /\ ms[m].value \in Texts(I)
      BY <1>1, <1>2, <1>7
    <3>2. QED
      BY <3>1 DEF MemberSet
  <2>2. ms \in Seq(MemberSet(I))
    BY <1>1, <2>1
  <2>3. Original(l) \in Texts(I)
    BY <1>5, <2>2, TextTyped
  <2>4. QED
    BY <1>3, <1>7, <2>3 DEF Results
<1>8. QED
  BY <1>6, <1>7

-----------------------------------------------------------------------------
(* The rules one after the other.                                          *)

RegexSet == {r \in RuleSet : ~IsField(r) /\ Expression(Word[r.pattern])}

\* What RuleAssumption says of the rules.
RulesOK(rs) == rs \in Seq({r \in RuleSet : ~IsField(r) => Expression(Word[r.pattern])})

LEMMA RulesSplit ==
  ASSUME NEW rs, RulesOK(rs)
  PROVE  /\ rs \in Seq(RuleSet) /\ FieldRules(rs) \in Seq(RuleSet) /\ RegexRules(rs) \in Seq(RegexSet)
         /\ \A i \in DOMAIN rs : IsField(rs[i]) =>
               \E k \in DOMAIN FieldRules(rs) : FieldRules(rs)[k] = rs[i]
         /\ \A i \in DOMAIN rs : ~IsField(rs[i]) =>
               \E k \in DOMAIN RegexRules(rs) : RegexRules(rs)[k] = rs[i]
         /\ \A k \in DOMAIN FieldRules(rs) : IsField(FieldRules(rs)[k])
<1> DEFINE T == {r \in RuleSet : ~IsField(r) => Expression(Word[r.pattern])}
           F == {r \in ToSet(rs) : IsField(r)}
           G == {r \in ToSet(rs) : ~IsField(r)}
<1>1. rs \in Seq(T) /\ T \subseteq RuleSet
  BY DEF RulesOK
<1>2. FieldRules(rs) = Kept(rs, F) /\ RegexRules(rs) = Kept(rs, G)
  BY DEF FieldRules, RegexRules
<1>3. /\ \A i \in DOMAIN rs : IsField(rs[i]) => rs[i] \in F
      /\ \A i \in DOMAIN rs : ~IsField(rs[i]) => rs[i] \in G
  BY DEF ToSet
<1>4. T \cap F \subseteq {r \in RuleSet : IsField(r)} /\ T \cap G \subseteq RegexSet
  BY DEF RegexSet
<1> HIDE DEF T, F, G
<1>5. Kept(rs, F) \in Seq(T \cap F) /\ Kept(rs, G) \in Seq(T \cap G)
  BY <1>1, KeptIsSeq
<1>6. \A A, B : A \subseteq B => Seq(A) \subseteq Seq(B)
  OBVIOUS
<1>7. Kept(rs, F) \in Seq({r \in RuleSet : IsField(r)}) /\ Kept(rs, G) \in Seq(RegexSet) /\ rs \in Seq(RuleSet)
  BY <1>1, <1>4, <1>5, <1>6, Zenon
<1>8. {r \in RuleSet : IsField(r)} \subseteq RuleSet
  OBVIOUS
<1>9. Kept(rs, F) \in Seq(RuleSet)
  BY <1>6, <1>7, <1>8, Zenon
<1>10. \A k \in DOMAIN Kept(rs, F) : IsField(Kept(rs, F)[k])
  <2> DEFINE U == {r \in RuleSet : IsField(r)}
  <2>1. \A u \in Seq(U) : \A k \in DOMAIN u : u[k] \in U
    OBVIOUS
  <2>2. \A k \in DOMAIN Kept(rs, F) : Kept(rs, F)[k] \in U
    BY <1>7, <2>1
  <2>3. QED
    BY <2>2
<1>11. \A i \in 1..Len(rs) : rs[i] \in F => \E k \in 1..Len(Kept(rs, F)) : Kept(rs, F)[k] = rs[i]
  BY <1>1, KeptHas
<1>12. \A i \in 1..Len(rs) : rs[i] \in G => \E k \in 1..Len(Kept(rs, G)) : Kept(rs, G)[k] = rs[i]
  BY <1>1, KeptHas
<1>13. /\ DOMAIN rs = 1..Len(rs) /\ DOMAIN Kept(rs, F) = 1..Len(Kept(rs, F))
       /\ DOMAIN Kept(rs, G) = 1..Len(Kept(rs, G))
  BY <1>1, <1>7, <1>9
<1>14. QED
  BY <1>2, <1>3, <1>7, <1>9, <1>10, <1>11, <1>12, <1>13

LEMMA ApplyTyped ==
  ASSUME NEW I, Added \in I, NEW acc \in Results(I), NEW r \in RegexSet
  PROVE  Apply(acc, r) \in Results(I)
<1> DEFINE t == ReplaceMatches(acc.text, Word[r.pattern], r.replace)
<1>1. acc.text \in Texts(I) /\ acc.matched \in SUBSET STRING
  BY DEF Results
<1>2. Expression(Word[r.pattern]) /\ r.replace \in Symbols /\ r.name \in STRING
  BY DEF RegexSet, RuleSet, Symbols
<1>3. t \in Texts(I)
  BY <1>1, <1>2, ReplaceTyped
<1>4. Apply(acc, r) = [text |-> t, matched |-> IF t = acc.text THEN acc.matched ELSE acc.matched \cup {r.name}]
  BY DEF Apply
<1> HIDE DEF t
<1>5. QED
  BY <1>1, <1>2, <1>3, <1>4 DEF Results

Runs(l, frs, res, I, run) ==
    /\ run \in [0..Len(res) -> Results(I)]
    /\ run[0] = MaskFields(l, frs)
    /\ \A n \in 1..Len(res) : run[n] = Apply(run[n - 1], res[n])
    /\ RunRules(l, frs, res) = run[Len(res)]

LEMMA RunTable ==
  ASSUME NEW l, NEW frs, NEW res \in Seq(RegexSet), NEW I, Added \in I, MaskFields(l, frs) \in Results(I)
  PROVE  \E run : Runs(l, frs, res, I, run)
<1> DEFINE N == Len(res)
           P == 0..N
           X == Results(I)
           x0 == MaskFields(l, frs)
           Turn(n, f) == IF n = 0 THEN x0 ELSE Apply(f[n - 1], res[n])
           Solved(f) == f = [n \in P |-> Turn(n, f)]
           run == CHOOSE f : Solved(f)
           rank == [n \in P |-> n]
           body == [n \in P |-> [f \in [P -> X] |-> Turn(n, f)]]
<1>1. N \in Nat /\ \A n \in P : n # 0 => n - 1 \in P /\ n - 1 < n /\ n \in 1..N
  OBVIOUS
<1>2. \A n \in 1..N : res[n] \in RegexSet
  OBVIOUS
<1>3. RunRules(l, frs, res) = run[N]
  BY DEF RunRules
<1> HIDE DEF N, P
<1>4. \A n \in P : \A f : (n # 0 => f[n - 1] \in X) => Turn(n, f) \in X
  BY <1>1, <1>2, ApplyTyped
<1> HIDE DEF X, x0
<1>5. \E f \in [P -> X] : \A n \in P : f[n] = body[n][f]
  <2>1. rank \in [P -> 0..N]
    BY DEF P
  <2>2. body \in [P -> [[P -> X] -> X]]
    <3>1. \A n \in P : \A f \in [P -> X] : Turn(n, f) \in X
      BY <1>1, <1>4
    <3> HIDE DEF Turn
    <3>2. QED
      BY <3>1
  <2>3. ASSUME NEW n \in P, NEW g \in [P -> X], NEW h \in [P -> X],
               \A j \in P : rank[j] < rank[n] => g[j] = h[j]
        PROVE  body[n][g] = body[n][h]
    <3>1. n # 0 => g[n - 1] = h[n - 1]
      BY <1>1, <2>3
    <3>2. Turn(n, g) = Turn(n, h)
      BY <3>1
    <3> HIDE DEF Turn
    <3>3. QED
      BY <3>2
  <2>4. X # {}
    BY DEF X, x0
  <2> HIDE DEF body, rank
  <2>5. Descends(P, X, N, rank, body)
    BY <2>1, <2>2, <2>3 DEF Descends
  <2>6. QED
    BY <1>1, <2>4, <2>5, Recursion
<1>6. PICK f \in [P -> X] : \A n \in P : f[n] = body[n][f]
  BY <1>5
<1>7. Solved(f)
  <2> HIDE DEF Turn
  <2>1. \A n \in P : f[n] = Turn(n, f)
    BY <1>6
  <2>2. f = [n \in P |-> f[n]]
    BY <1>6
  <2>3. QED
    BY <2>1, <2>2
<1>8. Solved(run)
  <2> HIDE DEF Solved
  <2> QED
    BY <1>7, Zenon
<1> HIDE DEF run
<1>9. run = [n \in P |-> run[n]] /\ \A n \in P : run[n] = Turn(n, run)
  <2> HIDE DEF Turn
  <2> QED
    BY <1>8
<1>10. \A n \in P : run[n] \in X
  <2> DEFINE T == {n \in P : run[n] \in X}
  <2>0. \A n \in P : (n # 0 => run[n - 1] \in X) => run[n] \in X
    BY <1>4, <1>9
  <2> HIDE DEF Turn
  <2>1. 0 \in T
    <3>1. 0 \in P
      BY <1>1 DEF P
    <3>2. QED
      BY <2>0, <3>1
  <2>2. ASSUME NEW n \in 0..N, n # N, n \in T
        PROVE  n + 1 \in T
    <3> DEFINE m == n + 1
    <3>1. m \in P /\ m - 1 = n
      BY <1>1, <2>2 DEF P
    <3> HIDE DEF m
    <3>2. m \in T
      BY <2>0, <2>2, <3>1
    <3>3. QED
      BY <3>2 DEF m
  <2> HIDE DEF T
  <2>3. \A n \in 0..N : n \in T
    BY <1>1, <2>1, <2>2, Climb
  <2>4. QED
    BY <2>3 DEF T, P
<1>11. run \in [0..N -> X]
  BY <1>9, <1>10 DEF P
<1>12. run[0] = x0 /\ \A n \in 1..N : run[n] = Apply(run[n - 1], res[n])
  <2>1. 0 \in P /\ \A n \in 1..N : n \in P /\ n # 0
    BY <1>1 DEF P
  <2>2. QED
    BY <1>9, <2>1
<1>13. QED
  BY <1>3, <1>11, <1>12 DEF Runs, N, X, x0

\* MaskLine shows of a line no more than its field rules leave of it.
LEMMA MaskLineTyped ==
  ASSUME NEW l, NEW rs, RulesOK(rs), NEW I, Added \in I, MaskFields(l, FieldRules(rs)) \in Results(I)
  PROVE  MaskLine(l, rs) \in Results(I)
<1>1. RegexRules(rs) \in Seq(RegexSet)
  BY RulesSplit
<1>2. PICK run : Runs(l, FieldRules(rs), RegexRules(rs), I, run)
  BY <1>1, RunTable
<1>3. Len(RegexRules(rs)) \in 0..Len(RegexRules(rs))
  BY <1>1
<1>4. QED
  BY <1>2, <1>3 DEF Runs, MaskLine

-----------------------------------------------------------------------------
(* The module's properties.                                                *)

MaskInv ==
    /\ line \in Line /\ policy \in PolicyRules /\ added \in AddedRules
    /\ Masked => result = MaskLine(line, Rules)

LEMMA MaskInductive == Spec => []MaskInv
<1>1. Init => MaskInv
  BY DEF Init, MaskInv, Masked
<1>2. MaskInv /\ [Next]_vars => MaskInv'
  BY DEF MaskInv, Masked, Rules, Next, Mask, vars
<1>3. QED
  BY <1>1, <1>2, PTL DEF Spec

LEMMA RulesConcat ==
  ASSUME NEW p, NEW a, RulesOK(p), RulesOK(a)
  PROVE  /\ RulesOK(p \o a)
         /\ FieldRules(p \o a) = FieldRules(p) \o FieldRules(a)
         /\ RegexRules(p \o a) = RegexRules(p) \o RegexRules(a)
<1> DEFINE T == {r \in RuleSet : ~IsField(r) => Expression(Word[r.pattern])}
           F(rs) == {r \in ToSet(rs) : IsField(r)}
           G(rs) == {r \in ToSet(rs) : ~IsField(r)}
           F0 == {r \in RuleSet : IsField(r)}
           G0 == {r \in RuleSet : ~IsField(r)}
<1>1. p \in Seq(T) /\ a \in Seq(T)
  BY DEF RulesOK
<1>2. \A rs \in Seq(T) : \A i \in DOMAIN rs : rs[i] \in ToSet(rs) /\ rs[i] \in T
  BY DEF ToSet
<1>3. \A rs \in Seq(T) : \A i \in DOMAIN rs :
          (rs[i] \in F(rs) <=> rs[i] \in F0) /\ (rs[i] \in G(rs) <=> rs[i] \in G0)
  BY <1>2
<1>4. \A rs : FieldRules(rs) = Kept(rs, F(rs)) /\ RegexRules(rs) = Kept(rs, G(rs))
  BY DEF FieldRules, RegexRules
<1> HIDE DEF T, F, G, F0, G0
<1>5. \A rs \in Seq(T) : FieldRules(rs) = Kept(rs, F0) /\ RegexRules(rs) = Kept(rs, G0)
  <2> SUFFICES ASSUME NEW rs \in Seq(T)
               PROVE  FieldRules(rs) = Kept(rs, F0) /\ RegexRules(rs) = Kept(rs, G0)
    OBVIOUS
  <2>1. Kept(rs, F(rs)) = Kept(rs, F0)
    BY <1>3, KeptSame
  <2>2. Kept(rs, G(rs)) = Kept(rs, G0)
    BY <1>3, KeptSame
  <2>3. QED
    BY <1>4, <2>1, <2>2
<1>6. p \o a \in Seq(T)
  BY <1>1, ConcatSeq
<1>7. Kept(p \o a, F0) = Kept(p, F0) \o Kept(a, F0) /\ Kept(p \o a, G0) = Kept(p, G0) \o Kept(a, G0)
  BY <1>1, KeptConcat
<1>8. QED
  BY <1>1, <1>5, <1>6, <1>7 DEF RulesOK, T

\* What the assumptions say in the words of the lemmas above.
LEMMA Assumed ==
  /\ \A l \in Line : l \in LineSet
  /\ \A p \in PolicyRules : RulesOK(p)
  /\ \A a \in AddedRules : RulesOK(a)
<1>1. \A l \in Line : l \in LineSet
  BY LineAssumption DEF LineSet
<1>2. ASSUME NEW rs \in PolicyRules \cup AddedRules
      PROVE  RulesOK(rs)
  <2>1. rs \in Seq(RuleSet)
    BY RuleAssumption DEF RuleSet
  <2>2. \A i \in DOMAIN rs : ~IsField(rs[i]) => Expression(Word[rs[i].pattern])
    BY RuleAssumption DEF IsField, Expression
  <2>3. \A i \in DOMAIN rs : rs[i] \in RuleSet
    BY <2>1
  <2> DEFINE T == {r \in RuleSet : ~IsField(r) => Expression(Word[r.pattern])}
  <2>4. \A i \in DOMAIN rs : rs[i] \in T
    BY <2>2, <2>3
  <2> HIDE DEF T
  <2>5. rs \in Seq(T)
    BY <2>1, <2>4
  <2>6. QED
    BY <2>5 DEF RulesOK, T
<1>3. QED
  BY <1>1, <1>2

LEMMA RulesAssumed ==
  ASSUME MaskInv
  PROVE  /\ line \in LineSet /\ RulesOK(policy) /\ RulesOK(added) /\ RulesOK(Rules)
         /\ FieldRules(Rules) = FieldRules(policy) \o FieldRules(added)
         /\ RegexRules(Rules) = RegexRules(policy) \o RegexRules(added)
<1>1. line \in LineSet /\ RulesOK(policy) /\ RulesOK(added)
  BY Assumed DEF MaskInv
<1>2. QED
  BY <1>1, RulesConcat DEF Rules

\* Whatever the field rules are, the result of MaskFields has a type.
LEMMA MaskFieldsSomehow ==
  ASSUME NEW l \in LineSet, NEW frs \in Seq(RuleSet)
  PROVE  /\ Added \in Nat \X Nat
         /\ MaskFields(l, frs) \in Results(Nat \X Nat)
         /\ MaskFields(l, frs).matched = {} => MaskFields(l, frs).text = Original(l)
<1>1. Added \in Nat \X Nat
  BY DEF Added
<1>2. \A m \in 1..Len(l.members) : Members(l)[m].value \in Texts(Nat \X Nat)
  <2> SUFFICES ASSUME NEW m \in 1..Len(l.members) PROVE Members(l)[m].value \in Texts(Nat \X Nat)
    OBVIOUS
  <2>1. Members(l)[m].value \in Texts({<<m, p>> : p \in Nat})
    BY MembersTyped
  <2>2. {<<m, p>> : p \in Nat} \subseteq Nat \X Nat
    OBVIOUS
  <2>3. QED
    BY <2>1, <2>2, TextsGrow
<1>3. QED
  BY <1>1, <1>2, MaskFieldsTyped

\* A line of which no rule is reported to match is printed as it came
\* (maskJSONFields, MaskLine), for all lines and rules.
THEOREM UnmatchedUntouchedHolds == Spec => []UnmatchedUntouched
<1>1. ASSUME MaskInv PROVE UnmatchedUntouched
  <2> SUFFICES ASSUME Masked, result.matched = {} PROVE result.text = Original(line)
    BY DEF UnmatchedUntouched
  <2> DEFINE frs == FieldRules(Rules)
             res == RegexRules(Rules)
             x0 == MaskFields(line, frs)
  <2>1. line \in LineSet /\ RulesOK(Rules)
    BY <1>1, RulesAssumed
  <2>2. frs \in Seq(RuleSet) /\ res \in Seq(RegexSet)
    BY <2>1, RulesSplit
  <2>3. result = RunRules(line, frs, res)
    BY <1>1 DEF MaskInv, MaskLine
  <2> HIDE DEF frs, res
  <2>4. Added \in Nat \X Nat /\ x0 \in Results(Nat \X Nat) /\ (x0.matched = {} => x0.text = Original(line))
    BY <2>1, <2>2, MaskFieldsSomehow
  <2>5. PICK run : Runs(line, frs, res, Nat \X Nat, run)
    BY <2>2, <2>4, RunTable
  <2>6. /\ run[0] = x0 /\ result = run[Len(res)] /\ Len(res) \in Nat
        /\ \A n \in 1..Len(res) : run[n] = Apply(run[n - 1], res[n])
    BY <2>2, <2>3, <2>5 DEF Runs
  <2> HIDE DEF x0
  <2> DEFINE N == Len(res)
             T == {n \in 0..N : run[n].matched = {} => run[n].text = Original(line)}
  <2>7. 0 \in T
    BY <2>4, <2>6
  <2>8. ASSUME NEW n \in 0..N, n # N, n \in T
        PROVE  n + 1 \in T
    <3> DEFINE m == n + 1
               acc == run[n]
               t == ReplaceMatches(acc.text, Word[res[m].pattern], res[m].replace)
    <3>1. m \in 1..N /\ m - 1 = n /\ m \in 0..N
      BY <2>6, <2>8
    <3> HIDE DEF m
    <3>2. run[m] = [text |-> t, matched |-> IF t = acc.text THEN acc.matched ELSE acc.matched \cup {res[m].name}]
      BY <2>6, <3>1 DEF Apply
    <3> HIDE DEF t
    <3>3. run[m].matched = {} => t = acc.text /\ acc.matched = {}
      <4>1. acc.matched \cup {res[m].name} # {}
        OBVIOUS
      <4>2. run[m].matched = IF t = acc.text THEN acc.matched ELSE acc.matched \cup {res[m].name}
        BY <3>2
      <4>3. QED
        BY <4>1, <4>2
    <3>4. m \in T
      BY <2>8, <3>1, <3>2, <3>3
    <3>5. QED
      BY <3>4 DEF m
  <2>9. N \in Nat /\ N \in 0..N
    BY <2>6
  <2> HIDE DEF T, N
  <2>10. N \in T
    BY <2>7, <2>8, <2>9, Climb
  <2>11. QED
    BY <2>6, <2>10 DEF T, N
<1>2. QED
  BY <1>1, MaskInductive, PTL

\* No cell of a member that a field rule names is in what is printed, at any
\* depth and whatever rules run afterwards (maskJSONObject, MaskLine).
THEOREM NamedFieldsGoneHolds == Spec => []NamedFieldsGone
<1>1. ASSUME MaskInv PROVE NamedFieldsGone
  <2> SUFFICES ASSUME Masked, line.object, NEW k \in DOMAIN Rules, NEW m \in DOMAIN line.members,
                      IsField(Rules[k]), Rules[k].field \in ToSet(line.members[m].path),
                      NEW c \in Raw(result.text)
               PROVE  c[1] # m
    BY DEF NamedFieldsGone
  <2> DEFINE frs == FieldRules(Rules)
             path == line.members[m].path
             ms == Members(line)
             I == {x \in Nat \X Nat : x[1] # m}
  <2>1. line \in LineSet /\ RulesOK(Rules)
    BY <1>1, RulesAssumed
  <2>2. frs \in Seq(RuleSet) /\ \E j \in DOMAIN frs : frs[j] = Rules[k]
    BY <2>1, RulesSplit
  <2>3. m \in 1..Len(line.members) /\ Len(line.members) \in Nat
    BY <2>1 DEF LineSet
  <2>4. ms[m].path = path /\ path \in Seq(STRING)
    BY <2>1, <2>3, MembersTyped
  <2>5. Named(ms[m].path, frs) # 0
    <3>1. PICK d \in DOMAIN path : path[d] = Rules[k].field
      BY DEF ToSet
    <3> HIDE DEF path, frs
    <3>2. d \in NamedAt(path, frs)
      <4>1. d \in 1..Len(path)
        BY <2>4
      <4>2. QED
        BY <2>2, <3>1, <4>1 DEF NamedAt
    <3>3. QED
      BY <2>4, <3>2, NamedFirst
  <2>6. Added \in I
    BY <2>3 DEF Added
  <2>7. Reformatted(line, frs)
    <3>1. m \in DOMAIN ms
      <4>1. ms \in Seq(MemberSet(Nat \X Nat)) /\ Len(ms) = Len(line.members)
        BY <2>1, MembersTyped
      <4> HIDE DEF ms
      <4>2. QED
        BY <2>3, <4>1
    <3> HIDE DEF ms, frs
    <3>2. RuleFor(ms[m].path[Named(ms[m].path, frs)], frs).name \in FieldMatches(ms, frs)
      BY <2>5, <3>1 DEF FieldMatches
    <3>3. QED
      BY <3>2 DEF Reformatted, ms
  <2>8. \A n \in 1..Len(line.members) : n # m => ms[n].value \in Texts(I)
    <3> SUFFICES ASSUME NEW n \in 1..Len(line.members), n # m PROVE ms[n].value \in Texts(I)
      OBVIOUS
    <3>1. ms[n].value \in Texts({<<n, p>> : p \in Nat})
      BY <2>1, MembersTyped
    <3>2. {<<n, p>> : p \in Nat} \subseteq I
      OBVIOUS
    <3> HIDE DEF I
    <3>3. QED
      BY <3>1, <3>2, TextsGrow
  <2> HIDE DEF frs, I, path
  <2>9. MaskFields(line, frs) \in Results(I)
    BY <2>1, <2>2, <2>5, <2>6, <2>7, <2>8, MaskFieldsTyped
  <2>10. MaskLine(line, Rules) \in Results(I)
    BY <2>1, <2>6, <2>9, MaskLineTyped DEF frs
  <2>11. result.text \in Texts(I)
    BY <1>1, <2>10 DEF MaskInv, Results
  <2>12. c \in I
    <3> DEFINE C == [sym : Symbols, id : I]
    <3>1. \A x \in C : x.id \in I
      OBVIOUS
    <3>2. result.text \in Seq(C)
      BY <2>11 DEF Texts
    <3> HIDE DEF C
    <3>3. PICK i \in DOMAIN result.text : c = result.text[i].id
      BY DEF Raw
    <3>4. QED
      BY <3>1, <3>2, <3>3
  <2>13. QED
    BY <2>12 DEF I
<1>2. QED
  BY <1>1, MaskInductive, PTL

\* Neither what rule k of res puts in nor what those behind it put in disturbs it.
Undisturbed(res, k) ==
    \A n \in k..Len(res) : /\ Foreign(res[n].replace, Word[res[k].pattern])
                            /\ Delimits(Word[res[n].pattern], Word[res[k].pattern])

\* Those of the first n of res that are not disturbed find nothing to hide in t.
Quiet(t, res, n) ==
    \A k \in 1..n : Undisturbed(res, k) =>
        \A i \in DOMAIN t : ~Consumes(t, i, Word[res[k].pattern])

\* Each rule leaves no match of its own, and brings back none of an earlier one.
LEMMA RunQuiets ==
  ASSUME NEW l, NEW frs, NEW res \in Seq(RegexSet), NEW I, Added \in I, NEW run,
         Runs(l, frs, res, I, run)
  PROVE  \A n \in 0..Len(res) : Quiet(run[n].text, res, n)
<1> DEFINE N == Len(res)
           T == {n \in 0..N : Quiet(run[n].text, res, n)}
<1>1. N \in Nat /\ \A n \in 1..N : res[n] \in RegexSet
  OBVIOUS
<1>2. run \in [0..N -> Results(I)] /\ \A n \in 1..N : run[n] = Apply(run[n - 1], res[n])
  BY DEF Runs
<1>3. \A k \in 1..N : Expression(Word[res[k].pattern]) /\ res[k].replace \in Symbols
  <2>1. \A r \in RegexSet : Expression(Word[r.pattern]) /\ r.replace \in Symbols
    BY DEF RegexSet, RuleSet, Symbols
  <2>2. QED
    BY <1>1, <2>1
<1> HIDE DEF N
<1>4. 0 \in T
  <2>1. 0 \in 0..N /\ 1..0 = {}
    BY <1>1
  <2>2. QED
    BY <2>1 DEF Quiet
<1>5. ASSUME NEW n \in 0..N, n # N, n \in T
      PROVE  n + 1 \in T
  <2> DEFINE m == n + 1
             t == run[n].text
             w == Word[res[m].pattern]
             u == ReplaceMatches(t, w, res[m].replace)
  <2>1. m \in 1..N /\ m - 1 = n /\ m \in 0..N /\ \A k \in 1..m : k \in 1..N /\ m \in k..N /\ (k # m => k \in 1..n)
    BY <1>1, <1>5
  <2>2. Quiet(t, res, n) /\ t \in Texts(I)
    BY <1>2, <1>5 DEF Results
  <2>3. run[m].text = u
    <3> HIDE DEF m
    <3>1. run[m] = Apply(run[m - 1], res[m])
      BY <1>2, <2>1
    <3>2. run[m] = Apply(run[n], res[m])
      BY <2>1, <3>1
    <3>3. QED
      BY <3>2 DEF Apply
  <2> HIDE DEF m, t, w
  <2>4. Quiet(u, res, m)
    <3> SUFFICES ASSUME NEW k \in 1..m, Undisturbed(res, k), NEW i \in DOMAIN u,
                        Consumes(u, i, Word[res[k].pattern])
                 PROVE  FALSE
      BY DEF Quiet
    <3> DEFINE v == Word[res[k].pattern]
               s == res[m].replace
    <3>1. Expression(w) /\ s \in Symbols /\ Expression(v) /\ Foreign(s, v) /\ Delimits(w, v)
      BY <1>3, <2>1 DEF w, Undisturbed, N
    <3> HIDE DEF s, v
    <3>2. Consumes(ReplaceMatches(t, w, s), i, v) /\ i \in DOMAIN ReplaceMatches(t, w, s)
      BY DEF v, s
    <3>3. PICK p \in DOMAIN t : Consumes(t, p, v) /\ ~Consumes(t, p, w)
      BY <2>2, <3>1, <3>2, MatchOld
    <3>4. CASE k = m
      BY <3>3, <3>4 DEF v, w
    <3>5. CASE k # m
      BY <2>1, <2>2, <3>3, <3>5 DEF Quiet, v
    <3>6. QED
      BY <3>4, <3>5
  <2>5. QED
    BY <2>1, <2>3, <2>4 DEF m
<1> HIDE DEF T
<1>6. \A n \in 0..N : n \in T
  BY <1>1, <1>4, <1>5, Climb
<1>7. QED
  BY <1>6 DEF T, N

\* A rule finds nothing to hide in what is printed (MaskLine need not run the
\* rules a second time), when no token of it takes a replacement and no
\* replacement makes a word boundary that it looks for, for all lines and rules.
THEOREM NoMatchSurvivesHolds == Spec => []NoMatchSurvives
<1>1. ASSUME MaskInv PROVE NoMatchSurvives
  <2> DEFINE frs == FieldRules(Rules)
             res == RegexRules(Rules)
  <2> SUFFICES ASSUME Masked, NEW k \in DOMAIN res, Undisturbed(res, k), NEW i \in DOMAIN result.text
               PROVE  ~Consumes(result.text, i, Word[res[k].pattern])
    BY DEF NoMatchSurvives, Undisturbed
  <2>1. line \in LineSet /\ RulesOK(Rules)
    BY <1>1, RulesAssumed
  <2>2. frs \in Seq(RuleSet) /\ res \in Seq(RegexSet)
    BY <2>1, RulesSplit
  <2>3. result = RunRules(line, frs, res)
    BY <1>1 DEF MaskInv, MaskLine
  <2> HIDE DEF frs, res
  <2>4. Added \in Nat \X Nat /\ MaskFields(line, frs) \in Results(Nat \X Nat)
    BY <2>1, <2>2, MaskFieldsSomehow
  <2>5. PICK run : Runs(line, frs, res, Nat \X Nat, run)
    BY <2>2, <2>4, RunTable
  <2>6. Len(res) \in 0..Len(res) /\ DOMAIN res = 1..Len(res)
    BY <2>2
  <2>7. Quiet(run[Len(res)].text, res, Len(res))
    BY <2>2, <2>4, <2>5, <2>6, RunQuiets
  <2>8. result = run[Len(res)]
    BY <2>3, <2>5 DEF Runs
  <2>9. QED
    BY <2>6, <2>7, <2>8 DEF Quiet
<1>2. QED
  BY <1>1, MaskInductive, PTL

-----------------------------------------------------------------------------
(* Rules of annotations and what the policies alone would show.            *)

\* A text shows no cells but those it shows.
LEMMA RawTyped ==
  ASSUME NEW I, NEW J, NEW t \in Texts(I), \A i \in DOMAIN t : t[i].id = Added \/ t[i].id \in Raw(J)
  PROVE  t \in Texts({Added} \cup Raw(J))
<1> DEFINE K == {Added} \cup Raw(J)
           C == [sym : Symbols, id : I]
           D == [sym : Symbols, id : K]
<1>1. \A i \in DOMAIN t : t[i].id \in K
  OBVIOUS
<1>2. \A c \in C : c.id \in K => c \in D
  OBVIOUS
<1>3. t \in Seq(C)
  BY DEF Texts
<1> HIDE DEF C, D, K
<1>4. \A i \in DOMAIN t : t[i] \in D
  BY <1>1, <1>2, <1>3
<1>5. t \in Seq(D)
  BY <1>3, <1>4
<1>6. QED
  BY <1>5 DEF Texts, D, K

\* So does what json.Marshal makes of members, with other symbols for some.
LEMMA MarshalShows ==
  ASSUME NEW I, Added \in I, NEW ms \in Seq(MemberSet(I)), NEW i \in 1..Len(ms), NEW p \in DOMAIN ms[i].value
  PROVE  \E k \in DOMAIN Marshal(ms) : Marshal(ms)[k].id = ms[i].value[p].id
<1> DEFINE n   == Len(ms)
           mem(m) == [ms[m] EXCEPT !.value = WithEscapes(ms[m].value)]
           es  == [m \in 1..n |-> mem(m)]
<1>1. n \in Nat /\ DOMAIN ms = 1..n
  OBVIOUS
<1>2. Marshal(ms) = Text(es, FALSE)
  BY <1>1 DEF Marshal, WithEscapes
<1>3. ASSUME NEW m \in 1..n
      PROVE  mem(m) \in MemberSet(I) /\ mem(m).value = WithEscapes(ms[m].value)
  <2>1. ms[m] \in MemberSet(I)
    OBVIOUS
  <2>2. WithEscapes(ms[m].value) \in Texts(I)
    BY <2>1, EscapedTyped DEF MemberSet
  <2>3. QED
    BY <2>1, <2>2 DEF MemberSet
<1> HIDE DEF mem
<1>4. es \in Seq(MemberSet(I)) /\ Len(es) = n /\ es[i] = mem(i)
  BY <1>1, <1>3
<1>5. /\ es[i].value = WithEscapes(ms[i].value)
      /\ DOMAIN es[i].value = DOMAIN ms[i].value /\ es[i].value[p].id = ms[i].value[p].id
  <2>1. ms[i] \in MemberSet(I)
    OBVIOUS
  <2>2. ms[i].value \in Texts(I)
    BY <2>1 DEF MemberSet
  <2>3. QED
    BY <1>3, <1>4, <2>2, EscapedTyped
<1> HIDE DEF es
<1>6. Shows(Text(es, FALSE), es[i].value)
  BY <1>4, TextShows
<1>7. QED
  BY <1>2, <1>5, <1>6 DEF Shows
\* More field rules: what they leave of an object, fewer rules leave as well.
LEMMA MoreRulesLeaveLess ==
  ASSUME NEW J, NEW ms \in Seq(MemberSet(J)), NEW pf \in Seq(RuleSet), NEW af \in Seq(RuleSet),
         NEW m \in 1..Len(ms), Named(ms[m].path, pf \o af) = 0
  PROVE  Named(ms[m].path, pf) = 0
<1> DEFINE all == pf \o af
<1>1. \A k \in 1..Len(ms) : ms[k].path \in Seq(STRING)
  <2> SUFFICES ASSUME NEW k \in 1..Len(ms) PROVE ms[k].path \in Seq(STRING)
    OBVIOUS
  <2>1. ms[k] \in MemberSet(J)
    OBVIOUS
  <2>2. QED
    BY <2>1 DEF MemberSet
<1>2. \A i \in DOMAIN pf : i \in DOMAIN all /\ all[i] = pf[i]
  OBVIOUS
<1> HIDE DEF all
<1>3. Len(ms) \in Nat
  OBVIOUS
<1>4. \A path : NamedAt(path, pf) \subseteq NamedAt(path, all)
  BY <1>2 DEF NamedAt
<1>5. ASSUME NEW path \in Seq(STRING), Named(path, all) = 0
      PROVE  Named(path, pf) = 0
  <2>1. NamedAt(path, all) = {}
    BY <1>5, NamedFirst
  <2>2. NamedAt(path, pf) = {}
    BY <1>4, <2>1
  <2>3. QED
    BY <2>2, NamedFirst
<1>6. QED
  BY <1>1, <1>5 DEF all

\* The texts that show no value but those that t shows.
NoMoreThan(t) == Results({Added} \cup Raw(t))

LEMMA FieldRulesShowLess ==
  ASSUME NEW l \in LineSet, NEW pf \in Seq(RuleSet), NEW af \in Seq(RuleSet),
         Reformatted(l, pf), Reformatted(l, pf \o af)
  PROVE  MaskFields(l, pf \o af) \in NoMoreThan(MaskFields(l, pf).text)
<1> DEFINE ms == Members(l)
           n  == Len(l.members)
           t  == MaskFields(l, pf).text
           I  == {Added} \cup Raw(t)
           N  == Nat \X Nat
           kept == MaskMembers(ms, pf)
<1>1. /\ ms \in Seq(MemberSet(N)) /\ Len(ms) = n
      /\ \A m \in 1..n : ms[m].path \in Seq(STRING)
  BY MembersTyped
<1>2. \A m \in 1..n : ms[m].value \in Texts(N)
  <2> SUFFICES ASSUME NEW m \in 1..n PROVE ms[m].value \in Texts(N)
    OBVIOUS
  <2>1. ms[m] \in MemberSet(N)
    BY <1>1
  <2>2. QED
    BY <2>1 DEF MemberSet
<1>3. t = Marshal(kept) /\ Added \in N
  BY DEF MaskFields, Reformatted, Added
<1>4. pf \o af \in Seq(RuleSet)
  OBVIOUS
<1>5. Reformatted(l, pf \o af)
  OBVIOUS
<1> HIDE DEF ms, n, kept, t, N
<1>6. /\ kept \in Seq(MemberSet(N))
      /\ \A m \in 1..n : Named(ms[m].path, pf) = 0 => \E i \in 1..Len(kept) : kept[i] = ms[m]
  <2>1. \A m \in 1..Len(ms) : Named(ms[m].path, pf) = 0 => ms[m].value \in Texts(N)
    BY <1>1, <1>2
  <2>2. /\ MaskMembers(ms, pf) \in Seq(MemberSet(N))
        /\ KeepsRest(MaskMembers(ms, pf), ms, pf)
    <3>1. ms \in Seq(MemberSet(N)) /\ Added \in N /\ pf \in Seq(RuleSet)
      BY <1>1, <1>3
    <3>2. QED
      BY <2>1, <3>1, MaskMembersTyped
  <2>3. QED
    BY <1>1, <2>2 DEF kept, KeepsRest
<1>7. ASSUME NEW m \in 1..n, Named(ms[m].path, pf \o af) = 0
      PROVE  ms[m].value \in Texts(I)
  <2>1. Named(ms[m].path, pf) = 0
    BY <1>1, <1>7, MoreRulesLeaveLess
  <2>2. PICK i \in 1..Len(kept) : kept[i] = ms[m]
    BY <1>6, <2>1
  <2> DEFINE v == ms[m].value
  <2>3. v \in Texts(N) /\ v = kept[i].value
    BY <1>2, <2>2
  <2> HIDE DEF v
  <2>4. \A p \in DOMAIN v : \E k \in DOMAIN t : t[k].id = v[p].id
    <3> SUFFICES ASSUME NEW p \in DOMAIN kept[i].value
                 PROVE  \E k \in DOMAIN Marshal(kept) : Marshal(kept)[k].id = kept[i].value[p].id
      BY <1>3, <2>3
    <3>1. QED
      BY <1>3, <1>6, MarshalShows
  <2>5. \A p \in DOMAIN v : v[p].id = Added \/ v[p].id \in Raw(t)
    BY <2>4 DEF Raw
  <2>6. QED
    BY <2>3, <2>5, RawTyped DEF v
<1>8. Added \in I
  OBVIOUS
<1> HIDE DEF I
<1>9. MaskFields(l, pf \o af) \in Results(I)
  BY <1>1, <1>4, <1>5, <1>7, <1>8, MaskFieldsTyped DEF ms, n
<1>10. QED
  BY <1>9 DEF I, NoMoreThan, t
\* No path of the line has a key that one of frs names.
NamesNone(l, frs) ==
    \A m \in 1..Len(l.members), i \in DOMAIN frs :
        \A d \in DOMAIN l.members[m].path : frs[i].field # l.members[m].path[d]

\* The members that stay of an object whose members named are masked.
Remaining(ms, masked, named) ==
    LET firsts == {m \in DOMAIN ms :
                      named[m] # 0 => \A n \in 1..(m - 1) : masked[n].path # masked[m].path}
        kept   == Kept([m \in DOMAIN ms |-> m], firsts)
    IN  [i \in DOMAIN kept |-> masked[kept[i]]]

\* Field rules that name no key of an object make no difference to it.
LEMMA IdleFieldRules ==
  ASSUME NEW l \in LineSet, NEW pf \in Seq(RuleSet), NEW af \in Seq(RuleSet),
         l.object => NamesNone(l, af)
  PROVE  MaskFields(l, pf \o af) = MaskFields(l, pf)
<1> DEFINE ms == Members(l)
           n  == Len(l.members)
           all == pf \o af
<1>1. /\ ms \in Seq(MemberSet(Nat \X Nat)) /\ Len(ms) = n
      /\ \A m \in 1..n : ms[m].path = l.members[m].path /\ ms[m].path \in Seq(STRING)
  BY MembersTyped
<1>2. CASE ~l.object
  BY <1>2 DEF MaskFields
<1>3. CASE l.object
  <2>0. /\ all \in Seq(RuleSet) /\ Len(all) = Len(pf) + Len(af) /\ Len(pf) \in Nat /\ Len(af) \in Nat
        /\ \A i \in 1..Len(pf) : all[i] = pf[i]
        /\ \A i \in 1..Len(af) : all[Len(pf) + i] = af[i]
        /\ DOMAIN all = 1..Len(all) /\ DOMAIN pf = 1..Len(pf) /\ DOMAIN af = 1..Len(af)
    OBVIOUS
  <2>1. \A m \in 1..n, i \in DOMAIN af : \A d \in DOMAIN ms[m].path : af[i].field # ms[m].path[d]
    BY <1>1, <1>3 DEF NamesNone
  <2> HIDE DEF ms, all, n
  <2>2. \A i \in 1..Len(all) : i \in 1..Len(pf) \/ \E j \in 1..Len(af) : all[i] = af[j]
    <3> SUFFICES ASSUME NEW i \in 1..Len(all), i \notin 1..Len(pf)
                 PROVE  \E j \in 1..Len(af) : all[i] = af[j]
      OBVIOUS
    <3> DEFINE j == i - Len(pf)
    <3>1. j \in 1..Len(af) /\ Len(pf) + j = i
      BY <2>0
    <3> HIDE DEF j
    <3>2. QED
      BY <2>0, <3>1
  <2>3. ASSUME NEW m \in 1..n
        PROVE  NamedAt(ms[m].path, all) = NamedAt(ms[m].path, pf)
    <3> DEFINE x == ms[m].path
    <3>1. x \in Seq(STRING) /\ \A i \in DOMAIN af : \A d \in DOMAIN x : af[i].field # x[d]
      BY <1>1, <2>1
    <3> HIDE DEF x
    <3>2. \A d \in 1..Len(x) : (\E i \in DOMAIN all : all[i].field = x[d]) <=> (\E i \in DOMAIN pf : pf[i].field = x[d])
      <4> SUFFICES ASSUME NEW d \in 1..Len(x)
                   PROVE  (\E i \in DOMAIN all : all[i].field = x[d]) <=> (\E i \in DOMAIN pf : pf[i].field = x[d])
        OBVIOUS
      <4>0. d \in DOMAIN x
        BY <3>1
      <4>1. \A i \in 1..Len(af) : af[i].field # x[d]
        BY <2>0, <3>1, <4>0
      <4>2. \A i \in 1..Len(pf) : i \in 1..Len(all)
        BY <2>0
      <4>3. QED
        BY <2>0, <2>2, <4>1, <4>2
    <3>3. QED
      BY <3>2 DEF NamedAt, x
  <2>4. ASSUME NEW m \in 1..n
        PROVE  Named(ms[m].path, all) = Named(ms[m].path, pf)
    <3>1. \A frs : Named(ms[m].path, frs) =
                       IF NamedAt(ms[m].path, frs) = {} THEN 0 ELSE Min(NamedAt(ms[m].path, frs))
      BY <1>1, NamedFirst
    <3>2. QED
      BY <2>3, <3>1
  <2>5. ASSUME NEW m \in 1..n, Named(ms[m].path, pf) # 0
        PROVE  RuleFor(ms[m].path[Named(ms[m].path, pf)], all) = RuleFor(ms[m].path[Named(ms[m].path, pf)], pf)
    <3> DEFINE x == ms[m].path
               d == Named(x, pf)
               key == x[d]
    <3>1. x \in Seq(STRING) /\ \A i \in DOMAIN af : \A e \in DOMAIN x : af[i].field # x[e]
      BY <1>1, <2>1
    <3>2. d \in NamedAt(x, pf)
      BY <2>5, <3>1, NamedFirst
    <3>3. d \in DOMAIN x /\ \E i \in DOMAIN pf : pf[i].field = key
      BY <3>1, <3>2 DEF NamedAt
    <3> HIDE DEF x, d
    <3>4. \A i \in 1..Len(af) : af[i].field # key
      BY <2>0, <3>1, <3>3
    <3> HIDE DEF key
    <3>5. \A i \in 1..Len(all) : all[i].field = key => i \in 1..Len(pf)
      BY <2>2, <3>4
    <3>6. \A i \in 1..Len(pf) : i \in 1..Len(all)
      BY <2>0
    <3>7. RulesFor(key, all) = RulesFor(key, pf)
      BY <2>0, <3>5, <3>6 DEF RulesFor
    <3>8. RulesFor(key, pf) # {}
      BY <2>0, <3>3 DEF RulesFor
    <3>9. RuleFor(key, pf) = pf[Max(RulesFor(key, pf))] /\ Max(RulesFor(key, pf)) \in RulesFor(key, pf)
      BY <3>8, RuleForLast
    <3>10. RuleFor(key, all) = all[Max(RulesFor(key, all))]
      BY <2>0, <3>7, <3>8, RuleForLast
    <3>11. Max(RulesFor(key, pf)) \in 1..Len(pf)
      BY <3>9 DEF RulesFor
    <3>12. RuleFor(key, all) = RuleFor(key, pf)
      BY <2>0, <3>7, <3>9, <3>10, <3>11
    <3>13. QED
      BY <3>12 DEF key, d, x
  <2>6. \A m \in 1..n : MaskMember(ms[m], all) = MaskMember(ms[m], pf)
    BY <2>4, <2>5 DEF MaskMember
  <2>7. DOMAIN ms = 1..n
    BY <1>1
  <2>8. FieldMatches(ms, all) = FieldMatches(ms, pf)
    BY <2>4, <2>5, <2>7 DEF FieldMatches
  <2>9. MaskMembers(ms, all) = MaskMembers(ms, pf)
    <3>1. [m \in DOMAIN ms |-> MaskMember(ms[m], all)] = [m \in DOMAIN ms |-> MaskMember(ms[m], pf)]
      BY <2>6, <2>7
    <3>2. [m \in DOMAIN ms |-> Named(ms[m].path, all)] = [m \in DOMAIN ms |-> Named(ms[m].path, pf)]
      BY <2>4, <2>7
    <3>3. ASSUME NEW frs
          PROVE  MaskMembers(ms, frs) = Remaining(ms, [m \in DOMAIN ms |-> MaskMember(ms[m], frs)],
                                                      [m \in DOMAIN ms |-> Named(ms[m].path, frs)])
      <4> DEFINE named  == [m \in DOMAIN ms |-> Named(ms[m].path, frs)]
                 masked == [m \in DOMAIN ms |-> MaskMember(ms[m], frs)]
      <4>1. \A m \in DOMAIN ms : named[m] = Named(ms[m].path, frs)
        OBVIOUS
      <4> DEFINE A == {m \in DOMAIN ms : Named(ms[m].path, frs) # 0 =>
                          \A x \in 1..(m - 1) : masked[x].path # masked[m].path}
                 B == {m \in DOMAIN ms : named[m] # 0 =>
                          \A x \in 1..(m - 1) : masked[x].path # masked[m].path}
                 left(S) == [x \in DOMAIN Kept([m \in DOMAIN ms |-> m], S) |->
                                masked[Kept([m \in DOMAIN ms |-> m], S)[x]]]
      <4>2. MaskMembers(ms, frs) = left(A)
        BY DEF MaskMembers
      <4>3. Remaining(ms, masked, named) = left(B)
        BY DEF Remaining
      <4> HIDE DEF named, masked
      <4>4. A = B
        BY <4>1
      <4> HIDE DEF A, B, left
      <4>5. MaskMembers(ms, frs) = Remaining(ms, masked, named)
        BY <4>2, <4>3, <4>4
      <4>6. QED
        BY <4>5 DEF named, masked
    <3>4. QED
      BY <3>1, <3>2, <3>3
  <2>10. QED
    BY <2>8, <2>9 DEF MaskFields, ms, all
<1>4. QED
  BY <1>2, <1>3

\* The rules of a second list change nothing of what those of the first do,
\* and what the first list leaves is all that the second can show.
LEMMA RunOn ==
  ASSUME NEW l, NEW fs, NEW frs, NEW p \in Seq(RegexSet), NEW a \in Seq(RegexSet), NEW I, Added \in I,
         MaskFields(l, frs) \in Results(I), MaskFields(l, fs) = MaskFields(l, frs)
  PROVE  RunRules(l, fs, p \o a) \in NoMoreThan(RunRules(l, frs, p).text)
<1> DEFINE all == p \o a
           P == Len(p)
           N == Len(all)
           x == RunRules(l, frs, p)
           J == {Added} \cup Raw(x.text)
<1>1. /\ all \in Seq(RegexSet) /\ P \in Nat /\ N \in Nat /\ P <= N
      /\ \A n \in 1..P : all[n] = p[n]
      /\ \A n \in 1..N : all[n] \in RegexSet
  <2>1. all \in Seq(RegexSet) /\ P \in Nat /\ N = P + Len(a) /\ Len(a) \in Nat /\ \A n \in 1..P : all[n] = p[n]
    OBVIOUS
  <2> HIDE DEF all
  <2>2. QED
    BY <2>1
<1>2. PICK one : Runs(l, frs, p, I, one)
  BY RunTable
<1> HIDE DEF all
<1>3. PICK both : Runs(l, fs, all, I, both)
  BY <1>1, RunTable
<1> HIDE DEF P, N
<1>4. /\ one[0] = both[0] /\ x = one[P] /\ RunRules(l, fs, all) = both[N] /\ x \in Results(I)
      /\ \A n \in 1..P : one[n] = Apply(one[n - 1], p[n])
      /\ \A n \in 1..N : both[n] = Apply(both[n - 1], all[n])
  <2>1. P \in 0..P
    BY <1>1
  <2>2. QED
    BY <1>2, <1>3, <2>1 DEF Runs, P, N
<1>5. x \in Results(J)
  <2>1. x.text \in Texts(I) /\ x.matched \in SUBSET STRING /\ x = [text |-> x.text, matched |-> x.matched]
    BY <1>4 DEF Results
  <2>2. \A i \in DOMAIN x.text : x.text[i].id = Added \/ x.text[i].id \in Raw(x.text)
    BY DEF Raw
  <2>3. x.text \in Texts(J)
    BY <2>1, <2>2, RawTyped
  <2>4. QED
    BY <2>1, <2>3 DEF Results
<1>6. Added \in J
  OBVIOUS
<1> DEFINE T == {n \in 0..N : (n <= P => both[n] = one[n]) /\ (P <= n => both[n] \in Results(J))}
<1> HIDE DEF x, J
<1>7. 0 \in T
  <2>1. 0 \in 0..N /\ (P <= 0 => P = 0)
    BY <1>1
  <2>2. QED
    BY <1>4, <1>5, <2>1
<1>8. ASSUME NEW n \in 0..N, n # N, n \in T
      PROVE  n + 1 \in T
  <2> DEFINE m == n + 1
  <2>1. m \in 1..N /\ m \in 0..N /\ m - 1 = n /\ (m <= P => n <= P /\ m \in 1..P) /\ (P <= m => m = P \/ P <= n)
    BY <1>1, <1>8
  <2> HIDE DEF m
  <2>2. m <= P => both[m] = one[m]
    BY <1>1, <1>4, <1>8, <2>1
  <2>3. P <= n => both[m] \in Results(J)
    <3> SUFFICES ASSUME P <= n PROVE both[m] \in Results(J)
      OBVIOUS
    <3>1. both[n] \in Results(J) /\ all[m] \in RegexSet
      BY <1>1, <1>8, <2>1
    <3>2. both[m] = Apply(both[n], all[m])
      BY <1>4, <2>1
    <3>3. QED
      BY <1>6, <3>1, <3>2, ApplyTyped
  <2>4. m = P => both[m] \in Results(J)
    <3>1. m = P => m <= P
      BY <2>1
    <3>2. QED
      BY <1>4, <1>5, <2>2, <3>1
  <2>5. QED
    BY <2>1, <2>2, <2>3, <2>4 DEF m
<1> HIDE DEF T
<1>9. N \in T
  <2>1. N \in 0..N
    BY <1>1
  <2>2. \A n \in 0..N : n \in T
    BY <1>1, <1>7, <1>8, Climb
  <2>3. QED
    BY <2>1, <2>2
<1>10. both[N] \in Results(J)
  BY <1>1, <1>9 DEF T
<1>11. QED
  BY <1>4, <1>10 DEF NoMoreThan, J, x, all
LEMMA ReformatsMeans ==
  ASSUME line \in LineSet, NEW rs, RulesOK(rs)
  PROVE  Reformats(rs) <=> line.object /\ ~NamesNone(line, FieldRules(rs))
<1> DEFINE frs == FieldRules(rs)
           ok(r) == \E m \in 1..Len(line.members) : \E d \in DOMAIN line.members[m].path :
                        r.field = line.members[m].path[d]
<1>1. DOMAIN line.members = 1..Len(line.members)
  BY DEF LineSet
<1>2. Reformats(rs) <=> line.object /\ \E k \in DOMAIN rs : IsField(rs[k]) /\ ok(rs[k])
  BY <1>1 DEF Reformats, ToSet
<1>3. NamesNone(line, frs) <=> \A i \in DOMAIN frs : ~ok(frs[i])
  BY DEF NamesNone
<1>4. \A k \in DOMAIN rs : IsField(rs[k]) => \E i \in DOMAIN frs : frs[i] = rs[k]
  BY RulesSplit
<1>5. \A i \in DOMAIN frs : \E k \in DOMAIN rs : frs[i] = rs[k] /\ IsField(rs[k])
  <2> DEFINE F == {r \in ToSet(rs) : IsField(r)}
  <2>1. rs \in Seq(ToSet(rs))
    <3>1. rs \in Seq(RuleSet) /\ \A k \in DOMAIN rs : rs[k] \in ToSet(rs)
      BY RulesSplit DEF ToSet
    <3> DEFINE R == ToSet(rs)
    <3>2. \A k \in DOMAIN rs : rs[k] \in R
      BY <3>1
    <3> HIDE DEF R
    <3>3. rs \in Seq(R)
      BY <3>1, <3>2
    <3>4. QED
      BY <3>3 DEF R
  <2>2. frs = Kept(rs, F)
    BY DEF FieldRules
  <2>3. Kept(rs, F) \in Seq(ToSet(rs) \cap F)
    BY <2>1, KeptIsSeq
  <2> HIDE DEF frs
  <2>4. \A i \in DOMAIN frs : frs[i] \in ToSet(rs) \cap F
    <3> DEFINE S == ToSet(rs) \cap F
    <3>1. frs \in Seq(S)
      BY <2>2, <2>3
    <3> HIDE DEF S
    <3>2. \A i \in DOMAIN frs : frs[i] \in S
      BY <3>1
    <3>3. QED
      BY <3>2 DEF S
  <2>5. QED
    BY <2>4 DEF ToSet
<1> HIDE DEF frs, ok
<1>6. (\E k \in DOMAIN rs : IsField(rs[k]) /\ ok(rs[k])) <=> \E i \in DOMAIN frs : ok(frs[i])
  BY <1>4, <1>5
<1>7. QED
  BY <1>2, <1>3, <1>6 DEF frs

\* A rule that names a key of an object reformats it.
LEMMA NamedReformats ==
  ASSUME NEW l \in LineSet, l.object, NEW frs, ~NamesNone(l, frs)
  PROVE  Reformatted(l, frs)
<1>0. PICK m \in 1..Len(l.members), i \in DOMAIN frs :
          \E d \in DOMAIN l.members[m].path : frs[i].field = l.members[m].path[d]
  BY DEF NamesNone
<1>1. PICK d \in DOMAIN l.members[m].path : frs[i].field = l.members[m].path[d]
  BY <1>0
<1> DEFINE ms == Members(l)
           x  == ms[m].path
<1>2. m \in DOMAIN ms
  <2>1. ms \in Seq(MemberSet(Nat \X Nat)) /\ Len(ms) = Len(l.members)
    BY MembersTyped
  <2> HIDE DEF ms
  <2>2. QED
    BY <2>1
<1>3. x \in Seq(STRING) /\ x = l.members[m].path
  BY MembersTyped
<1> HIDE DEF ms, x
<1>4. d \in NamedAt(x, frs)
  BY <1>1, <1>3 DEF NamedAt
<1>5. Named(x, frs) # 0
  BY <1>3, <1>4, NamedFirst
<1>6. RuleFor(x[Named(x, frs)], frs).name \in FieldMatches(ms, frs)
  BY <1>2, <1>5 DEF FieldMatches, x
<1>7. QED
  BY <1>6 DEF Reformatted, ms

\* Rules of annotations show nothing of a line that the policies alone hide,
\* whatever the rules and the line, unless they are field rules that change
\* what the regular expressions of policies run on (Merge puts them last,
\* MaskLine runs all field rules first).
THEOREM AnnotationsOnlyHideHolds == Spec => []AnnotationsOnlyHide
<1>1. ASSUME MaskInv PROVE AnnotationsOnlyHide
  <2> SUFFICES ASSUME Masked, Reformats(added) => Reformats(policy) /\ RegexRules(policy) = <<>>
               PROVE  Raw(result.text) \subseteq Raw(MaskLine(line, policy).text)
    BY DEF AnnotationsOnlyHide
  <2> DEFINE pf == FieldRules(policy)
             af == FieldRules(added)
             pr == RegexRules(policy)
             ar == RegexRules(added)
             alone == RunRules(line, pf, pr)
             N == Nat \X Nat
  <2>1. /\ line \in LineSet /\ RulesOK(policy) /\ RulesOK(added)
        /\ result = RunRules(line, pf \o af, pr \o ar) /\ MaskLine(line, policy) = alone
    BY <1>1, RulesAssumed DEF MaskInv, MaskLine
  <2>2. pf \in Seq(RuleSet) /\ af \in Seq(RuleSet) /\ pr \in Seq(RegexSet) /\ ar \in Seq(RegexSet)
    BY <2>1, RulesSplit
  <2>3. /\ Reformats(policy) <=> line.object /\ ~NamesNone(line, pf)
        /\ Reformats(added) <=> line.object /\ ~NamesNone(line, af)
    BY <2>1, ReformatsMeans
  <2>4. Reformats(added) => Reformats(policy) /\ pr = <<>>
    OBVIOUS
  <2> HIDE DEF pf, af, pr, ar, N
  <2>5. Added \in N /\ MaskFields(line, pf) \in Results(N)
    BY <2>1, <2>2, MaskFieldsSomehow DEF N
  <2>6. result \in NoMoreThan(alone.text)
    <3>1. CASE line.object => NamesNone(line, af)
      <4>1. MaskFields(line, pf \o af) = MaskFields(line, pf)
        BY <2>1, <2>2, <3>1, IdleFieldRules
      <4>2. QED
        BY <2>1, <2>2, <2>5, <4>1, RunOn
    <3>2. CASE line.object /\ ~NamesNone(line, af)
      <4> DEFINE t == MaskFields(line, pf).text
      <4>1. line.object /\ ~NamesNone(line, pf) /\ pr = <<>>
        BY <2>3, <2>4, <3>2
      <4>2. ~NamesNone(line, pf \o af)
        <5>1. \A i \in DOMAIN pf : i \in DOMAIN (pf \o af) /\ (pf \o af)[i] = pf[i]
          BY <2>2
        <5>2. QED
          BY <4>1, <5>1 DEF NamesNone
      <4>3. pf \o af \in Seq(RuleSet) /\ pr \o ar = ar
        BY <2>2, <4>1
      <4>4. Reformatted(line, pf) /\ Reformatted(line, pf \o af)
        BY <2>1, <4>1, <4>2, NamedReformats
      <4>5. MaskFields(line, pf \o af) \in Results({Added} \cup Raw(t))
        BY <2>1, <2>2, <4>4, FieldRulesShowLess DEF NoMoreThan
      <4>6. alone.text = t
        <5>1. PICK run : Runs(line, pf, pr, N, run)
          BY <2>2, <2>5, RunTable
        <5>2. Len(pr) = 0
          BY <4>1
        <5>3. QED
          BY <5>1, <5>2 DEF Runs
      <4> DEFINE I == {Added} \cup Raw(t)
      <4>7. Added \in I /\ MaskFields(line, pf \o af) \in Results(I)
        BY <4>5
      <4> HIDE DEF I
      <4>8. PICK run : Runs(line, pf \o af, ar, I, run)
        BY <2>2, <4>7, RunTable
      <4>9. Len(ar) \in 0..Len(ar)
        BY <2>2
      <4>10. RunRules(line, pf \o af, ar) \in Results(I)
        BY <4>8, <4>9 DEF Runs
      <4>11. QED
        BY <2>1, <4>3, <4>6, <4>10 DEF NoMoreThan, I
    <3>3. QED
      BY <3>1, <3>2
  <2>7. ASSUME NEW c \in Raw(result.text) PROVE c \in Raw(alone.text)
    <3> DEFINE J == {Added} \cup Raw(alone.text)
               C == [sym : Symbols, id : J]
    <3>1. result.text \in Texts(J)
      BY <2>6 DEF NoMoreThan, Results
    <3>2. \A x \in C : x.id \in J
      OBVIOUS
    <3>3. result.text \in Seq(C)
      BY <3>1 DEF Texts
    <3> HIDE DEF C, J
    <3>4. PICK i \in DOMAIN result.text : c = result.text[i].id
      BY DEF Raw
    <3>5. c \in J /\ c # Added
      BY <3>2, <3>3, <3>4 DEF Raw
    <3>6. QED
      BY <3>5 DEF J
  <2>8. QED
    BY <2>1, <2>7
<1>2. QED
  BY <1>1, MaskInductive, PTL

-----------------------------------------------------------------------------
(* logcloak audit: matches of patterns that do not overlap survive each other. *)

\* A match of w takes up position x of t.
InMatch(t, w, x) == \E i \in DOMAIN t : MatchesAt(t, i, w) /\ x \in i..(MatchEnd(t, i, w) - 1)

\* w could take up position x of t, whatever stands around.
Spans(t, w, x) == \E i \in DOMAIN t : \E q \in Ways(t, i, Loose(w)) : x \in i..(q - 1)

\* Where the k-th token of re may end when it begins at one of S.
Further(t, re, k, S) == UNION {Ends(t, p, re[k]) : p \in S}

\* at[k] is where the first k tokens of re may end that begin at b.
Reached(t, re, b, at) ==
    /\ at[0] = {b}
    /\ \A k \in 1..Len(re) : at[k] = Further(t, re, k, at[k - 1])
    /\ Ways(t, b, re) = at[Len(re)]

LEMMA WaysTable ==
  ASSUME NEW X, NEW t \in Seq(X), NEW re \in Seq(Token), NEW b \in 1..(Len(t) + 1)
  PROVE  \E at : Reached(t, re, b, at)
<1> DEFINE L == Len(re)
           I == 0..L
           P == 1..(Len(t) + 1)
           R == SUBSET P
           Row0(k, f) == IF k = 0 THEN {b} ELSE Further(t, re, k, f[k - 1])
           Solved(f) == f = [k \in I |-> Row0(k, f)]
           at == CHOOSE f : Solved(f)
           rank == [k \in I |-> k]
           body == [k \in I |-> [f \in [I -> R] |-> Row0(k, f)]]
<1>1. L \in Nat /\ Len(t) \in Nat
  OBVIOUS
<1>2. \A k \in I : k # 0 => k \in 1..L /\ k - 1 \in I
  OBVIOUS
<1>3. Ways(t, b, re) = at[L]
  BY DEF Ways, Further
<1>4. ASSUME NEW k \in I, k # 0, NEW S \in R PROVE Further(t, re, k, S) \in R
  <2>1. re[k] \in Token
    BY <1>2, <1>4
  <2>2. ASSUME NEW p \in S PROVE Ends(t, p, re[k]) \subseteq P
    <3>1. p \in 1..(Len(t) + 1)
      OBVIOUS
    <3>2. Ends(t, p, re[k]) \in SUBSET (p..(Len(t) + 1))
      BY <2>1, <3>1, EndsInside
    <3>3. p..(Len(t) + 1) \subseteq P
      BY <1>1, <3>1
    <3>4. QED
      BY <3>2, <3>3
  <2>3. QED
    BY <2>2 DEF Further
<1> HIDE DEF L
<1>5. \E f \in [I -> R] : \A k \in I : f[k] = body[k][f]
  <2>1. rank \in [I -> 0..L]
    BY <1>1
  <2>2. body \in [I -> [[I -> R] -> R]]
    <3>1. \A k \in I : \A f \in [I -> R] : Row0(k, f) \in R
      <4> SUFFICES ASSUME NEW k \in I, NEW f \in [I -> R] PROVE Row0(k, f) \in R
        OBVIOUS
      <4>1. CASE k = 0
        BY <4>1
      <4>2. CASE k # 0
        <5>1. f[k - 1] \in R
          BY <1>2, <4>2
        <5> HIDE DEF R
        <5>2. QED
          BY <1>4, <4>2, <5>1
      <4>3. QED
        BY <4>1, <4>2
    <3> HIDE DEF Row0, I, R
    <3>2. QED
      BY <3>1
  <2>3. ASSUME NEW k \in I, NEW g \in [I -> R], NEW h \in [I -> R],
               \A j \in I : rank[j] < rank[k] => g[j] = h[j]
        PROVE  body[k][g] = body[k][h]
    <3>1. k # 0 => g[k - 1] = h[k - 1]
      <4> SUFFICES ASSUME k # 0 PROVE g[k - 1] = h[k - 1]
        OBVIOUS
      <4>1. rank[k - 1] < rank[k]
        BY <1>1, <1>2
      <4>2. QED
        BY <1>2, <2>3, <4>1
    <3>2. Row0(k, g) = Row0(k, h)
      BY <3>1
    <3> HIDE DEF Row0, I, R
    <3>3. QED
      BY <3>2
  <2>4. R # {}
    OBVIOUS
  <2> HIDE DEF body, rank, R, I
  <2>5. Descends(I, R, L, rank, body)
    BY <2>1, <2>2, <2>3 DEF Descends
  <2>6. L \in Nat
    BY <1>1
  <2>7. QED
    BY <2>4, <2>5, <2>6, Recursion
<1>6. PICK f \in [I -> R] : \A k \in I : f[k] = body[k][f]
  BY <1>5
<1>7. \A k \in I : f[k] = Row0(k, f)
  <2> HIDE DEF Row0, R
  <2> QED
    BY <1>6
<1>8. Solved(f)
  <2> HIDE DEF I, R, Row0
  <2>1. f = [k \in I |-> f[k]]
    BY <1>6
  <2>2. QED
    BY <1>7, <2>1
<1>9. Solved(at)
  <2> HIDE DEF Solved
  <2> QED
    BY <1>8, Zenon
<1> HIDE DEF at
<1>10. \A k \in I : at[k] = Row0(k, at)
  <2> HIDE DEF I, Row0
  <2> QED
    BY <1>9
<1>11. at[0] = {b}
  BY <1>1, <1>10
<1>12. \A k \in 1..L : at[k] = Further(t, re, k, at[k - 1])
  BY <1>1, <1>10
<1>13. Reached(t, re, b, at)
  BY <1>3, <1>11, <1>12 DEF Reached, L
<1>14. QED
  BY <1>13

\* Positions at which the tokens begin and end one after the other are found.
LEMMA FitsWays ==
  ASSUME NEW X, NEW t \in Seq(X), NEW re \in Seq(Token), NEW c, Fits(t, re, 1, c)
  PROVE  c[Len(re) + 1] \in Ways(t, c[1], re)
<1> DEFINE L == Len(re)
<1>1. L \in Nat
  OBVIOUS
<1> DEFINE b == c[1]
<1>2. b \in 1..(Len(t) + 1) /\ \A k \in 1..L : c[k + 1] \in Ends(t, c[k], re[k])
  BY <1>1 DEF Fits
<1> HIDE DEF b
<1>3. PICK at : Reached(t, re, b, at)
  BY <1>2, WaysTable
<1> HIDE DEF L
<1> DEFINE T == {n \in 0..L : c[n + 1] \in at[n]}
<1>4. 0 \in T
  BY <1>1, <1>3 DEF b, Reached
<1>5. ASSUME NEW n \in 0..L, n # L, n \in T PROVE n + 1 \in T
  <2> DEFINE k == n + 1
  <2>1. k \in 1..L /\ k - 1 = n /\ k \in 0..L
    BY <1>1, <1>5
  <2>2. c[k] \in at[n]
    BY <1>5
  <2> HIDE DEF k
  <2>3. at[k] = Further(t, re, k, at[n]) /\ c[k + 1] \in Ends(t, c[k], re[k])
    BY <1>2, <1>3, <2>1 DEF L, Reached
  <2>4. c[k + 1] \in at[k]
    BY <2>2, <2>3 DEF Further
  <2>5. k \in T
    BY <2>1, <2>4
  <2>6. QED
    BY <2>5 DEF k
<1>6. L \in T
  <2> HIDE DEF T
  <2>1. \A n \in 0..L : n \in T
    BY <1>1, <1>4, <1>5, Climb
  <2>2. QED
    BY <1>1, <2>1
<1>7. QED
  BY <1>3, <1>6 DEF L, b, Reached

\* Without its word boundaries an expression fits where it did.
LEMMA LooseFits ==
  ASSUME NEW X, NEW t \in Seq(X), NEW w \in Seq(Token), NEW c, Fits(t, w, 1, c)
  PROVE  /\ Loose(w) \in Seq(Token) /\ Len(Loose(w)) = Len(w)
         /\ Fits(t, Loose(w), 1, c)
<1> DEFINE L == Len(w)
           v == Loose(w)
<1>1. L \in Nat /\ Len(t) \in Nat /\ DOMAIN w = 1..L /\ \A k \in 1..L : w[k] \in Token
  OBVIOUS
<1>2. v \in Seq(Token) /\ Len(v) = L
  <2>1. Class({}, "star") \in Token
    BY DEF Class, Token
  <2>2. v \in [1..L -> Token]
    BY <1>1, <2>1 DEF Loose
  <2> HIDE DEF v, L
  <2>3. QED
    BY <1>1, <2>2, SequenceOf
<1>3. c \in [1..(L + 1) -> 1..(Len(t) + 1)] /\ \A j \in 1..L : c[j + 1] \in Ends(t, c[j], w[j])
  BY DEF Fits
<1>4. ASSUME NEW j \in 1..L PROVE c[j + 1] \in Ends(t, c[j], v[j])
  <2>1. c[j] \in 1..(Len(t) + 1) /\ c[j + 1] \in Ends(t, c[j], w[j])
    BY <1>1, <1>3
  <2>2. CASE w[j].rep = "bound"
    <3>1. v[j] = Class({}, "star")
      BY <1>1, <2>2 DEF Loose
    <3>2. c[j + 1] = c[j]
      BY <2>1, <2>2 DEF Ends
    <3> DEFINE p == c[j]
    <3> HIDE DEF p
    <3>3. p \in 1..(Len(t) + 1)
      BY <2>1 DEF p
    <3>4. p \in Ends(t, p, Class({}, "star"))
      BY <1>1, <3>3 DEF Ends, Class
    <3>5. QED
      BY <3>1, <3>2, <3>4 DEF p
  <2>3. CASE w[j].rep # "bound"
    <3>1. v[j] = w[j]
      BY <1>1, <2>3 DEF Loose
    <3>2. QED
      BY <2>1, <3>1
  <2>4. QED
    BY <2>2, <2>3
<1>5. QED
  BY <1>2, <1>3, <1>4 DEF Fits

LEMMA MatchSpans ==
  ASSUME NEW X, NEW t \in Seq(X), NEW w, Expression(w), NEW b \in DOMAIN t, MatchesAt(t, b, w),
         NEW p \in b..(MatchEnd(t, b, w) - 1)
  PROVE  Spans(t, w, p)
<1> DEFINE e == MatchEnd(t, b, w)
<1>1. b \in 1..(Len(t) + 1) /\ w \in Seq(Token) /\ e # 0
  BY DEF Expression, MatchesAt
<1>2. PICK c : Fits(t, w, 1, c) /\ c[1] = b /\ c[Len(w) + 1] = e
  BY <1>1, MatchFits
<1>3. Loose(w) \in Seq(Token) /\ Len(Loose(w)) = Len(w) /\ Fits(t, Loose(w), 1, c)
  BY <1>1, <1>2, LooseFits
<1>4. c[Len(Loose(w)) + 1] \in Ways(t, c[1], Loose(w))
  BY <1>3, FitsWays
<1>5. e \in Ways(t, b, Loose(w))
  BY <1>2, <1>3, <1>4
<1>6. QED
  BY <1>5 DEF Spans

\* Where in t the cells of r come from, 0 standing for the replacement s: r is
\* what became of t from i on.
Origins(t, w, s, i, r, q) ==
    /\ q \in [1..Len(r) -> 0..Len(t)]
    /\ \A x \in 1..Len(r) : IF q[x] = 0 THEN r[x].sym = s ELSE r[x] = t[q[x]]
    /\ \A x \in 1..(Len(r) - 1) : q[x] # 0 /\ q[x + 1] # 0 => q[x + 1] = q[x] + 1
    /\ \A x \in 1..Len(r) :
          q[x] # 0 /\ q[x] < Len(t) /\ ~InMatch(t, w, q[x] + 1) => x < Len(r) /\ q[x + 1] = q[x] + 1
    /\ \A p \in i..Len(t) : ~InMatch(t, w, p) => \E x \in 1..Len(r) : q[x] = p
    /\ Len(r) > 0 /\ q[1] # 0 => q[1] = i
    /\ i <= Len(t) /\ ~InMatch(t, w, i) => Len(r) > 0 /\ q[1] = i

LEMMA OriginsStep ==
  ASSUME NEW C, NEW t \in Seq(C), NEW w, NEW s, NEW i \in 1..Len(t), NEW e \in (i + 1)..(Len(t) + 1),
         NEW r \in Seq(C), NEW q, Origins(t, w, s, e, r, q), NEW c \in C, NEW o,
         \/ o = 0 /\ c.sym = s /\ \A p \in i..(e - 1) : InMatch(t, w, p)
         \/ o = i /\ c = t[i] /\ e = i + 1
  PROVE  \E Q : Origins(t, w, s, i, <<c>> \o r, Q)
<1> DEFINE N == Len(t)
           M == Len(r)
           R == <<c>> \o r
           Q == [x \in 1..(M + 1) |-> IF x = 1 THEN o ELSE q[x - 1]]
<1>1. N \in Nat /\ M \in Nat /\ i \in 1..N /\ e \in (i + 1)..(N + 1) /\ o \in 0..N
  OBVIOUS
<1>2. R[1] = c /\ Len(R) = M + 1 /\ \A x \in 1..M : R[x + 1] = r[x]
  OBVIOUS
<1>3. /\ q \in [1..M -> 0..N]
      /\ \A x \in 1..M : IF q[x] = 0 THEN r[x].sym = s ELSE r[x] = t[q[x]]
      /\ \A x \in 1..(M - 1) : q[x] # 0 /\ q[x + 1] # 0 => q[x + 1] = q[x] + 1
      /\ \A x \in 1..M : q[x] # 0 /\ q[x] < N /\ ~InMatch(t, w, q[x] + 1) => x < M /\ q[x + 1] = q[x] + 1
      /\ \A p \in e..N : ~InMatch(t, w, p) => \E x \in 1..M : q[x] = p
      /\ M > 0 /\ q[1] # 0 => q[1] = e
      /\ e <= N /\ ~InMatch(t, w, e) => M > 0 /\ q[1] = e
  BY DEF Origins
<1>4. /\ 1 \in 1..(M + 1)
      /\ \A x \in 1..M : x + 1 \in 1..(M + 1) /\ x + 1 # 1 /\ (x + 1) - 1 = x
      /\ \A x \in 1..(M + 1) : x # 1 => x - 1 \in 1..M /\ (x - 1) + 1 = x
  BY <1>1
<1>5. Q[1] = o /\ \A x \in 1..M : Q[x + 1] = q[x]
  BY <1>4
<1>6. Q \in [1..(M + 1) -> 0..N]
  BY <1>1, <1>3, <1>4
<1> HIDE DEF N, M, R, Q
<1>7. \A x \in 1..(M + 1) : IF Q[x] = 0 THEN R[x].sym = s ELSE R[x] = t[Q[x]]
  <2>1. IF Q[1] = 0 THEN R[1].sym = s ELSE R[1] = t[Q[1]]
    BY <1>1, <1>2, <1>5
  <2>2. \A x \in 1..M : IF Q[x + 1] = 0 THEN R[x + 1].sym = s ELSE R[x + 1] = t[Q[x + 1]]
    BY <1>2, <1>3, <1>5
  <2>3. ASSUME NEW x \in 1..(M + 1), x # 1
        PROVE  IF Q[x] = 0 THEN R[x].sym = s ELSE R[x] = t[Q[x]]
    <3> DEFINE y == x - 1
    <3>1. y \in 1..M /\ y + 1 = x
      BY <1>4, <2>3
    <3> HIDE DEF y
    <3>2. IF Q[y + 1] = 0 THEN R[y + 1].sym = s ELSE R[y + 1] = t[Q[y + 1]]
      BY <2>2, <3>1
    <3>3. QED
      BY <3>1, <3>2
  <2>4. QED
    BY <2>1, <2>3
<1>8. \A x \in 1..M : Q[x] # 0 /\ Q[x + 1] # 0 => Q[x + 1] = Q[x] + 1
  <2> SUFFICES ASSUME NEW x \in 1..M, Q[x] # 0, Q[x + 1] # 0 PROVE Q[x + 1] = Q[x] + 1
    OBVIOUS
  <2>1. CASE x = 1
    <3>1. Q[x] = o /\ Q[x + 1] = q[1] /\ M > 0
      BY <1>1, <1>5, <2>1
    <3>2. QED
      BY <1>1, <1>3, <3>1
  <2>2. CASE x # 1
    <3> DEFINE y == x - 1
    <3>1. y \in 1..(M - 1) /\ y \in 1..M /\ y + 1 = x
      BY <1>1, <2>2
    <3> HIDE DEF y
    <3>2. Q[x] = q[y] /\ Q[x + 1] = q[y + 1]
      BY <1>5, <3>1
    <3>3. QED
      BY <1>3, <3>1, <3>2
  <2>3. QED
    BY <2>1, <2>2
<1>9. \A x \in 1..(M + 1) :
         Q[x] # 0 /\ Q[x] < N /\ ~InMatch(t, w, Q[x] + 1) => x < M + 1 /\ Q[x + 1] = Q[x] + 1
  <2> SUFFICES ASSUME NEW x \in 1..(M + 1), Q[x] # 0, Q[x] < N, ~InMatch(t, w, Q[x] + 1)
               PROVE  x < M + 1 /\ Q[x + 1] = Q[x] + 1
    OBVIOUS
  <2>1. CASE x = 1
    <3>1. Q[x] = i /\ e = i + 1 /\ e <= N /\ ~InMatch(t, w, e)
      BY <1>1, <1>5, <2>1
    <3>2. M > 0 /\ q[1] = e
      BY <1>3, <3>1
    <3>3. 1 \in 1..M
      BY <1>1, <3>2
    <3>4. QED
      BY <1>1, <1>5, <2>1, <3>1, <3>2, <3>3
  <2>2. CASE x # 1
    <3> DEFINE y == x - 1
    <3>1. y \in 1..M /\ y + 1 = x
      BY <1>1, <2>2
    <3> HIDE DEF y
    <3>2. Q[x] = q[y]
      BY <1>5, <3>1
    <3>3. y < M /\ q[y + 1] = q[y] + 1
      BY <1>3, <3>1, <3>2
    <3>4. y + 1 \in 1..M /\ x < M + 1
      BY <1>1, <3>1, <3>3
    <3>5. Q[x + 1] = q[x]
      BY <1>5, <3>1, <3>4
    <3>6. QED
      BY <3>1, <3>2, <3>3, <3>4, <3>5
  <2>3. QED
    BY <2>1, <2>2
<1>10. \A p \in i..N : ~InMatch(t, w, p) => \E x \in 1..(M + 1) : Q[x] = p
  <2> SUFFICES ASSUME NEW p \in i..N, ~InMatch(t, w, p) PROVE \E x \in 1..(M + 1) : Q[x] = p
    OBVIOUS
  <2>1. CASE p \in e..N
    <3>1. PICK x \in 1..M : q[x] = p
      BY <1>3, <2>1
    <3>2. x + 1 \in 1..(M + 1) /\ Q[x + 1] = p
      BY <1>4, <1>5, <3>1
    <3>3. QED
      BY <3>2
  <2>2. CASE p \notin e..N
    <3>1. p \in i..(e - 1)
      BY <1>1, <2>2
    <3>2. o = i /\ e = i + 1
      BY <3>1
    <3>3. p = o
      BY <1>1, <3>1, <3>2
    <3>4. QED
      BY <1>4, <1>5, <3>3
  <2>3. QED
    BY <2>1, <2>2
<1>11. /\ Q[1] # 0 => Q[1] = i
       /\ ~InMatch(t, w, i) => Q[1] = i
  <2>1. i \in i..(e - 1)
    BY <1>1
  <2>2. QED
    BY <1>5, <2>1
<1>12. Origins(t, w, s, i, R, Q)
  <2>1. Len(R) > 0 /\ Len(R) - 1 = M
    BY <1>1, <1>2
  <2>2. QED
    BY <1>2, <1>6, <1>7, <1>8, <1>9, <1>10, <1>11, <2>1 DEF Origins, N
<1>13. QED
  BY <1>12 DEF R

\* An expression that never matches the empty text makes no empty matches.
SolidRest(t, w, s, i, from) ==
    from[i] = IF i > Len(t) THEN <<>>
              ELSE IF MatchesAt(t, i, w) THEN <<Cell(s)>> \o from[MatchEnd(t, i, w)]
              ELSE <<t[i]>> \o from[i + 1]

LEMMA NothingEmpty ==
  ASSUME NEW C, NEW t \in Seq(C), NEW w, Expression(w), ~MatchesEmpty(w), NEW s,
         NEW i \in 1..(Len(t) + 1)
  PROVE  Empty(t, w, s, i) = <<>> /\ (Consumes(t, i, w) <=> MatchesAt(t, i, w))
<1> DEFINE e == MatchEnd(t, i, w)
<1>1. e \in 0..(Len(t) + 1) /\ (e # 0 => i < e)
  BY MatchRange DEF Expression
<1> HIDE DEF e
<1>2. i \in Nat /\ i # 0
  OBVIOUS
<1>3. e # i /\ (e > i <=> e # 0)
  BY <1>1, <1>2
<1>4. QED
  BY <1>3 DEF Empty, Consumes, MatchesAt, e

LEMMA ReplaceSolid ==
  ASSUME NEW I, Added \in I, NEW t \in Texts(I), NEW w, Expression(w), ~MatchesEmpty(w), NEW s \in Symbols
  PROVE  \E from : /\ Rests(t, w, s, I, from) /\ ReplaceMatches(t, w, s) = from[1]
                   /\ \A i \in 1..(Len(t) + 1) : SolidRest(t, w, s, i, from)
<1> DEFINE C == [sym : Symbols, id : I]
           P == 1..(Len(t) + 1)
<1>1. PICK from : Rests(t, w, s, I, from) /\ ReplaceMatches(t, w, s) = Empty(t, w, s, 1) \o from[1]
  BY ReplaceTable
<1>2. t \in Seq(C) /\ Len(t) \in Nat
  BY DEF Texts
<1>3. \A i \in P : from[i] \in Seq(C) /\ from[i] = Rest(t, w, s, i, from)
  BY <1>1 DEF Rests, Texts
<1> HIDE DEF C
<1>4. \A i \in P : Empty(t, w, s, i) = <<>> /\ (Consumes(t, i, w) <=> MatchesAt(t, i, w))
  BY <1>2, NothingEmpty
<1>5. ReplaceMatches(t, w, s) = from[1]
  <2>1. 1 \in P
    BY <1>2
  <2> DEFINE f == from[1]
  <2>2. f \in Seq(C) /\ Empty(t, w, s, 1) = <<>>
    BY <1>3, <1>4, <2>1
  <2> HIDE DEF f
  <2>3. <<>> \o f = f
    BY <2>2
  <2>4. QED
    BY <1>1, <2>2, <2>3 DEF f
<1>6. ASSUME NEW i \in P PROVE SolidRest(t, w, s, i, from)
  <2>1. CASE i > Len(t)
    BY <1>3, <2>1 DEF SolidRest, Rest
  <2>2. CASE ~(i > Len(t)) /\ MatchesAt(t, i, w)
    BY <1>3, <1>4, <2>2 DEF SolidRest, Rest
  <2>3. CASE ~(i > Len(t)) /\ ~MatchesAt(t, i, w)
    <3>1. i \in 1..Len(t) /\ i + 1 \in P
      BY <1>2, <2>3
    <3> DEFINE a == <<t[i]>>
               f == from[i + 1]
    <3>2. Empty(t, w, s, i + 1) = <<>>
      BY <1>4, <3>1
    <3>3. from[i] = a \o Empty(t, w, s, i + 1) \o f
      BY <1>3, <1>4, <2>3 DEF Rest
    <3>4. a \in Seq(C)
      BY <1>2, <3>1
    <3> HIDE DEF a, f
    <3>5. a \o <<>> = a
      BY <3>4
    <3>6. from[i] = a \o f
      BY <3>2, <3>3, <3>5
    <3>7. QED
      BY <2>3, <3>6 DEF SolidRest, a, f
  <2>4. QED
    BY <2>1, <2>2, <2>3
<1>7. QED
  BY <1>1, <1>5, <1>6

LEMMA ReplaceOrigins ==
  ASSUME NEW I, Added \in I, NEW t \in Texts(I), NEW w, Expression(w), ~MatchesEmpty(w), NEW s \in Symbols
  PROVE  \E q : Origins(t, w, s, 1, ReplaceMatches(t, w, s), q)
<1> DEFINE C == [sym : Symbols, id : I]
           N == Len(t)
           P == 1..(N + 1)
<1>1. PICK from : /\ Rests(t, w, s, I, from) /\ ReplaceMatches(t, w, s) = from[1]
                  /\ \A i \in 1..(Len(t) + 1) : SolidRest(t, w, s, i, from)
  BY ReplaceSolid
<1>2. N \in Nat /\ t \in Seq(C) /\ \A k \in 1..N : t[k] \in C
  <2>1. t \in Seq(C)
    BY DEF Texts
  <2> HIDE DEF C
  <2>2. QED
    BY <2>1
<1>3. Cell(s) \in C /\ Cell(s).sym = s
  BY DEF Cell
<1>4. \A i \in P : from[i] \in Seq(C) /\ SolidRest(t, w, s, i, from)
  BY <1>1 DEF Rests, Texts
<1>5. \A i \in P : MatchEnd(t, i, w) # 0 => MatchEnd(t, i, w) \in P /\ i < MatchEnd(t, i, w)
  <2> SUFFICES ASSUME NEW i \in P, MatchEnd(t, i, w) # 0
               PROVE  MatchEnd(t, i, w) \in P /\ i < MatchEnd(t, i, w)
    OBVIOUS
  <2> HIDE DEF C
  <2> DEFINE e == MatchEnd(t, i, w)
  <2>1. e \in 0..(N + 1) /\ i < e
    BY <1>2, MatchRange DEF Expression
  <2> HIDE DEF e
  <2>2. e \in P
    BY <1>2, <2>1
  <2>3. QED
    BY <2>1, <2>2 DEF e
<1> HIDE DEF C, N
<1> DEFINE T == {i \in P : \E q : Origins(t, w, s, i, from[i], q)}
<1>6. ASSUME NEW i \in P, \A j \in P : i < j => j \in T
      PROVE  i \in T
  <2>1. CASE i = N + 1
    <3>0. i > Len(t)
      BY <1>2, <2>1 DEF N
    <3>1. from[i] = <<>>
      BY <1>4, <3>0 DEF SolidRest
    <3>2. Len(<<>>) = 0 /\ 1..0 = {} /\ 1..(0 - 1) = {} /\ i..Len(t) = {} /\ ~(i <= Len(t)) /\ ~(0 > 0)
      BY <1>2, <2>1 DEF N
    <3>3. Origins(t, w, s, i, <<>>, [x \in 1..0 |-> 0])
      BY <3>2 DEF Origins
    <3>4. QED
      BY <3>1, <3>3
  <2>2. CASE i # N + 1 /\ MatchesAt(t, i, w)
    <3> DEFINE e == MatchEnd(t, i, w)
    <3>1. e \in P /\ i < e /\ i \in 1..N /\ ~(i > Len(t)) /\ i \in DOMAIN t
      BY <1>2, <1>5, <2>2 DEF MatchesAt, N
    <3>2. from[i] = <<Cell(s)>> \o from[e]
      BY <1>4, <2>2, <3>1 DEF SolidRest
    <3>3. \A p \in i..(e - 1) : InMatch(t, w, p)
      BY <2>2, <3>1 DEF InMatch
    <3> HIDE DEF e
    <3>4. PICK q : Origins(t, w, s, e, from[e], q)
      BY <1>6, <3>1
    <3>5. e \in (i + 1)..(N + 1)
      BY <1>2, <3>1
    <3>6. \E Q : Origins(t, w, s, i, <<Cell(s)>> \o from[e], Q)
      BY <1>2, <1>3, <1>4, <3>1, <3>3, <3>4, <3>5, OriginsStep DEF N
    <3>7. QED
      BY <3>2, <3>6
  <2>3. CASE i # N + 1 /\ ~MatchesAt(t, i, w)
    <3> DEFINE e == i + 1
    <3>1. e \in P /\ i < e /\ i \in 1..N /\ ~(i > Len(t))
      BY <1>2, <2>3 DEF N
    <3>2. from[i] = <<t[i]>> \o from[e]
      BY <1>4, <2>3, <3>1 DEF SolidRest
    <3>3. PICK q : Origins(t, w, s, e, from[e], q)
      BY <1>6, <3>1
    <3>4. e \in (i + 1)..(N + 1) /\ e = i + 1 /\ t[i] \in C
      BY <1>2, <3>1
    <3> HIDE DEF e
    <3>5. \E Q : Origins(t, w, s, i, <<t[i]>> \o from[e], Q)
      BY <1>2, <1>4, <3>1, <3>3, <3>4, OriginsStep DEF N
    <3>6. QED
      BY <3>2, <3>5
  <2>4. QED
    BY <2>1, <2>2, <2>3
<1>7. \A i \in P : i \in T
  <2> DEFINE K == N + 1
  <2>1. K \in Nat /\ P = 1..K
    BY <1>2
  <2> HIDE DEF T, K, P
  <2>2. QED
    BY <1>6, <2>1, FromTheEnd
<1>8. QED
  <2>1. 1 \in P
    BY <1>2
  <2>2. QED
    BY <1>1, <1>7, <2>1

\* The same over several rules, whose replacements are all in F: o tells where
\* in t0 the cells of t come from, and those at K are all there.
Traced(t0, K, F, t, o) ==
    /\ o \in [1..Len(t) -> 0..Len(t0)]
    /\ \A x \in 1..Len(t) : IF o[x] = 0 THEN t[x].sym \in F ELSE t[x] = t0[o[x]]
    /\ \A x \in 1..(Len(t) - 1) : o[x] # 0 /\ o[x + 1] # 0 => o[x + 1] = o[x] + 1
    /\ \A x \in 1..Len(t) : o[x] \in K /\ o[x] + 1 \in K => x < Len(t) /\ o[x + 1] = o[x] + 1
    /\ \A p \in K : \E x \in 1..Len(t) : o[x] = p

AllForeign(F, w) == \A s \in F : Foreign(s, w)

LEMMA InMatchTraced ==
  ASSUME NEW X, NEW t0 \in Seq(X), NEW Y, NEW t \in Seq(Y), NEW K, NEW F, NEW o, Traced(t0, K, F, t, o),
         NEW w, Expression(w), AllForeign(F, w), NEW x \in 1..Len(t), InMatch(t, w, x)
  PROVE  o[x] # 0 /\ Spans(t0, w, o[x])
<1> DEFINE N == Len(t0)
           M == Len(t)
<1>1. N \in Nat /\ M \in Nat /\ DOMAIN t = 1..M /\ DOMAIN t0 = 1..N
  OBVIOUS
<1>2. PICK i \in 1..M : MatchesAt(t, i, w) /\ x \in i..(MatchEnd(t, i, w) - 1)
  BY <1>1 DEF InMatch
<1> DEFINE e == MatchEnd(t, i, w)
<1>3. w \in Seq(Token) /\ DOMAIN w = 1..Len(w)
  BY DEF Expression
<1>4. e # 0 /\ i \in 1..(M + 1)
  BY <1>1, <1>2 DEF MatchesAt
<1>5. /\ e \in 0..(M + 1) /\ i < e
      /\ \A y \in i..(e - 1) : \E k \in 1..Len(w) : w[k].rep # "bound" /\ t[y].sym \in w[k].chars
  <2>1. /\ e \in 0..(M + 1)
        /\ \A y \in i..(e - 1) : \E k \in 1..Len(w) : w[k].rep # "bound" /\ t[y].sym \in w[k].chars
    BY <1>3, <1>4, MatchRange
  <2> HIDE DEF e, M
  <2>2. i < e
    BY <1>1, <1>2, <1>4, <2>1 DEF e
  <2>3. QED
    BY <2>1, <2>2
<1>6. /\ o \in [1..M -> 0..N]
      /\ \A y \in 1..M : IF o[y] = 0 THEN t[y].sym \in F ELSE t[y] = t0[o[y]]
      /\ \A y \in 1..(M - 1) : o[y] # 0 /\ o[y + 1] # 0 => o[y + 1] = o[y] + 1
  BY DEF Traced
<1>7. x \in i..(e - 1)
  BY <1>2
<1> HIDE DEF e, N, M
<1>8. \A y \in i..(e - 1) : y \in 1..M /\ o[y] # 0
  <2> SUFFICES ASSUME NEW y \in i..(e - 1) PROVE y \in 1..M /\ o[y] # 0
    OBVIOUS
  <2>1. y \in 1..M
    BY <1>1, <1>4, <1>5
  <2>2. PICK k \in DOMAIN w : w[k].rep # "bound" /\ t[y].sym \in w[k].chars
    BY <1>3, <1>5
  <2>3. t[y].sym \notin F
    BY <2>2 DEF AllForeign, Foreign
  <2>4. QED
    BY <1>6, <2>1, <2>3
<1> DEFINE p == o[i]
           L == (e - i) - 1
           T == {n \in 0..L : o[i + n] = p + n}
<1>9. i \in i..(e - 1) /\ L \in Nat /\ L + 1 = e - i
  BY <1>1, <1>4, <1>5
<1>10. p \in 1..N
  BY <1>1, <1>6, <1>8, <1>9
<1> HIDE DEF L, p
<1>11. \A n \in 0..L : o[i + n] = p + n
  <2>1. 0 \in T
    BY <1>1, <1>4, <1>9, <1>10 DEF p
  <2>2. ASSUME NEW n \in 0..L, n # L, n \in T PROVE n + 1 \in T
    <3> DEFINE y == i + n
    <3>1. y \in i..(e - 1) /\ y + 1 \in i..(e - 1) /\ y \in 1..(M - 1) /\ y + 1 = i + (n + 1) /\ n + 1 \in 0..L
      BY <1>1, <1>4, <1>5, <1>9, <2>2
    <3> HIDE DEF y
    <3>2. o[y + 1] = o[y] + 1
      BY <1>6, <1>8, <3>1
    <3>3. o[y] = p + n
      BY <2>2 DEF y
    <3>4. o[i + (n + 1)] = p + (n + 1)
      BY <1>10, <2>2, <3>1, <3>2, <3>3
    <3>5. QED
      BY <3>1, <3>4
  <2> HIDE DEF T
  <2>3. \A n \in 0..L : n \in T
    BY <1>9, <2>1, <2>2, Climb
  <2>4. QED
    BY <2>3 DEF T
<1>12. \A y \in i..(e - 1) : o[y] = p + (y - i) /\ t[y] = t0[p + (y - i)] /\ p + (y - i) <= N
  <2> SUFFICES ASSUME NEW y \in i..(e - 1)
               PROVE  o[y] = p + (y - i) /\ t[y] = t0[p + (y - i)] /\ p + (y - i) <= N
    OBVIOUS
  <2> DEFINE n == y - i
  <2>1. n \in 0..L /\ i + n = y
    BY <1>1, <1>4, <1>5, <1>9
  <2> HIDE DEF n
  <2>2. o[y] = p + n
    BY <1>11, <2>1
  <2>3. y \in 1..M /\ o[y] # 0 /\ o[y] \in 0..N
    BY <1>6, <1>8
  <2>4. t[y] = t0[p + n] /\ p + n <= N
    BY <1>1, <1>6, <2>2, <2>3
  <2>5. QED
    BY <2>2, <2>4 DEF n
<1> DEFINE L0 == Len(w)
           v  == Loose(w)
<1>13. PICK c : Fits(t, w, 1, c) /\ c[1] = i /\ c[L0 + 1] = e
  BY <1>3, <1>4, MatchFits DEF e, M
<1>14. /\ \A k \in 1..L0 : c[k] <= c[k + 1] /\ c[k + 1] \in Ends(t, c[k], w[k])
       /\ \A k \in 1..(L0 + 1) : c[k] \in Int /\ i <= c[k] /\ c[k] <= e
  <2>1. /\ \A k \in 1..L0 : c[k] <= c[k + 1]
        /\ \A k \in 1..(L0 + 1) : c[k] \in 1..(Len(t) + 1) /\ c[1] <= c[k] /\ c[k] <= c[L0 + 1]
    BY <1>3, <1>13, FitsGrow
  <2>2. \A k \in 1..L0 : c[k + 1] \in Ends(t, c[k], w[k])
    BY <1>13 DEF Fits
  <2>3. QED
    BY <1>13, <2>1, <2>2
<1>15. v \in Seq(Token) /\ Len(v) = L0 /\ L0 \in Nat
  BY <1>3, <1>13, LooseFits
<1>16. p + (e - i) <= N + 1 /\ \A y \in i..(e - 1) : t0[p + (y - i)].sym = t[y].sym
  <2>1. e - 1 \in i..(e - 1) /\ p + ((e - 1) - i) <= N
    BY <1>1, <1>4, <1>5, <1>12
  <2>2. QED
    BY <1>1, <1>4, <1>5, <1>10, <1>12, <2>1
<1> DEFINE d == [k \in 1..(L0 + 1) |-> c[k] - i + p]
<1>17. \A k \in 1..(L0 + 1) : d[k] = c[k] - i + p /\ d[k] \in 1..(N + 1)
  BY <1>1, <1>4, <1>5, <1>10, <1>14, <1>16
<1>18. d \in [1..(L0 + 1) -> 1..(N + 1)]
  <2> DEFINE P == 1..(N + 1)
  <2>1. \A k \in 1..(L0 + 1) : c[k] - i + p \in P
    BY <1>17
  <2> HIDE DEF P
  <2>2. d \in [1..(L0 + 1) -> P]
    BY <2>1
  <2>3. QED
    BY <2>2 DEF P
<1> HIDE DEF d
<1>19. ASSUME NEW k \in 1..L0 PROVE d[k + 1] \in Ends(t0, d[k], v[k])
  <2>1. k \in 1..(L0 + 1) /\ k + 1 \in 1..(L0 + 1) /\ w[k] \in Token /\ k \in DOMAIN w
    BY <1>3, <1>15
  <2>2. CASE w[k].rep = "bound"
    <3>1. v[k] = Class({}, "star")
      BY <2>1, <2>2 DEF Loose
    <3>2. c[k + 1] = c[k]
      BY <1>14, <2>1, <2>2 DEF Ends
    <3>3. d[k + 1] = d[k] /\ d[k] \in 1..(N + 1)
      BY <1>17, <2>1, <3>2
    <3> DEFINE y == d[k]
    <3> HIDE DEF y
    <3>4. y \in 1..(Len(t0) + 1)
      BY <3>3 DEF y, N
    <3>5. y \in Ends(t0, y, Class({}, "star"))
      BY <1>1, <3>4 DEF Ends, Class
    <3>6. QED
      BY <3>1, <3>3, <3>5 DEF y
  <2>3. CASE w[k].rep # "bound"
    <3>1. v[k] = w[k]
      BY <2>1, <2>3 DEF Loose
    <3> DEFINE a == c[k]
               b == c[k + 1]
               tok == w[k]
    <3>2. a \in Int /\ b \in Int /\ i <= a /\ a <= b /\ b <= e /\ b \in Ends(t, a, tok)
      BY <1>14, <2>1
    <3>3. Len(t) \in Nat /\ Len(t0) \in Nat /\ i \in Int /\ e \in Int /\ p \in Nat \ {0}
      BY <1>1, <1>4, <1>5, <1>10
    <3>4. p + (e - i) <= Len(t0) + 1
      BY <1>16 DEF N
    <3>5. tok \in Token /\ tok.rep # "bound"
      BY <2>1, <2>3
    <3> HIDE DEF a, b, tok
    <3>6. b - i + p \in Ends(t0, a - i + p, tok)
      BY <1>16, <3>2, <3>3, <3>4, <3>5, EndsMove
    <3>7. d[k] = a - i + p /\ d[k + 1] = b - i + p
      BY <1>17, <2>1 DEF a, b
    <3>8. QED
      BY <3>1, <3>6, <3>7 DEF tok
  <2>4. QED
    BY <2>2, <2>3
<1>20. Fits(t0, v, 1, d)
  BY <1>15, <1>18, <1>19 DEF Fits, N
<1>21. p + (e - i) \in Ways(t0, p, v)
  <2>1. d[Len(v) + 1] \in Ways(t0, d[1], v)
    BY <1>15, <1>20, FitsWays
  <2>2. 1 \in 1..(L0 + 1) /\ L0 + 1 \in 1..(L0 + 1)
    BY <1>15
  <2>3. d[1] = p /\ d[L0 + 1] = p + (e - i)
    <3>1. d[1] = i - i + p /\ d[L0 + 1] = e - i + p
      BY <1>13, <1>17, <2>2
    <3>2. i \in Int /\ e \in Int /\ p \in Int
      BY <1>1, <1>4, <1>5, <1>10
    <3>3. i - i + p = p /\ e - i + p = p + (e - i)
      BY <3>2
    <3>4. QED
      BY <3>1, <3>3
  <2>4. QED
    BY <1>15, <2>1, <2>3
<1>22. p + (x - i) \in p..((p + (e - i)) - 1)
  BY <1>1, <1>4, <1>5, <1>7, <1>10
<1>23. Spans(t0, w, p + (x - i))
  BY <1>1, <1>10, <1>21, <1>22 DEF Spans
<1>24. QED
  BY <1>7, <1>8, <1>12, <1>23

LEMMA TracedMatch ==
  ASSUME NEW X, NEW t0 \in Seq(X), NEW Y, NEW t \in Seq(Y), NEW K, NEW F, NEW o, Traced(t0, K, F, t, o),
         NEW v, Expression(v), ~MatchesEmpty(v), ~HasBoundary(v), NEW i \in DOMAIN t0, MatchesAt(t0, i, v),
         \A p \in i..(MatchEnd(t0, i, v) - 1) : p \in K
  PROVE  \E x \in DOMAIN t : MatchesAt(t, x, v)
<1> DEFINE N == Len(t0)
           M == Len(t)
           e == MatchEnd(t0, i, v)
<1>1. N \in Nat /\ M \in Nat /\ DOMAIN t = 1..M /\ i \in 1..N /\ i \in 1..(N + 1)
  OBVIOUS
<1>2. v \in Seq(Token) /\ ~MatchesEmpty(v) /\ e # 0
  BY DEF Expression, MatchesAt
<1>3. e \in 0..(N + 1) /\ i < e
  BY <1>1, <1>2, MatchRange
<1>4. /\ o \in [1..M -> 0..N]
      /\ \A y \in 1..M : IF o[y] = 0 THEN t[y].sym \in F ELSE t[y] = t0[o[y]]
      /\ \A y \in 1..M : o[y] \in K /\ o[y] + 1 \in K => y < M /\ o[y + 1] = o[y] + 1
      /\ \A p \in K : \E y \in 1..M : o[y] = p
  BY DEF Traced
<1>5. \A p \in i..(e - 1) : p \in K
  OBVIOUS
<1> HIDE DEF e, N, M
<1>6. PICK x \in 1..M : o[x] = i
  <2>1. i \in K
    BY <1>1, <1>3, <1>5
  <2>2. QED
    BY <1>4, <2>1
<1> DEFINE L == (e - i) - 1
           T == {n \in 0..L : x + n <= M /\ o[x + n] = i + n}
<1>7. L \in Nat /\ L + 1 = e - i
  BY <1>1, <1>3
<1> HIDE DEF L
<1>8. \A n \in 0..L : x + n <= M /\ o[x + n] = i + n
  <2>1. 0 \in T
    BY <1>1, <1>6, <1>7
  <2>2. ASSUME NEW n \in 0..L, n # L, n \in T PROVE n + 1 \in T
    <3> DEFINE y == x + n
    <3>1. y \in 1..M /\ y + 1 = x + (n + 1) /\ n + 1 \in 0..L /\ o[y] = i + n
      BY <1>1, <1>6, <1>7, <2>2
    <3>2. i + n \in i..(e - 1) /\ (i + n) + 1 \in i..(e - 1)
      <4>1. i \in Nat /\ e \in Nat /\ n \in Nat /\ n + 1 <= L /\ L = (e - i) - 1
        BY <1>1, <1>3, <1>7, <2>2
      <4> DEFINE z == i + n
      <4>2. i <= z /\ z + 1 <= e - 1 /\ z \in Int
        BY <4>1
      <4> HIDE DEF z
      <4>3. z \in i..(e - 1) /\ z + 1 \in i..(e - 1)
        BY <4>1, <4>2
      <4>4. QED
        BY <4>3 DEF z
    <3> HIDE DEF y
    <3>3. y < M /\ o[y + 1] = o[y] + 1
      BY <1>4, <1>5, <3>1, <3>2
    <3>4. x + (n + 1) <= M /\ o[x + (n + 1)] = i + (n + 1)
      BY <1>1, <2>2, <3>1, <3>3
    <3>5. QED
      BY <3>1, <3>4
  <2> HIDE DEF T
  <2>3. \A n \in 0..L : n \in T
    BY <1>7, <2>1, <2>2, Climb
  <2>4. QED
    BY <2>3 DEF T
<1>9. \A y \in i..(e - 1) : t[x + (y - i)].sym = t0[y].sym
  <2> SUFFICES ASSUME NEW y \in i..(e - 1) PROVE t[x + (y - i)].sym = t0[y].sym
    OBVIOUS
  <2> DEFINE n == y - i
             z == x + n
  <2>1. n \in 0..L /\ i + n = y /\ y # 0
    BY <1>1, <1>3, <1>7
  <2> HIDE DEF n
  <2>2. z \in 1..M /\ o[z] = y
    BY <1>1, <1>8, <2>1
  <2> HIDE DEF z
  <2>3. t[z] = t0[y]
    BY <1>4, <2>1, <2>2
  <2>4. QED
    BY <2>3 DEF z, n
<1>10. x + (e - i) <= M + 1 /\ x \in 1..(M + 1)
  <2>1. L \in 0..L
    BY <1>7
  <2>2. x + L <= M
    BY <1>8, <2>1
  <2>3. QED
    BY <1>1, <1>3, <1>7, <2>2
<1>11. MatchEnd(t, x, v) # 0
  BY <1>1, <1>2, <1>9, <1>10, MatchMoves DEF e, N, M
<1>12. QED
  BY <1>1, <1>11 DEF MatchesAt

LEMMA TracedStep ==
  ASSUME NEW X, NEW t0 \in Seq(X), NEW I, Added \in I, NEW t \in Texts(I),
         NEW K \in SUBSET (1..Len(t0)), NEW F, NEW o, Traced(t0, K, F, t, o),
         NEW w, Expression(w), ~MatchesEmpty(w), AllForeign(F, w), NEW s \in Symbols, s \in F,
         \A p \in K : ~Spans(t0, w, p)
  PROVE  \E O : Traced(t0, K, F, ReplaceMatches(t, w, s), O)
<1> DEFINE r == ReplaceMatches(t, w, s)
           N == Len(t0)
           M == Len(t)
           R == Len(r)
<1>1. t \in Seq([sym : Symbols, id : I]) /\ r \in Seq([sym : Symbols, id : I])
  BY ReplaceTyped DEF Texts
<1>2. N \in Nat /\ M \in Nat /\ R \in Nat
  <2> HIDE DEF r
  <2> QED
    BY <1>1
<1>3. PICK q : Origins(t, w, s, 1, r, q)
  BY ReplaceOrigins
<1> HIDE DEF r
<1>4. /\ q \in [1..R -> 0..M]
      /\ \A x \in 1..R : IF q[x] = 0 THEN r[x].sym = s ELSE r[x] = t[q[x]]
      /\ \A x \in 1..(R - 1) : q[x] # 0 /\ q[x + 1] # 0 => q[x + 1] = q[x] + 1
      /\ \A x \in 1..R :
            q[x] # 0 /\ q[x] < M /\ ~InMatch(t, w, q[x] + 1) => x < R /\ q[x + 1] = q[x] + 1
      /\ \A p \in 1..M : ~InMatch(t, w, p) => \E x \in 1..R : q[x] = p
  BY <1>3 DEF Origins
<1>5. /\ o \in [1..M -> 0..N]
      /\ \A x \in 1..M : IF o[x] = 0 THEN t[x].sym \in F ELSE t[x] = t0[o[x]]
      /\ \A x \in 1..(M - 1) : o[x] # 0 /\ o[x + 1] # 0 => o[x + 1] = o[x] + 1
      /\ \A x \in 1..M : o[x] \in K /\ o[x] + 1 \in K => x < M /\ o[x + 1] = o[x] + 1
      /\ \A p \in K : \E x \in 1..M : o[x] = p
  BY DEF Traced
<1>6. \A y \in 1..M : o[y] \in K => ~InMatch(t, w, y)
  <2> HIDE DEF M
  <2>1. \A y \in 1..M : InMatch(t, w, y) => Spans(t0, w, o[y])
    BY <1>1, InMatchTraced DEF M
  <2>2. QED
    BY <2>1
<1>7. \A p \in K : p \in 1..N /\ p # 0
  OBVIOUS
<1> DEFINE O == [x \in 1..R |-> IF q[x] = 0 THEN 0 ELSE o[q[x]]]
<1> HIDE DEF N, M, R
<1>8. O \in [1..R -> 0..N]
  BY <1>2, <1>4, <1>5
<1>9. \A x \in 1..R : /\ q[x] = 0 => O[x] = 0
                      /\ q[x] # 0 => O[x] = o[q[x]] /\ q[x] \in 1..M
  BY <1>2, <1>4
<1> HIDE DEF O
<1>10. \A x \in 1..R : IF O[x] = 0 THEN r[x].sym \in F ELSE r[x] = t0[O[x]]
  BY <1>4, <1>5, <1>9
<1>11. \A x \in 1..(R - 1) : O[x] # 0 /\ O[x + 1] # 0 => O[x + 1] = O[x] + 1
  <2> SUFFICES ASSUME NEW x \in 1..(R - 1), O[x] # 0, O[x + 1] # 0 PROVE O[x + 1] = O[x] + 1
    OBVIOUS
  <2> DEFINE y == q[x]
  <2>1. x \in 1..R /\ x + 1 \in 1..R
    BY <1>2
  <2>2. q[x] # 0 /\ q[x + 1] # 0
    BY <1>9, <2>1
  <2>3. q[x + 1] = y + 1 /\ O[x] = o[y] /\ O[x + 1] = o[q[x + 1]] /\ y \in 1..M /\ q[x + 1] \in 1..M
    BY <1>4, <1>9, <2>1, <2>2
  <2> HIDE DEF y
  <2>4. y \in 1..(M - 1)
    BY <1>2, <2>3
  <2>5. QED
    BY <1>5, <2>3, <2>4
<1>12. \A x \in 1..R : O[x] \in K /\ O[x] + 1 \in K => x < R /\ O[x + 1] = O[x] + 1
  <2> SUFFICES ASSUME NEW x \in 1..R, O[x] \in K, O[x] + 1 \in K
               PROVE  x < R /\ O[x + 1] = O[x] + 1
    OBVIOUS
  <2> DEFINE y == q[x]
  <2>1. y # 0 /\ O[x] = o[y] /\ y \in 1..M
    BY <1>7, <1>9
  <2>2. y < M /\ o[y + 1] = o[y] + 1
    <3> HIDE DEF y
    <3> QED
      BY <1>5, <2>1
  <2>3. ~InMatch(t, w, y + 1)
    <3> HIDE DEF y
    <3>1. y + 1 \in 1..M /\ o[y + 1] \in K
      BY <1>2, <2>1, <2>2
    <3>2. QED
      BY <1>6, <3>1
  <2>4. x < R /\ q[x + 1] = y + 1
    BY <1>4, <2>1, <2>2, <2>3
  <2>5. x + 1 \in 1..R
    BY <1>2, <2>4
  <2> HIDE DEF y
  <2>6. q[x + 1] # 0
    BY <2>1, <2>4
  <2>7. O[x + 1] = o[y + 1]
    BY <1>9, <2>4, <2>5, <2>6
  <2>8. QED
    BY <2>1, <2>2, <2>4, <2>7
<1>13. \A p \in K : \E x \in 1..R : O[x] = p
  <2> SUFFICES ASSUME NEW p \in K PROVE \E x \in 1..R : O[x] = p
    OBVIOUS
  <2>1. PICK y \in 1..M : o[y] = p
    BY <1>5
  <2>2. PICK x \in 1..R : q[x] = y
    BY <1>4, <1>6, <2>1
  <2>3. y # 0
    BY <1>2
  <2>4. QED
    BY <1>9, <2>1, <2>2, <2>3
<1>14. Traced(t0, K, F, r, O)
  BY <1>8, <1>10, <1>11, <1>12, <1>13 DEF Traced, N, R
<1>15. QED
  BY <1>14 DEF r

\* A rule is reported to match when the text has a match of it that no match of
\* another rule overlaps, whatever the order of the rules.
LEMMA ReportsMatch ==
  ASSUME NEW l, NEW frs, NEW res \in Seq(RegexSet), NEW I, Added \in I, MaskFields(l, frs) \in Results(I),
         NEW F, \A k \in 1..Len(res) : /\ res[k].replace \in F /\ AllForeign(F, Word[res[k].pattern])
                                       /\ ~MatchesEmpty(Word[res[k].pattern]),
         NEW n \in 1..Len(res), ~HasBoundary(Word[res[n].pattern]),
         NEW i \in DOMAIN MaskFields(l, frs).text,
         MatchesAt(MaskFields(l, frs).text, i, Word[res[n].pattern]),
         \A k \in 1..Len(res) : k # n =>
            \A p \in i..(MatchEnd(MaskFields(l, frs).text, i, Word[res[n].pattern]) - 1) :
               ~Spans(MaskFields(l, frs).text, Word[res[k].pattern], p)
  PROVE  res[n].name \in RunRules(l, frs, res).matched
<1> DEFINE t0 == MaskFields(l, frs).text
           v  == Word[res[n].pattern]
           e  == MatchEnd(t0, i, v)
           K  == i..(e - 1)
           N  == Len(res)
<1>1. PICK run : Runs(l, frs, res, I, run)
  BY RunTable
<1>2. /\ run \in [0..N -> Results(I)] /\ run[0].text = t0
      /\ \A k \in 1..N : run[k] = Apply(run[k - 1], res[k])
      /\ RunRules(l, frs, res) = run[N]
  BY <1>1 DEF Runs
<1>3. N \in Nat /\ n \in 1..N /\ \A k \in 1..N : res[k] \in RegexSet
  OBVIOUS
<1>4. \A k \in 1..N : /\ Expression(Word[res[k].pattern]) /\ res[k].replace \in Symbols
                      /\ res[k].replace \in F /\ AllForeign(F, Word[res[k].pattern])
                      /\ ~MatchesEmpty(Word[res[k].pattern]) /\ res[k].name \in STRING
  <2>1. \A r \in RegexSet : Expression(Word[r.pattern]) /\ r.replace \in Symbols /\ r.name \in STRING
    BY DEF RegexSet, RuleSet, Symbols
  <2>2. QED
    BY <1>3, <2>1
<1> DEFINE C == [sym : Symbols, id : I]
<1>5. t0 \in Seq(C) /\ t0 \in Texts(I)
  BY DEF Results, Texts
<1>6. \A k \in 1..N : k # n => \A p \in K : ~Spans(t0, Word[res[k].pattern], p)
  OBVIOUS
<1>7. i \in DOMAIN t0 /\ MatchesAt(t0, i, v)
  OBVIOUS
<1> HIDE DEF t0, N, C
<1>8. K \in SUBSET (1..Len(t0))
  <2>1. i \in 1..(Len(t0) + 1) /\ Len(t0) \in Nat /\ i \in 1..Len(t0)
    BY <1>5, <1>7
  <2>2. e \in 0..(Len(t0) + 1)
    <3>1. v \in Seq(Token)
      BY <1>3, <1>4 DEF Expression
    <3> HIDE DEF v
    <3>2. QED
      BY <1>5, <2>1, <3>1, MatchRange
  <2> HIDE DEF e
  <2>3. \A p \in i..(e - 1) : p \in 1..Len(t0)
    BY <2>1, <2>2
  <2>4. QED
    BY <2>3
<1>9. \A p \in i..(e - 1) : p \in K
  OBVIOUS
<1> HIDE DEF K
<1> DEFINE T == {k \in 0..(n - 1) : \E o : Traced(t0, K, F, run[k].text, o)}
<1>10. 0 \in T
  <2> DEFINE o == [x \in 1..Len(t0) |-> x]
  <2>1. Traced(t0, K, F, t0, o)
    <3>1. Len(t0) \in Nat
      BY <1>5
    <3> DEFINE M == Len(t0)
    <3> HIDE DEF M
    <3>2. M \in Nat /\ K \in SUBSET (1..M)
      BY <1>8, <3>1 DEF M
    <3>3. /\ o \in [1..M -> 0..M] /\ (\A x \in 1..M : o[x] = x /\ o[x] # 0)
          /\ \A x \in 1..(M - 1) : o[x + 1] = o[x] + 1
          /\ \A x \in 1..M : o[x] + 1 \in K => x < M /\ o[x + 1] = o[x] + 1
      BY <3>2 DEF M
    <3>4. \A p \in K : \E x \in 1..M : o[x] = p
      BY <3>2, <3>3
    <3> HIDE DEF o
    <3>5. QED
      BY <3>3, <3>4 DEF Traced, M
  <2>2. 0 \in 0..(n - 1)
    BY <1>3
  <2>3. QED
    BY <1>2, <2>1, <2>2
<1>11. ASSUME NEW k \in 0..(n - 1), k # n - 1, k \in T PROVE k + 1 \in T
  <2> DEFINE m == k + 1
             t == run[k].text
             w == Word[res[m].pattern]
             s == res[m].replace
  <2>1. m \in 1..N /\ m # n /\ m - 1 = k /\ m \in 0..(n - 1) /\ k \in 0..N
    BY <1>3, <1>11
  <2>2. PICK o : Traced(t0, K, F, t, o)
    BY <1>11
  <2> HIDE DEF m
  <2>3. t \in Texts(I)
    BY <1>2, <2>1 DEF Results
  <2>4. run[m].text = ReplaceMatches(t, w, s)
    <3>1. run[m] = Apply(run[k], res[m])
      BY <1>2, <2>1
    <3>2. QED
      BY <3>1 DEF Apply
  <2>5. /\ Expression(w) /\ ~MatchesEmpty(w) /\ AllForeign(F, w) /\ s \in Symbols /\ s \in F
        /\ \A p \in K : ~Spans(t0, w, p)
    BY <1>4, <1>6, <2>1
  <2> HIDE DEF t, w, s
  <2>6. \E O : Traced(t0, K, F, ReplaceMatches(t, w, s), O)
    BY <1>5, <1>8, <2>2, <2>3, <2>5, TracedStep
  <2>7. m \in T
    BY <2>1, <2>4, <2>6
  <2>8. QED
    BY <2>7 DEF m
<1>12. n - 1 \in T
  <2>1. n - 1 \in Nat /\ n - 1 \in 0..(n - 1)
    BY <1>3
  <2> HIDE DEF T
  <2>2. \A k \in 0..(n - 1) : k \in T
    <3> DEFINE L == n - 1
    <3>1. L \in Nat /\ \A k \in 0..L : k # L /\ k \in T => k + 1 \in T
      BY <1>11, <2>1
    <3> HIDE DEF L
    <3>2. \A k \in 0..L : k \in T
      BY <1>10, <3>1, Climb
    <3>3. QED
      BY <3>2 DEF L
  <2>3. QED
    BY <2>1, <2>2
<1> DEFINE t == run[n - 1].text
           s == res[n].replace
           u == ReplaceMatches(t, v, s)
<1>13. PICK o : Traced(t0, K, F, t, o)
  BY <1>12
<1>14. n - 1 \in 0..N /\ n \in 0..N
  BY <1>3
<1>15. t \in Texts(I)
  BY <1>2, <1>14 DEF Results
<1>16. run[n] = Apply(run[n - 1], res[n])
  BY <1>2, <1>3
<1>17. run[n].matched = IF u = t THEN run[n - 1].matched ELSE run[n - 1].matched \cup {res[n].name}
  BY <1>16 DEF Apply
<1>18. /\ Expression(v) /\ AllForeign(F, v) /\ s \in Symbols /\ s \in F
       /\ ~MatchesEmpty(v) /\ ~HasBoundary(v)
  BY <1>3, <1>4
<1> HIDE DEF t, u, s, v
<1>19. PICK x \in DOMAIN t : MatchesAt(t, x, v)
  <2>1. t \in Seq(C)
    BY <1>15 DEF Texts, C
  <2>2. QED
    BY <1>5, <1>7, <1>9, <1>13, <1>18, <2>1, TracedMatch DEF e
<1>20. u # t
  <2> SUFFICES ASSUME u = t PROVE FALSE
    OBVIOUS
  <2>1. Consumes(t, x, v)
    <3>1. t \in Seq(C)
      BY <1>15 DEF Texts, C
    <3>2. x \in 1..(Len(t) + 1)
      BY <1>19, <3>1
    <3>3. QED
      BY <1>18, <1>19, <3>1, <3>2, NothingEmpty
  <2>2. x \in DOMAIN ReplaceMatches(t, v, s) /\ Consumes(ReplaceMatches(t, v, s), x, v)
    BY <1>19, <2>1 DEF u
  <2>3. Foreign(s, v) /\ Delimits(v, v)
    BY <1>18 DEF AllForeign, Delimits, HasBoundary
  <2>4. \E p \in DOMAIN t : Consumes(t, p, v) /\ ~Consumes(t, p, v)
    BY <1>15, <1>18, <2>2, <2>3, MatchOld
  <2>5. QED
    BY <2>4
<1>21. res[n].name \in run[n].matched
  BY <1>17, <1>20
<1>22. \A k \in 0..(N - n) : res[n].name \in run[n + k].matched
  <2> DEFINE L == N - n
             U == {k \in 0..L : res[n].name \in run[n + k].matched}
  <2>1. L \in Nat /\ n + 0 = n
    BY <1>3
  <2>2. 0 \in U
    BY <1>21, <2>1
  <2>3. ASSUME NEW k \in 0..L, k # L, k \in U PROVE k + 1 \in U
    <3> DEFINE m == n + (k + 1)
    <3>1. m \in 1..N /\ m - 1 = n + k /\ k + 1 \in 0..L
      BY <1>3, <2>1, <2>3
    <3> HIDE DEF m
    <3>2. run[m] = Apply(run[n + k], res[m])
      BY <1>2, <3>1
    <3>3. run[n + k].matched \subseteq run[m].matched
      BY <3>2 DEF Apply
    <3>4. res[n].name \in run[m].matched
      BY <2>3, <3>3
    <3>5. QED
      BY <3>1, <3>4 DEF m
  <2> HIDE DEF U, L
  <2>4. \A k \in 0..L : k \in U
    BY <2>1, <2>2, <2>3, Climb
  <2>5. QED
    BY <2>4 DEF U, L
<1>23. N - n \in 0..(N - n) /\ n + (N - n) = N
  BY <1>3
<1>24. QED
  BY <1>2, <1>22, <1>23

\* What the rules leave of an expression without word boundaries that matches none
\* of their replacements: it matched the text as it was, and it is not the
\* expression of one of them.
LEMMA StaysExposed ==
  ASSUME NEW l, NEW frs, NEW res \in Seq(RegexSet), NEW I, Added \in I, MaskFields(l, frs) \in Results(I),
         NEW v, Expression(v), ~HasBoundary(v), \A k \in 1..Len(res) : Foreign(res[k].replace, v),
         NEW i \in DOMAIN RunRules(l, frs, res).text, Consumes(RunRules(l, frs, res).text, i, v)
  PROVE  /\ \E p \in DOMAIN MaskFields(l, frs).text : Consumes(MaskFields(l, frs).text, p, v)
         /\ \A k \in 1..Len(res) : Word[res[k].pattern] # v
<1> DEFINE N == Len(res)
           Shown(t) == \E p \in DOMAIN t : Consumes(t, p, v)
<1>1. PICK run : Runs(l, frs, res, I, run)
  BY RunTable
<1>2. /\ run \in [0..N -> Results(I)] /\ run[0] = MaskFields(l, frs)
      /\ \A k \in 1..N : run[k] = Apply(run[k - 1], res[k])
      /\ RunRules(l, frs, res) = run[N]
  BY <1>1 DEF Runs
<1>3. N \in Nat /\ \A k \in 1..N : res[k] \in RegexSet
  OBVIOUS
<1>4. \A k \in 1..N : /\ Expression(Word[res[k].pattern]) /\ res[k].replace \in Symbols
                      /\ Foreign(res[k].replace, v)
  <2>1. \A r \in RegexSet : Expression(Word[r.pattern]) /\ r.replace \in Symbols
    BY DEF RegexSet, RuleSet, Symbols
  <2>2. QED
    BY <1>3, <2>1
<1>5. Shown(run[N].text)
  BY <1>2
<1> HIDE DEF N
<1> DEFINE T == {n \in 0..N : Shown(run[n].text) =>
                                Shown(run[0].text) /\ \A k \in 1..n : Word[res[k].pattern] # v}
<1>6. 0 \in T
  BY <1>3
<1>7. ASSUME NEW n \in 0..N, n # N, n \in T PROVE n + 1 \in T
  <2> DEFINE m == n + 1
             t == run[n].text
             w == Word[res[m].pattern]
             s == res[m].replace
             u == ReplaceMatches(t, w, s)
  <2>1. m \in 1..N /\ m - 1 = n /\ m \in 0..N /\ \A k \in 1..m : k = m \/ k \in 1..n
    BY <1>3, <1>7
  <2> HIDE DEF m
  <2>2. t \in Texts(I)
    BY <1>2 DEF Results
  <2>3. run[m].text = u
    <3>1. run[m] = Apply(run[n], res[m])
      BY <1>2, <2>1
    <3>2. QED
      BY <3>1 DEF Apply
  <2>4. Expression(w) /\ s \in Symbols /\ Foreign(s, v) /\ Delimits(w, v)
    BY <1>4, <2>1 DEF Delimits, HasBoundary
  <2>5. ASSUME Shown(run[m].text)
        PROVE  Shown(run[0].text) /\ \A k \in 1..m : Word[res[k].pattern] # v
    <3>1. PICK j \in DOMAIN u : Consumes(u, j, v)
      BY <2>3, <2>5
    <3> HIDE DEF t, w, s
    <3>2. \E p \in DOMAIN t : Consumes(t, p, v) /\ ~Consumes(t, p, w)
      BY <2>2, <2>4, <3>1, MatchOld
    <3>3. w # v /\ Shown(t)
      BY <3>2
    <3>4. Shown(run[0].text) /\ \A k \in 1..n : Word[res[k].pattern] # v
      BY <1>7, <3>3 DEF t
    <3>5. QED
      BY <2>1, <3>3, <3>4 DEF w
  <2>6. m \in T
    BY <2>1, <2>5
  <2>7. QED
    BY <2>6 DEF m
<1>8. N \in T
  <2> HIDE DEF T
  <2>1. \A n \in 0..N : n \in T
    BY <1>3, <1>6, <1>7, Climb
  <2>2. QED
    BY <1>3, <2>1
<1>9. QED
  BY <1>2, <1>5, <1>8 DEF N

\* Without field rules, MaskLine is the expressions one by one on the line itself.
LEMMA TextRules ==
  ASSUME NEW rs, RulesOK(rs), \A i \in DOMAIN rs : ~IsField(rs[i]), NEW l \in LineSet
  PROVE  /\ rs \in Seq(RegexSet)
         /\ MaskFields(l, FieldRules(rs)).text = Original(l)
         /\ Added \in Nat \X Nat /\ MaskFields(l, FieldRules(rs)) \in Results(Nat \X Nat)
         /\ MaskLine(l, rs) = RunRules(l, FieldRules(rs), rs)
<1> DEFINE F   == {r \in ToSet(rs) : IsField(r)}
           G   == {r \in ToSet(rs) : ~IsField(r)}
           frs == FieldRules(rs)
<1>1. rs \in Seq(RuleSet) /\ frs \in Seq(RuleSet) /\ RegexRules(rs) \in Seq(RegexSet)
  BY RulesSplit
<1>2. F = {} /\ \A i \in 1..Len(rs) : rs[i] \in G
  BY <1>1 DEF ToSet
<1>3. frs = <<>>
  <2>1. frs = Kept(rs, F)
    BY DEF FieldRules
  <2>2. frs \in Seq(RuleSet \cap F)
    <3> HIDE DEF F
    <3> QED
      BY <1>1, <2>1, KeptIsSeq
  <2>3. frs \in Seq({})
    BY <1>2, <2>2
  <2>4. \A s \in Seq({}) : s = <<>>
    OBVIOUS
  <2> HIDE DEF frs
  <2>5. QED
    BY <2>3, <2>4
<1>4. RegexRules(rs) = rs
  <2> HIDE DEF G
  <2>1. RegexRules(rs) = Kept(rs, G)
    BY DEF RegexRules, G
  <2>2. /\ Chosen(rs, G) \in Seq(Seq(RuleSet)) /\ Len(Chosen(rs, G)) = Len(rs)
        /\ \A i \in 1..Len(rs) : Chosen(rs, G)[i] = IF rs[i] \in G THEN <<rs[i]>> ELSE <<>>
        /\ Kept(rs, G) = FlattenSeq(Chosen(rs, G))
    BY <1>1, ChosenTyped
  <2> DEFINE c == Chosen(rs, G)
  <2> HIDE DEF c
  <2>3. c = [k \in 1..Len(rs) |-> <<rs[k]>>]
    <3>1. c \in Seq(Seq(RuleSet)) /\ Len(c) = Len(rs) /\ \A i \in 1..Len(rs) : c[i] = <<rs[i]>>
      BY <1>2, <2>2 DEF c
    <3>2. c = [k \in 1..Len(c) |-> c[k]]
      BY <3>1
    <3>3. QED
      BY <3>1, <3>2
  <2>4. FlattenSeq(c) = rs
    BY <1>1, <2>3, FlattenSingles
  <2>5. QED
    BY <2>1, <2>2, <2>4 DEF c
<1>5. MaskFields(l, frs).text = Original(l)
  <2> DEFINE ms == Members(l)
  <2>1. \A m \in DOMAIN ms : Named(ms[m].path, frs) = 0
    <3>1. ms \in Seq(MemberSet(Nat \X Nat))
      BY MembersTyped
    <3>2. \A m \in DOMAIN ms : ms[m].path \in Seq(STRING)
      <4> HIDE DEF ms
      <4>1. \A m \in DOMAIN ms : ms[m] \in MemberSet(Nat \X Nat)
        BY <3>1
      <4>2. QED
        BY <4>1 DEF MemberSet
    <3>3. \A path : NamedAt(path, frs) = {}
      BY <1>3 DEF NamedAt
    <3> HIDE DEF ms, frs
    <3>4. QED
      BY <3>2, <3>3, NamedFirst
  <2> HIDE DEF frs
  <2>2. FieldMatches(ms, frs) = {}
    BY <2>1 DEF FieldMatches
  <2>3. QED
    BY <2>2 DEF MaskFields
<1>6. Added \in Nat \X Nat /\ MaskFields(l, frs) \in Results(Nat \X Nat)
  BY <1>1, MaskFieldsSomehow
<1>7. QED
  BY <1>1, <1>4, <1>5, <1>6 DEF MaskLine

\* An order of the library has each of its patterns once.
LEMMA OrderComplete ==
  ASSUME NEW S, IsFiniteSet(S), NEW order \in SetToSeqs(S)
  PROVE  /\ DOMAIN order = 1..Cardinality(S) /\ \A i \in DOMAIN order : order[i] \in S
         /\ \A i, j \in DOMAIN order : i # j => order[i] # order[j]
         /\ \A n \in S : \E i \in DOMAIN order : order[i] = n
<1> DEFINE D == 1..Cardinality(S)
<1>1. order \in [D -> S] /\ \A i, j \in D : i # j => order[i] # order[j]
  BY DEF SetToSeqs
<1>2. Cardinality(S) \in Nat
  BY FS_CardinalityType
<1>3. Cardinality(D) = Cardinality(S)
  <2>1. Cardinality(D) = IF 1 > Cardinality(S) THEN 0 ELSE Cardinality(S) - 1 + 1
    BY <1>2, FS_Interval
  <2>2. QED
    BY <1>2, <2>1
<1> HIDE DEF D
<1>4. order \in Injection(D, S)
  BY <1>1 DEF Injection, IsInjective
<1>5. order \in Surjection(D, S)
  BY <1>3, <1>4, FS_Injection
<1>6. \A n \in S : \E i \in D : order[i] = n
  BY <1>5 DEF Surjection
<1>7. QED
  BY <1>1, <1>6 DEF D

\* No built-in pattern matches what is put in for a match.
LibraryForeign ==
    \A n \in Library :
        /\ Foreign("[REDACTED]", Word[n])
        /\ \A m \in Library : Foreign("[REDACTED:" \o m \o "]", Word[n])

LEMMA CompiledRules ==
  ASSUME NEW rs, Compiled(rs)
  PROVE  RulesOK(rs)
<1> DEFINE T == {r \in RuleSet : ~IsField(r) => Expression(Word[r.pattern])}
<1>1. rs \in Seq(RuleSet) /\ \A i \in DOMAIN rs : rs[i] \in T
  <2>1. rs \in Seq(RuleSet)
    BY DEF Compiled, RuleSet
  <2>2. \A i \in DOMAIN rs : Expression(Word[rs[i].pattern])
    BY DEF Compiled, Expression
  <2>3. \A i \in DOMAIN rs : rs[i] \in RuleSet
    BY <2>1
  <2>4. QED
    BY <2>1, <2>2, <2>3
<1> HIDE DEF T
<1>2. rs \in Seq(T)
  BY <1>1
<1>3. QED
  BY <1>2 DEF RulesOK, T

\* The scan with all patterns reports each one that some match of its own, apart
\* from all others, gives away.
LEMMA GroundTruthFinds ==
  ASSUME LibraryForeign, NEW l \in LineSet, NEW order \in SetToSeqs(Library), NEW n \in Library,
         ~HasBoundary(Word[n]), Disjoint(Original(l)),
         NEW i \in DOMAIN Original(l), Consumes(Original(l), i, Word[n])
  PROVE  n \in GroundTruth(l, order)
<1> DEFINE rs  == GroundTruthMasker(order)
           frs == FieldRules(rs)
           t0  == MaskFields(l, frs).text
           F   == {"[REDACTED:" \o m \o "]" : m \in Library}
<1>1. Compiled(rs) /\ IsFiniteSet(Library) /\ \A m \in Library : ~MatchesEmpty(Word[m])
  BY AuditAssumption
<1>2. /\ DOMAIN order = 1..Cardinality(Library) /\ \A k \in DOMAIN order : order[k] \in Library
      /\ \A j, k \in DOMAIN order : j # k => order[j] # order[k]
      /\ \E k \in DOMAIN order : order[k] = n
  BY <1>1, OrderComplete
<1>3. /\ DOMAIN rs = DOMAIN order
      /\ \A k \in DOMAIN order : /\ rs[k].name = order[k] /\ rs[k].pattern = order[k] /\ rs[k].field = ""
                                 /\ rs[k].replace = "[REDACTED:" \o order[k] \o "]"
  BY DEF GroundTruthMasker
<1> HIDE DEF rs
<1>4. RulesOK(rs)
  BY <1>1, CompiledRules
<1>5. \A k \in DOMAIN rs : ~IsField(rs[k])
  BY <1>3 DEF IsField
<1>6. /\ rs \in Seq(RegexSet) /\ t0 = Original(l)
      /\ Added \in Nat \X Nat /\ MaskFields(l, frs) \in Results(Nat \X Nat)
      /\ MaskLine(l, rs) = RunRules(l, frs, rs)
  BY <1>4, <1>5, TextRules
<1> HIDE DEF frs
<1>7. DOMAIN rs = 1..Len(rs)
  BY <1>6
<1>8. PICK k \in 1..Len(rs) : order[k] = n
  BY <1>2, <1>3, <1>7
<1>9. \A j \in 1..Len(rs) : /\ rs[j].replace \in F /\ AllForeign(F, Word[rs[j].pattern])
                            /\ ~MatchesEmpty(Word[rs[j].pattern]) /\ Expression(Word[rs[j].pattern])
  <2>1. \A m \in Library : AllForeign(F, Word[m])
    BY DEF AllForeign, LibraryForeign
  <2>2. \A m \in Library : "[REDACTED:" \o m \o "]" \in F
    OBVIOUS
  <2> HIDE DEF F
  <2> SUFFICES ASSUME NEW j \in 1..Len(rs)
               PROVE  /\ rs[j].replace \in F /\ AllForeign(F, Word[rs[j].pattern])
                      /\ ~MatchesEmpty(Word[rs[j].pattern]) /\ Expression(Word[rs[j].pattern])
    OBVIOUS
  <2>3. j \in DOMAIN order
    BY <1>3, <1>7
  <2>4. order[j] \in Library /\ rs[j].pattern = order[j] /\ rs[j].replace = "[REDACTED:" \o order[j] \o "]"
    BY <1>2, <1>3, <2>3
  <2>5. rs[j].replace \in F
    BY <2>2, <2>4
  <2>6. Expression(Word[rs[j].pattern])
    <3>1. rs[j] \in RegexSet
      BY <1>6
    <3>2. QED
      BY <3>1 DEF RegexSet
  <2>7. QED
    BY <1>1, <2>1, <2>4, <2>5, <2>6
<1>10. MatchesAt(t0, i, Word[n]) /\ Expression(Word[n])
  <2>1. order[k] = n /\ rs[k].pattern = n
    BY <1>3, <1>7, <1>8
  <2>2. Expression(Word[n])
    BY <1>9, <2>1
  <2>3. t0 \in Seq([sym : Symbols, id : Nat \X Nat]) /\ Consumes(t0, i, Word[n]) /\ i \in DOMAIN t0
    BY <1>6 DEF Results, Texts
  <2> HIDE DEF t0
  <2>4. i \in Nat
    BY <2>3
  <2> DEFINE e == MatchEnd(t0, i, Word[n])
  <2>5. e > i
    BY <2>3 DEF Consumes
  <2> HIDE DEF e
  <2>6. e # 0
    BY <2>4, <2>5
  <2>7. QED
    BY <2>2, <2>6 DEF MatchesAt, e
<1>11. ASSUME NEW j \in 1..Len(rs), j # k,
              NEW p \in i..(MatchEnd(t0, i, Word[rs[k].pattern]) - 1),
              Spans(t0, Word[rs[j].pattern], p)
       PROVE  FALSE
  <2> DEFINE m == order[j]
  <2>1. m \in Library /\ m # n /\ rs[j].pattern = m /\ rs[k].pattern = n
    BY <1>2, <1>3, <1>7, <1>8, <1>11
  <2>2. p \in Extent(t0, n)
    <3>1. p \in i..(MatchEnd(t0, i, Word[n]) - 1) /\ i \in DOMAIN t0
      BY <1>6, <1>11, <2>1
    <3>2. t0 \in Seq([sym : Symbols, id : Nat \X Nat])
      BY <1>6 DEF Results, Texts
    <3> HIDE DEF t0
    <3>3. Spans(t0, Word[n], p)
      BY <1>10, <3>1, <3>2, MatchSpans
    <3>4. QED
      BY <3>3 DEF Extent, Spans
  <2>3. p \in Extent(t0, m)
    BY <1>11, <2>1 DEF Extent, Spans
  <2> HIDE DEF t0, m
  <2>4. QED
    BY <1>6, <2>1, <2>2, <2>3 DEF Disjoint
<1>12. rs[k].name \in RunRules(l, frs, rs).matched
  <2>1. rs[k].pattern = n
    BY <1>3, <1>7, <1>8
  <2>2. /\ i \in DOMAIN t0 /\ MatchesAt(t0, i, Word[rs[k].pattern])
        /\ ~HasBoundary(Word[rs[k].pattern])
    BY <1>6, <1>10, <2>1
  <2>3. \A j \in 1..Len(rs) : j # k =>
           \A p \in i..(MatchEnd(t0, i, Word[rs[k].pattern]) - 1) : ~Spans(t0, Word[rs[j].pattern], p)
    BY <1>11
  <2> HIDE DEF F
  <2>4. QED
    BY <1>6, <1>9, <2>2, <2>3, ReportsMatch
<1>13. rs[k].name = n
  BY <1>3, <1>7, <1>8
<1>14. QED
  BY <1>6, <1>12, <1>13 DEF GroundTruth, rs

\* A policy that gives no name twice has a rule for each built-in pattern it lists.
LEMMA PolicyMasks ==
  ASSUME NEW ps \in AuditPolicy, DistinctNames(ps)
  PROVE  /\ RulesOK(PolicyMasker(ps))
         /\ \A k \in DOMAIN PolicyMasker(ps) : /\ ~IsField(PolicyMasker(ps)[k])
                                               /\ PolicyMasker(ps)[k].replace = "[REDACTED]"
         /\ \A n \in Covered(ps) : \E k \in DOMAIN PolicyMasker(ps) : PolicyMasker(ps)[k].pattern = n
<1> DEFINE rs     == PolicyMasker(ps)
           firsts == {i \in DOMAIN ps : \A j \in 1..(i - 1) : ps[j].name # ps[i].name}
           all    == [i \in DOMAIN ps |-> i]
           kept   == Kept(all, firsts)
<1>1. RulesOK(rs)
  BY AuditAssumption, CompiledRules
<1>2. DOMAIN ps = 1..Len(ps) /\ Len(ps) \in Nat
  BY AuditAssumption
<1>3. firsts = DOMAIN ps
  <2>1. ASSUME NEW i \in DOMAIN ps, NEW j \in 1..(i - 1) PROVE ps[j].name # ps[i].name
    <3>1. j \in DOMAIN ps /\ j # i
      BY <1>2
    <3>2. QED
      BY <3>1 DEF DistinctNames
  <2>2. QED
    BY <2>1
<1>4. all \in Seq(Nat) /\ Len(all) = Len(ps) /\ \A i \in 1..Len(ps) : all[i] = i
  BY <1>2
<1>5. /\ DOMAIN rs = DOMAIN kept
      /\ \A k \in DOMAIN kept : /\ rs[k].field = "" /\ rs[k].replace = "[REDACTED]"
                                /\ rs[k].pattern = IF ps[kept[k]].builtin # "" THEN ps[kept[k]].builtin
                                                   ELSE ps[kept[k]].regex
  BY DEF PolicyMasker
<1> HIDE DEF rs, all, firsts
<1>6. /\ DOMAIN kept = 1..Len(kept)
      /\ \A i \in 1..Len(ps) : \E k \in 1..Len(kept) : kept[k] = i
  <2>1. kept \in Seq(Nat \cap firsts)
    BY <1>4, KeptIsSeq
  <2>2. \A i \in 1..Len(all) : all[i] \in firsts => \E k \in 1..Len(kept) : kept[k] = all[i]
    BY <1>4, KeptHas
  <2> HIDE DEF kept
  <2>3. DOMAIN kept = 1..Len(kept)
    BY <2>1
  <2>4. ASSUME NEW i \in 1..Len(ps) PROVE \E k \in 1..Len(kept) : kept[k] = i
    <3>1. i \in 1..Len(all) /\ all[i] = i /\ i \in firsts
      BY <1>2, <1>3, <1>4
    <3>2. QED
      BY <2>2, <3>1
  <2>5. QED
    BY <2>3, <2>4
<1> HIDE DEF kept
<1>7. ASSUME NEW n \in Covered(ps)
      PROVE  \E k \in DOMAIN rs : rs[k].pattern = n
  <2>1. PICK i \in DOMAIN ps : ps[i].builtin = n /\ n # ""
    BY DEF Covered
  <2>2. PICK k \in DOMAIN kept : kept[k] = i
    BY <1>2, <1>6, <2>1
  <2>3. QED
    BY <1>5, <2>1, <2>2
<1>8. QED
  BY <1>1, <1>5, <1>7 DEF rs, IsField

\* When no built-in pattern matches a replacement, a line of which audit reports
\* no gap is printed by the policy without a match of any built-in pattern that
\* looks for no word boundary, whatever order the library was tried in: for these
\* patterns the audit may be run once.
THEOREM AuditFindsExposureHolds ==
  ASSUME LibraryForeign
  PROVE  Spec => []AuditFindsExposure
<1>1. ASSUME MaskInv PROVE AuditFindsExposure
  <2> SUFFICES ASSUME Disjoint(Original(line)), NEW ps \in AuditPolicy, DistinctNames(ps),
                      NEW order \in SetToSeqs(Library), Gaps(ps, line, order) = {},
                      NEW n \in Exposed(MaskLine(line, PolicyMasker(ps)).text), ~HasBoundary(Word[n])
               PROVE  FALSE
    BY DEF AuditFindsExposure
  <2> DEFINE rs  == PolicyMasker(ps)
             frs == FieldRules(rs)
             out == MaskLine(line, rs).text
  <2>1. line \in LineSet
    BY <1>1, RulesAssumed
  <2>2. n \in Library /\ \E i \in DOMAIN out : Consumes(out, i, Word[n])
    BY DEF Exposed
  <2>3. PICK i \in DOMAIN out : Consumes(out, i, Word[n])
    BY <2>2
  <2>4. /\ RulesOK(rs) /\ \A k \in DOMAIN rs : ~IsField(rs[k]) /\ rs[k].replace = "[REDACTED]"
        /\ \A m \in Covered(ps) : \E k \in DOMAIN rs : rs[k].pattern = m
    BY PolicyMasks
  <2> HIDE DEF rs
  <2>5. /\ rs \in Seq(RegexSet) /\ MaskFields(line, frs).text = Original(line)
        /\ Added \in Nat \X Nat /\ MaskFields(line, frs) \in Results(Nat \X Nat)
        /\ MaskLine(line, rs) = RunRules(line, frs, rs)
    BY <2>1, <2>4, TextRules
  <2> HIDE DEF frs
  <2>6. DOMAIN rs = 1..Len(rs)
    BY <2>5
  <2>7. Expression(Word[n])
    <3>1. IsFiniteSet(Library) /\ Compiled(GroundTruthMasker(order))
      BY AuditAssumption
    <3>2. PICK k \in DOMAIN order : order[k] = n
      BY <2>2, <3>1, OrderComplete
    <3>3. k \in DOMAIN GroundTruthMasker(order) /\ GroundTruthMasker(order)[k].pattern = n
      BY <3>2 DEF GroundTruthMasker
    <3>4. QED
      BY <3>1, <3>3 DEF Compiled, Expression
  <2>8. \A k \in 1..Len(rs) : Foreign(rs[k].replace, Word[n])
    BY <2>2, <2>4, <2>6 DEF LibraryForeign
  <2>9. /\ \E p \in DOMAIN Original(line) : Consumes(Original(line), p, Word[n])
        /\ \A k \in 1..Len(rs) : Word[rs[k].pattern] # Word[n]
    <3>1. i \in DOMAIN RunRules(line, frs, rs).text /\ Consumes(RunRules(line, frs, rs).text, i, Word[n])
      BY <2>3, <2>5
    <3>2. QED
      BY <2>5, <2>7, <2>8, <3>1, StaysExposed
  <2>10. n \in GroundTruth(line, order)
    BY <2>1, <2>2, <2>9, GroundTruthFinds
  <2>11. n \in Covered(ps)
    BY <2>10 DEF Gaps
  <2>12. QED
    BY <2>4, <2>6, <2>9, <2>11
<1>2. QED
  BY <1>1, MaskInductive, PTL
=============================================================================
