---------------------------- MODULE RegexTokens ----------------------------
(***************************************************************************)
(* What a regular expression matches.  Go's regexp runs the rules of the   *)
(* masker, the browser's RegExp the preview of the website's pattern tool; *)
(* on the expressions of these models, sequences of character classes with *)
(* or without a repetition, the two agree.                                 *)
(*                                                                         *)
(* A token [chars, rep, esc] is a class of symbols; rep is "one", "plus"   *)
(* or "star", or "bound" for \b, whose class is that of the word symbols;  *)
(* esc says that the token is written with a backslash.  A text is a       *)
(* sequence of cells, records with a symbol sym.                           *)
(***************************************************************************)
EXTENDS Naturals, Sequences, FiniteSets, FiniteSetsExt

Token == [chars : SUBSET STRING, rep : {"one", "plus", "star", "bound"}, esc : BOOLEAN]

Class(cs, r)  == [chars |-> cs, rep |-> r, esc |-> FALSE]
Escaped(t)    == [t EXCEPT !.esc = TRUE]
Boundary(cs)  == [chars |-> cs, rep |-> "bound", esc |-> TRUE]
Literal(word) == [i \in DOMAIN word |-> Class({word[i]}, "one")]

\* A word symbol stands on one side of position p of t, before it or at it.
WordEdge(t, p, words) ==
    LET word(i) == i \in DOMAIN t /\ t[i].sym \in words
    IN  ~(word(p - 1) <=> word(p))

\* Where a token that begins at position p of t may end: before these positions.
Ends(t, p, tok) ==
    LET least == IF tok.rep = "star" THEN 0 ELSE 1
        most  == IF tok.rep = "one" THEN 1 ELSE Len(t)
    IN  IF tok.rep = "bound" THEN {q \in {p} : WordEdge(t, p, tok.chars)}
        ELSE {q \in (p + least)..(Len(t) + 1) :
                 q <= p + most /\ \A m \in p..(q - 1) : t[m].sym \in tok.chars}

\* Where the text after a match that starts at position i of t begins, and 0
\* when there is no match: every repetition takes as much as it can.
MatchEnd(t, i, re) ==
    LET end[k \in 1..(Len(re) + 1)] ==
            [p \in 1..(Len(t) + 1) |->
                IF k > Len(re) THEN p
                ELSE LET after == {q \in Ends(t, p, re[k]) : end[k + 1][q] # 0}
                     IN  IF after = {} THEN 0 ELSE end[k + 1][Max(after)]]
    IN  end[1][i]

MatchesAt(t, i, re) == MatchEnd(t, i, re) # 0

\* At position i a match of at least one symbol begins.
Consumes(t, i, re) == MatchEnd(t, i, re) > i

\* The expression may match without taking a symbol.
MatchesEmpty(re) == \A k \in DOMAIN re : re[k].rep \in {"star", "bound"}

HasBoundary(re) == \E k \in DOMAIN re : re[k].rep = "bound"

\* No token of the expression takes the symbol.
Foreign(s, re) == \A k \in DOMAIN re : re[k].rep # "bound" => s \notin re[k].chars
=============================================================================
