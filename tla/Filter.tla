-------------------------------- MODULE Filter --------------------------------
(***************************************************************************)
(* The loops of pkg/rules and pkg/masker, and the calls of filter on the   *)
(* website, that go through a list and take over some of its elements, and *)
(* what is left of a text that loses some of its places.                   *)
(***************************************************************************)
EXTENDS Naturals, Sequences, SequencesExt, FiniteSets

\* The elements of s that are in S, in their order.
Kept(s, S) == FlattenSeq([i \in DOMAIN s |-> IF s[i] \in S THEN <<s[i]>> ELSE <<>>])

\* The elements of s at the places in I, in their order.
AtPlaces(s, I) ==
    LET nth(k) == CHOOSE i \in I : Cardinality({j \in I : j <= i}) = k
    IN  [k \in 1..Cardinality(I) |-> s[nth(k)]]
=============================================================================
