----------------------------- MODULE MCLogPipe -----------------------------
(***************************************************************************)
(* Instances of LogPipe for TLC.  Line n of size s ends in a newline at    *)
(* position s; the two cells before it are sensitive.                      *)
(***************************************************************************)
EXTENDS LogPipe, TLC

CONSTANTS plain, split, long

Line(size) == [size |-> size, secret |-> {size - 2, size - 1}]

\* plain logs lines that fit; split logs one that takes two writes; long logs one
\* that is longer than the scanner's buffer and than an atomic write.
MCScript == (plain :> <<Line(3), Line(3)>>) @@ (split :> <<Line(4)>>) @@ (long :> <<Line(6)>>)
=============================================================================
