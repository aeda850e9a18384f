------------------------------ MODULE MaskedLog ------------------------------
(***************************************************************************)
(* What an injected pod promises about its log, with no FIFO and no        *)
(* buffers in it: the containers' lines come out whole, one entry each and *)
(* masked, in the order of each container.  Lines get lost only while or   *)
(* when nobody reads.  A sidecar that is killed may leave one line without *)
(* its beginning, and no other line comes out before that one.             *)
(***************************************************************************)
EXTENDS Naturals, Sequences, Filter

CONSTANTS App, Script   \* see LogPipe

VARIABLES
    mode,       \* "mask" or "drop"
    due,        \* the lines <<a, l>> that may still come out
    torn,       \* those of them whose beginning is lost
    reading,    \* somebody reads
    kills,      \* how often the sidecar has been killed
    log         \* the entries that came out

lvars == <<mode, due, torn, reading, kills, log>>

Line == UNION {{a} \X DOMAIN Script[a] : a \in App}

\* Line x from cell number from on, without the newline at its end.  A sensitive
\* part that has lost cells is no longer recognised.
Entry(x, from) ==
    LET text   == Script[x[1]][x[2]]
        rest   == [i \in 1..(text.size - from) |-> <<x[1], x[2], from + i - 1>>]
        hidden == IF text.secret \subseteq from..text.size THEN text.secret ELSE {}
    IN  IF mode = "drop"
        THEN [drop |-> TRUE, cells |-> <<>>]
        ELSE [drop |-> FALSE,
              cells |-> AtPlaces(rest, {i \in DOMAIN rest : rest[i][3] \notin hidden})]

Init ==
    /\ mode \in {"mask", "drop"}
    /\ \E S \in SUBSET App : due = {x \in Line : x[1] \in S}
    /\ torn = {}
    /\ reading = FALSE
    /\ kills = 0
    /\ log = <<>>

Listen ==
    /\ ~reading
    /\ reading' = TRUE
    /\ UNCHANGED <<mode, due, torn, kills, log>>

Emit(x, from) ==
    /\ reading
    /\ \A y \in due : y[1] = x[1] => x[2] <= y[2]
    /\ torn = IF from = 1 THEN {} ELSE {x}
    /\ due' = due \ {x}
    /\ torn' = {}
    /\ log' = Append(log, Entry(x, from))
    /\ UNCHANGED <<mode, reading, kills>>

\* What nobody reads is lost, at the latest when a process lets go of it.
Forget ==
    /\ reading' = FALSE
    /\ due' \subseteq due
    /\ UNCHANGED <<mode, log>>

Lose ==
    /\ Forget
    /\ torn' = torn \cap due'
    /\ UNCHANGED kills

Kill ==
    /\ Forget
    /\ torn' \subseteq due'
    /\ \A x, y \in torn' : x = y
    /\ kills' = kills + 1

Next ==
    \/ Listen
    \/ \E x \in due : \E from \in 1..Script[x[1]][x[2]].size : Emit(x, from)
    \/ Lose
    \/ Kill

Spec == Init /\ [][Next]_lvars
=============================================================================
