--------------------------- MODULE MCTLSRotation ---------------------------
(***************************************************************************)
(* Instances of TLSRotation for TLC.                                       *)
(***************************************************************************)
EXTENDS TLSRotation

CONSTANTS MaxRefused, MaxLost, MaxCrash

MCMaxFault ==
    [k \in FaultKind |-> CASE k = "refused" -> MaxRefused
                           [] k = "lost"    -> MaxLost
                           [] k = "crash"   -> MaxCrash]
=============================================================================
