-------------------------- MODULE CertDistribution --------------------------
(***************************************************************************)
(* What the certificate bootstrap and rotation of the webhook promise,     *)
(* with no protocol in it.  A bundle (CA, certificate and key generated    *)
(* together) is identified by the order of its generation.  It is made     *)
(* durable before anybody depends on it; only a durable bundle may become  *)
(* the trust anchor or be served; and a replica that is already serving    *)
(* changes certificate only to a younger bundle, and only after the trust  *)
(* anchor has moved to that bundle.                                        *)
(***************************************************************************)
EXTENDS Naturals

CONSTANTS
    Replica,
    Bundle      \* the bundles, a set of positive numbers

VARIABLES
    durable,    \* bundles that have been in the shared store
    anchor,     \* the bundle the API server trusts, 0 when it trusts none
    vouched,    \* bundles that have been the anchor
    served      \* served[r]: the bundle replica r serves, 0 when it is down

dvars == <<durable, anchor, vouched, served>>

Init ==
    /\ durable = {}
    /\ anchor = 0
    /\ vouched = {}
    /\ served = [r \in Replica |-> 0]

Publish(b) ==
    /\ durable' = durable \cup {b}
    /\ UNCHANGED <<anchor, vouched, served>>

Vouch(b) ==
    /\ b \in durable
    /\ anchor' = b
    /\ vouched' = vouched \cup {b}
    /\ UNCHANGED <<durable, served>>

\* The last boot call vouches for the bundle and serving starts, whether or not
\* the call succeeded: the two are one step or Serve alone.
VouchAndServe(r, b) ==
    /\ served[r] = 0
    /\ b \in durable
    /\ anchor' = b
    /\ vouched' = vouched \cup {b}
    /\ served' = [served EXCEPT ![r] = b]
    /\ UNCHANGED durable

Serve(r, b) ==
    /\ served[r] = 0
    /\ b \in durable
    /\ served' = [served EXCEPT ![r] = b]
    /\ UNCHANGED <<durable, anchor, vouched>>

Switch(r, b) ==
    /\ served[r] # 0
    /\ b \in vouched
    /\ b > served[r]
    /\ served' = [served EXCEPT ![r] = b]
    /\ UNCHANGED <<durable, anchor, vouched>>

Stop(r) ==
    /\ served' = [served EXCEPT ![r] = 0]
    /\ UNCHANGED <<durable, anchor, vouched>>

Next ==
    \/ \E b \in Bundle : Publish(b) \/ Vouch(b)
    \/ \E r \in Replica, b \in Bundle :
          VouchAndServe(r, b) \/ Serve(r, b) \/ Switch(r, b)
    \/ \E r \in Replica : Stop(r)

Spec == Init /\ [][Next]_dvars
=============================================================================
