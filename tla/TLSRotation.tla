---------------------------- MODULE TLSRotation ----------------------------
(***************************************************************************)
(* TLS bootstrap and rotation of the logcloak admission webhook            *)
(* (pkg/webhook/tls.go, cmd/webhook/main.go).  Several replicas share two  *)
(* objects of the Kubernetes API: the Secret logcloak-tls and the caBundle *)
(* of the MutatingWebhookConfiguration.  A bundle (CA, certificate, key)   *)
(* is a number, the order of its generation; None stands for no bundle.    *)
(* Every request to the API server is one step, and everything a process   *)
(* computes between two requests belongs to the step before it.            *)
(***************************************************************************)
EXTENDS Naturals

CONSTANTS
    Replica,    \* the replicas of the webhook deployment
    MaxBundle,  \* bound: how many bundles are ever generated
    MaxAged,    \* bound: how many of them ever come within 30 days of expiry
    MaxFault    \* bound: how often each kind of fault strikes

FaultKind == {"refused", "lost", "crash"}

ASSUME ReplicaAssumption == Replica # {}
ASSUME BoundAssumption ==
    MaxBundle \in Nat /\ MaxAged \in Nat /\ MaxFault \in [FaultKind -> Nat]

None == 0
Bundle == 1..MaxBundle
MaybeBundle == 0..MaxBundle

VARIABLES
    \* objects of the API server
    secret,     \* the Secret logcloak-tls: does it exist, which bundle has it
    caBundle,   \* the CA of the webhook configuration
    \* the environment
    generated,  \* how many bundles have been generated
    aged,       \* bundles 1..aged are within 30 days of expiry
    faults,     \* faults[k]: how many faults of kind k have struck
    \* each webhook process
    pc,         \* pc[r]: the API request r makes next, or idle or down
    bundle,     \* bundle[r]: the bundle r boots with, then serves (m.cert)
    pending,    \* pending[r]: the bundle that rotate() has generated
    \* history
    announced,  \* announced[r]: the latest caBundle patch of this run of r
                \*   that decides what r serves succeeded
    stored,     \* bundles that have been in the Secret
    vouched     \* bundles that have been the caBundle

api == <<secret, caBundle, stored, vouched>>
env == <<generated, aged, faults>>
proc == <<pc, bundle, pending, announced>>
vars == <<secret, caBundle, generated, aged, faults,
          pc, bundle, pending, announced, stored, vouched>>

Booting == {"get", "create", "reread", "announce"}
Up      == {"idle", "update", "patch", "swap"}
Control == {"down"} \cup Booting \cup Up

Serving(r)    == pc[r] \in Up
NearExpiry(r) == bundle[r] <= aged

\* The API server's TLS handshake with replica r succeeds.
Reachable(r) == Serving(r) /\ caBundle = bundle[r]

Init ==
    /\ secret \in [exists : BOOLEAN, bundle : {None}]
    /\ caBundle = None
    /\ generated = 0
    /\ aged = 0
    /\ faults = [k \in FaultKind |-> 0]
    /\ pc = [r \in Replica |-> "down"]
    /\ bundle = [r \in Replica |-> None]
    /\ pending = [r \in Replica |-> None]
    /\ announced = [r \in Replica |-> FALSE]
    /\ stored = {}
    /\ vouched = {}

-----------------------------------------------------------------------------
(* Pieces of the actions.                                                  *)

Goto(r, from, to) ==
    /\ pc[r] = from
    /\ pc' = [pc EXCEPT ![r] = to]

\* The process ends and its memory is gone.
Exit(r) ==
    /\ pc' = [pc EXCEPT ![r] = "down"]
    /\ bundle' = [bundle EXCEPT ![r] = None]
    /\ pending' = [pending EXCEPT ![r] = None]
    /\ announced' = [announced EXCEPT ![r] = FALSE]

Fault(k) ==
    /\ faults[k] < MaxFault[k]
    /\ faults' = [faults EXCEPT ![k] = @ + 1]
    /\ UNCHANGED <<generated, aged>>

StoreSecret(b) ==
    /\ secret' = [exists |-> TRUE, bundle |-> b]
    /\ stored' = stored \cup {b}
    /\ UNCHANGED <<caBundle, vouched>>

PatchWebhookCABundle(b) ==
    /\ caBundle' = b
    /\ vouched' = vouched \cup {b}
    /\ UNCHANGED <<secret, stored>>

-----------------------------------------------------------------------------
(* Boot: NewTLSManager, then the caBundle patch in main().                 *)

Start(r) ==
    /\ Goto(r, "down", "get")
    /\ UNCHANGED <<api, env, bundle, pending, announced>>

GetStored(r) ==
    /\ secret.bundle # None
    /\ Goto(r, "get", "announce")
    /\ bundle' = [bundle EXCEPT ![r] = secret.bundle]
    /\ UNCHANGED <<api, env, pending, announced>>

\* NotFound, or a Secret whose tls.crt is empty: generate a bundle.
GetMissing(r) ==
    /\ secret.bundle = None
    /\ generated < MaxBundle
    /\ Goto(r, "get", "create")
    /\ generated' = generated + 1
    /\ bundle' = [bundle EXCEPT ![r] = generated + 1]
    /\ UNCHANGED <<api, aged, faults, pending, announced>>

CreateWins(r) ==
    /\ ~secret.exists
    /\ Goto(r, "create", "announce")
    /\ StoreSecret(bundle[r])
    /\ UNCHANGED <<env, bundle, pending, announced>>

\* Mutant: a replica that lost the race overwrites the Secret.
CreateOverwrites(r) ==
    /\ secret.exists
    /\ Goto(r, "create", "announce")
    /\ StoreSecret(bundle[r])
    /\ UNCHANGED <<env, bundle, pending, announced>>

\* Mutant: that the Secret exists already is an error.
CreateLosesExits(r) ==
    /\ secret.exists
    /\ pc[r] = "create"
    /\ Exit(r)
    /\ UNCHANGED <<api, env>>

CreateLoses(r) ==
    /\ secret.exists
    /\ Goto(r, "create", "reread")
    /\ UNCHANGED <<api, env, bundle, pending, announced>>

\* The Secret is created, but the caller sees an error and exits.
CreateLost(r) ==
    /\ pc[r] = "create"
    /\ ~secret.exists
    /\ StoreSecret(bundle[r])
    /\ Fault("lost")
    /\ Exit(r)

\* Mutant: the existing Secret is used without loading a key pair from it.
RereadUnchecked(r) ==
    /\ Goto(r, "reread", "announce")
    /\ bundle' = [bundle EXCEPT ![r] = secret.bundle]
    /\ UNCHANGED <<api, env, pending, announced>>

Reread(r) ==
    /\ secret.bundle # None
    /\ Goto(r, "reread", "announce")
    /\ bundle' = [bundle EXCEPT ![r] = secret.bundle]
    /\ UNCHANGED <<api, env, pending, announced>>

\* The existing Secret is empty: no key pair can be loaded, the process exits.
RereadEmpty(r) ==
    /\ pc[r] = "reread"
    /\ secret.bundle = None
    /\ Exit(r)
    /\ UNCHANGED <<api, env>>

BootRequestFails(r) ==
    /\ pc[r] \in {"get", "create", "reread"}
    /\ Fault("refused")
    /\ Exit(r)
    /\ UNCHANGED api

Announce(r) ==
    /\ Goto(r, "announce", "idle")
    /\ PatchWebhookCABundle(bundle[r])
    /\ announced' = [announced EXCEPT ![r] = TRUE]
    /\ UNCHANGED <<env, bundle, pending>>

\* A failed patch is only logged: the process serves all the same.
AnnounceFails(r) ==
    /\ Goto(r, "announce", "idle")
    /\ \/ Fault("refused") /\ UNCHANGED api
       \/ Fault("lost") /\ PatchWebhookCABundle(bundle[r])
    /\ UNCHANGED <<bundle, pending, announced>>

-----------------------------------------------------------------------------
(* Rotation: a tick of WatchAndRotate that finds the bundle near expiry.   *)

\* Mutant: the 30-day threshold is compared one bundle too late.
TickLate(r) ==
    /\ bundle[r] < aged
    /\ generated < MaxBundle
    /\ Goto(r, "idle", "update")
    /\ generated' = generated + 1
    /\ pending' = [pending EXCEPT ![r] = generated + 1]
    /\ UNCHANGED <<api, aged, faults, bundle, announced>>

Tick(r) ==
    /\ NearExpiry(r)
    /\ generated < MaxBundle
    /\ Goto(r, "idle", "update")
    /\ generated' = generated + 1
    /\ pending' = [pending EXCEPT ![r] = generated + 1]
    /\ UNCHANGED <<api, aged, faults, bundle, announced>>

\* Mutant: rotate() does not patch the caBundle.
UpdateWithoutPatch(r) ==
    /\ Goto(r, "update", "swap")
    /\ StoreSecret(pending[r])
    /\ UNCHANGED <<env, bundle, pending, announced>>

UpdateSecret(r) ==
    /\ Goto(r, "update", "patch")
    /\ StoreSecret(pending[r])
    /\ UNCHANGED <<env, bundle, pending, announced>>

PatchCA(r) ==
    /\ Goto(r, "patch", "swap")
    /\ PatchWebhookCABundle(pending[r])
    /\ UNCHANGED <<env, bundle, pending, announced>>

\* Mutant: the server keeps the certificate it has.
SwapForgotten(r) ==
    /\ Goto(r, "swap", "idle")
    /\ pending' = [pending EXCEPT ![r] = None]
    /\ announced' = [announced EXCEPT ![r] = TRUE]
    /\ UNCHANGED <<api, env, bundle>>

Swap(r) ==
    /\ Goto(r, "swap", "idle")
    /\ bundle' = [bundle EXCEPT ![r] = pending[r]]
    /\ pending' = [pending EXCEPT ![r] = None]
    /\ announced' = [announced EXCEPT ![r] = TRUE]
    /\ UNCHANGED <<api, env>>

\* rotate() returns the error; the pending bundle is dropped, the old one served.
RotateFails(r) ==
    /\ \/ /\ pc[r] \in {"update", "patch"}
          /\ Fault("refused")
          /\ UNCHANGED api
       \/ /\ pc[r] = "update"
          /\ Fault("lost")
          /\ StoreSecret(pending[r])
       \/ /\ pc[r] = "patch"
          /\ Fault("lost")
          /\ PatchWebhookCABundle(pending[r])
    /\ pc' = [pc EXCEPT ![r] = "idle"]
    /\ pending' = [pending EXCEPT ![r] = None]
    /\ UNCHANGED <<bundle, announced>>

-----------------------------------------------------------------------------
(* The environment: time, and processes that are killed at any point.      *)

Age ==
    /\ aged < MaxAged
    /\ aged < generated
    /\ aged' = aged + 1
    /\ UNCHANGED <<api, generated, faults, proc>>

Crash(r) ==
    /\ pc[r] # "down"
    /\ Fault("crash")
    /\ Exit(r)
    /\ UNCHANGED api

Boot(r) ==
    \/ Start(r) \/ GetStored(r) \/ GetMissing(r) \/ CreateWins(r)
    \/ CreateLoses(r) \/ Reread(r) \/ RereadEmpty(r) \/ Announce(r)

Rotate(r) == Tick(r) \/ UpdateSecret(r) \/ PatchCA(r) \/ Swap(r)

Fail(r) ==
    \/ BootRequestFails(r) \/ CreateLost(r) \/ AnnounceFails(r)
    \/ RotateFails(r) \/ Crash(r)

Next == Age \/ \E r \in Replica : Boot(r) \/ Rotate(r) \/ Fail(r)

Spec == Init /\ [][Next]_vars

\* The kubelet restarts a process that ended, a process makes its next request,
\* and the 6-hour ticker keeps firing.  Nothing makes time pass or faults occur.
Fairness == \A r \in Replica : WF_vars(Boot(r) \/ Rotate(r))

LiveSpec == Spec /\ Fairness

-----------------------------------------------------------------------------
TypeOK ==
    /\ secret \in [exists : BOOLEAN, bundle : MaybeBundle]
    /\ caBundle \in MaybeBundle
    /\ generated \in 0..MaxBundle
    /\ aged \in 0..generated
    /\ faults \in [FaultKind -> Nat]
    /\ pc \in [Replica -> Control]
    /\ bundle \in [Replica -> MaybeBundle]
    /\ pending \in [Replica -> MaybeBundle]
    /\ announced \in [Replica -> BOOLEAN]
    /\ stored \in SUBSET Bundle
    /\ vouched \in SUBSET Bundle

(* Until the first bundle nears expiry, whatever the order in which the     *)
(* replicas boot, crash and boot again, every replica that got past         *)
(* NewTLSManager has the one bundle of the Secret, and the API server       *)
(* trusts that bundle or none (storeTLSSecret: "another replica won the     *)
(* race, use their cert so all replicas share one CA").                     *)
BootAgreement ==
    aged = 0 =>
        /\ \A r \in Replica :
              pc[r] \in Up \cup {"announce"} => bundle[r] = secret.bundle
        /\ caBundle \in {None, secret.bundle}

(* The replica whose patch of the caBundle is in force can be called: when  *)
(* every replica serves what its own last patch announced, none sits        *)
(* between its patch and its swap, and no answer of the API server was      *)
(* lost, then at least one replica serves the certificate the API server    *)
(* trusts, however rotations and boots overlapped.                          *)
SomeReplicaReachable ==
    /\ faults["lost"] = 0
    /\ \A r \in Replica : pc[r] \in Up \ {"swap"} /\ announced[r]
    => \E r \in Replica : Reachable(r)

(* The registration, the Secret and the served certificates come from       *)
(* bundles that were durable first, and a running server switches only to   *)
(* a younger bundle that the caBundle has already carried (rotate() stores, *)
(* patches, and only then swaps the in-memory certificate).                 *)
Served == [r \in Replica |-> IF Serving(r) THEN bundle[r] ELSE None]

Distribution ==
    INSTANCE CertDistribution WITH
        durable <- stored, anchor <- caBundle, vouched <- vouched,
        served <- Served

DistributionSpec == Distribution!Spec

(* A replica that serves a certificate near its expiry eventually serves a  *)
(* fresh one, in spite of refused requests, lost answers and crashes in the *)
(* middle of a rotation: the next tick, or the next boot and a tick, does   *)
(* it.                                                                      *)
RotationCompletes ==
    \A r \in Replica :
        Serving(r) /\ NearExpiry(r) ~> Serving(r) /\ ~NearExpiry(r)

(* A deployment of one replica that starts without a Secret ends up         *)
(* reachable for good once faults stop, wherever a crash or a failed        *)
(* request hit it, unless the patch its last boot made is the one that      *)
(* failed, which main() never retries.                                      *)
LoneReplicaHeals ==
    ~secret.exists =>
        <>[](\A r \in Replica : Serving(r) /\ (announced[r] => Reachable(r)))

(* CHANGELOG: a Secret that is already there is read "so all replicas share *)
(* one cert that matches the caBundle"; taken as what the replicas of a     *)
(* fault-free deployment settle on.                                         *)
ReplicasShareTrustedCert ==
    ~secret.exists => <>[](\A r \in Replica : Reachable(r))

(* NewTLSManager "loads or generates TLS credentials and returns a manager  *)
(* ready to serve": a boot ends before serving only when a request fails or *)
(* the process is killed, whoever wins the race for the Secret.  The Secret *)
(* must not be there without a certificate: then the bundle generated for   *)
(* it cannot be created and none can be loaded, at every restart.           *)
EmptySecret == secret.exists /\ secret.bundle = None

BootEndsOnlyByFault ==
    [][\A r \in Replica :
          pc[r] \in Booting /\ pc'[r] = "down" => faults' # faults \/ EmptySecret]_vars
=============================================================================
