------------------------- MODULE TLSRotation_proofs -------------------------
(***************************************************************************)
(* Proofs about TLSRotation for any set of replicas and any bounds: the    *)
(* type invariant, BootAgreement, SomeReplicaReachable, and that every     *)
(* behavior of the protocol is one of CertDistribution.                    *)
(***************************************************************************)
EXTENDS TLSRotation, TLAPS

\* What a process holds in memory at each point of its code.
Holding ==
    /\ ~secret.exists => secret.bundle = None
    /\ secret.bundle <= generated
    /\ caBundle <= generated
    /\ \A r \in Replica :
          /\ pc[r] \in {"create", "announce"} \cup Up =>
                bundle[r] # None /\ bundle[r] <= generated
          /\ pc[r] \in {"update", "patch", "swap"} =>
                pending[r] <= generated /\ bundle[r] < pending[r]
          /\ pc[r] \in {"down"} \cup Booting => ~announced[r]

\* What has been made durable and been the trust anchor at each point.
Durable ==
    /\ secret.bundle \in {None} \cup stored
    /\ caBundle # None => caBundle \in stored
    /\ \A r \in Replica :
          /\ pc[r] \in {"announce"} \cup Up => bundle[r] \in stored
          /\ pc[r] \in {"patch", "swap"} => pending[r] \in stored
          /\ pc[r] = "swap" => pending[r] \in vouched

\* Before the first bundle nears expiry no replica rotates, so the Secret is
\* written once and everybody reads that bundle.
BeforeRotation ==
    aged = 0 =>
        /\ \A r \in Replica :
              /\ pc[r] \notin {"update", "patch", "swap"}
              /\ pc[r] \in Up \cup {"announce"} => bundle[r] = secret.bundle
        /\ caBundle \in {None, secret.bundle}

\* r accounts for the caBundle in force: it serves it, is about to swap to it,
\* has yet to announce its bundle, or knows no successful patch of its own.
Anchors(r) ==
    \/ pc[r] \in {"down"} \cup Booting
    \/ pc[r] = "swap" /\ pending[r] = caBundle
    \/ pc[r] \in Up \ {"swap"} /\ (bundle[r] = caBundle \/ ~announced[r])

Anchored == faults["lost"] = 0 => \E r \in Replica : Anchors(r)

IInv == TypeOK /\ Holding /\ Durable /\ BeforeRotation /\ Anchored

-----------------------------------------------------------------------------
\* The two writes to the API server keep its objects well typed.
LEMMA StoreTyped ==
  ASSUME NEW b \in Bundle, TypeOK, StoreSecret(b)
  PROVE  /\ secret' \in [exists : BOOLEAN, bundle : MaybeBundle]
         /\ stored' \in SUBSET Bundle
         /\ caBundle' \in MaybeBundle
         /\ vouched' \in SUBSET Bundle
<1>1. b \in MaybeBundle
  BY BoundAssumption DEF Bundle, MaybeBundle
<1>2. QED
  BY <1>1 DEF TypeOK, StoreSecret

\* Patching the caBundle keeps the objects of the API server well typed.
LEMMA PatchTyped ==
  ASSUME NEW b \in Bundle, TypeOK, PatchWebhookCABundle(b)
  PROVE  /\ secret' \in [exists : BOOLEAN, bundle : MaybeBundle]
         /\ stored' \in SUBSET Bundle
         /\ caBundle' \in MaybeBundle
         /\ vouched' \in SUBSET Bundle
<1>1. b \in MaybeBundle
  BY BoundAssumption DEF Bundle, MaybeBundle
<1>2. QED
  BY <1>1 DEF TypeOK, PatchWebhookCABundle

\* The cluster before any webhook has started is well typed.
LEMMA TypeInit == Init => TypeOK /\ Holding
<1>1. SUFFICES ASSUME Init
               PROVE  TypeOK /\ Holding
  OBVIOUS
<1>2. TypeOK
  BY <1>1, BoundAssumption DEF Init, TypeOK, MaybeBundle, None, Control
<1>3. Holding
  BY <1>1 DEF Init, Holding, None, Up
<1>4. QED
  BY <1>2, <1>3

\* Every request, fault and restart keeps the state well typed, and every
\* process holding the bundle that its next request is about.
LEMMA TypeStep == TypeOK /\ Holding /\ [Next]_vars => TypeOK' /\ Holding'
<1>1. SUFFICES ASSUME TypeOK, Holding, [Next]_vars
               PROVE  TypeOK' /\ Holding'
  OBVIOUS
<1>2. ASSUME NEW r \in Replica, Start(r)
      PROVE  TypeOK' /\ Holding'
  <2>1. TypeOK'
    BY <1>2, <1>1, BoundAssumption DEF Start, Goto, api, env, TypeOK,
             MaybeBundle, None, Control, Booting, Up, FaultKind, Bundle
  <2>2. Holding'
    BY <1>2, <1>1, BoundAssumption DEF Start, Goto, api, env, TypeOK,
             MaybeBundle, None, Control, Booting, Up, FaultKind, Holding
  <2>3. QED
    BY <2>1, <2>2
<1>3. ASSUME NEW r \in Replica, GetStored(r)
      PROVE  TypeOK' /\ Holding'
  <2>1. TypeOK'
    BY <1>3, <1>1, BoundAssumption DEF GetStored, Goto, api, env, TypeOK,
             MaybeBundle, None, Control, Booting, Up, FaultKind, Bundle
  <2>2. Holding'
    BY <1>3, <1>1, BoundAssumption DEF GetStored, Goto, api, env, TypeOK,
             MaybeBundle, None, Control, Booting, Up, FaultKind, Holding
  <2>3. QED
    BY <2>1, <2>2
<1>4. ASSUME NEW r \in Replica, GetMissing(r)
      PROVE  TypeOK' /\ Holding'
  <2>1. TypeOK'
    BY <1>4, <1>1, BoundAssumption DEF GetMissing, Goto, api, TypeOK,
             MaybeBundle, None, Control, Booting, Up, FaultKind, Bundle
  <2>2. Holding'
    BY <1>4, <1>1, BoundAssumption DEF GetMissing, Goto, api, TypeOK,
             MaybeBundle, None, Control, Booting, Up, FaultKind, Holding
  <2>3. QED
    BY <2>1, <2>2
<1>5. ASSUME NEW r \in Replica, CreateWins(r)
      PROVE  TypeOK' /\ Holding'
  <2>1. bundle[r] \in Bundle
    BY <1>5, <1>1, BoundAssumption DEF CreateWins, Goto, TypeOK, Holding,
             Bundle, MaybeBundle, None, Up
  <2>2. TypeOK'
    BY <2>1, <1>5, <1>1, StoreTyped, BoundAssumption DEF CreateWins, Goto,
             env, TypeOK, MaybeBundle, None, Control, Booting, Up, FaultKind
  <2>3. Holding'
    BY <1>5, <1>1, BoundAssumption DEF CreateWins, Goto, StoreSecret, env,
             TypeOK, MaybeBundle, None, Control, Booting, Up, FaultKind,
             Holding
  <2>4. QED
    BY <2>2, <2>3
<1>6. ASSUME NEW r \in Replica, CreateLoses(r)
      PROVE  TypeOK' /\ Holding'
  <2>1. TypeOK'
    BY <1>6, <1>1, BoundAssumption DEF CreateLoses, Goto, api, env, TypeOK,
             MaybeBundle, None, Control, Booting, Up, FaultKind, Bundle
  <2>2. Holding'
    BY <1>6, <1>1, BoundAssumption DEF CreateLoses, Goto, api, env, TypeOK,
             MaybeBundle, None, Control, Booting, Up, FaultKind, Holding
  <2>3. QED
    BY <2>1, <2>2
<1>7. ASSUME NEW r \in Replica, Reread(r)
      PROVE  TypeOK' /\ Holding'
  <2>1. TypeOK'
    BY <1>7, <1>1, BoundAssumption DEF Reread, Goto, api, env, TypeOK,
             MaybeBundle, None, Control, Booting, Up, FaultKind, Bundle
  <2>2. Holding'
    BY <1>7, <1>1, BoundAssumption DEF Reread, Goto, api, env, TypeOK,
             MaybeBundle, None, Control, Booting, Up, FaultKind, Holding
  <2>3. QED
    BY <2>1, <2>2
<1>8. ASSUME NEW r \in Replica, RereadEmpty(r)
      PROVE  TypeOK' /\ Holding'
  <2>1. TypeOK'
    BY <1>8, <1>1, BoundAssumption DEF RereadEmpty, Exit, api, env, TypeOK,
             MaybeBundle, None, Control, Booting, Up, FaultKind, Bundle
  <2>2. Holding'
    BY <1>8, <1>1, BoundAssumption DEF RereadEmpty, Exit, api, env, TypeOK,
             MaybeBundle, None, Control, Booting, Up, FaultKind, Holding
  <2>3. QED
    BY <2>1, <2>2
<1>9. ASSUME NEW r \in Replica, Announce(r)
      PROVE  TypeOK' /\ Holding'
  <2>1. bundle[r] \in Bundle
    BY <1>9, <1>1, BoundAssumption DEF Announce, Goto, TypeOK, Holding,
             Bundle, MaybeBundle, None, Up
  <2>2. TypeOK'
    BY <2>1, <1>9, <1>1, PatchTyped, BoundAssumption DEF Announce, Goto,
             env, TypeOK, MaybeBundle, None, Control, Booting, Up, FaultKind
  <2>3. Holding'
    BY <1>9, <1>1, BoundAssumption DEF Announce, Goto, PatchWebhookCABundle,
             env, TypeOK, MaybeBundle, None, Control, Booting, Up,
             FaultKind, Holding
  <2>4. QED
    BY <2>2, <2>3
<1>10. ASSUME NEW r \in Replica, Tick(r)
      PROVE  TypeOK' /\ Holding'
  <2>1. TypeOK'
    BY <1>10, <1>1, BoundAssumption DEF Tick, Goto, NearExpiry, api, TypeOK,
             MaybeBundle, None, Control, Booting, Up, FaultKind, Bundle
  <2>2. Holding'
    BY <1>10, <1>1, BoundAssumption DEF Tick, Goto, NearExpiry, api, TypeOK,
             MaybeBundle, None, Control, Booting, Up, FaultKind, Holding
  <2>3. QED
    BY <2>1, <2>2
<1>11. ASSUME NEW r \in Replica, UpdateSecret(r)
      PROVE  TypeOK' /\ Holding'
  <2>1. pending[r] \in Bundle
    BY <1>11, <1>1, BoundAssumption DEF UpdateSecret, Goto, TypeOK, Holding,
             Bundle, MaybeBundle, None, Up
  <2>2. TypeOK'
    BY <2>1, <1>11, <1>1, StoreTyped, BoundAssumption DEF UpdateSecret,
             Goto, env, TypeOK, MaybeBundle, None, Control, Booting, Up,
             FaultKind
  <2>3. Holding'
    BY <1>11, <1>1, BoundAssumption DEF UpdateSecret, Goto, StoreSecret,
             env, TypeOK, MaybeBundle, None, Control, Booting, Up,
             FaultKind, Holding
  <2>4. QED
    BY <2>2, <2>3
<1>12. ASSUME NEW r \in Replica, PatchCA(r)
      PROVE  TypeOK' /\ Holding'
  <2>1. pending[r] \in Bundle
    BY <1>12, <1>1, BoundAssumption DEF PatchCA, Goto, TypeOK, Holding,
             Bundle, MaybeBundle, None, Up
  <2>2. TypeOK'
    BY <2>1, <1>12, <1>1, PatchTyped, BoundAssumption DEF PatchCA, Goto,
             env, TypeOK, MaybeBundle, None, Control, Booting, Up, FaultKind
  <2>3. Holding'
    BY <1>12, <1>1, BoundAssumption DEF PatchCA, Goto, PatchWebhookCABundle,
             env, TypeOK, MaybeBundle, None, Control, Booting, Up,
             FaultKind, Holding
  <2>4. QED
    BY <2>2, <2>3
<1>13. ASSUME NEW r \in Replica, Swap(r)
      PROVE  TypeOK' /\ Holding'
  <2>1. TypeOK'
    BY <1>13, <1>1, BoundAssumption DEF Swap, Goto, api, env, TypeOK,
             MaybeBundle, None, Control, Booting, Up, FaultKind, Bundle
  <2>2. Holding'
    BY <1>13, <1>1, BoundAssumption DEF Swap, Goto, api, env, TypeOK,
             MaybeBundle, None, Control, Booting, Up, FaultKind, Holding
  <2>3. QED
    BY <2>1, <2>2
<1>14. ASSUME NEW r \in Replica, BootRequestFails(r)
      PROVE  TypeOK' /\ Holding'
  <2>1. TypeOK'
    BY <1>14, <1>1, BoundAssumption DEF BootRequestFails, Fault, Exit, api,
             TypeOK, MaybeBundle, None, Control, Booting, Up, FaultKind,
             Bundle
  <2>2. Holding'
    BY <1>14, <1>1, BoundAssumption DEF BootRequestFails, Fault, Exit, api,
             TypeOK, MaybeBundle, None, Control, Booting, Up, FaultKind,
             Holding
  <2>3. QED
    BY <2>1, <2>2
<1>15. ASSUME NEW r \in Replica, CreateLost(r)
      PROVE  TypeOK' /\ Holding'
  <2>1. bundle[r] \in Bundle
    BY <1>15, <1>1, BoundAssumption DEF CreateLost, TypeOK, Holding, Bundle,
             MaybeBundle, None, Up
  <2>2. TypeOK'
    BY <2>1, <1>15, <1>1, StoreTyped, BoundAssumption DEF CreateLost, Fault,
             Exit, TypeOK, MaybeBundle, None, Control, Booting, Up,
             FaultKind
  <2>3. Holding'
    BY <1>15, <1>1, BoundAssumption DEF CreateLost, StoreSecret, Fault,
             Exit, TypeOK, MaybeBundle, None, Control, Booting, Up,
             FaultKind, Holding
  <2>4. QED
    BY <2>2, <2>3
<1>16. ASSUME NEW r \in Replica, AnnounceFails(r)
      PROVE  TypeOK' /\ Holding'
  <2>1. bundle[r] \in Bundle
    BY <1>16, <1>1, BoundAssumption DEF AnnounceFails, Goto, TypeOK,
             Holding, Bundle, MaybeBundle, None, Up
  <2>2. TypeOK'
    BY <2>1, <1>16, <1>1, PatchTyped, BoundAssumption DEF AnnounceFails,
             Goto, Fault, api, TypeOK, MaybeBundle, None, Control, Booting,
             Up, FaultKind
  <2>3. Holding'
    BY <1>16, <1>1, BoundAssumption DEF AnnounceFails, Goto, Fault,
             PatchWebhookCABundle, api, TypeOK, MaybeBundle, None, Control,
             Booting, Up, FaultKind, Holding
  <2>4. QED
    BY <2>2, <2>3
<1>17. ASSUME NEW r \in Replica, RotateFails(r)
      PROVE  TypeOK' /\ Holding'
  <2>1. bundle[r] \in Bundle /\ pending[r] \in Bundle
    BY <1>17, <1>1, BoundAssumption
       DEF RotateFails, TypeOK, Holding, Bundle, MaybeBundle, None, Up
  <2>2. TypeOK'
    BY <2>1, <1>17, <1>1, StoreTyped, PatchTyped, BoundAssumption
       DEF RotateFails, Fault, api, TypeOK, MaybeBundle, None, Control,
           Booting, Up, FaultKind
  <2>3. Holding'
    BY <1>17, <1>1, BoundAssumption
       DEF RotateFails, Fault, StoreSecret, PatchWebhookCABundle, api,
           TypeOK, MaybeBundle, None, Control, Booting, Up, FaultKind,
           Holding
  <2>4. QED
    BY <2>2, <2>3
<1>18. ASSUME NEW r \in Replica, Crash(r)
      PROVE  TypeOK' /\ Holding'
  <2>1. TypeOK'
    BY <1>18, <1>1, BoundAssumption DEF Crash, Fault, Exit, api, TypeOK,
             MaybeBundle, None, Control, Booting, Up, FaultKind, Bundle
  <2>2. Holding'
    BY <1>18, <1>1, BoundAssumption DEF Crash, Fault, Exit, api, TypeOK,
             MaybeBundle, None, Control, Booting, Up, FaultKind, Holding
  <2>3. QED
    BY <2>1, <2>2
<1>19. CASE Age
  BY <1>19, <1>1, BoundAssumption
     DEF Age, api, proc, TypeOK, Holding, Bundle, MaybeBundle, None,
         Control, Booting, Up
<1>20. CASE UNCHANGED vars
  BY <1>20, <1>1 DEF vars, TypeOK, Holding
<1>21. QED
  BY <1>1, <1>2, <1>3, <1>4, <1>5, <1>6, <1>7, <1>8, <1>9, <1>10,
     <1>11, <1>12, <1>13, <1>14, <1>15, <1>16, <1>17, <1>18, <1>19, <1>20
     DEF Next, Boot, Rotate, Fail

(* The objects of the API server and the memory of every webhook process    *)
(* stay well typed (NewTLSManager, WatchAndRotate, rotate).                 *)
THEOREM TypeCorrect == Spec => []TypeOK
<1>1. Init => TypeOK /\ Holding
  BY TypeInit
<1>2. TypeOK /\ Holding /\ [Next]_vars => (TypeOK /\ Holding)'
  BY TypeStep
<1>3. QED
  BY <1>1, <1>2, PTL DEF Spec

\* A step trusts and serves no bundle that was not in the Secret before.
LEMMA DurableStep ==
  TypeOK /\ Holding /\ Durable /\ [Next]_vars => Durable'
<1>1. SUFFICES ASSUME TypeOK, Holding, Durable, [Next]_vars
               PROVE  Durable'
  OBVIOUS
<1>2. ASSUME NEW r \in Replica, Start(r)
      PROVE  Durable'
  BY <1>2, <1>1 DEF Start, Goto, api, env, TypeOK, Holding, Control,
           Booting, Up, None, Durable
<1>3. ASSUME NEW r \in Replica, GetStored(r)
      PROVE  Durable'
  BY <1>3, <1>1 DEF GetStored, Goto, api, env, TypeOK, Holding, Control,
           Booting, Up, None, Durable
<1>4. ASSUME NEW r \in Replica, GetMissing(r)
      PROVE  Durable'
  BY <1>4, <1>1 DEF GetMissing, Goto, api, TypeOK, Holding, Control,
           Booting, Up, None, Durable
<1>5. ASSUME NEW r \in Replica, CreateWins(r)
      PROVE  Durable'
  BY <1>5, <1>1 DEF CreateWins, Goto, StoreSecret, env, TypeOK, Holding,
           Control, Booting, Up, None, Durable
<1>6. ASSUME NEW r \in Replica, CreateLoses(r)
      PROVE  Durable'
  BY <1>6, <1>1 DEF CreateLoses, Goto, api, env, TypeOK, Holding, Control,
           Booting, Up, None, Durable
<1>7. ASSUME NEW r \in Replica, Reread(r)
      PROVE  Durable'
  BY <1>7, <1>1 DEF Reread, Goto, api, env, TypeOK, Holding, Control,
           Booting, Up, None, Durable
<1>8. ASSUME NEW r \in Replica, RereadEmpty(r)
      PROVE  Durable'
  BY <1>8, <1>1 DEF RereadEmpty, Exit, api, env, TypeOK, Holding, Control,
           Booting, Up, None, Durable
<1>9. ASSUME NEW r \in Replica, Announce(r)
      PROVE  Durable'
  BY <1>9, <1>1 DEF Announce, Goto, PatchWebhookCABundle, env, TypeOK,
           Holding, Control, Booting, Up, None, Durable
<1>10. ASSUME NEW r \in Replica, Tick(r)
      PROVE  Durable'
  BY <1>10, <1>1 DEF Tick, Goto, NearExpiry, api, TypeOK, Holding, Control,
           Booting, Up, None, Durable
<1>11. ASSUME NEW r \in Replica, UpdateSecret(r)
      PROVE  Durable'
  BY <1>11, <1>1 DEF UpdateSecret, Goto, StoreSecret, env, TypeOK, Holding,
           Control, Booting, Up, None, Durable
<1>12. ASSUME NEW r \in Replica, PatchCA(r)
      PROVE  Durable'
  BY <1>12, <1>1 DEF PatchCA, Goto, PatchWebhookCABundle, env, TypeOK,
           Holding, Control, Booting, Up, None, Durable
<1>13. ASSUME NEW r \in Replica, Swap(r)
      PROVE  Durable'
  BY <1>13, <1>1 DEF Swap, Goto, api, env, TypeOK, Holding, Control,
           Booting, Up, None, Durable
<1>14. ASSUME NEW r \in Replica, BootRequestFails(r)
      PROVE  Durable'
  BY <1>14, <1>1 DEF BootRequestFails, Fault, Exit, api, TypeOK, Holding,
           Control, Booting, Up, None, Durable
<1>15. ASSUME NEW r \in Replica, CreateLost(r)
      PROVE  Durable'
  BY <1>15, <1>1 DEF CreateLost, StoreSecret, Fault, Exit, TypeOK, Holding,
           Control, Booting, Up, None, Durable
<1>16. ASSUME NEW r \in Replica, AnnounceFails(r)
      PROVE  Durable'
  BY <1>16, <1>1 DEF AnnounceFails, Goto, Fault, PatchWebhookCABundle, api,
           TypeOK, Holding, Control, Booting, Up, None, Durable
<1>17. ASSUME NEW r \in Replica, RotateFails(r)
      PROVE  Durable'
  BY <1>17, <1>1 DEF RotateFails, Fault, StoreSecret, PatchWebhookCABundle,
           api, TypeOK, Holding, Control, Booting, Up, None, Durable
<1>18. ASSUME NEW r \in Replica, Crash(r)
      PROVE  Durable'
  BY <1>18, <1>1 DEF Crash, Fault, Exit, api, TypeOK, Holding, Control,
           Booting, Up, None, Durable
<1>19. CASE Age
  BY <1>19, <1>1 DEF Age, api, proc, TypeOK, Holding,
         Control, Booting, Up, None, Durable
<1>20. CASE UNCHANGED vars
  BY <1>20, <1>1 DEF vars, TypeOK, Holding,
         Control, Booting, Up, None, Durable
<1>21. QED
  BY <1>1, <1>2, <1>3, <1>4, <1>5, <1>6, <1>7, <1>8, <1>9, <1>10,
     <1>11, <1>12, <1>13, <1>14, <1>15, <1>16, <1>17, <1>18, <1>19, <1>20
     DEF Next, Boot, Rotate, Fail

\* Until a bundle nears expiry the Secret is written once, whoever wins.
LEMMA BeforeRotationStep ==
  TypeOK /\ Holding /\ BeforeRotation /\ [Next]_vars => BeforeRotation'
<1>1. SUFFICES ASSUME TypeOK, Holding, BeforeRotation, [Next]_vars
               PROVE  BeforeRotation'
  OBVIOUS
<1>2. ASSUME NEW r \in Replica, Start(r)
      PROVE  BeforeRotation'
  BY <1>2, <1>1 DEF Start, Goto, api, env, TypeOK, Holding, Control,
           Booting, Up, None, BeforeRotation, Bundle, MaybeBundle
<1>3. ASSUME NEW r \in Replica, GetStored(r)
      PROVE  BeforeRotation'
  BY <1>3, <1>1 DEF GetStored, Goto, api, env, TypeOK, Holding, Control,
           Booting, Up, None, BeforeRotation, Bundle, MaybeBundle
<1>4. ASSUME NEW r \in Replica, GetMissing(r)
      PROVE  BeforeRotation'
  BY <1>4, <1>1 DEF GetMissing, Goto, api, TypeOK, Holding, Control,
           Booting, Up, None, BeforeRotation, Bundle, MaybeBundle
<1>5. ASSUME NEW r \in Replica, CreateWins(r)
      PROVE  BeforeRotation'
  BY <1>5, <1>1 DEF CreateWins, Goto, StoreSecret, env, TypeOK, Holding,
           Control, Booting, Up, None, BeforeRotation, Bundle, MaybeBundle
<1>6. ASSUME NEW r \in Replica, CreateLoses(r)
      PROVE  BeforeRotation'
  BY <1>6, <1>1 DEF CreateLoses, Goto, api, env, TypeOK, Holding, Control,
           Booting, Up, None, BeforeRotation, Bundle, MaybeBundle
<1>7. ASSUME NEW r \in Replica, Reread(r)
      PROVE  BeforeRotation'
  BY <1>7, <1>1 DEF Reread, Goto, api, env, TypeOK, Holding, Control,
           Booting, Up, None, BeforeRotation, Bundle, MaybeBundle
<1>8. ASSUME NEW r \in Replica, RereadEmpty(r)
      PROVE  BeforeRotation'
  BY <1>8, <1>1 DEF RereadEmpty, Exit, api, env, TypeOK, Holding, Control,
           Booting, Up, None, BeforeRotation, Bundle, MaybeBundle
<1>9. ASSUME NEW r \in Replica, Announce(r)
      PROVE  BeforeRotation'
  BY <1>9, <1>1 DEF Announce, Goto, PatchWebhookCABundle, env, TypeOK,
           Holding, Control, Booting, Up, None, BeforeRotation, Bundle,
           MaybeBundle
<1>10. ASSUME NEW r \in Replica, Tick(r)
      PROVE  BeforeRotation'
  BY <1>10, <1>1 DEF Tick, Goto, NearExpiry, api, TypeOK, Holding, Control,
           Booting, Up, None, BeforeRotation, Bundle, MaybeBundle
<1>11. ASSUME NEW r \in Replica, UpdateSecret(r)
      PROVE  BeforeRotation'
  BY <1>11, <1>1 DEF UpdateSecret, Goto, StoreSecret, env, TypeOK, Holding,
           Control, Booting, Up, None, BeforeRotation, Bundle, MaybeBundle
<1>12. ASSUME NEW r \in Replica, PatchCA(r)
      PROVE  BeforeRotation'
  BY <1>12, <1>1 DEF PatchCA, Goto, PatchWebhookCABundle, env, TypeOK,
           Holding, Control, Booting, Up, None, BeforeRotation, Bundle,
           MaybeBundle
<1>13. ASSUME NEW r \in Replica, Swap(r)
      PROVE  BeforeRotation'
  BY <1>13, <1>1 DEF Swap, Goto, api, env, TypeOK, Holding, Control,
           Booting, Up, None, BeforeRotation, Bundle, MaybeBundle
<1>14. ASSUME NEW r \in Replica, BootRequestFails(r)
      PROVE  BeforeRotation'
  BY <1>14, <1>1 DEF BootRequestFails, Fault, Exit, api, TypeOK, Holding,
           Control, Booting, Up, None, BeforeRotation, Bundle, MaybeBundle
<1>15. ASSUME NEW r \in Replica, CreateLost(r)
      PROVE  BeforeRotation'
  BY <1>15, <1>1 DEF CreateLost, StoreSecret, Fault, Exit, TypeOK, Holding,
           Control, Booting, Up, None, BeforeRotation, Bundle, MaybeBundle
<1>16. ASSUME NEW r \in Replica, AnnounceFails(r)
      PROVE  BeforeRotation'
  BY <1>16, <1>1 DEF AnnounceFails, Goto, Fault, PatchWebhookCABundle, api,
           TypeOK, Holding, Control, Booting, Up, None, BeforeRotation,
           Bundle, MaybeBundle
<1>17. ASSUME NEW r \in Replica, RotateFails(r)
      PROVE  BeforeRotation'
  BY <1>17, <1>1 DEF RotateFails, Fault, StoreSecret, PatchWebhookCABundle,
           api, TypeOK, Holding, Control, Booting, Up, None, BeforeRotation,
           Bundle, MaybeBundle
<1>18. ASSUME NEW r \in Replica, Crash(r)
      PROVE  BeforeRotation'
  BY <1>18, <1>1 DEF Crash, Fault, Exit, api, TypeOK, Holding, Control,
           Booting, Up, None, BeforeRotation, Bundle, MaybeBundle
<1>19. CASE Age
  BY <1>19, <1>1 DEF Age, api, proc, TypeOK, Holding,
         Control, Booting, Up, None, BeforeRotation
<1>20. CASE UNCHANGED vars
  BY <1>20, <1>1 DEF vars, TypeOK, Holding,
         Control, Booting, Up, None, BeforeRotation, Bundle, MaybeBundle
<1>21. QED
  BY <1>1, <1>2, <1>3, <1>4, <1>5, <1>6, <1>7, <1>8, <1>9, <1>10,
     <1>11, <1>12, <1>13, <1>14, <1>15, <1>16, <1>17, <1>18, <1>19, <1>20
     DEF Next, Boot, Rotate, Fail

\* The bundle the API server trusts stays with the process that announced it.
LEMMA AnchoredStep ==
  TypeOK /\ Holding /\ Anchored /\ [Next]_vars => Anchored'
<1>1. SUFFICES ASSUME TypeOK, Holding, Anchored, [Next]_vars,
                      faults'["lost"] = 0
               PROVE  \E q \in Replica : Anchors(q)'
  BY DEF Anchored
<1>2. faults["lost"] = 0
  <2>1. \/ UNCHANGED faults
        \/ \E k \in FaultKind : faults' = [faults EXCEPT ![k] = @ + 1]
    BY <1>1
       DEF Next, Boot, Rotate, Fail, Age, env, vars, Fault, FaultKind, Start,
           GetStored, GetMissing, CreateWins, CreateLoses, Reread,
           RereadEmpty, Announce, Tick, UpdateSecret, PatchCA, Swap,
           BootRequestFails, CreateLost, AnnounceFails, RotateFails, Crash
  <2>2. QED
    BY <2>1, <1>1 DEF TypeOK, FaultKind
<1>3. PICK w \in Replica : Anchors(w)
  BY <1>1, <1>2 DEF Anchored
<1>4. ASSUME NEW r \in Replica, Start(r)
      PROVE  \E q \in Replica : Anchors(q)'
  BY <1>4, <1>1, <1>2, <1>3 DEF Start, Goto, api, env, TypeOK, Holding, Control,
           Booting, Up, Anchors, FaultKind
<1>5. ASSUME NEW r \in Replica, GetStored(r)
      PROVE  \E q \in Replica : Anchors(q)'
  BY <1>5, <1>1, <1>2, <1>3 DEF GetStored, Goto, api, env, TypeOK, Holding, Control,
           Booting, Up, Anchors, FaultKind
<1>6. ASSUME NEW r \in Replica, GetMissing(r)
      PROVE  \E q \in Replica : Anchors(q)'
  BY <1>6, <1>1, <1>2, <1>3 DEF GetMissing, Goto, api, TypeOK, Holding, Control,
           Booting, Up, Anchors, FaultKind
<1>7. ASSUME NEW r \in Replica, CreateWins(r)
      PROVE  \E q \in Replica : Anchors(q)'
  BY <1>7, <1>1, <1>2, <1>3 DEF CreateWins, Goto, StoreSecret, env, TypeOK, Holding,
           Control, Booting, Up, Anchors, FaultKind
<1>8. ASSUME NEW r \in Replica, CreateLoses(r)
      PROVE  \E q \in Replica : Anchors(q)'
  BY <1>8, <1>1, <1>2, <1>3 DEF CreateLoses, Goto, api, env, TypeOK, Holding, Control,
           Booting, Up, Anchors, FaultKind
<1>9. ASSUME NEW r \in Replica, Reread(r)
      PROVE  \E q \in Replica : Anchors(q)'
  BY <1>9, <1>1, <1>2, <1>3 DEF Reread, Goto, api, env, TypeOK, Holding, Control,
           Booting, Up, Anchors, FaultKind
<1>10. ASSUME NEW r \in Replica, RereadEmpty(r)
      PROVE  \E q \in Replica : Anchors(q)'
  BY <1>10, <1>1, <1>2, <1>3 DEF RereadEmpty, Exit, api, env, TypeOK, Holding, Control,
           Booting, Up, Anchors, FaultKind
<1>11. ASSUME NEW r \in Replica, Announce(r)
      PROVE  \E q \in Replica : Anchors(q)'
  BY <1>11, <1>1, <1>2, <1>3 DEF Announce, Goto, PatchWebhookCABundle, env, TypeOK,
           Holding, Control, Booting, Up, Anchors, FaultKind
<1>12. ASSUME NEW r \in Replica, Tick(r)
      PROVE  \E q \in Replica : Anchors(q)'
  BY <1>12, <1>1, <1>2, <1>3 DEF Tick, Goto, NearExpiry, api, TypeOK, Holding, Control,
           Booting, Up, Anchors, FaultKind
<1>13. ASSUME NEW r \in Replica, UpdateSecret(r)
      PROVE  \E q \in Replica : Anchors(q)'
  BY <1>13, <1>1, <1>2, <1>3 DEF UpdateSecret, Goto, StoreSecret, env, TypeOK, Holding,
           Control, Booting, Up, Anchors, FaultKind
<1>14. ASSUME NEW r \in Replica, PatchCA(r)
      PROVE  \E q \in Replica : Anchors(q)'
  BY <1>14, <1>1, <1>2, <1>3 DEF PatchCA, Goto, PatchWebhookCABundle, env, TypeOK,
           Holding, Control, Booting, Up, Anchors, FaultKind
<1>15. ASSUME NEW r \in Replica, Swap(r)
      PROVE  \E q \in Replica : Anchors(q)'
  BY <1>15, <1>1, <1>2, <1>3 DEF Swap, Goto, api, env, TypeOK, Holding, Control,
           Booting, Up, Anchors, FaultKind
<1>16. ASSUME NEW r \in Replica, BootRequestFails(r)
      PROVE  \E q \in Replica : Anchors(q)'
  BY <1>16, <1>1, <1>2, <1>3 DEF BootRequestFails, Fault, Exit, api, TypeOK, Holding,
           Control, Booting, Up, Anchors, FaultKind
<1>17. ASSUME NEW r \in Replica, CreateLost(r)
      PROVE  \E q \in Replica : Anchors(q)'
  BY <1>17, <1>1, <1>2, <1>3 DEF CreateLost, StoreSecret, Fault, Exit, TypeOK, Holding,
           Control, Booting, Up, Anchors, FaultKind
<1>18. ASSUME NEW r \in Replica, AnnounceFails(r)
      PROVE  \E q \in Replica : Anchors(q)'
  BY <1>18, <1>1, <1>2, <1>3 DEF AnnounceFails, Goto, Fault, PatchWebhookCABundle, api,
           TypeOK, Holding, Control, Booting, Up, Anchors, FaultKind
<1>19. ASSUME NEW r \in Replica, RotateFails(r)
      PROVE  \E q \in Replica : Anchors(q)'
  BY <1>19, <1>1, <1>2, <1>3 DEF RotateFails, Fault, StoreSecret, PatchWebhookCABundle,
           api, TypeOK, Holding, Control, Booting, Up, Anchors, FaultKind
<1>20. ASSUME NEW r \in Replica, Crash(r)
      PROVE  \E q \in Replica : Anchors(q)'
  BY <1>20, <1>1, <1>2, <1>3 DEF Crash, Fault, Exit, api, TypeOK, Holding, Control,
           Booting, Up, Anchors, FaultKind
<1>21. CASE Age
  BY <1>21, <1>3 DEF Age, api, proc, Anchors
<1>22. CASE UNCHANGED vars
  BY <1>22, <1>3 DEF vars, Anchors
<1>23. QED
  BY <1>1, <1>4, <1>5, <1>6, <1>7, <1>8, <1>9, <1>10, <1>11, <1>12,
     <1>13, <1>14, <1>15, <1>16, <1>17, <1>18, <1>19, <1>20, <1>21, <1>22
     DEF Next, Boot, Rotate, Fail

-----------------------------------------------------------------------------
(* The strengthening holds in every reachable state of the protocol.        *)
LEMMA Inductive == Spec => []IInv
<1>1. Init => IInv
  <2>1. SUFFICES ASSUME Init
                 PROVE  Durable /\ BeforeRotation /\ Anchored
    BY TypeInit DEF IInv
  <2>2. Durable
    BY <2>1 DEF Init, Durable, None, Up
  <2>3. BeforeRotation
    BY <2>1 DEF Init, BeforeRotation, None, Up
  <2>4. Anchored
    BY <2>1, ReplicaAssumption DEF Init, Anchored, Anchors
  <2>5. QED
    BY <2>2, <2>3, <2>4
<1>2. IInv /\ [Next]_vars => IInv'
  BY TypeStep, DurableStep, BeforeRotationStep, AnchoredStep DEF IInv
<1>3. QED
  BY <1>1, <1>2, PTL DEF Spec

(* Replicas that boot in any order, crash and boot again share the bundle   *)
(* of the Secret until the first bundle nears expiry (NewTLSManager,        *)
(* storeTLSSecret).                                                         *)
THEOREM BootAgreementHolds == Spec => []BootAgreement
<1>1. IInv => BootAgreement
  BY DEF IInv, BeforeRotation, BootAgreement
<1>2. QED
  BY <1>1, Inductive, PTL

(* Whatever rotations and boots overlap, the replica whose caBundle patch   *)
(* is in force is one the API server can call (rotate, main).               *)
THEOREM SomeReplicaReachableHolds == Spec => []SomeReplicaReachable
<1>1. IInv => SomeReplicaReachable
  <2>1. SUFFICES ASSUME IInv, faults["lost"] = 0,
                        \A r \in Replica :
                           pc[r] \in Up \ {"swap"} /\ announced[r]
                 PROVE  \E r \in Replica : Reachable(r)
    BY DEF SomeReplicaReachable
  <2>2. PICK w \in Replica : Anchors(w)
    BY <2>1 DEF IInv, Anchored
  <2>3. Reachable(w)
    BY <2>1, <2>2 DEF Anchors, Reachable, Serving, Up, Booting
  <2>4. QED
    BY <2>3
<1>2. QED
  BY <1>1, Inductive, PTL

-----------------------------------------------------------------------------
(* Every behavior of the protocol is a behavior of CertDistribution: each   *)
(* step is one step of it, or leaves stored, caBundle, vouched and the      *)
(* served bundles as they are.                                              *)
LEMMA RefinementStep ==
  IInv /\ [Next]_vars => [Distribution!Next]_Distribution!dvars
<1>1. SUFFICES ASSUME IInv, [Next]_vars
               PROVE  [Distribution!Next]_Distribution!dvars
  OBVIOUS
<1>2. ASSUME NEW r \in Replica, Start(r)
      PROVE  [Distribution!Next]_Distribution!dvars
  <2>1. Served' = Served
    BY <1>2, <1>1 DEF Start, Goto, IInv, TypeOK, Served, Serving,
                    Control, Booting, Up
  <2>2. QED
    BY <2>1, <1>2 DEF Start, api, Distribution!dvars
<1>3. ASSUME NEW r \in Replica, GetStored(r)
      PROVE  [Distribution!Next]_Distribution!dvars
  <2>1. Served' = Served
    BY <1>3, <1>1 DEF GetStored, Goto, IInv, TypeOK, Served, Serving,
                    Control, Booting, Up
  <2>2. QED
    BY <2>1, <1>3 DEF GetStored, api, Distribution!dvars
<1>4. ASSUME NEW r \in Replica, GetMissing(r)
      PROVE  [Distribution!Next]_Distribution!dvars
  <2>1. Served' = Served
    BY <1>4, <1>1 DEF GetMissing, Goto, IInv, TypeOK, Served, Serving,
                    Control, Booting, Up
  <2>2. QED
    BY <2>1, <1>4 DEF GetMissing, api, Distribution!dvars
<1>5. ASSUME NEW r \in Replica, CreateLoses(r)
      PROVE  [Distribution!Next]_Distribution!dvars
  <2>1. Served' = Served
    BY <1>5, <1>1 DEF CreateLoses, Goto, IInv, TypeOK, Served, Serving,
                    Control, Booting, Up
  <2>2. QED
    BY <2>1, <1>5 DEF CreateLoses, api, Distribution!dvars
<1>6. ASSUME NEW r \in Replica, Reread(r)
      PROVE  [Distribution!Next]_Distribution!dvars
  <2>1. Served' = Served
    BY <1>6, <1>1 DEF Reread, Goto, IInv, TypeOK, Served, Serving,
                    Control, Booting, Up
  <2>2. QED
    BY <2>1, <1>6 DEF Reread, api, Distribution!dvars
<1>7. ASSUME NEW r \in Replica, Tick(r)
      PROVE  [Distribution!Next]_Distribution!dvars
  <2>1. Served' = Served
    BY <1>7, <1>1 DEF Tick, Goto, IInv, TypeOK, Served, Serving,
                    Control, Booting, Up
  <2>2. QED
    BY <2>1, <1>7 DEF Tick, api, Distribution!dvars
<1>8. ASSUME NEW r \in Replica, RereadEmpty(r)
      PROVE  [Distribution!Next]_Distribution!dvars
  <2>1. Served' = Served
    BY <1>8, <1>1 DEF RereadEmpty, Exit, IInv, TypeOK, Served, Serving,
                    Control, Booting, Up
  <2>2. QED
    BY <2>1, <1>8 DEF RereadEmpty, api, Distribution!dvars
<1>9. ASSUME NEW r \in Replica, BootRequestFails(r)
      PROVE  [Distribution!Next]_Distribution!dvars
  <2>1. Served' = Served
    BY <1>9, <1>1 DEF BootRequestFails, Exit, IInv, TypeOK, Served, Serving,
                    Control, Booting, Up
  <2>2. QED
    BY <2>1, <1>9 DEF BootRequestFails, api, Distribution!dvars
<1>10. ASSUME NEW r \in Replica, CreateWins(r)
      PROVE  [Distribution!Next]_Distribution!dvars
  <2>1. Served' = Served
    BY <1>10, <1>1 DEF CreateWins, Goto, IInv, TypeOK, Served, Serving,
                    Control, Booting, Up
  <2>2. bundle[r] \in Bundle
    BY <1>10, <1>1, BoundAssumption
       DEF CreateWins, Goto, IInv, TypeOK, Holding, Bundle, MaybeBundle, None, Up
  <2>3. Distribution!Publish(bundle[r])
    BY <2>1, <1>10 DEF CreateWins, StoreSecret, Distribution!Publish
  <2>4. QED
    BY <2>2, <2>3 DEF Distribution!Next
<1>11. ASSUME NEW r \in Replica, UpdateSecret(r)
      PROVE  [Distribution!Next]_Distribution!dvars
  <2>1. Served' = Served
    BY <1>11, <1>1 DEF UpdateSecret, Goto, IInv, TypeOK, Served, Serving,
                    Control, Booting, Up
  <2>2. pending[r] \in Bundle
    BY <1>11, <1>1, BoundAssumption
       DEF UpdateSecret, Goto, IInv, TypeOK, Holding, Bundle, MaybeBundle, None, Up
  <2>3. Distribution!Publish(pending[r])
    BY <2>1, <1>11 DEF UpdateSecret, StoreSecret, Distribution!Publish
  <2>4. QED
    BY <2>2, <2>3 DEF Distribution!Next
<1>12. ASSUME NEW r \in Replica, CreateLost(r)
      PROVE  [Distribution!Next]_Distribution!dvars
  <2>1. Served' = Served
    BY <1>12, <1>1 DEF CreateLost, Exit, IInv, TypeOK, Served, Serving,
                    Control, Booting, Up
  <2>2. bundle[r] \in Bundle
    BY <1>12, <1>1, BoundAssumption
       DEF CreateLost, IInv, TypeOK, Holding, Bundle, MaybeBundle, None, Up
  <2>3. Distribution!Publish(bundle[r])
    BY <2>1, <1>12 DEF CreateLost, StoreSecret, Distribution!Publish
  <2>4. QED
    BY <2>2, <2>3 DEF Distribution!Next
<1>13. ASSUME NEW r \in Replica, PatchCA(r)
      PROVE  [Distribution!Next]_Distribution!dvars
  <2>1. Served' = Served
    BY <1>13, <1>1 DEF PatchCA, Goto, IInv, TypeOK, Served, Serving,
                    Control, Booting, Up
  <2>2. pending[r] \in Bundle /\ pending[r] \in stored
    BY <1>13, <1>1, BoundAssumption
       DEF PatchCA, Goto, IInv, TypeOK, Holding, Durable, Bundle,
           MaybeBundle, None, Up
  <2>3. Distribution!Vouch(pending[r])
    BY <2>1, <2>2, <1>13
       DEF PatchCA, PatchWebhookCABundle, Distribution!Vouch
  <2>4. QED
    BY <2>2, <2>3 DEF Distribution!Next
<1>14. ASSUME NEW r \in Replica, Announce(r)
      PROVE  [Distribution!Next]_Distribution!dvars
  <2>1. Served[r] = 0 /\ Served' = [Served EXCEPT ![r] = bundle[r]]
    BY <1>14, <1>1 DEF Announce, Goto, IInv, TypeOK, Served, Serving,
                    Control, Booting, Up, None
  <2>2. bundle[r] \in Bundle /\ bundle[r] \in stored
    BY <1>14, <1>1, BoundAssumption
       DEF Announce, Goto, IInv, TypeOK, Holding, Durable, Bundle,
           MaybeBundle, None, Up
  <2>3. Distribution!VouchAndServe(r, bundle[r])
    BY <2>1, <2>2, <1>14
       DEF Announce, PatchWebhookCABundle, Distribution!VouchAndServe
  <2>4. QED
    BY <2>2, <2>3 DEF Distribution!Next
<1>15. ASSUME NEW r \in Replica, AnnounceFails(r)
      PROVE  [Distribution!Next]_Distribution!dvars
  <2>1. Served[r] = 0 /\ Served' = [Served EXCEPT ![r] = bundle[r]]
    BY <1>15, <1>1 DEF AnnounceFails, Goto, IInv, TypeOK, Served, Serving,
                    Control, Booting, Up, None
  <2>2. bundle[r] \in Bundle /\ bundle[r] \in stored
    BY <1>15, <1>1, BoundAssumption
       DEF AnnounceFails, Goto, IInv, TypeOK, Holding, Durable, Bundle,
           MaybeBundle, None, Up
  <2>3. CASE UNCHANGED api
    <3>1. Distribution!Serve(r, bundle[r])
      BY <2>1, <2>2, <2>3 DEF api, Distribution!Serve
    <3>2. QED
      BY <2>2, <3>1 DEF Distribution!Next
  <2>4. CASE PatchWebhookCABundle(bundle[r])
    <3>1. Distribution!VouchAndServe(r, bundle[r])
      BY <2>1, <2>2, <2>4
         DEF PatchWebhookCABundle, Distribution!VouchAndServe
    <3>2. QED
      BY <2>2, <3>1 DEF Distribution!Next
  <2>5. QED
    BY <2>3, <2>4, <1>15 DEF AnnounceFails
<1>16. ASSUME NEW r \in Replica, Swap(r)
      PROVE  [Distribution!Next]_Distribution!dvars
  <2>1. Served[r] = bundle[r] /\ Served' = [Served EXCEPT ![r] = pending[r]]
    BY <1>16, <1>1 DEF Swap, Goto, IInv, TypeOK, Served, Serving, Control, Up
  <2>2. /\ bundle[r] # 0
        /\ pending[r] \in Bundle
        /\ pending[r] \in vouched
        /\ pending[r] > bundle[r]
    BY <1>16, <1>1, BoundAssumption
       DEF Swap, Goto, IInv, TypeOK, Holding, Durable, Bundle, MaybeBundle,
           None, Up
  <2>3. Distribution!Switch(r, pending[r])
    BY <2>1, <2>2, <1>16 DEF Swap, api, Distribution!Switch
  <2>4. QED
    BY <2>2, <2>3 DEF Distribution!Next
<1>17. ASSUME NEW r \in Replica, RotateFails(r)
      PROVE  [Distribution!Next]_Distribution!dvars
  <2>1. Served' = Served
    BY <1>17, <1>1 DEF RotateFails, IInv, TypeOK, Served, Serving, Control, Up
  <2>2. CASE UNCHANGED api
    BY <2>1, <2>2 DEF api, Distribution!dvars
  <2>3. pending[r] \in Bundle
    BY <1>17, <1>1, BoundAssumption
       DEF RotateFails, IInv, TypeOK, Holding, Bundle, MaybeBundle, None, Up
  <2>4. CASE StoreSecret(pending[r])
    <3>1. Distribution!Publish(pending[r])
      BY <2>1, <2>4 DEF StoreSecret, Distribution!Publish
    <3>2. QED
      BY <2>3, <3>1 DEF Distribution!Next
  <2>5. CASE pc[r] = "patch" /\ PatchWebhookCABundle(pending[r])
    <3>1. Distribution!Vouch(pending[r])
      BY <2>1, <2>5, <1>1
         DEF PatchWebhookCABundle, Distribution!Vouch, IInv, Durable
    <3>2. QED
      BY <2>3, <3>1 DEF Distribution!Next
  <2>6. QED
    BY <2>2, <2>4, <2>5, <1>17 DEF RotateFails
<1>18. ASSUME NEW r \in Replica, Crash(r)
      PROVE  [Distribution!Next]_Distribution!dvars
  <2>1. Served' = [Served EXCEPT ![r] = 0]
    BY <1>18, <1>1 DEF Crash, Exit, IInv, TypeOK, Served, Serving, Control, Up,
                    None
  <2>2. Distribution!Stop(r)
    BY <2>1, <1>18 DEF Crash, api, Distribution!Stop
  <2>3. QED
    BY <2>2 DEF Distribution!Next
<1>19. CASE Age
  BY <1>19 DEF Age, api, proc, Served, Serving, Distribution!dvars
<1>20. CASE UNCHANGED vars
  BY <1>20 DEF vars, Served, Serving, Distribution!dvars
<1>21. QED
  BY <1>1, <1>2, <1>3, <1>4, <1>5, <1>6, <1>7, <1>8, <1>9, <1>10,
     <1>11, <1>12, <1>13, <1>14, <1>15, <1>16, <1>17, <1>18, <1>19, <1>20
     DEF Next, Boot, Rotate, Fail

(* Nothing is trusted or served before the Secret has held it, and a server *)
(* in operation moves only to a younger bundle that was the caBundle.       *)
THEOREM ImplementsDistribution == Spec => DistributionSpec
<1>1. Init => Distribution!Init
  BY DEF Init, Distribution!Init, Served, Serving, None, Up
<1>2. IInv /\ [Next]_vars => [Distribution!Next]_Distribution!dvars
  BY RefinementStep
<1>3. QED
  BY <1>1, <1>2, Inductive, PTL DEF Spec, DistributionSpec, Distribution!Spec

-----------------------------------------------------------------------------
(* Whoever lost the race for the Secret reads one that exists: the Secret   *)
(* is never deleted, and only storeTLSSecret leads to that request.         *)
LostToSomebody == \A r \in Replica : pc[r] = "reread" => secret.exists

\* Every step either leaves pc as it is or moves one replica, and the Secret stays.
LEMMA LostToSomebodyStep ==
  TypeOK /\ LostToSomebody /\ [Next]_vars => LostToSomebody'
<1>1. SUFFICES ASSUME TypeOK, LostToSomebody, [Next]_vars
               PROVE  LostToSomebody'
  OBVIOUS
<1>2. secret' = secret \/ secret'.exists
  <2>1. ASSUME NEW b, StoreSecret(b) PROVE secret'.exists
    BY <2>1 DEF StoreSecret
  <2>2. ASSUME NEW b, PatchWebhookCABundle(b) PROVE secret' = secret
    BY <2>2 DEF PatchWebhookCABundle
  <2>3. ASSUME NEW r \in Replica, Boot(r) PROVE secret' = secret \/ secret'.exists
    BY <2>1, <2>2, <2>3 DEF Boot, Start, GetStored, GetMissing, CreateWins, CreateLoses,
                            Reread, RereadEmpty, Announce, api
  <2>4. ASSUME NEW r \in Replica, Rotate(r) PROVE secret' = secret \/ secret'.exists
    BY <2>1, <2>2, <2>4 DEF Rotate, Tick, UpdateSecret, PatchCA, Swap, api
  <2>5. ASSUME NEW r \in Replica, Fail(r) PROVE secret' = secret \/ secret'.exists
    BY <2>1, <2>2, <2>5 DEF Fail, BootRequestFails, CreateLost, AnnounceFails, RotateFails,
                            Crash, api
  <2>6. QED
    BY <1>1, <2>3, <2>4, <2>5 DEF Next, Age, vars, api
<1>3. ASSUME NEW s \in Replica, pc'[s] = "reread", pc[s] # "reread"
      PROVE  secret.exists
  <2>1. ASSUME NEW r \in Replica, Boot(r) PROVE secret.exists
    BY <1>1, <1>3, <2>1 DEF TypeOK, Boot, Start, GetStored, GetMissing, CreateWins, CreateLoses,
                            Reread, RereadEmpty, Announce, Goto, Exit
  <2>2. ASSUME NEW r \in Replica, Rotate(r) PROVE FALSE
    BY <1>1, <1>3, <2>2 DEF TypeOK, Rotate, Tick, UpdateSecret, PatchCA, Swap, Goto
  <2>3. ASSUME NEW r \in Replica, Fail(r) PROVE FALSE
    BY <1>1, <1>3, <2>3 DEF TypeOK, Fail, BootRequestFails, CreateLost, AnnounceFails,
                            RotateFails, Crash, Goto, Exit
  <2>4. QED
    BY <1>1, <1>3, <2>1, <2>2, <2>3 DEF Next, Age, vars, proc
<1>4. QED
  BY <1>1, <1>2, <1>3 DEF LostToSomebody

\* A step that ends a boot counts a fault, or meets the empty Secret.
LEMMA BootStep ==
  ASSUME TypeOK, LostToSomebody, [Next]_vars,
         NEW r \in Replica, pc[r] \in Booting, pc'[r] = "down"
  PROVE  faults' # faults \/ EmptySecret
<1>1. pc[r] # "down"
  BY DEF Booting
<1>2. ASSUME NEW k \in FaultKind, Fault(k)
      PROVE  faults' # faults
  <2>1. faults[k] \in Nat /\ faults'[k] = faults[k] + 1
    BY <1>2 DEF Fault, TypeOK
  <2>2. QED
    BY <2>1
<1>3. ASSUME NEW s \in Replica, Boot(s)
      PROVE  EmptySecret
  <2>1. CASE RereadEmpty(s)
    BY <2>1 DEF RereadEmpty, LostToSomebody, EmptySecret
  <2>2. CASE \/ Start(s) \/ GetStored(s) \/ GetMissing(s) \/ CreateWins(s)
             \/ CreateLoses(s) \/ Reread(s) \/ Announce(s)
    BY <1>1, <2>2 DEF TypeOK, Start, GetStored, GetMissing, CreateWins, CreateLoses,
                      Reread, Announce, Goto
  <2>3. QED
    BY <1>3, <2>1, <2>2 DEF Boot
<1>4. ASSUME NEW s \in Replica, Rotate(s)
      PROVE  FALSE
  BY <1>1, <1>4 DEF TypeOK, Rotate, Tick, UpdateSecret, PatchCA, Swap, Goto
<1>5. ASSUME NEW s \in Replica, Fail(s)
      PROVE  faults' # faults
  <2>1. CASE RotateFails(s)
    BY <1>2, <2>1 DEF RotateFails, FaultKind
  <2>2. CASE BootRequestFails(s) \/ CreateLost(s) \/ AnnounceFails(s) \/ Crash(s)
    BY <1>2, <2>2 DEF BootRequestFails, CreateLost, AnnounceFails, Crash, FaultKind
  <2>3. QED
    BY <1>5, <2>1, <2>2 DEF Fail
<1>6. QED
  BY <1>1, <1>3, <1>4, <1>5 DEF Next, Age, vars, proc

(* A boot ends before the server is up only by a fault, or because the      *)
(* Secret is there without a certificate (NewTLSManager, storeTLSSecret).   *)
THEOREM BootEndsOnlyByFaultHolds == Spec => BootEndsOnlyByFault
<1>1. Init => LostToSomebody
  BY DEF Init, LostToSomebody
<1>2. TypeOK /\ LostToSomebody /\ [Next]_vars =>
        [\A r \in Replica :
            pc[r] \in Booting /\ pc'[r] = "down" => faults' # faults \/ EmptySecret]_vars
  BY BootStep
<1>3. QED
  BY <1>1, <1>2, TypeCorrect, LostToSomebodyStep, PTL DEF Spec, BootEndsOnlyByFault
=============================================================================
