--------------------------- MODULE RotationProofs ---------------------------
(***************************************************************************)
(* More proofs about module Credentials, from the invariant of             *)
(* CredentialsProofs: that a request for rotation is answered with another *)
(* credential, and that the readers of a Secret follow it from one         *)
(* credential to the next without a gap.                                   *)
(***************************************************************************)
EXTENDS CredentialsProofs

(* A set is two credentials that were created. *)
Proper(set) == set.current > 0 /\ set.next > 0 /\ set.current # set.next

(* What the pass is going to write, or has written, is not what it read.   *)
Replaced(c) == tx.rotate => c # tx.latest.current

Rotated ==
  /\ \A s \in Name : Exists(s) => Proper(secrets[s])
  /\ pc # "idle" => /\ tx.annotated => tx.rotate
                    /\ tx.latest # NoSet => Proper(tx.latest)
  /\ pc \in {"addNext", "keys"} => tx.set.current > 0 /\ Replaced(tx.set.current)
  /\ pc = "keys" => Proper(tx.set)
  /\ pc = "secret" => Proper(tx.set) /\ Replaced(tx.set.current)
  /\ pc \in {"status", "annotations"} => Exists(T) /\ Replaced(secrets[T].current)

(* Users change names and the rest of the spec, and ask for rotations; all *)
(* calls succeed, and nothing expires.                                     *)
Calm == Disturbances \subseteq {"name", "spec", "rotate"} /\ MaxFaults = 0

(* Then the status names the last Secret that was written, and its set is  *)
(* valid for every pass that writes to it again.                           *)
Steady ==
  /\ ~aged
  /\ horizon = 0
  /\ spec.prefix = 1
  /\ \A s \in Name : Exists(s) => /\ secrets[s].prefix = 1
                                  /\ s <= N \/ (pc = "status" /\ s = T)
  /\ pc # "idle" => tx.spec.prefix = 1
  /\ PreWrite /\ T = N => tx.valid

(* Nobody asks for rotations either. *)
Rollout == Disturbances \subseteq {"name", "spec"} /\ MaxFaults = 0

(* Then a Secret never gets another credential than its first one.         *)
Unasked ==
  /\ ~rotate
  /\ pc # "idle" => ~tx.annotated
  /\ PreWrite /\ T = N => ~tx.rotate
  /\ \A p \in Pod : pods[p].loaded # 0 =>
       pods[p].loaded = secrets[pods[p].mounts].current

----------------------------------------------------------------------------
(* A request for rotation. *)

LEMMA LatestProper ==
  ASSUME TypeOK, Ordered, \A s \in Name : Exists(s) => Proper(secrets[s])
  PROVE  LatestCredentials # NoSet => Proper(LatestCredentials)
  <1>. SUFFICES ASSUME LatestCredentials # NoSet PROVE Proper(LatestCredentials)
    OBVIOUS
  <1>1. N # 0 /\ Exists(N) /\ LatestCredentials = secrets[N]
    BY DEF LatestCredentials, Readable, N
  <1>2. N \in Name
    BY <1>1, Numbers, ConstantsAssumption DEF Ordered, Name
  <1>. QED BY <1>1, <1>2

LEMMA RotatedStep ==
  ASSUME IInv, Rotated, Next
  PROVE  Rotated'
  <1>. USE Numbers DEF IInv
  <1>1. CASE Disturbed \/ PodsMoved
    BY <1>1 DEF Disturbed, PodsMoved, Rotated, Replaced, Proper, Exists, T
  <1>2. CASE Prepare
    <2>1. /\ UNCHANGED secrets
          /\ pc' = "expired"
          /\ tx'.annotated = rotate
          /\ tx'.rotate = NeedsSecretRotation
          /\ tx'.latest = LatestCredentials
      BY <1>2 DEF Prepare, cluster
    <2>2. tx'.latest # NoSet => Proper(tx'.latest)
      BY <2>1, LatestProper DEF Rotated
    <2>3. tx'.annotated => tx'.rotate
      BY <2>1 DEF NeedsSecretRotation
    <2>. QED BY <2>1, <2>2, <2>3 DEF Rotated, Proper, Exists
  <1>3. CASE DeleteExpiredCredentials \/ UnusedSecretsDeleted \/ DeleteUnusedCredentials
    <2>1. /\ UNCHANGED <<secrets, tx>>
          /\ pc' \in {"validate", "cleanup", "decide"}
          /\ pc # "idle"
      BY <1>3
      DEF DeleteExpiredCredentials, UnusedSecretsDeleted, DeleteUnusedCredentials, cluster
    <2>. QED BY <2>1 DEF Rotated, Proper, Exists
  <1>4. CASE ValidateCredentials
    <2>1. /\ UNCHANGED secrets
          /\ pc' = "secrets" /\ pc # "idle"
          /\ tx'.annotated = tx.annotated
          /\ tx'.rotate = tx.rotate
          /\ tx'.latest = tx.latest
      BY <1>4 DEF ValidateCredentials, cluster, TypeOK, TxType
    <2>. QED BY <2>1 DEF Rotated, Proper, Exists
  <1>5. CASE DeleteUnusedSecret
    <2>1. /\ pc' = "secrets" /\ pc = "secrets"
          /\ tx'.annotated = tx.annotated
          /\ tx'.rotate = tx.rotate
          /\ tx'.latest = tx.latest
      BY <1>5 DEF DeleteUnusedSecret, TypeOK, TxType
    <2>2. \A s \in Name : Exists(s)' => secrets'[s] = secrets[s] /\ Exists(s)
      BY <1>5, SecretDeleted DEF Exists
    <2>. QED BY <2>1, <2>2 DEF Rotated, Proper
  <1>6. CASE NothingToDo \/ UpdateAnnotations \/ Abort
    <2>1. UNCHANGED secrets /\ pc' = "idle"
      BY <1>6 DEF NothingToDo, UpdateAnnotations, Abort, cluster
    <2>. QED BY <2>1 DEF Rotated, Proper, Exists
  <1>7. CASE ProcessAzure
    <2>1. /\ UNCHANGED <<secrets, tx>>
          /\ pc = "decide"
          /\ pc' \in {"add", "rotate", "status", "secret"}
          /\ pc' = "add" <=> ~tx.valid
          /\ pc' \in {"secret", "status"} => ~tx.rotate
      BY <1>7 DEF ProcessAzure, cluster
    <2>2. tx.set = tx.latest /\ (tx.valid => tx.latest # NoSet)
      BY <2>1 DEF Progress, LatestRead
    <2>3. pc' = "secret" => Proper(tx.set)
      BY <2>1, <2>2 DEF Rotated
    <2>4. pc' = "status" => Exists(T)
      BY <2>1, <2>2 DEF LatestRead, PreWrite, Ordered, Name
    <2>. QED BY <2>1, <2>3, <2>4 DEF Rotated, Replaced, Proper, Exists, T
  <1>8. CASE AddCurrentPassword
    <2>1. /\ UNCHANGED secrets
          /\ pc = "add" /\ pc' = "addNext"
          /\ tx'.annotated = tx.annotated
          /\ tx'.rotate = tx.rotate
          /\ tx'.latest = tx.latest
          /\ tx'.set.current = issued + 1
      BY <1>8 DEF AddCurrentPassword, cluster, TypeOK, TxType, CredSet
    <2>2. issued \in Nat /\ tx.latest.current <= issued
      BY DEF TypeOK, TxType, CredSet
    <2>. QED BY <2>1, <2>2 DEF Rotated, Replaced, Proper, Exists
  <1>9. CASE RotatePasswords
    <2>1. /\ UNCHANGED secrets
          /\ pc = "rotate" /\ pc' = "addNext"
          /\ tx'.annotated = tx.annotated
          /\ tx'.rotate = tx.rotate
          /\ tx'.latest = tx.latest
          /\ tx'.set.current = tx.latest.next
      BY <1>9 DEF RotatePasswords, cluster, TypeOK, TxType, CredSet
    <2>2. Proper(tx.latest)
      BY <2>1 DEF Progress, LatestRead, Rotated
    <2>. QED BY <2>1, <2>2 DEF Rotated, Replaced, Proper, Exists
  <1>10. CASE AddNextPassword
    <2>1. /\ UNCHANGED secrets
          /\ pc = "addNext" /\ pc' = "keys"
          /\ tx'.annotated = tx.annotated
          /\ tx'.rotate = tx.rotate
          /\ tx'.latest = tx.latest
          /\ tx'.set.current = tx.set.current
          /\ tx'.set.next = issued + 1
      BY <1>10 DEF AddNextPassword, cluster, TypeOK, TxType, CredSet
    <2>2. issued \in Nat /\ tx.set.current <= issued
      BY DEF TypeOK, TxType, CredSet
    <2>. QED BY <2>1, <2>2 DEF Rotated, Replaced, Proper, Exists
  <1>11. CASE PatchKeys
    <2>1. UNCHANGED <<secrets, tx>> /\ pc = "keys" /\ pc' = "secret"
      BY <1>11 DEF PatchKeys, cluster
    <2>. QED BY <2>1 DEF Rotated, Replaced, Proper, Exists
  <1>12. CASE CreateOrUpdateSecret
    <2>1. pc = "secret" /\ pc' = "status" /\ UNCHANGED tx /\ T' = T
      BY <1>12 DEF CreateOrUpdateSecret, T
    <2>2. \A s \in Name : Exists(s)' => Proper(secrets'[s])
      BY <1>12, <2>1, SecretWritten DEF Rotated, Proper, Exists
    <2>3. Exists(T)' /\ Replaced(secrets[T].current)'
      BY <1>12, <2>1, SecretWritten DEF Rotated, Replaced, Exists
    <2>. QED BY <2>1, <2>2, <2>3 DEF Rotated, Proper
  <1>13. CASE UpdateStatus
    <2>1. UNCHANGED <<secrets, tx>> /\ pc = "status" /\ pc' = "annotations"
      BY <1>13 DEF UpdateStatus
    <2>. QED BY <2>1 DEF Rotated, Replaced, Proper, Exists, T
  <1>. QED
    BY <1>1, <1>2, <1>3, <1>4, <1>5, <1>6, <1>7, <1>8, <1>9, <1>10, <1>11,
       <1>12, <1>13, EnvironmentStep DEF Next, Reconcile

LEMMA RotatedInit == Init => Rotated
  <1>1. Init => \A s \in Name : ~Exists(s)
    BY DEF Init, Exists
  <1>. QED BY <1>1 DEF Init, Rotated

(* From the moment a pass with a new set in hand has written the Secret,   *)
(* the Secret holds another credential than the one the pass found there   *)
(* (Rotate and Add in pkg/azure/client, createOrUpdateSecrets), with any   *)
(* edits, failures and restarts.                                           *)
THEOREM RotatedHolds == Spec => [](IInv /\ Rotated)
  <1>1. IInv /\ Rotated /\ UNCHANGED vars => Rotated'
    BY DEF vars, cluster, Rotated, Replaced, Proper, Exists, T
  <1>2. IInv /\ Rotated /\ [Next]_vars => Rotated'
    BY <1>1, RotatedStep
  <1>. QED BY RotatedInit, <1>2, InvariantHolds, PTL DEF Spec

(* The annotation is taken away by the last step of a pass that has read   *)
(* it.                                                                     *)
LEMMA RotateRemoved ==
  ASSUME IInv, [Next]_vars, rotate, ~rotate'
  PROVE  pc = "annotations" /\ tx.annotated
  <1>1. UpdateAnnotations
    BY DEF Next, Environment, Disturb, ChangeSecretName, ChangeSpec, ChangePrefix,
       AnnotateRotate, Age, Lapse, StartPod, LoadCredentials, StopPod, PodsOnly,
       Reconcile, Prepare, DeleteExpiredCredentials, ValidateCredentials,
       DeleteUnusedSecret, UnusedSecretsDeleted, DeleteUnusedCredentials, NothingToDo,
       ProcessAzure, AddCurrentPassword, RotatePasswords, AddNextPassword, PatchKeys,
       CreateOrUpdateSecret, UpdateStatus, Abort, vars, cluster
  <1>. QED BY <1>1 DEF UpdateAnnotations

(* A request for rotation disappears only when the Secret holds another    *)
(* credential than the one the pass has found there (updateAnnotations,    *)
(* after a Rotate or an Add that put a new set into the Secret).           *)
THEOREM RotationIsAnswered == Spec => RotationAnswered
  <1>1. ASSUME IInv, Rotated, [Next]_vars, rotate, ~rotate'
        PROVE  /\ Exists(tx.spec.secretName)
               /\ secrets[tx.spec.secretName].current # tx.latest.current
    BY <1>1, RotateRemoved DEF Rotated, Replaced, T
  <1>2. IInv /\ Rotated /\ [Next]_vars
        => [rotate /\ ~rotate' =>
              /\ Exists(tx.spec.secretName)
              /\ secrets[tx.spec.secretName].current # tx.latest.current]_vars
    BY <1>1
  <1>. QED BY RotatedHolds, <1>2, PTL DEF Spec, RotationAnswered

----------------------------------------------------------------------------
(* Rollouts. *)

LEMMA CalmFaults == ASSUME Calm, TypeOK PROVE ~(faults < MaxFaults)
  BY DEF Calm, TypeOK

(* What may disturb, and what it leaves alone. *)
LEMMA CalmEnvironment ==
  ASSUME Calm, TypeOK, Ordered, Environment
  PROVE  /\ UNCHANGED <<aged, horizon, secrets, status, pc, tx>>
         /\ spec'.prefix = spec.prefix
  <1>. USE DEF Calm, Disturb
  <1>1. CASE ChangeSecretName
    BY <1>1 DEF ChangeSecretName, TypeOK, SpecType
  <1>2. CASE ChangeSpec
    BY <1>2 DEF ChangeSpec, TypeOK, SpecType
  <1>3. ~ChangePrefix /\ ~Age /\ ~Lapse
    BY DEF ChangePrefix, Age, Lapse
  <1>4. CASE AnnotateRotate
    BY <1>4 DEF AnnotateRotate
  <1>5. ASSUME NEW p \in Pod, NEW s \in Name,
               StartPod(p, s) \/ LoadCredentials(p) \/ StopPod(p)
        PROVE  UNCHANGED <<spec, aged, horizon, secrets, status, pc, tx>>
    BY <1>5 DEF StartPod, LoadCredentials, StopPod, PodsOnly, cluster
  <1>6. 1 \in Name
    BY ConstantsAssumption DEF Name
  <1>. QED BY <1>1, <1>2, <1>3, <1>4, <1>5, <1>6 DEF Environment

(* The set of a Secret, once written, is accepted by Entra ID for good.    *)
LEMMA LatestRegistered ==
  ASSUME IInv, Rotated, Steady, pc = "validate", tx.valid
  PROVE  tx.registered /\ Registered(tx.latest)
  <1>1. tx.registered /\ Known(tx.latest) /\ Proper(tx.latest)
    BY DEF IInv, LatestRead, Rotated
  <1>2. horizon = 0
    BY DEF Steady
  <1>3. tx.latest.current \in Nat /\ tx.latest.next \in Nat
    BY Numbers DEF IInv
  <1>. QED
    BY <1>1, <1>2, <1>3
    DEF Known, NotRevoked, Proper, Registered, PasswordsValid, KeysValid, Live

LEMMA SteadyStep ==
  ASSUME Calm, IInv, Rotated, Steady, Next
  PROVE  Steady'
  <1>. USE Numbers DEF IInv
  <1>1. CASE Environment
    BY <1>1, CalmEnvironment DEF Steady, Exists, PreWrite, N, T
  <1>2. CASE Prepare
    <2>1. /\ UNCHANGED <<spec, status, aged, horizon, secrets>>
          /\ pc = "idle"
          /\ pc' = "expired"
          /\ tx'.spec = spec
          /\ tx'.valid = HasValidSecrets
      BY <1>2 DEF Prepare, cluster
    <2>2. ASSUME T' = N' PROVE tx'.valid
      <3>1. N = spec.secretName /\ N \in Name /\ N # 0
        BY <2>1, <2>2 DEF N, T, Ordered, Name
      <3>2. Exists(N) /\ secrets[N].prefix = 1 /\ spec.prefix = 1
        BY <3>1 DEF StatusNamesSecret, Steady, N
      <3>3. LatestCredentials = secrets[N]
        BY <3>1, <3>2 DEF LatestCredentials, Readable, N
      <3>. QED BY <2>1, <3>2, <3>3 DEF HasValidSecrets, Exists, Steady
    <2>3. \A s \in Name : Exists(s)' => secrets'[s].prefix = 1 /\ s <= N'
      BY <2>1 DEF Steady, Exists, N
    <2>. QED BY <2>1, <2>2, <2>3 DEF Steady
  <1>3. CASE ValidateCredentials
    <2>1. /\ UNCHANGED <<spec, status, aged, horizon, secrets>>
          /\ pc = "validate"
          /\ pc' = "secrets"
          /\ tx'.spec = tx.spec
          /\ tx'.valid = (tx.registered /\ tx.valid /\ Registered(tx.latest))
      BY <1>3 DEF ValidateCredentials, cluster, TypeOK, TxType
    <2>2. T' = N' => tx'.valid
      BY <2>1, LatestRegistered DEF Steady, PreWrite, N, T
    <2>. QED BY <2>1, <2>2 DEF Steady, Exists, N, T
  <1>4. CASE DeleteUnusedSecret
    <2>1. /\ UNCHANGED <<spec, status, aged, horizon, pc>>
          /\ pc = "secrets"
          /\ tx'.spec = tx.spec
          /\ tx'.valid = tx.valid
      BY <1>4 DEF DeleteUnusedSecret, TypeOK, TxType
    <2>2. \A s \in Name : Exists(s)' => secrets'[s] = secrets[s] /\ Exists(s)
      BY <1>4, SecretDeleted DEF Exists
    <2>. QED BY <2>1, <2>2 DEF Steady, PreWrite, N, T
  <1>5. CASE CreateOrUpdateSecret
    <2>1. /\ UNCHANGED <<spec, status, aged, horizon, tx>>
          /\ pc = "secret" /\ pc' = "status"
      BY <1>5 DEF CreateOrUpdateSecret
    <2>2. \A s \in Name : Exists(s)' => secrets'[s].prefix = 1 /\ (s <= N \/ s = T)
      BY <1>5, <2>1, SecretWritten DEF Steady, Exists
    <2>. QED BY <2>1, <2>2 DEF Steady, PreWrite, N, T
  <1>6. CASE UpdateStatus
    <2>1. /\ UNCHANGED <<spec, secrets, horizon, tx>>
          /\ pc = "status" /\ pc' = "annotations"
          /\ N' = T
          /\ aged' = (aged /\ tx.valid /\ ~tx.rotate)
      BY <1>6 DEF UpdateStatus, N, T
    <2>2. N <= T
      BY <2>1 DEF Ordered
    <2>3. \A s \in Name : Exists(s)' => secrets'[s].prefix = 1 /\ s <= N'
      BY <2>1, <2>2 DEF Steady, Exists
    <2>4. ~aged' /\ horizon' = 0 /\ spec'.prefix = 1 /\ tx'.spec.prefix = 1
      BY <2>1 DEF Steady
    <2>. QED BY <2>1, <2>3, <2>4 DEF Steady, PreWrite
  <1>7. CASE NothingToDo \/ UpdateAnnotations
    <2>1. /\ UNCHANGED <<spec, status, aged, horizon, secrets>>
          /\ pc # "status" /\ pc' = "idle"
      BY <1>7 DEF NothingToDo, UpdateAnnotations, cluster
    <2>. QED BY <2>1 DEF Steady, Exists, PreWrite, N
  <1>8. ~Abort
    BY CalmFaults DEF Abort
  <1>9. CASE \/ DeleteExpiredCredentials \/ UnusedSecretsDeleted
            \/ DeleteUnusedCredentials \/ ProcessAzure \/ PatchKeys
    <2>1. /\ UNCHANGED <<spec, status, aged, horizon, secrets, tx>>
          /\ pc \notin {"idle", "status"} /\ PreWrite
      BY <1>9
      DEF DeleteExpiredCredentials, UnusedSecretsDeleted, DeleteUnusedCredentials,
          ProcessAzure, PatchKeys, cluster, PreWrite
    <2>. QED BY <2>1 DEF Steady, Exists, N, T
  <1>10. CASE AddCurrentPassword \/ RotatePasswords \/ AddNextPassword
    <2>1. /\ UNCHANGED <<spec, status, aged, horizon, secrets>>
          /\ pc \notin {"idle", "status"} /\ PreWrite
          /\ tx'.spec = tx.spec
          /\ tx'.valid = tx.valid
      BY <1>10
      DEF AddCurrentPassword, RotatePasswords, AddNextPassword, cluster, PreWrite,
          TypeOK, TxType
    <2>. QED BY <2>1 DEF Steady, Exists, N, T
  <1>. QED
    BY <1>1, <1>2, <1>3, <1>4, <1>5, <1>6, <1>7, <1>8, <1>9, <1>10
    DEF Next, Reconcile

LEMMA SteadyInit == Init => Steady
  <1>. SUFFICES ASSUME Init PROVE Steady
    OBVIOUS
  <1>1. \A s \in Name : ~Exists(s)
    BY DEF Init, Exists
  <1>. QED BY <1>1 DEF Init, Steady, PreWrite

(* As long as every call succeeds and nobody else touches Secrets or       *)
(* credentials, the status names the last Secret that was written, and     *)
(* what its current set holds is valid for every pass that writes it again *)
(* (Process in pkg/reconciler/secrets).                                    *)
THEOREM SteadyHolds == ASSUME Calm PROVE Spec => [](IInv /\ Rotated /\ Steady)
  <1>1. IInv /\ Rotated /\ Steady /\ UNCHANGED vars => Steady'
    BY DEF vars, cluster, Steady, Exists, PreWrite, N, T
  <1>2. IInv /\ Rotated /\ Steady /\ [Next]_vars => Steady'
    BY <1>1, SteadyStep
  <1>. QED BY SteadyInit, <1>2, RotatedHolds, PTL DEF Spec

(* The set that a pass writes over another one continues it.               *)
LEMMA SetAdvances ==
  ASSUME IInv, Steady, CreateOrUpdateSecret, Exists(T)
  PROVE  /\ secrets[T] = tx.latest
         /\ tx.set.current = IF tx.rotate THEN secrets[T].next ELSE secrets[T].current
  <1>. USE Numbers DEF IInv
  <1>1. pc = "secret" /\ PreWrite
    BY DEF CreateOrUpdateSecret, PreWrite
  <1>2. T = N /\ N # 0 /\ T \in Name
    BY <1>1 DEF Steady, Ordered, Name
  <1>3. tx.valid
    BY <1>1, <1>2 DEF Steady
  <1>4. secrets[T] = tx.latest
    BY <1>1, <1>2, <1>3 DEF LatestRead
  <1>. QED BY <1>1, <1>3, <1>4 DEF Progress

(* While names and specs change and rotations are asked for, and all calls *)
(* succeed: a Secret that is written again keeps its current credential or *)
(* moves on to its next one, so whoever reads it can follow (Rotate, and   *)
(* the Latest set of an update without rotation).                          *)
THEOREM SecretsDoAdvance == ASSUME Calm PROVE Spec => SecretsAdvance
  <1>1. ASSUME IInv, Steady, [Next]_vars, NEW s \in Name, Exists(s), secrets'[s] # NoSet
        PROVE  secrets'[s].current \in {secrets[s].current, secrets[s].next}
    <2>1. CASE secrets' = secrets
      BY <2>1
    <2>2. CASE DeleteUnusedSecret
      BY <1>1, <2>2, SecretDeleted DEF IInv, Exists
    <2>3. CASE CreateOrUpdateSecret
      <3>1. CASE s = T
        BY <1>1, <2>3, <3>1, SetAdvances, SecretWritten DEF IInv
      <3>2. CASE s # T
        BY <1>1, <2>3, <3>2, SecretWritten DEF IInv
      <3>. QED BY <3>1, <3>2
    <2>4. Next => \/ Disturbed \/ PodsMoved \/ Prepare \/ Passed
      BY <1>1, Steps DEF IInv
    <2>. QED
      BY <1>1, <2>1, <2>2, <2>3, <2>4
      DEF Disturbed, PodsMoved, Prepare, Passed, vars, cluster
  <1>2. IInv /\ Rotated /\ Steady /\ [Next]_vars
        => [\A s \in Name :
              Exists(s) /\ secrets'[s] # NoSet =>
                secrets'[s].current \in {secrets[s].current, secrets[s].next}]_vars
    BY <1>1
  <1>. QED BY SteadyHolds, <1>2, PTL DEF Spec, SecretsAdvance

LEMMA UnaskedStep ==
  ASSUME Rollout, IInv, IInv', Rotated, Steady, Unasked, Next
  PROVE  Unasked'
  <1>. USE Numbers DEF IInv
  <1>0. Calm
    BY DEF Rollout, Calm
  <1>1. ASSUME UNCHANGED <<secrets, pods>>, NEW p \in Pod, pods'[p].loaded # 0
        PROVE  pods'[p].loaded = secrets'[pods'[p].mounts].current
    BY <1>1 DEF Unasked
  <1>2. CASE \/ ChangeSecretName \/ ChangeSpec \/ ChangePrefix
            \/ AnnotateRotate \/ Age \/ Lapse
    <2>1. UNCHANGED <<rotate, pc, tx, status, secrets, pods>>
      BY <1>2
      DEF Rollout, Disturb, ChangeSecretName, ChangeSpec, ChangePrefix, AnnotateRotate,
          Age, Lapse
    <2>. QED BY <1>1, <2>1 DEF Unasked, PreWrite, N, T
  <1>3. ASSUME NEW p \in Pod, NEW s \in Name,
               StartPod(p, s) \/ LoadCredentials(p) \/ StopPod(p)
        PROVE  Unasked'
    <2>1. UNCHANGED <<rotate, pc, tx, status, secrets>>
      BY <1>3 DEF StartPod, LoadCredentials, StopPod, PodsOnly, cluster
    <2>2. \A q \in Pod :
            \/ pods'[q] = pods[q]
            \/ pods'[q].loaded = 0
            \/ pods'[q].loaded = secrets[pods'[q].mounts].current
      BY <1>3 DEF StartPod, LoadCredentials, StopPod, TypeOK, PodType
    <2>. QED BY <2>1, <2>2 DEF Unasked, PreWrite, N, T
  <1>4. CASE Prepare
    <2>1. /\ UNCHANGED <<rotate, status, secrets, pods>>
          /\ tx'.annotated = rotate
          /\ tx'.rotate = NeedsSecretRotation
          /\ tx'.spec = spec
      BY <1>4 DEF Prepare, cluster
    <2>2. T' = N' => ~tx'.rotate
      BY <2>1 DEF Unasked, NeedsSecretRotation, SecretNameChanged, N, T
    <2>. QED BY <1>1, <2>1, <2>2 DEF Unasked
  <1>5. CASE CreateOrUpdateSecret
    <2>1. UNCHANGED <<rotate, tx, pods>> /\ pc = "secret" /\ pc' = "status"
      BY <1>5 DEF CreateOrUpdateSecret
    <2>2. ASSUME NEW p \in Pod, pods[p].loaded # 0
          PROVE  secrets'[pods[p].mounts].current = secrets[pods[p].mounts].current
      <3>1. pods[p].mounts \in Name /\ Exists(pods[p].mounts)
        BY <2>2 DEF LoadedMounts, LoadedSecretsKept
      <3>2. CASE pods[p].mounts = T
        <4>1. T = N
          BY <2>1, <3>1, <3>2 DEF Steady, Ordered
        <4>2. ~tx.rotate
          BY <2>1, <4>1 DEF Unasked, PreWrite
        <4>. QED BY <1>5, <3>1, <3>2, <4>2, SetAdvances, SecretWritten
      <3>3. CASE pods[p].mounts # T
        BY <1>5, <3>1, <3>3, SecretWritten
      <3>. QED BY <3>2, <3>3
    <2>. QED BY <2>1, <2>2 DEF Unasked, PreWrite
  <1>6. CASE DeleteUnusedSecret
    <2>1. /\ UNCHANGED <<rotate, pods, pc, status>>
          /\ pc = "secrets"
          /\ tx'.spec = tx.spec
          /\ tx'.annotated = tx.annotated
          /\ tx'.rotate = tx.rotate
      BY <1>6 DEF DeleteUnusedSecret, TypeOK, TxType
    <2>2. ASSUME NEW p \in Pod, pods[p].loaded # 0
          PROVE  secrets'[pods[p].mounts] = secrets[pods[p].mounts]
      <3>1. pods[p].mounts \in Name /\ secrets'[pods[p].mounts] # NoSet
        BY <2>1, <2>2 DEF LoadedMounts, LoadedSecretsKept, Exists
      <3>. QED BY <1>6, <3>1, SecretDeleted DEF Exists
    <2>. QED BY <2>1, <2>2 DEF Unasked, PreWrite, N, T
  <1>7. CASE UpdateStatus
    <2>1. UNCHANGED <<rotate, tx, secrets, pods>> /\ pc = "status" /\ pc' = "annotations"
      BY <1>7 DEF UpdateStatus
    <2>. QED BY <1>1, <2>1 DEF Unasked, PreWrite
  <1>8. CASE UpdateAnnotations \/ NothingToDo
    <2>1. UNCHANGED <<secrets, pods>> /\ pc' = "idle"
      BY <1>8 DEF UpdateAnnotations, NothingToDo, cluster
    <2>2. rotate' = (rotate /\ ~tx.annotated) \/ rotate' = rotate
      BY <1>8 DEF UpdateAnnotations, NothingToDo, cluster
    <2>3. ~rotate'
      BY <2>2 DEF Unasked
    <2>. QED BY <1>1, <2>1, <2>3 DEF Unasked, PreWrite
  <1>9. ~Abort
    BY <1>0, CalmFaults DEF Abort
  <1>10. CASE \/ DeleteExpiredCredentials \/ ValidateCredentials \/ UnusedSecretsDeleted
             \/ DeleteUnusedCredentials \/ ProcessAzure \/ AddCurrentPassword
             \/ RotatePasswords \/ AddNextPassword \/ PatchKeys
    <2>1. /\ UNCHANGED <<rotate, status, secrets, pods>>
          /\ PreWrite
          /\ pc # "idle"
          /\ tx'.spec = tx.spec
          /\ tx'.annotated = tx.annotated
          /\ tx'.rotate = tx.rotate
      BY <1>10
      DEF DeleteExpiredCredentials, ValidateCredentials, UnusedSecretsDeleted,
          DeleteUnusedCredentials, ProcessAzure, AddCurrentPassword, RotatePasswords,
          AddNextPassword, PatchKeys, cluster, PreWrite, TypeOK, TxType
    <2>. QED BY <1>1, <2>1 DEF Unasked, N, T
  <1>11. 1 \in Name
    BY ConstantsAssumption DEF Name
  <1>. QED
    BY <1>2, <1>3, <1>4, <1>5, <1>6, <1>7, <1>8, <1>9, <1>10, <1>11
    DEF Next, Environment, Reconcile

(* While names and specs change and all calls succeed, no running process  *)
(* ever holds a revoked credential: it holds the current one of the Secret *)
(* that it mounts, which no pass takes away (Rotate, DeleteUnused).        *)
THEOREM RolloutWithoutDowntime == ASSUME Rollout PROVE Spec => []ZeroDowntime
  <1>1. Calm
    BY DEF Rollout, Calm
  <1>2. Init => Unasked
    BY DEF Init, Unasked, PreWrite
  <1>3. IInv /\ Rotated /\ Steady /\ Unasked /\ UNCHANGED vars => Unasked'
    BY DEF vars, cluster, Unasked, PreWrite, N, T
  <1>4. IInv /\ IInv' /\ Rotated /\ Steady /\ Unasked /\ [Next]_vars => Unasked'
    BY <1>3, UnaskedStep
  <1>5. ASSUME IInv, Steady, Unasked, NEW p \in Pod, pods[p].loaded # 0
        PROVE  NotRevoked(pods[p].loaded)
    <2> DEFINE s == pods[p].mounts
    <2>1. s \in Name /\ Exists(s) /\ Mounted(s)
      BY <1>5 DEF IInv, LoadedMounts, LoadedSecretsKept, Mounted
    <2>2. Readable(s)
      BY <1>5, <2>1 DEF Steady, Readable
    <2>3. NotRevoked(secrets[s].current)
      BY <1>5, <2>1, <2>2 DEF IInv, OfferedCredentialsKept
    <2>. QED BY <1>5, <2>3 DEF Unasked
  <1>6. IInv /\ Steady /\ Unasked => ZeroDowntime
    BY <1>5 DEF ZeroDowntime
  <1>. QED BY <1>1, <1>2, <1>4, <1>6, SteadyHolds, PTL DEF Spec
=============================================================================
