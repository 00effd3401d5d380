------------------------- MODULE CredentialsProofs -------------------------
(***************************************************************************)
(* What the runs of MCCredentials show on small instances, proved for any  *)
(* number of pods, secret names, disturbances and faults.                  *)
(*                                                                         *)
(* The invariants of Credentials are not inductive: whether a revocation   *)
(* is harmless depends on what the running transaction read when it was    *)
(* prepared, and on what earlier, interrupted passes left behind.  IInv    *)
(* adds both.                                                              *)
(***************************************************************************)
EXTENDS Credentials, TLAPS

N == status.secretName
T == tx.spec.secretName

Known(set) == NotRevoked(set.current) /\ NotRevoked(set.next)
Lapsed(set) == set.current <= horizon \/ set.next <= horizon

(* The pass has not written the Secret yet. *)
PreWrite == pc \in {"expired", "validate", "secrets", "cleanup", "decide",
                    "add", "rotate", "addNext", "keys", "secret"}

(* The set in the Secret of the status cannot be rotated any more.  This   *)
(* never ends before the next status update.                               *)
Stale ==
  \/ aged
  \/ N = 0
  \/ ~Exists(N)
  \/ secrets[N].prefix < spec.prefix
  \/ Lapsed(secrets[N])

(* Names and prefixes are taken into use in order, and no Secret is ahead  *)
(* of the pass that writes it.                                             *)
Ordered ==
  /\ spec.secretName \in Name
  /\ spec.prefix > 0
  /\ N <= spec.secretName
  /\ \A s \in Name : Exists(s) =>
       s <= spec.secretName /\ secrets[s].prefix <= spec.prefix
  /\ pc # "idle" =>
       /\ T \in Name
       /\ N <= T
       /\ T <= spec.secretName
       /\ tx.spec.prefix > 0
       /\ tx.spec.prefix <= spec.prefix
       /\ \A s \in Name : Exists(s) =>
            s <= T /\ secrets[s].prefix <= tx.spec.prefix

(* MountedCredentialsKept, also for the Secret that pods may mount next.   *)
OfferedCredentialsKept ==
  \A s \in Name :
    (Mounted(s) \/ s = spec.secretName) /\ Readable(s) =>
      NotRevoked(secrets[s].current)

(* A Secret written by a pass that did not reach its status update starts  *)
(* where the latest set ends.                                              *)
Successor ==
  LET s == spec.secretName
  IN s # N /\ Readable(s) /\ ~Stale => secrets[s].current = secrets[N].next

(* The transaction's view is still good enough. *)
LatestRead ==
  /\ pc # "idle" =>
       /\ tx.valid => tx.registered /\ tx.latest # NoSet
       /\ tx.latest # NoSet => Known(tx.latest)
  /\ PreWrite =>
       /\ tx.latest # NoSet => N # 0
       /\ tx.latest # NoSet /\ N # 0 /\ Exists(N) => secrets[N] = tx.latest
       /\ tx.valid /\ T = N => Exists(N)
       /\ T # N => tx.rotate

PodsRead ==
  /\ PreWrite => \A s \in Name :
       Mounted(s) /\ Readable(s) => s = T \/ secrets[s].current \in tx.used
  /\ pc # "idle" => \A s \in tx.unused : s <= T /\ (s = T \/ ~Mounted(s))

SuccessorRead ==
  PreWrite /\ tx.valid /\ T # N /\ Exists(T)
           /\ secrets[T].prefix = tx.spec.prefix =>
    \/ secrets[T].current = tx.latest.next
    \/ pc \in {"expired", "validate"} /\ Lapsed(tx.latest)

InvalidMeansStale ==
  (PreWrite \/ pc = "status") /\ ~tx.valid /\ T # N => Stale

(* How far the new set is registered. *)
Progress ==
  /\ pc \in {"expired", "validate", "secrets", "cleanup", "decide"} =>
       tx.set = tx.latest
  /\ pc = "cleanup" => tx.valid /\ ~tx.rotate
  /\ pc = "add" => ~tx.valid
  /\ pc = "rotate" => tx.valid /\ tx.rotate
  /\ pc \in {"addNext", "keys"} =>
       IF tx.valid THEN tx.rotate /\ tx.set.current = tx.latest.next
                   ELSE tx.set.current \in passwords
  /\ pc = "keys" => tx.set.next \in passwords
  /\ pc = "secret" =>
       /\ Known(tx.set)
       /\ tx.valid => tx.set.current = IF tx.rotate THEN tx.latest.next
                                                    ELSE tx.latest.current
  /\ pc = "status" => Exists(T) /\ Known(secrets[T])

Synchronizing == {"add", "rotate", "addNext", "keys", "secret", "status"}

RegisteredFirst == N # 0 \/ pc \in Synchronizing => registered

LoadedMounts == \A p \in Pod : pods[p].loaded # 0 => pods[p].mounts \in Name

IInv ==
  /\ TypeOK
  /\ Ordered
  /\ LoadedMounts
  /\ OfferedCredentialsKept
  /\ LoadedSecretsKept
  /\ LatestSetKept
  /\ StatusNamesSecret
  /\ Successor
  /\ LatestRead
  /\ PodsRead
  /\ SuccessorRead
  /\ InvalidMeansStale
  /\ Progress
  /\ RegisteredFirst

----------------------------------------------------------------------------
(* Types: credentials are numbered without gaps, so a larger issued widens *)
(* every type that depends on it.                                          *)
LEMMA TypeInit == Init => TypeOK
  <1>. SUFFICES ASSUME Init PROVE TypeOK
    OBVIOUS
  <1>. USE ConstantsAssumption DEF Init
  <1>1. NoSet \in CredSet /\ NoSpec \in SpecType
    BY DEF NoSet, NoSpec, CredSet, SpecType
  <1>2. tx \in TxType
    BY <1>1 DEF NoTx, TxType
  <1>3. secrets \in [Name -> CredSet] /\ pods \in [Pod -> PodType]
    BY <1>1 DEF PodType
  <1>4. spec \in SpecType
    BY DEF SpecType
  <1>5. passwords \subseteq 0..issued /\ keys \subseteq 0..issued
    OBVIOUS
  <1>6. registered \in BOOLEAN
    <2>1. (Foreign > 0) \in BOOLEAN
      BY SMT
    <2>2. registered = (Foreign > 0)
      BY Zenon
    <2>. QED BY <2>1, <2>2, Zenon
  <1>7. issued \in Nat /\ horizon \in 0..issued
        /\ edits \in 0..MaxEdits /\ faults \in 0..MaxFaults
    OBVIOUS
  <1>8. status.rev <= spec.rev /\ pc = "idle"
    BY DEF NoSpec
  <1>. QED BY <1>1, <1>2, <1>3, <1>4, <1>5, <1>6, <1>7, <1>8, Zenon DEF TypeOK

(* What the transaction reads has its type. *)
LEMMA ReadType ==
  ASSUME TypeOK
  PROVE  /\ LatestCredentials \in CredSet
         /\ UsedKeyIDs \subseteq 0..issued
         /\ UnusedSecrets \subseteq Name
         /\ NoTx \in TxType
  <1>1. NoSet \in CredSet
    BY DEF TypeOK, NoSet, CredSet
  <1>2. NoSpec \in SpecType
    BY ConstantsAssumption DEF NoSpec, SpecType
  <1>3. LatestCredentials \in CredSet
    BY <1>1 DEF LatestCredentials, TypeOK, SpecType, Name
  <1>4. UsedKeyIDs \subseteq 0..issued
    BY DEF UsedKeyIDs, UsedSecrets, TypeOK, CredSet
  <1>5. UnusedSecrets \subseteq Name
    BY DEF UnusedSecrets
  <1>6. NoTx \in TxType
    BY <1>1, <1>2 DEF NoTx, TxType
  <1>. QED BY <1>3, <1>4, <1>5, <1>6

(* A disturbance keeps the types. *)
LEMMA TypeEnvironment ==
  ASSUME TypeOK, Environment
  PROVE  TypeOK'
  <1>. USE ConstantsAssumption DEF TypeOK, Disturb, cluster, entra
  <1>1. CASE ChangeSecretName
    BY <1>1 DEF ChangeSecretName, SpecType, CredSet, TxType, PodType
  <1>2. CASE ChangeSpec
    BY <1>2 DEF ChangeSpec, SpecType, CredSet, TxType, PodType
  <1>3. CASE ChangePrefix
    BY <1>3 DEF ChangePrefix, SpecType, CredSet, TxType, PodType
  <1>4. CASE AnnotateRotate
    BY <1>4 DEF AnnotateRotate, SpecType, CredSet, TxType, PodType
  <1>5. CASE Age
    BY <1>5 DEF Age, SpecType, CredSet, TxType, PodType
  <1>6. CASE Lapse
    BY <1>6 DEF Lapse, SpecType, CredSet, TxType, PodType
  <1>7. ASSUME NEW p \in Pod, NEW s \in Name, StartPod(p, s)
        PROVE  TypeOK'
    <2>1. pods' \in [Pod -> PodType]
      BY <1>7 DEF StartPod, PodType, Name
    <2>. QED BY <1>7, <2>1 DEF StartPod, PodsOnly, CredSet, TxType, PodType
  <1>8. ASSUME NEW p \in Pod, LoadCredentials(p)
        PROVE  TypeOK'
    <2>1. pods' \in [Pod -> PodType]
      BY <1>8 DEF LoadCredentials, PodType, Name, CredSet
    <2>. QED BY <1>8, <2>1 DEF LoadCredentials, PodsOnly, CredSet, TxType, PodType
  <1>9. ASSUME NEW p \in Pod, StopPod(p)
        PROVE  TypeOK'
    <2>1. pods' \in [Pod -> PodType]
      BY <1>9 DEF StopPod, PodType, Name
    <2>. QED BY <1>9, <2>1 DEF StopPod, PodsOnly, CredSet, TxType, PodType
  <1>. QED
    BY <1>1, <1>2, <1>3, <1>4, <1>5, <1>6, <1>7, <1>8, <1>9 DEF Environment

(* A revocation spares some of what is registered, and an ignored error    *)
(* leaves more of it.                                                      *)
LEMMA SparedPart == ASSUME NEW half PROVE Spared(half) \subseteq half
  BY DEF Spared

LEMMA PasswordsRemoved ==
  ASSUME TypeOK, NEW keep \in SUBSET passwords, RemovePasswordsBut(keep)
  PROVE  /\ keep \subseteq passwords' /\ passwords' \subseteq passwords
         /\ faults' \in 0..MaxFaults
  BY ConstantsAssumption DEF TypeOK, RemovePasswordsBut

(* A step of Reconcile, or its end, keeps the types. *)
LEMMA TypeReconcile ==
  ASSUME TypeOK, Reconcile \/ Abort
  PROVE  TypeOK'
  <1>. USE ConstantsAssumption DEF TypeOK, cluster, entra
  <1>1. CASE Prepare
    <2>1. tx' \in TxType /\ tx'.spec = spec
      BY <1>1, ReadType DEF Prepare, TxType, HashChanged,
         NeedsSynchronization, NeedsSecretRotation, SecretNameChanged,
         HasValidSecrets
    <2>2. status.rev <= spec.rev /\ spec.rev <= spec.rev
      BY DEF SpecType
    <2>3. pc' = "expired" /\ UNCHANGED <<cluster, entra, horizon, pods, edits, faults>>
      BY <1>1 DEF Prepare
    <2>4. status'.rev <= tx'.spec.rev /\ tx'.spec.rev <= spec'.rev
      BY <2>1, <2>2, <2>3
    <2>. QED BY <2>1, <2>2, <2>3, <2>4 DEF CredSet, TxType, PodType
  <1>2. CASE DeleteExpiredCredentials
    <2>1. keys' \subseteq 0..issued
      BY <1>2 DEF DeleteExpiredCredentials, Live
    <2>2. passwords' \subseteq 0..issued /\ faults' \in 0..MaxFaults
      BY <1>2, PasswordsRemoved DEF DeleteExpiredCredentials, Live
    <2>. QED BY <1>2, <2>1, <2>2 DEF DeleteExpiredCredentials, CredSet, TxType,
                PodType
  <1>3. CASE ValidateCredentials
    BY <1>3 DEF ValidateCredentials, CredSet, TxType, PodType, Registered,
       PasswordsValid, KeysValid
  <1>4. CASE DeleteUnusedSecret
    <2>1. PICK s \in tx.unused \ {tx.spec.secretName} :
            /\ secrets' = [secrets EXCEPT ![s] = NoSet]
            /\ tx' = [tx EXCEPT !.unused = @ \ {s}]
      BY <1>4 DEF DeleteUnusedSecret
    <2>2. tx' \in TxType
      BY <2>1 DEF TxType
    <2>3. NoSet \in CredSet
      BY DEF NoSet, CredSet
    <2>4. secrets' \in [Name -> CredSet]
      BY <2>1, <2>3
    <2>. QED BY <1>4, <2>2, <2>4 DEF DeleteUnusedSecret, CredSet, TxType,
                PodType
  <1>5. CASE UnusedSecretsDeleted
    BY <1>5 DEF UnusedSecretsDeleted, CredSet, TxType, PodType
  <1>6. CASE DeleteUnusedCredentials
    <2>1. keys' \subseteq 0..issued
      BY <1>6, SparedPart DEF DeleteUnusedCredentials, KeysInUse
    <2>2. passwords' \subseteq 0..issued /\ faults' \in 0..MaxFaults
      BY <1>6, PasswordsRemoved, SparedPart DEF DeleteUnusedCredentials,
         PasswordsInUse
    <2>. QED BY <1>6, <2>1, <2>2 DEF DeleteUnusedCredentials, CredSet, TxType,
                PodType
  <1>7. CASE NothingToDo
    BY <1>7, ReadType DEF NothingToDo, CredSet, TxType, PodType
  <1>8. CASE ProcessAzure
    BY <1>8 DEF ProcessAzure, CredSet, TxType, PodType
  <1>9. CASE AddCurrentPassword
    BY <1>9 DEF AddCurrentPassword, CredSet, TxType, PodType
  <1>10. CASE RotatePasswords
    BY <1>10 DEF RotatePasswords, RemovePasswordsBut, PasswordsInUse, Spared,
       CredSet, TxType, PodType
  <1>11. CASE AddNextPassword
    BY <1>11 DEF AddNextPassword, CredSet, TxType, PodType
  <1>12. CASE PatchKeys
    BY <1>12 DEF PatchKeys, AddedKeys, RotatedKeys, KeysInUse, Spared,
       CredSet, TxType, PodType
  <1>13. CASE CreateOrUpdateSecret
    BY <1>13 DEF CreateOrUpdateSecret, CredSet, TxType, PodType, SpecType
  <1>14. CASE UpdateStatus
    <2>1. status' = tx.spec /\ tx.spec \in SpecType /\ pc # "idle"
      BY <1>14 DEF UpdateStatus, TxType
    <2>2. tx.spec.rev <= tx.spec.rev /\ tx.spec.rev <= spec.rev
      BY <2>1 DEF SpecType
    <2>3. aged' \in BOOLEAN
      BY <1>14 DEF UpdateStatus
    <2>. QED BY <1>14, <2>1, <2>2, <2>3 DEF UpdateStatus, CredSet, PodType, TxType
  <1>15. CASE UpdateAnnotations
    BY <1>15, ReadType DEF UpdateAnnotations, CredSet, TxType, PodType
  <1>16. CASE Abort
    BY <1>16, ReadType DEF Abort, CredSet, TxType, PodType
  <1>. QED
    BY <1>1, <1>2, <1>3, <1>4, <1>5, <1>6, <1>7, <1>8, <1>9, <1>10, <1>11,
       <1>12, <1>13, <1>14, <1>15, <1>16 DEF Reconcile

(* Every reachable state is well typed; in particular no Secret, pod or    *)
(* transaction names a credential that was never created.                  *)
THEOREM TypeCorrect == Spec => []TypeOK
  <1>1. TypeOK /\ UNCHANGED vars => TypeOK'
    BY DEF TypeOK, vars, cluster, entra, CredSet, TxType, PodType
  <1>2. TypeOK /\ [Next]_vars => TypeOK'
    BY <1>1, TypeEnvironment, TypeReconcile DEF Next
  <1>. QED BY TypeInit, <1>2, PTL DEF Spec

----------------------------------------------------------------------------
(* What the steps have in common. *)

(* A disturbance: names and prefixes move up, time goes on, and neither    *)
(* the cluster's Secrets nor Entra ID nor the pass is touched.             *)
Disturbed ==
  /\ UNCHANGED <<status, secrets, registered, passwords, keys, issued, pods,
                 pc, tx>>
  /\ spec'.secretName \in Name
  /\ spec'.secretName >= spec.secretName
  /\ spec'.prefix \in Nat
  /\ spec'.prefix >= spec.prefix
  /\ aged => aged'
  /\ horizon' \in Nat
  /\ horizon' >= horizon

(* Pods come, load what is there, and go. *)
PodsMoved ==
  /\ UNCHANGED <<spec, rotate, status, aged, secrets, registered, passwords,
                 keys, issued, horizon, pc, tx, edits, faults>>
  /\ \A s \in Name : Mounted(s)' => Mounted(s) \/ s = spec.secretName
  /\ \A p \in Pod :
       \/ pods'[p] = pods[p]
       \/ pods'[p].loaded = 0
       \/ pods'[p].mounts \in Name /\ Exists(pods'[p].mounts)

(* A step of a pass that is under way; what it read stays what it was.     *)
Passed ==
  /\ pc # "idle"
  /\ UNCHANGED <<spec, horizon, pods>>
  /\ UNCHANGED secrets \/ DeleteUnusedSecret \/ CreateOrUpdateSecret
  /\ UNCHANGED <<status, aged>> \/ UpdateStatus
  /\ pc' # "idle" =>
       /\ tx'.spec = tx.spec
       /\ tx'.registered = tx.registered
       /\ tx'.latest = tx.latest
       /\ tx'.used = tx.used
       /\ tx'.unused \subseteq tx.unused
       /\ tx'.rotate = tx.rotate
       /\ tx'.valid = tx.valid \/ ValidateCredentials
  /\ PreWrite' \/ pc' = "status" => PreWrite
  /\ pc = "expired" /\ pc' # "idle" => pc' = "validate"
  /\ UNCHANGED registered \/ ProcessAzure
  /\ pc' \in Synchronizing => pc \in Synchronizing \/ ProcessAzure
  /\ pc = "validate" /\ pc' # "idle" => ValidateCredentials

LEMMA DisturbanceStep ==
  ASSUME TypeOK, Ordered,
         \/ ChangeSecretName \/ ChangeSpec \/ ChangePrefix
         \/ AnnotateRotate \/ Age \/ Lapse
  PROVE  Disturbed
  <1>. USE ConstantsAssumption DEF Disturb, entra, Disturbed, Name, SpecType
  <1>0. /\ spec \in SpecType
        /\ horizon \in Nat
        /\ issued \in Nat
        /\ spec.secretName \in Name
    BY DEF TypeOK, Ordered
  <1>1. CASE ChangeSecretName
    BY <1>0, <1>1 DEF ChangeSecretName
  <1>2. CASE ChangeSpec
    BY <1>0, <1>2 DEF ChangeSpec
  <1>3. CASE ChangePrefix
    BY <1>0, <1>3 DEF ChangePrefix
  <1>4. CASE AnnotateRotate
    BY <1>0, <1>4 DEF AnnotateRotate
  <1>5. CASE Age
    BY <1>0, <1>5 DEF Age
  <1>6. CASE Lapse
    BY <1>0, <1>6 DEF Lapse
  <1>. QED BY <1>1, <1>2, <1>3, <1>4, <1>5, <1>6

LEMMA PodStep ==
  ASSUME TypeOK, NEW p \in Pod, NEW s \in Name,
         StartPod(p, s) \/ LoadCredentials(p) \/ StopPod(p)
  PROVE  PodsMoved
  <1>. USE ConstantsAssumption DEF TypeOK, PodType, Name
  <1>1. CASE StartPod(p, s)
    BY <1>1 DEF StartPod, PodsOnly, cluster, entra, Mounted, PodsMoved
  <1>2. CASE LoadCredentials(p)
    <2>1. pods' = [pods EXCEPT ![p].loaded = secrets[pods[p].mounts].current]
      BY <1>2 DEF LoadCredentials
    <2>2. \A q \in Pod : pods'[q].mounts = pods[q].mounts
      BY <2>1
    <2>3. pods'[p].mounts \in Name /\ Exists(pods'[p].mounts)
      BY <1>2, <2>2 DEF LoadCredentials, Exists
    <2>4. \A q \in Pod \ {p} : pods'[q] = pods[q]
      BY <2>1
    <2>. QED BY <1>2, <2>2, <2>3, <2>4 DEF LoadCredentials, PodsOnly, cluster,
                entra, Mounted, PodsMoved
  <1>3. CASE StopPod(p)
    BY <1>3 DEF StopPod, PodsOnly, cluster, entra, Mounted, PodsMoved
  <1>. QED BY <1>1, <1>2, <1>3

LEMMA PassStep ==
  ASSUME TypeOK, Reconcile \/ Abort, ~Prepare
  PROVE  Passed
  <1>. USE DEF Passed, PreWrite, Synchronizing, cluster, entra, TypeOK, TxType
  <1>1. CASE DeleteExpiredCredentials
    BY <1>1 DEF DeleteExpiredCredentials
  <1>2. CASE ValidateCredentials
    BY <1>2 DEF ValidateCredentials
  <1>3. CASE DeleteUnusedSecret
    BY <1>3 DEF DeleteUnusedSecret
  <1>4. CASE UnusedSecretsDeleted
    BY <1>4 DEF UnusedSecretsDeleted
  <1>5. CASE DeleteUnusedCredentials
    BY <1>5 DEF DeleteUnusedCredentials
  <1>6. CASE NothingToDo
    BY <1>6 DEF NothingToDo
  <1>7. CASE ProcessAzure
    BY <1>7 DEF ProcessAzure
  <1>8. CASE AddCurrentPassword
    BY <1>8 DEF AddCurrentPassword
  <1>9. CASE RotatePasswords
    BY <1>9 DEF RotatePasswords
  <1>10. CASE AddNextPassword
    BY <1>10 DEF AddNextPassword
  <1>11. CASE PatchKeys
    BY <1>11 DEF PatchKeys
  <1>12. CASE CreateOrUpdateSecret
    BY <1>12 DEF CreateOrUpdateSecret
  <1>13. CASE UpdateStatus
    BY <1>13 DEF UpdateStatus
  <1>14. CASE UpdateAnnotations
    BY <1>14 DEF UpdateAnnotations
  <1>15. CASE Abort
    BY <1>15 DEF Abort
  <1>. QED
    BY <1>1, <1>2, <1>3, <1>4, <1>5, <1>6, <1>7, <1>8, <1>9, <1>10, <1>11,
       <1>12, <1>13, <1>14, <1>15 DEF Reconcile

LEMMA EnvironmentStep ==
  ASSUME TypeOK, Ordered, Environment
  PROVE  Disturbed \/ PodsMoved
  <1>1. CASE \/ ChangeSecretName \/ ChangeSpec \/ ChangePrefix
            \/ AnnotateRotate \/ Age \/ Lapse
    BY <1>1, DisturbanceStep
  <1>2. ASSUME NEW p \in Pod, NEW s \in Name,
               StartPod(p, s) \/ LoadCredentials(p) \/ StopPod(p)
        PROVE  PodsMoved
    BY <1>2, PodStep
  <1>3. 1 \in Name
    BY ConstantsAssumption DEF Name
  <1>. QED BY <1>1, <1>2, <1>3 DEF Environment

LEMMA Steps ==
  ASSUME TypeOK, Ordered, Next
  PROVE  Disturbed \/ PodsMoved \/ Prepare \/ Passed
  BY EnvironmentStep, PassStep DEF Next

(* A revocation is announced by pc, and spares what the transaction names. *)
Revoking ==
  \/ pc \in {"cleanup", "rotate"}
  \/ pc = "keys" /\ tx.valid
Protected == tx.used \cup {tx.latest.current, tx.latest.next}

LEMMA SparedProtected ==
  ASSUME NEW half, NEW c \in half, c \in Protected
  PROVE  c \in Spared(half)
  BY DEF Spared, Protected

(* No step revokes a credential, except a revocation one of the others.    *)
LEMMA NotRevokedKept ==
  ASSUME TypeOK, Next, NEW c \in Nat, NotRevoked(c),
         Revoking => c \in Protected
  PROVE  NotRevoked(c)'
  <1>. USE DEF TypeOK, NotRevoked
  <1>1. CASE UNCHANGED <<passwords, keys, horizon>>
    BY <1>1
  <1>2. CASE Lapse
    BY <1>2 DEF Lapse, Disturb, entra
  <1>3. CASE DeleteExpiredCredentials
    BY <1>3, PasswordsRemoved DEF DeleteExpiredCredentials, Live
  <1>4. CASE DeleteUnusedCredentials
    <2>1. PasswordsInUse \subseteq passwords' /\ keys' = KeysInUse
          /\ horizon' = horizon /\ pc = "cleanup"
      BY <1>4, SparedPart, PasswordsRemoved
      DEF DeleteUnusedCredentials, PasswordsInUse
    <2>2. c \in Protected
      BY <2>1 DEF Revoking
    <2>3. c \in passwords \cap keys => c \in PasswordsInUse /\ c \in KeysInUse
      BY <2>2, SparedProtected DEF KeysInUse, PasswordsInUse
    <2>. QED BY <2>1, <2>3
  <1>5. CASE AddCurrentPassword
    BY <1>5 DEF AddCurrentPassword
  <1>6. CASE RotatePasswords
    <2>1. PasswordsInUse \subseteq passwords' /\ keys' = keys
          /\ horizon' = horizon /\ pc = "rotate"
      BY <1>6, SparedPart, PasswordsRemoved
      DEF RotatePasswords, PasswordsInUse
    <2>2. c \in Protected
      BY <2>1 DEF Revoking
    <2>3. c \in passwords => c \in PasswordsInUse
      BY <2>2, SparedProtected DEF PasswordsInUse
    <2>. QED BY <2>1, <2>3
  <1>7. CASE AddNextPassword
    BY <1>7 DEF AddNextPassword
  <1>8. CASE PatchKeys
    BY <1>8, SparedProtected
       DEF PatchKeys, AddedKeys, RotatedKeys, KeysInUse, Revoking
  <1>. QED
    BY <1>1, <1>2, <1>3, <1>4, <1>5, <1>6, <1>7, <1>8
    DEF Next, Environment, Reconcile, ChangeSecretName, ChangeSpec,
        ChangePrefix, AnnotateRotate, Age, Disturb, StartPod, LoadCredentials,
        StopPod, PodsOnly, Prepare, ValidateCredentials, DeleteUnusedSecret,
        UnusedSecretsDeleted, NothingToDo, ProcessAzure, CreateOrUpdateSecret,
        UpdateStatus, UpdateAnnotations, Abort, entra

(* The numbers that the leaves compare.                                    *)
LEMMA Numbers ==
  ASSUME TypeOK
  PROVE  /\ N \in Nat /\ T \in Nat /\ horizon \in Nat /\ Name \subseteq Nat
         /\ spec.secretName \in Nat /\ spec.prefix \in Nat
         /\ tx.spec.prefix \in Nat
         /\ \A s \in Name : secrets[s] \in [prefix: Nat, current: Nat, next: Nat]
         /\ tx.latest \in [prefix: Nat, current: Nat, next: Nat]
         /\ tx.set \in [prefix: Nat, current: Nat, next: Nat]
  <1>1. 0..issued \subseteq Nat /\ 0..MaxNames \subseteq Nat
        /\ Name \subseteq Nat
    BY ConstantsAssumption DEF Name
  <1>2. CredSet \subseteq [prefix: Nat, current: Nat, next: Nat]
    BY <1>1 DEF CredSet
  <1>. QED BY <1>1, <1>2 DEF TypeOK, TxType, SpecType, N, T

(* Writing a Secret makes it exist.                                        *)
LEMMA SecretWritten ==
  ASSUME TypeOK, Ordered, CreateOrUpdateSecret
  PROVE  /\ T \in Name
         /\ secrets'[T] # NoSet
         /\ secrets'[T].prefix = tx.spec.prefix
         /\ secrets'[T].current = tx.set.current
         /\ secrets'[T].next = tx.set.next
         /\ \A s \in Name \ {T} : secrets'[s] = secrets[s]
  <1>1. /\ T \in Name
        /\ tx.spec.prefix > 0
        /\ secrets' = [secrets EXCEPT ![T] =
                               [tx.set EXCEPT !.prefix = tx.spec.prefix]]
    BY DEF CreateOrUpdateSecret, Ordered, T
  <1>2. /\ secrets'[T].prefix = tx.spec.prefix
        /\ secrets'[T].current = tx.set.current
        /\ secrets'[T].next = tx.set.next
    BY <1>1 DEF TypeOK, TxType, CredSet
  <1>3. secrets'[T] # NoSet
    BY <1>1, <1>2 DEF NoSet
  <1>4. \A s \in Name \ {T} : secrets'[s] = secrets[s]
    BY <1>1 DEF TypeOK
  <1>. QED BY <1>1, <1>2, <1>3, <1>4

(* Deleting one leaves the others, and the one that the pass may write.    *)
LEMMA SecretDeleted ==
  ASSUME TypeOK, Ordered, DeleteUnusedSecret
  PROVE  /\ secrets'[T] = secrets[T]
         /\ \A s \in Name : secrets'[s] = secrets[s] \/ ~Exists(s)'
         /\ pc' = pc
  <1>1. PICK s \in tx.unused \ {tx.spec.secretName} :
          secrets' = [secrets EXCEPT ![s] = NoSet]
    BY DEF DeleteUnusedSecret
  <1>2. s \in Name /\ T \in Name /\ s # T
    BY <1>1 DEF TypeOK, TxType, T, Ordered, DeleteUnusedSecret
  <1>3. \A u \in Name : secrets'[u] = IF u = s THEN NoSet ELSE secrets[u]
    BY <1>1 DEF TypeOK
  <1>. QED BY <1>2, <1>3 DEF Exists, DeleteUnusedSecret

----------------------------------------------------------------------------
(* One lemma for each part of IInv that can be disturbed.  Each goes       *)
(* through the kinds of step: a disturbance, a pod, Prepare, a pass.       *)

(* Names and prefixes stay ordered. *)
LEMMA OrderedStep ==
  ASSUME TypeOK, Ordered, Next
  PROVE  Ordered'
  <1>. USE Numbers DEF Ordered, T, N
  <1>1. CASE Disturbed
    BY <1>1 DEF Disturbed, Exists
  <1>2. CASE PodsMoved
    BY <1>2 DEF PodsMoved, Exists
  <1>3. CASE Prepare
    <2>1. tx'.spec = spec /\ UNCHANGED <<secrets, status, spec>>
      BY <1>3 DEF Prepare, cluster
    <2>. QED BY <2>1 DEF Exists
  <1>4. CASE Passed
    <2>. USE DEF Passed
    <2>1. CASE UNCHANGED <<secrets, status>>
      BY <1>4, <2>1 DEF Exists
    <2>2. CASE DeleteUnusedSecret
      <3>1. status' = status /\ spec' = spec /\ pc' # "idle"
            /\ tx'.spec = tx.spec
        BY <1>4, <2>2, SecretDeleted DEF DeleteUnusedSecret
      <3>. QED BY <1>4, <2>2, <3>1, SecretDeleted DEF Exists
    <2>3. CASE CreateOrUpdateSecret
      <3>1. status' = status /\ spec' = spec /\ tx' = tx
        BY <1>4, <2>3 DEF CreateOrUpdateSecret
      <3>. QED BY <1>4, <2>3, <3>1, SecretWritten DEF Exists
    <2>4. CASE UpdateStatus
      BY <1>4, <2>4 DEF UpdateStatus, Exists
    <2>. QED
      BY <1>4, <2>1, <2>2, <2>3, <2>4 DEF DeleteUnusedSecret,
         CreateOrUpdateSecret
  <1>. QED BY <1>1, <1>2, <1>3, <1>4, Steps

(* What a loaded pod mounts has a name, and its Secret stays: DeleteUnused *)
(* deletes what no pod mounted when it was listed, and such a Secret is    *)
(* offered to no new pod, unless it is the one the spec names.             *)
LEMMA LoadedStep ==
  ASSUME TypeOK, Ordered, LoadedMounts, LoadedSecretsKept, PodsRead, Next
  PROVE  LoadedMounts' /\ LoadedSecretsKept'
  <1>. USE DEF LoadedMounts, LoadedSecretsKept, Exists
  <1>1. CASE Disturbed
    BY <1>1 DEF Disturbed
  <1>2. CASE PodsMoved
    BY <1>2 DEF PodsMoved
  <1>3. CASE Prepare
    BY <1>3 DEF Prepare, cluster
  <1>4. CASE Passed
    <2>1. pods' = pods
      BY <1>4 DEF Passed
    <2>2. CASE secrets' = secrets
      BY <2>1, <2>2
    <2>3. CASE DeleteUnusedSecret
      <3>1. PICK s \in tx.unused \ {tx.spec.secretName} :
              secrets' = [secrets EXCEPT ![s] = NoSet]
        BY <2>3 DEF DeleteUnusedSecret
      <3>2. s \in Name /\ ~Mounted(s)
        BY <3>1, <1>4 DEF PodsRead, Passed, TypeOK, TxType, T
      <3>3. \A p \in Pod : pods[p].loaded # 0 => pods[p].mounts # s
        BY <3>2 DEF Mounted
      <3>4. \A u \in Name \ {s} : secrets'[u] = secrets[u]
        BY <3>1 DEF TypeOK
      <3>. QED BY <2>1, <3>3, <3>4
    <2>4. CASE CreateOrUpdateSecret
      BY <2>1, <2>4, SecretWritten
    <2>. QED BY <1>4, <2>2, <2>3, <2>4 DEF Passed
  <1>. QED BY <1>1, <1>2, <1>3, <1>4, Steps

(* What a revocation spares covers every Secret that a pod mounts or may   *)
(* mount next: the listing of pods names its credential, or it is the      *)
(* Secret of the pass, whose credential is in the latest set.              *)
LEMMA MountedProtected ==
  ASSUME TypeOK, Ordered, LatestRead, PodsRead, SuccessorRead, Progress,
         Revoking, NEW s \in Name, Mounted(s) \/ s = spec.secretName,
         Readable(s)
  PROVE  secrets[s].current \in Protected
  <1>. USE Numbers DEF T, N
  <1>1. PreWrite /\ tx.valid /\ pc # "idle"
        /\ pc \notin {"expired", "validate"}
    BY DEF Revoking, PreWrite, Progress
  <1>2. Exists(s) /\ secrets[s].prefix = spec.prefix
    BY DEF Readable
  <1>3. s <= T /\ secrets[s].prefix = tx.spec.prefix
    BY <1>1, <1>2 DEF Ordered
  <1>4. s = T \/ secrets[s].current \in tx.used
    <2>1. CASE Mounted(s)
      BY <1>1, <2>1 DEF PodsRead
    <2>2. CASE s = spec.secretName
      BY <1>1, <1>3, <2>2 DEF Ordered
    <2>. QED BY <2>1, <2>2
  <1>5. CASE s = T /\ T = N
    BY <1>1, <1>2, <1>5 DEF LatestRead, Protected, Name
  <1>6. CASE s = T /\ T # N
    BY <1>1, <1>2, <1>3, <1>6 DEF SuccessorRead, Protected
  <1>. QED BY <1>4, <1>5, <1>6 DEF Protected

LEMMA LatestProtected ==
  ASSUME LatestRead, Progress, Revoking, N # 0, Exists(N)
  PROVE  secrets[N] = tx.latest
  BY DEF LatestRead, Progress, Revoking, PreWrite

(* What new pods are offered is never revoked. *)
LEMMA OfferedStep ==
  ASSUME TypeOK, Ordered, OfferedCredentialsKept, LatestRead, PodsRead,
         SuccessorRead, Progress, Next
  PROVE  OfferedCredentialsKept'
  <1>. SUFFICES ASSUME NEW s \in Name, (Mounted(s) \/ s = spec.secretName)',
                       Readable(s)'
                PROVE  NotRevoked(secrets[s].current)'
    BY DEF OfferedCredentialsKept
  <1>. USE Numbers
  <1>1. ASSUME secrets'[s] = secrets[s], Mounted(s) \/ s = spec.secretName,
               Readable(s)
        PROVE  NotRevoked(secrets[s].current)'
    <2>1. NotRevoked(secrets[s].current)
      BY <1>1 DEF OfferedCredentialsKept
    <2>2. Revoking => secrets[s].current \in Protected
      BY <1>1, MountedProtected
    <2>3. secrets'[s].current = secrets[s].current
      BY <1>1
    <2>4. \A c \in Nat : NotRevoked(c) /\ (Revoking => c \in Protected) =>
            NotRevoked(c)'
      BY NotRevokedKept
    <2>. QED BY <2>1, <2>2, <2>3, <2>4 DEF NotRevoked
  <1>2. CASE Disturbed
    BY <1>1, <1>2 DEF Disturbed, Ordered, Readable, Exists, Mounted
  <1>3. CASE PodsMoved
    BY <1>1, <1>3 DEF PodsMoved, Readable, Exists
  <1>4. CASE Prepare
    BY <1>1, <1>4 DEF Prepare, cluster, Readable, Exists, Mounted
  <1>5. CASE Passed
    <2>1. spec' = spec /\ (Mounted(s)' <=> Mounted(s))
      BY <1>5 DEF Passed, Mounted
    <2>2. CASE secrets' = secrets
      BY <1>1, <2>1, <2>2 DEF Readable, Exists
    <2>3. CASE DeleteUnusedSecret
      BY <1>1, <2>1, <2>3, SecretDeleted DEF Readable, Exists
    <2>4. CASE CreateOrUpdateSecret /\ s # T
      BY <1>1, <2>1, <2>4, SecretWritten DEF Readable, Exists
    <2>5. CASE CreateOrUpdateSecret /\ s = T
      BY <2>5, SecretWritten DEF CreateOrUpdateSecret, Progress, Known,
         NotRevoked, entra
    <2>. QED BY <1>5, <2>2, <2>3, <2>4, <2>5 DEF Passed
  <1>. QED BY <1>2, <1>3, <1>4, <1>5, Steps

(* The set in the Secret of the status is never revoked. *)
LEMMA LatestStep ==
  ASSUME TypeOK, Ordered, LatestSetKept, LatestRead, Progress, Next
  PROVE  LatestSetKept'
  <1>. SUFFICES ASSUME N' # 0, secrets'[N'] # NoSet
                PROVE  Known(secrets[N])'
    BY DEF LatestSetKept, Known, Exists, N
  <1>. USE Numbers
  <1>1. ASSUME N' = N, secrets'[N] = secrets[N], N # 0, Exists(N)
        PROVE  Known(secrets[N])'
    <2>1. N \in Name
      BY <1>1, ConstantsAssumption DEF TypeOK, SpecType, N, Name
    <2>2. Known(secrets[N])
      BY <1>1 DEF LatestSetKept, Known, N
    <2>3. Revoking => {secrets[N].current, secrets[N].next} \subseteq Protected
      BY <1>1, LatestProtected DEF Protected
    <2>4. \A c \in Nat : NotRevoked(c) /\ (Revoking => c \in Protected) =>
            NotRevoked(c)'
      BY NotRevokedKept
    <2>. QED BY <1>1, <2>1, <2>2, <2>3, <2>4 DEF Known, NotRevoked
  <1>2. CASE Disturbed
    BY <1>1, <1>2 DEF Disturbed, Exists, N
  <1>3. CASE PodsMoved
    BY <1>1, <1>3 DEF PodsMoved, Exists, N
  <1>4. CASE Prepare
    BY <1>1, <1>4 DEF Prepare, cluster, Exists, N
  <1>5. CASE Passed
    <2>1. CASE UNCHANGED <<secrets, status>>
      BY <1>1, <2>1 DEF Exists, N
    <2>2. CASE DeleteUnusedSecret
      <3>1. N' = N /\ N \in Name
        BY <2>2, ConstantsAssumption DEF DeleteUnusedSecret, TypeOK, SpecType,
           N, Name
      <3>. QED BY <1>1, <2>2, <3>1, SecretDeleted DEF Exists
    <2>3. CASE CreateOrUpdateSecret
      <3>1. N' = N /\ N \in Name /\ UNCHANGED <<passwords, keys, horizon>>
            /\ pc = "secret"
        BY <2>3, ConstantsAssumption DEF CreateOrUpdateSecret, TypeOK,
           SpecType, N, Name, entra
      <3>2. CASE N = T
        BY <2>3, <3>1, <3>2, SecretWritten DEF Progress, Known, NotRevoked
      <3>3. CASE N # T
        BY <1>1, <2>3, <3>1, <3>3, SecretWritten DEF Exists
      <3>. QED BY <3>2, <3>3
    <2>4. CASE UpdateStatus
      BY <2>4 DEF UpdateStatus, Progress, Known, NotRevoked, N, T, entra
    <2>. QED BY <1>5, <2>1, <2>2, <2>3, <2>4 DEF Passed, DeleteUnusedSecret,
                CreateOrUpdateSecret
  <1>. QED BY <1>2, <1>3, <1>4, <1>5, Steps

(* A synchronized status names a Secret that exists. *)
LEMMA StatusNamesStep ==
  ASSUME TypeOK, Ordered, StatusNamesSecret, Progress, Next
  PROVE  StatusNamesSecret'
  <1>. USE Numbers DEF StatusNamesSecret, N, T
  <1>1. CASE Disturbed
    BY <1>1 DEF Disturbed, Ordered, Exists
  <1>2. CASE PodsMoved
    BY <1>2 DEF PodsMoved, Exists
  <1>3. CASE Prepare
    BY <1>3 DEF Prepare, cluster, Exists
  <1>4. CASE Passed
    <2>1. CASE UNCHANGED <<secrets, status>>
      BY <1>4, <2>1 DEF Passed, Exists
    <2>2. CASE DeleteUnusedSecret
      <3>1. status' = status /\ spec' = spec
        BY <2>2 DEF DeleteUnusedSecret
      <3>2. N = spec.secretName => T = N
        BY <1>4 DEF Passed, Ordered
      <3>. QED BY <2>2, <3>1, <3>2, SecretDeleted DEF Exists
    <2>3. CASE CreateOrUpdateSecret
      <3>1. status' = status /\ spec' = spec /\ spec.secretName \in Name
        BY <2>3 DEF CreateOrUpdateSecret, Ordered
      <3>. QED BY <2>3, <3>1, SecretWritten DEF Exists
    <2>4. CASE UpdateStatus
      BY <1>4, <2>4 DEF UpdateStatus, Passed, Progress, Exists
    <2>. QED BY <1>4, <2>1, <2>2, <2>3, <2>4 DEF Passed, DeleteUnusedSecret,
                CreateOrUpdateSecret
  <1>. QED BY <1>1, <1>2, <1>3, <1>4, Steps

(* What a stale set lacks it does not get back before the next status      *)
(* update, except by a Secret write of a pass for the same name.           *)
LEMMA StaleStays ==
  ASSUME TypeOK, Ordered, Stale, ~UpdateStatus,
         CreateOrUpdateSecret => T # N, Next
  PROVE  Stale'
  <1>. USE Numbers DEF Stale, Lapsed, Exists
  <1>1. CASE Disturbed
    <2>1. N' = N /\ (N = 0 \/ N \in Name)
      BY <1>1, ConstantsAssumption DEF Disturbed, N, TypeOK, SpecType, Name
    <2>2. CASE aged
      BY <1>1, <2>2, Zenon DEF Disturbed
    <2>3. CASE N = 0 \/ secrets[N] = NoSet
      BY <1>1, <2>1, <2>3 DEF Disturbed
    <2>4. CASE N \in Name /\ secrets[N].prefix < spec.prefix
      BY <1>1, <2>1, <2>4 DEF Disturbed
    <2>5. CASE N \in Name /\ Lapsed(secrets[N])
      BY <1>1, <2>1, <2>5 DEF Disturbed
    <2>. QED BY <2>1, <2>2, <2>3, <2>4, <2>5
  <1>2. CASE PodsMoved
    BY <1>2 DEF PodsMoved, N
  <1>3. CASE Prepare
    BY <1>3 DEF Prepare, cluster, N
  <1>4. CASE Passed
    <2>1. N' = N /\ aged' = aged /\ spec' = spec /\ horizon' = horizon
      BY <1>4 DEF Passed, N
    <2>2. N = 0 \/ N \in Name
      BY ConstantsAssumption DEF TypeOK, SpecType, N, Name
    <2>3. CASE secrets' = secrets
      BY <2>1, <2>3
    <2>4. CASE DeleteUnusedSecret
      BY <2>1, <2>2, <2>4, SecretDeleted
    <2>5. CASE CreateOrUpdateSecret
      BY <2>1, <2>2, <2>5, SecretWritten
    <2>. QED BY <1>4, <2>3, <2>4, <2>5 DEF Passed
  <1>. QED BY <1>1, <1>2, <1>3, <1>4, Steps

(* A name that the status does not know yet starts where the latest set    *)
(* ends, as long as that set is good.                                      *)
LEMMA SuccessorStep ==
  ASSUME TypeOK, Ordered, Successor, LatestRead, InvalidMeansStale, Progress,
         Next
  PROVE  Successor'
  <1>. USE Numbers DEF Exists
  <1>. DEFINE s == spec.secretName
  <1>. SUFFICES ASSUME s' # N', Readable(s)', ~Stale'
                PROVE  secrets'[s'].current = secrets'[N'].next
    BY DEF Successor
  <1>0. s \in Name /\ (N = 0 \/ N \in Name)
    BY ConstantsAssumption DEF Ordered, TypeOK, SpecType, N, Name
  <1>1. ASSUME UNCHANGED <<spec, status, secrets>>, ~Stale
        PROVE  secrets'[s'].current = secrets'[N'].next
    BY <1>1 DEF Successor, Readable, N
  <1>2. CASE Disturbed
    <2>1. ~Stale
      BY <1>2, StaleStays DEF Disturbed, UpdateStatus, CreateOrUpdateSecret
    <2>2. s' = s /\ spec'.prefix = spec.prefix
      BY <1>2 DEF Disturbed, Ordered, Readable
    <2>. QED BY <1>2, <2>1, <2>2 DEF Disturbed, Successor, Readable, N
  <1>3. CASE PodsMoved
    BY <1>1, <1>3, StaleStays DEF PodsMoved, UpdateStatus,
       CreateOrUpdateSecret
  <1>4. CASE Prepare
    BY <1>1, <1>4, StaleStays DEF Prepare, UpdateStatus,
       CreateOrUpdateSecret, cluster
  <1>5. CASE Passed
    <2>. s' = s
      BY <1>5 DEF Passed
    <2>1. CASE UNCHANGED <<secrets, status>> /\ ~UpdateStatus
               /\ ~CreateOrUpdateSecret
      BY <1>1, <1>5, <2>1, StaleStays DEF Passed
    <2>2. CASE DeleteUnusedSecret
      <3>1. ~Stale /\ status' = status
        BY <2>2, StaleStays DEF DeleteUnusedSecret, UpdateStatus,
           CreateOrUpdateSecret
      <3>2. secrets'[s] = secrets[s] /\ secrets'[N] = secrets[N] /\ N # 0
        BY <1>0, <2>2, <3>1, SecretDeleted DEF Readable, Stale, N
      <3>. QED BY <1>5, <3>1, <3>2 DEF Successor, Readable, Passed, N
    <2>3. CASE CreateOrUpdateSecret
      <3>1. status' = status /\ pc = "secret" /\ tx' = tx
        BY <2>3 DEF CreateOrUpdateSecret
      <3>2. s = T
        BY <1>0, <1>5, <2>3, SecretWritten DEF Readable, Passed, Ordered
      <3>3. T # N /\ N \in Name /\ secrets'[N] = secrets[N]
        BY <1>0, <2>3, <3>1, <3>2, SecretWritten DEF Stale, N
      <3>4. ~Stale
        BY <2>3, <3>1, <3>3, StaleStays DEF UpdateStatus
      <3>5. tx.valid /\ tx.rotate /\ tx.latest # NoSet
        BY <3>1, <3>3, <3>4 DEF InvalidMeansStale, LatestRead, PreWrite
      <3>6. secrets[N] = tx.latest
        BY <3>1, <3>3, <3>4, <3>5 DEF LatestRead, PreWrite, Stale
      <3>7. tx.set.current = tx.latest.next
        BY <3>1, <3>5 DEF Progress
      <3>. QED BY <2>3, <3>1, <3>2, <3>3, <3>6, <3>7, SecretWritten DEF N
    <2>4. CASE UpdateStatus
      <3>1. N' = T /\ secrets' = secrets /\ spec' = spec
        BY <2>4 DEF UpdateStatus, N, T
      <3>. QED BY <1>0, <1>5, <3>1 DEF Readable, Passed, Ordered
    <2>. QED BY <1>5, <2>1, <2>2, <2>3, <2>4 DEF Passed
  <1>. QED BY <1>2, <1>3, <1>4, <1>5, Steps

(* A pass that does not trust its set, for a name that is not the status's,*)
(* knows it for good: Lapsed is what ValidateCredentials finds wrong with  *)
(* a set that nobody revoked.                                              *)
LEMMA InvalidStep ==
  ASSUME TypeOK, Ordered, LatestRead, InvalidMeansStale, Next
  PROVE  InvalidMeansStale'
  <1>. USE Numbers DEF Exists
  <1>. SUFFICES ASSUME PreWrite' \/ pc' = "status", ~tx'.valid, T' # N'
                PROVE  Stale'
    BY DEF InvalidMeansStale
  <1>1. ASSUME PreWrite \/ pc = "status", ~tx.valid, T # N, ~UpdateStatus
        PROVE  Stale'
    BY <1>1, StaleStays DEF InvalidMeansStale
  <1>2. CASE Disturbed
    BY <1>1, <1>2 DEF Disturbed, PreWrite, UpdateStatus, T, N
  <1>3. CASE PodsMoved
    BY <1>1, <1>3 DEF PodsMoved, PreWrite, UpdateStatus, T, N
  <1>4. CASE Prepare
    <2>1. UNCHANGED <<spec, status, aged, secrets, horizon>>
          /\ (aged \/ LatestCredentials = NoSet)
      BY <1>4 DEF Prepare, cluster, HasValidSecrets
    <2>2. CASE aged
      BY <2>1, <2>2 DEF Stale
    <2>3. CASE LatestCredentials = NoSet
      <3>1. N = 0 \/ N \in Name
        BY ConstantsAssumption DEF TypeOK, SpecType, N, Name
      <3>2. N = 0 \/ ~Readable(N)
        BY <2>3 DEF LatestCredentials, Readable, N
      <3>3. Stale
        BY <3>1, <3>2 DEF Stale, Readable, Ordered
      <3>. QED BY <2>1, <3>3 DEF Stale, N, Lapsed
    <2>. QED BY <2>1, <2>2, <2>3
  <1>5. CASE Passed
    <2>1. PreWrite /\ T' = T
      BY <1>5 DEF Passed, PreWrite, T
    <2>2. ~UpdateStatus /\ N' = N
      BY <1>5, <2>1 DEF Passed, UpdateStatus, PreWrite, N
    <2>3. CASE ~tx.valid
      BY <1>1, <2>1, <2>2, <2>3
    <2>4. CASE tx.valid
      <3>1. ValidateCredentials
        BY <1>5, <2>4 DEF Passed, PreWrite
      <3>2. ~Registered(tx.latest) /\ Known(tx.latest) /\ tx.latest # NoSet
            /\ PreWrite
        BY <2>4, <3>1 DEF ValidateCredentials, LatestRead, PreWrite, TypeOK,
           TxType
      <3>3. Lapsed(tx.latest)
        BY <3>2 DEF Registered, PasswordsValid, KeysValid, Live, Known,
           NotRevoked, Lapsed
      <3>4. Stale
        BY <3>2, <3>3 DEF LatestRead, Stale
      <3>5. ~CreateOrUpdateSecret
        BY <3>1 DEF ValidateCredentials, CreateOrUpdateSecret
      <3>. QED BY <2>2, <3>4, <3>5, StaleStays
    <2>. QED BY <2>3, <2>4
  <1>. QED BY <1>2, <1>3, <1>4, <1>5, Steps

(* The latest set the pass has read stays registered, and stays what the   *)
(* Secret holds until the pass writes it.                                  *)
LEMMA LatestReadStep ==
  ASSUME TypeOK, Ordered, LatestSetKept, LatestRead, Progress,
         RegisteredFirst, Next
  PROVE  LatestRead'
  <1>. USE Numbers
  <1>0. N = 0 \/ N \in Name
    BY ConstantsAssumption DEF TypeOK, SpecType, N, Name
  <1>1. ASSUME Known(tx.latest), tx.latest # NoSet, tx'.latest = tx.latest
        PROVE  Known(tx.latest)'
    <2>1. Revoking => {tx.latest.current, tx.latest.next} \subseteq Protected
      BY DEF Protected
    <2>2. \A c \in Nat : NotRevoked(c) /\ (Revoking => c \in Protected) =>
            NotRevoked(c)'
      BY NotRevokedKept
    <2>. QED BY <1>1, <2>1, <2>2 DEF Known, NotRevoked
  <1>2. CASE Disturbed \/ PodsMoved
    BY <1>1, <1>2 DEF Disturbed, PodsMoved, LatestRead, PreWrite, Exists, T, N
  <1>3. CASE Prepare
    <2>1. /\ UNCHANGED <<spec, status, secrets, passwords, keys, horizon>>
          /\ pc' = "expired"
          /\ tx'.spec = spec
          /\ tx'.registered = registered
          /\ tx'.latest = LatestCredentials
          /\ tx'.rotate = NeedsSecretRotation
          /\ tx'.valid = HasValidSecrets
      BY <1>3 DEF Prepare, cluster, entra
    <2>2. LatestCredentials # NoSet =>
            /\ N \in Name /\ Exists(N)
            /\ LatestCredentials = secrets[N]
            /\ registered
      BY <1>0 DEF LatestCredentials, Readable, RegisteredFirst, N
    <2>3. LatestCredentials # NoSet => Known(LatestCredentials)
      BY <2>2 DEF LatestSetKept, Known, N, Name
    <2>4. LatestCredentials # NoSet => Known(LatestCredentials)'
      BY <2>1, <2>2, <2>3 DEF Known, NotRevoked, LatestCredentials, Readable,
         Exists, N
    <2>5. tx'.valid => LatestCredentials # NoSet
      BY <2>1 DEF HasValidSecrets
    <2>6. T' # N' => tx'.rotate
      BY <2>1 DEF NeedsSecretRotation, SecretNameChanged, T, N
    <2>7. Known(tx.latest)' <=> Known(LatestCredentials)'
      BY <2>1 DEF Known, NotRevoked, LatestCredentials, Readable, Exists
    <2>8. tx'.latest # NoSet => Known(tx.latest)'
      BY <2>1, <2>4, <2>7
    <2>9. tx'.valid => tx'.registered /\ tx'.latest # NoSet
      BY <2>1, <2>2, <2>5
    <2>10. N' = N /\ (Exists(N)' <=> Exists(N)) /\ secrets'[N'] = secrets[N]
      BY <2>1 DEF N, Exists
    <2>11. tx'.latest # NoSet =>
             N' # 0 /\ Exists(N)' /\ secrets'[N'] = tx'.latest
      BY <2>1, <2>2, <2>10 DEF Name
    <2>. QED BY <2>5, <2>6, <2>8, <2>9, <2>11 DEF LatestRead
  <1>4. CASE Passed
    <2>1. pc' # "idle" =>
            /\ tx'.latest = tx.latest
            /\ T' = T
            /\ tx'.rotate = tx.rotate
            /\ tx'.registered = tx.registered
            /\ tx'.valid => tx.valid
      BY <1>4 DEF Passed, T, ValidateCredentials, TypeOK, TxType
    <2>2. pc' # "idle" =>
            /\ tx'.valid => tx'.registered /\ tx'.latest # NoSet
            /\ tx'.latest # NoSet => Known(tx.latest)'
      BY <1>1, <1>4, <2>1 DEF LatestRead, Passed
    <2>3. ASSUME PreWrite'
          PROVE  /\ PreWrite
                 /\ N' = N
                 /\ secrets' = secrets \/ DeleteUnusedSecret
      BY <1>4, <2>3 DEF Passed, PreWrite, N, UpdateStatus,
         CreateOrUpdateSecret
    <2>4. ASSUME PreWrite'
          PROVE  /\ tx'.latest # NoSet => N' # 0
                 /\ tx'.latest # NoSet /\ N' # 0 /\ Exists(N)' =>
                      secrets'[N'] = tx'.latest
                 /\ tx'.valid /\ T' = N' => Exists(N)'
                 /\ T' # N' => tx'.rotate
      BY <1>0, <2>1, <2>3, <2>4, SecretDeleted DEF LatestRead, PreWrite,
         Exists, Ordered
    <2>. QED BY <2>2, <2>4 DEF LatestRead
  <1>. QED BY <1>2, <1>3, <1>4, Steps

(* The listings of pods and Secrets stay good enough. *)
LEMMA PodsReadStep ==
  ASSUME TypeOK, Ordered, PodsRead, Next
  PROVE  PodsRead'
  <1>. USE Numbers DEF Readable, Exists, T
  <1>1. CASE Disturbed
    <2>1. \A s \in Name : Readable(s)' => Readable(s)
      BY <1>1 DEF Disturbed, Ordered
    <2>. QED BY <1>1, <2>1 DEF Disturbed, PodsRead, PreWrite, Mounted
  <1>2. CASE PodsMoved
    <2>1. \A s \in Name : Readable(s)' => Readable(s)
      BY <1>2 DEF PodsMoved
    <2>2. pc # "idle" => T \in Name
      BY DEF Ordered
    <2>3. \A s \in Name : Exists(s) /\ pc # "idle" => s <= T
      BY DEF Ordered
    <2>4. \A s \in tx.unused : s \in Name
      BY DEF TypeOK, TxType
    <2>. QED BY <1>2, <2>1, <2>2, <2>3, <2>4 DEF PodsMoved, PodsRead, PreWrite,
                Ordered
  <1>3. CASE Prepare
    <2>1. /\ UNCHANGED <<spec, secrets, pods>>
          /\ pc' = "expired"
          /\ tx'.spec = spec
          /\ tx'.used = UsedKeyIDs
          /\ tx'.unused = UnusedSecrets
      BY <1>3 DEF Prepare, cluster
    <2>. QED BY <2>1 DEF PodsRead, UsedKeyIDs, UsedSecrets, UnusedSecrets,
                Mounted, Ordered
  <1>4. CASE Passed
    <2>1. PreWrite' => \A s \in Name : Readable(s)' => Readable(s) /\
                         secrets'[s] = secrets[s]
      <3>1. PreWrite' => secrets' = secrets \/ DeleteUnusedSecret
        BY <1>4 DEF Passed, PreWrite, CreateOrUpdateSecret
      <3>. QED BY <1>4, <3>1, SecretDeleted DEF Passed
    <2>2. pods' = pods /\ pc # "idle" /\ (PreWrite' => PreWrite)
      BY <1>4 DEF Passed
    <2>3. pc' # "idle" => T' = T /\ tx'.used = tx.used
                          /\ tx'.unused \subseteq tx.unused
      BY <1>4 DEF Passed
    <2>4. PreWrite' => pc' # "idle"
      BY DEF PreWrite
    <2>. QED BY <2>1, <2>2, <2>3, <2>4 DEF PodsRead, Mounted
  <1>. QED BY <1>1, <1>2, <1>3, <1>4, Steps

(* A Secret of the new name, left by an interrupted pass, starts where the *)
(* latest set of a valid pass ends.                                        *)
LEMMA SuccessorReadStep ==
  ASSUME TypeOK, Ordered, Successor, LatestRead, SuccessorRead, Next
  PROVE  SuccessorRead'
  <1>. USE Numbers DEF T, N, Exists
  <1>1. CASE Disturbed
    BY <1>1 DEF Disturbed, SuccessorRead, PreWrite, Lapsed
  <1>2. CASE PodsMoved
    BY <1>2 DEF PodsMoved, SuccessorRead, PreWrite, Lapsed
  <1>3. CASE Prepare
    <2>1. /\ UNCHANGED <<spec, status, secrets, horizon>>
          /\ pc' = "expired"
          /\ tx'.spec = spec
          /\ tx'.latest = LatestCredentials
          /\ tx'.valid = HasValidSecrets
      BY <1>3 DEF Prepare, cluster
    <2>. SUFFICES ASSUME HasValidSecrets, spec.secretName # N,
                         Readable(spec.secretName), ~Lapsed(LatestCredentials)
                  PROVE  secrets[spec.secretName].current
                           = LatestCredentials.next
      BY <2>1 DEF SuccessorRead, Readable, Lapsed, LatestCredentials
    <2>2. /\ ~aged /\ N # 0 /\ Readable(N)
          /\ LatestCredentials = secrets[N]
      BY DEF HasValidSecrets, LatestCredentials
    <2>3. N \in Name
      BY <2>2, ConstantsAssumption DEF TypeOK, SpecType, Name
    <2>4. ~Stale
      BY <2>2, <2>3 DEF Stale, Readable
    <2>. QED BY <2>2, <2>4 DEF Successor
  <1>4. CASE Passed
    <2>. SUFFICES ASSUME PreWrite', tx'.valid, T' # N', Exists(T)',
                         secrets'[T'].prefix = tx'.spec.prefix
                  PROVE  \/ secrets'[T'].current = tx'.latest.next
                         \/ /\ pc' \in {"expired", "validate"}
                            /\ Lapsed(tx.latest)'
      BY DEF SuccessorRead
    <2>1. /\ PreWrite /\ pc' # "idle" /\ T' = T /\ N' = N
          /\ tx'.spec = tx.spec /\ tx'.latest = tx.latest
          /\ horizon' = horizon
      BY <1>4 DEF Passed, PreWrite, UpdateStatus
    <2>2. secrets'[T] = secrets[T] /\ tx.valid
      BY <1>4, SecretDeleted DEF Passed, PreWrite, CreateOrUpdateSecret,
         ValidateCredentials, TypeOK, TxType
    <2>3. \/ secrets[T].current = tx.latest.next
          \/ pc \in {"expired", "validate"} /\ Lapsed(tx.latest)
      BY <2>1, <2>2 DEF SuccessorRead
    <2>4. CASE pc = "expired" /\ Lapsed(tx.latest)
      BY <1>4, <2>1, <2>4 DEF Passed, Lapsed
    <2>5. CASE pc = "validate" /\ Lapsed(tx.latest)
      <3>1. ~Registered(tx.latest)
        BY <2>5 DEF Registered, PasswordsValid, KeysValid, Live, Lapsed
      <3>2. ValidateCredentials
        BY <1>4, <2>1, <2>5 DEF Passed
      <3>3. ~tx'.valid
        BY <3>1, <3>2 DEF ValidateCredentials, TypeOK, TxType
      <3>. QED BY <3>3
    <2>. QED BY <2>1, <2>2, <2>3, <2>4, <2>5
  <1>. QED BY <1>1, <1>2, <1>3, <1>4, Steps

(* The new set is registered before it is written. *)
LEMMA ProgressStep ==
  ASSUME TypeOK, Ordered, LatestRead, Progress, Next
  PROVE  Progress'
  <1>. USE Numbers
  <1>0. \A c \in Nat : NotRevoked(c) /\ (Revoking => c \in Protected) =>
          NotRevoked(c)'
    BY NotRevokedKept
  <1>1. CASE Disturbed \/ PodsMoved
    <2>1. UNCHANGED <<secrets, passwords, keys, pc, tx>>
          /\ horizon' \in Nat /\ horizon' >= horizon
      BY <1>1 DEF Disturbed, PodsMoved
    <2>2. Known(tx.set) => Known(tx.set)'
      BY <2>1 DEF Known, NotRevoked
    <2>3. T \in Name /\ Known(secrets[T]) => Known(secrets[T])'
      BY <2>1 DEF Known, NotRevoked, T
    <2>. QED BY <2>1, <2>2, <2>3 DEF Progress, Ordered, Exists, T
  <1>2. CASE Prepare
    BY <1>2 DEF Prepare, Progress
  <1>3. CASE DeleteExpiredCredentials \/ ValidateCredentials
    BY <1>3 DEF DeleteExpiredCredentials, ValidateCredentials, Progress,
       TypeOK, TxType
  <1>4. CASE DeleteUnusedSecret
    BY <1>4 DEF DeleteUnusedSecret, Progress, TypeOK, TxType
  <1>5. CASE UnusedSecretsDeleted \/ DeleteUnusedCredentials
    BY <1>5 DEF UnusedSecretsDeleted, DeleteUnusedCredentials, Progress
  <1>6. CASE NothingToDo \/ UpdateStatus \/ UpdateAnnotations \/ Abort
    BY <1>6 DEF NothingToDo, UpdateStatus, UpdateAnnotations, Abort, Progress
  <1>7. CASE ProcessAzure
    <2>1. /\ pc = "decide" /\ tx' = tx
          /\ UNCHANGED <<secrets, passwords, keys, horizon>>
          /\ pc' \in {"add", "rotate", "status", "secret"}
          /\ pc' = "add" <=> ~tx.valid
          /\ pc' = "rotate" => tx.rotate
          /\ pc' = "secret" => ~tx.rotate
          /\ pc' = "status" => ~tx.rotate
      BY <1>7 DEF ProcessAzure, cluster
    <2>2. tx.valid => Known(tx.latest) /\ tx.set = tx.latest
      BY <2>1 DEF LatestRead, Progress
    <2>3. tx.valid => Known(tx.set)'
      BY <2>1, <2>2 DEF Known, NotRevoked
    <2>4. pc' = "status" => Exists(T) /\ Known(secrets[T])
      BY <2>1, <2>2 DEF LatestRead, PreWrite, Ordered, Name
    <2>5. pc' = "status" => Exists(T)' /\ Known(secrets[T])'
      BY <2>1, <2>4 DEF Known, NotRevoked, Exists, T
    <2>. QED BY <2>1, <2>2, <2>3, <2>5 DEF Progress
  <1>8. CASE AddCurrentPassword
    BY <1>8 DEF AddCurrentPassword, Progress, TypeOK, TxType, CredSet
  <1>9. CASE RotatePasswords
    BY <1>9 DEF RotatePasswords, Progress, TypeOK, TxType, CredSet
  <1>10. CASE AddNextPassword
    BY <1>10 DEF AddNextPassword, Progress, TypeOK, TxType, CredSet
  <1>11. CASE PatchKeys
    <2>1. /\ pc = "keys" /\ pc' = "secret" /\ tx' = tx
          /\ UNCHANGED <<passwords, horizon>>
          /\ keys' = IF tx.valid THEN RotatedKeys ELSE AddedKeys
      BY <1>11 DEF PatchKeys
    <2>2. tx.set.next \in passwords' \cap keys'
      BY <2>1 DEF Progress, RotatedKeys, AddedKeys
    <2>3. CASE tx.valid
      <3>1. tx.rotate /\ tx.set.current = tx.latest.next
            /\ NotRevoked(tx.latest.next)
        BY <2>1, <2>3 DEF Progress, LatestRead, Known
      <3>2. NotRevoked(tx.set.current)'
        BY <1>0, <2>1, <3>1 DEF Protected, NotRevoked
      <3>. QED BY <2>1, <2>2, <2>3, <3>1, <3>2 DEF Progress, Known, NotRevoked
    <2>4. CASE ~tx.valid
      <3>1. tx.set.current \in passwords' \cap keys'
        BY <2>1, <2>4 DEF Progress, AddedKeys
      <3>. QED BY <2>1, <2>2, <2>4, <3>1 DEF Progress, Known, NotRevoked
    <2>. QED BY <2>3, <2>4
  <1>12. CASE CreateOrUpdateSecret
    <2>1. /\ pc = "secret" /\ pc' = "status" /\ tx' = tx /\ T' = T
          /\ UNCHANGED <<passwords, keys, horizon>>
      BY <1>12 DEF CreateOrUpdateSecret, entra, T
    <2>2. Exists(T)' /\ Known(secrets[T])'
      BY <1>12, <2>1, SecretWritten DEF Progress, Known, NotRevoked, Exists
    <2>. QED BY <2>1, <2>2 DEF Progress
  <1>. QED
    BY <1>1, <1>2, <1>3, <1>4, <1>5, <1>6, <1>7, <1>8, <1>9, <1>10, <1>11,
       <1>12, EnvironmentStep DEF Next, Reconcile

(* The application exists before anything else about it does. *)
LEMMA RegisteredStep ==
  ASSUME TypeOK, Ordered, RegisteredFirst, Next
  PROVE  RegisteredFirst'
  <1>. USE DEF RegisteredFirst, N
  <1>1. CASE Disturbed \/ PodsMoved
    BY <1>1 DEF Disturbed, PodsMoved
  <1>2. CASE Prepare
    BY <1>2 DEF Prepare, cluster, entra, Synchronizing
  <1>3. CASE ProcessAzure
    BY <1>3 DEF ProcessAzure
  <1>4. CASE Passed /\ ~ProcessAzure
    BY <1>4 DEF Passed, UpdateStatus, Synchronizing
  <1>. QED BY <1>1, <1>2, <1>3, <1>4, Steps

----------------------------------------------------------------------------
(* The theorems. *)

LEMMA InvInit == Init => IInv
  <1>. SUFFICES ASSUME Init PROVE IInv
    OBVIOUS
  <1>. USE ConstantsAssumption DEF Init
  <1>1. TypeOK
    BY TypeInit
  <1>2. \A s \in Name : ~Exists(s)
    BY DEF Exists
  <1>3. Ordered /\ LoadedMounts /\ LoadedSecretsKept
    BY <1>2 DEF Ordered, LoadedMounts, LoadedSecretsKept, Name, N, NoSpec
  <1>4. OfferedCredentialsKept /\ LatestSetKept /\ StatusNamesSecret
    BY <1>2 DEF OfferedCredentialsKept, Readable, LatestSetKept,
       StatusNamesSecret, NoSpec
  <1>5. Successor
    BY <1>2 DEF Successor, Readable, Stale, N, NoSpec
  <1>6. LatestRead /\ PodsRead /\ SuccessorRead /\ InvalidMeansStale
        /\ Progress /\ RegisteredFirst
    BY DEF LatestRead, PodsRead, SuccessorRead, InvalidMeansStale, Progress,
       RegisteredFirst, Synchronizing, PreWrite, N, NoSpec
  <1>. QED BY <1>1, <1>3, <1>4, <1>5, <1>6 DEF IInv

LEMMA InvUnchanged == IInv /\ UNCHANGED vars => IInv'
  BY DEF vars, cluster, entra, IInv, TypeOK, CredSet, TxType, PodType, Ordered,
     LoadedMounts, OfferedCredentialsKept, LoadedSecretsKept, LatestSetKept,
     StatusNamesSecret, Successor, LatestRead, PodsRead, SuccessorRead,
     InvalidMeansStale, Progress, RegisteredFirst, Synchronizing, Exists, Mounted, Readable,
     NotRevoked, Known, Lapsed, Stale, PreWrite, N, T

(* The invariant: what a pass has read and what earlier passes left behind *)
(* stay good enough for every step it may take next.                       *)
THEOREM InvariantHolds == Spec => []IInv
  <1>1. IInv /\ Next => IInv'
    BY TypeEnvironment, TypeReconcile, OrderedStep, LoadedStep, OfferedStep,
       LatestStep, StatusNamesStep, SuccessorStep, LatestReadStep,
       PodsReadStep, SuccessorReadStep, InvalidStep, ProgressStep,
       RegisteredStep DEF IInv, Next
  <1>2. IInv /\ [Next]_vars => IInv'
    BY <1>1, InvUnchanged
  <1>. QED BY InvInit, <1>2, PTL DEF Spec

(* For any number of pods, names, disturbances and faults: no step of any  *)
(* pass revokes the current credential of a readable Secret that a pod     *)
(* mounts (DeleteUnused, Rotate and their filters).                        *)
THEOREM MountedKept == Spec => []MountedCredentialsKept
  <1>1. IInv => MountedCredentialsKept
    BY DEF IInv, OfferedCredentialsKept, MountedCredentialsKept
  <1>. QED BY InvariantHolds, <1>1, PTL

(* DeleteUnused never deletes the Secret of a running pod, although its    *)
(* listing of pods is older than its deletions.                            *)
THEOREM LoadedKept == Spec => []LoadedSecretsKept
  <1>1. IInv => LoadedSecretsKept
    BY DEF IInv
  <1>. QED BY InvariantHolds, <1>1, PTL

(* The operator never invalidates the set that the next pass starts from.  *)
THEOREM LatestKept == Spec => []LatestSetKept
  <1>1. IInv => LatestSetKept
    BY DEF IInv
  <1>. QED BY InvariantHolds, <1>1, PTL

(* A status that names the Secret of the spec tells the truth. *)
THEOREM StatusTrue == Spec => []StatusNamesSecret
  <1>1. IInv => StatusNamesSecret
    BY DEF IInv
  <1>. QED BY InvariantHolds, <1>1, PTL
============================================================================
