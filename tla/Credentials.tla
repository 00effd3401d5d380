---------------------------- MODULE Credentials ----------------------------
(***************************************************************************)
(* One AzureAdApplication resource, its Secrets, the pods that use them    *)
(* and the credentials registered for its application in Entra ID.         *)
(*                                                                         *)
(* Reconcile (controllers/azureadapplication) is one pass through the      *)
(* program counter pc: every call that reads or writes the cluster or      *)
(* Entra ID is a step of its own, so the user, the pods and the clock act  *)
(* between any two of them, and a failed call or a crash may abandon the   *)
(* pass after any of them (Abort), leaving behind what it has done so far. *)
(*                                                                         *)
(* A credential is a number, in order of creation.  It stands for a        *)
(* password and a certificate (key) that are created and stored together;  *)
(* passwords and keys tell which halves Entra ID has registered.           *)
(* Secret names and key prefixes are numbers too: a user who changes one   *)
(* picks a value that was not used before.                                 *)
(***************************************************************************)
EXTENDS Naturals, FiniteSets

CONSTANTS
  Pod,            \* pods labelled app=<name>
  MaxNames,       \* secret names 1..MaxNames are taken into use in this order
  Foreign,        \* credentials 1..Foreign were registered by someone else
  Cleanup,        \* the flag secret-rotation.cleanup
  Disturbances,   \* what users and time may do: see the environment's actions
  MaxEdits,       \* bound on the number of disturbances
  MaxFaults       \* bound on failed calls, crashes and ignored errors

ASSUME ConstantsAssumption ==
  /\ MaxNames \in Nat \ {0}
  /\ Foreign \in Nat
  /\ Cleanup \in BOOLEAN
  /\ Disturbances \subseteq {"name", "spec", "prefix", "rotate", "age", "lapse"}
  /\ MaxEdits \in Nat
  /\ MaxFaults \in Nat

Name == 1..MaxNames
NoSet == [prefix |-> 0, current |-> 0, next |-> 0]
SpecType == [secretName: 0..MaxNames, prefix: Nat, rev: Nat]
NoSpec == [secretName |-> 0, prefix |-> 0, rev |-> 0]

VARIABLES
  spec,        \* spec.secretName, spec.secretKeyPrefix, a revision of the rest
  rotate,      \* the annotation azure.nais.io/rotate is present
  status,      \* the spec of the last completed synchronization
  aged,        \* status.SynchronizationSecretRotationTime is past max-age
  registered,  \* the application exists in Entra ID
  passwords,   \* the passwords registered in Entra ID
  keys,        \* the certificates registered in Entra ID
  issued,      \* number of credentials created so far
  horizon,     \* credentials 1..horizon are past their end date
  secrets,     \* the managed Secrets in the cluster
  pods,        \* the Secret a pod mounts, the credential its process holds
  pc,          \* the next step of the running Reconcile
  tx,          \* its transaction.Transaction
  edits,       \* disturbances so far
  faults       \* faults so far

cluster == <<spec, rotate, status, aged, secrets>>
entra == <<registered, passwords, keys, issued>>
vars == <<cluster, entra, horizon, pods, pc, tx, edits, faults>>

CredSet == [prefix: Nat, current: 0..issued, next: 0..issued]

TxType ==
  [ spec: SpecType,          \* Instance.Spec
    registered: BOOLEAN,     \* ExistsInAzure
    latest: CredSet,         \* Secrets.LatestCredentials
    used: SUBSET (0..issued),       \* Secrets.KeyIDs.Used
    unused: SUBSET Name,     \* Secrets.ManagedSecrets.Unused
    annotated: BOOLEAN,      \* HasRotateAnnotation(Instance)
    sync: BOOLEAN,           \* Options.Process.Synchronize
    azureSync: BOOLEAN,      \* Options.Process.Azure.Synchronize
    rotate: BOOLEAN,         \* Options.Process.Secret.Rotate
    valid: BOOLEAN,          \* Options.Process.Secret.Valid
    set: CredSet ]           \* the credentials to be written to the Secret

NoTx ==
  [ spec |-> NoSpec, registered |-> FALSE,
    latest |-> NoSet, used |-> {}, unused |-> {}, annotated |-> FALSE,
    sync |-> FALSE, azureSync |-> FALSE, rotate |-> FALSE, valid |-> FALSE,
    set |-> NoSet ]

PodType == [mounts: 0..MaxNames, loaded: 0..issued]

Init ==
  /\ spec = [secretName |-> 1, prefix |-> 1, rev |-> 1]
  /\ rotate = FALSE
  /\ status = NoSpec
  /\ aged = FALSE
  /\ registered = (Foreign > 0)
  /\ passwords = 1..Foreign
  /\ keys = 1..Foreign
  /\ issued = Foreign
  /\ horizon = 0
  /\ secrets = [s \in Name |-> NoSet]
  /\ pods = [p \in Pod |-> [mounts |-> 0, loaded |-> 0]]
  /\ pc = "idle"
  /\ tx = NoTx
  /\ edits = 0
  /\ faults = 0

----------------------------------------------------------------------------
(* The environment: users, time and pods. *)

Disturb(kind) ==
  /\ kind \in Disturbances
  /\ edits < MaxEdits
  /\ edits' = edits + 1
  /\ UNCHANGED <<status, secrets, entra, pods, pc, tx, faults>>

ChangeSecretName ==
  /\ Disturb("name")
  /\ spec.secretName < MaxNames
  /\ spec' = [spec EXCEPT !.secretName = @ + 1]
  /\ UNCHANGED <<rotate, aged, horizon>>

ChangeSpec ==
  /\ Disturb("spec")
  /\ spec' = [spec EXCEPT !.rev = @ + 1]
  /\ UNCHANGED <<rotate, aged, horizon>>

ChangePrefix ==
  /\ Disturb("prefix")
  /\ spec' = [spec EXCEPT !.prefix = @ + 1]
  /\ UNCHANGED <<rotate, aged, horizon>>

AnnotateRotate ==
  /\ Disturb("rotate")
  /\ ~rotate
  /\ rotate' = TRUE
  /\ UNCHANGED <<spec, aged, horizon>>

(* secret-rotation.max-age passes; the rotation time is part of the status. *)
Age ==
  /\ Disturb("age")
  /\ ~aged
  /\ status.secretName # 0
  /\ aged' = TRUE
  /\ UNCHANGED <<spec, rotate, horizon>>

(* Credentials get a fixed lifetime, so the oldest one ends first. *)
Lapse ==
  /\ Disturb("lapse")
  /\ horizon < issued
  /\ horizon' = horizon + 1
  /\ UNCHANGED <<spec, rotate, aged>>

Mounted(s) == \E p \in Pod : pods[p].mounts = s

PodsOnly == UNCHANGED <<cluster, entra, horizon, pc, tx, edits, faults>>

(* A new pod has the Secret name of the current spec, or replaces or joins *)
(* a pod of an earlier rollout that is still there.                        *)
StartPod(p, s) ==
  /\ pods[p].mounts = 0
  /\ s = spec.secretName \/ Mounted(s)
  /\ pods' = [pods EXCEPT ![p] = [mounts |-> s, loaded |-> 0]]
  /\ PodsOnly

(* The container (re)starts; the kubelet holds it back without the Secret. *)
LoadCredentials(p) ==
  /\ pods[p].mounts # 0
  /\ secrets[pods[p].mounts] # NoSet
  /\ pods[p].loaded # secrets[pods[p].mounts].current
  /\ pods' = [pods EXCEPT ![p].loaded = secrets[pods[p].mounts].current]
  /\ PodsOnly

StopPod(p) ==
  /\ pods[p].mounts # 0
  /\ pods' = [pods EXCEPT ![p] = [mounts |-> 0, loaded |-> 0]]
  /\ PodsOnly

Environment ==
  \/ ChangeSecretName
  \/ ChangeSpec
  \/ ChangePrefix
  \/ AnnotateRotate
  \/ Age
  \/ Lapse
  \/ \E p \in Pod, s \in Name : StartPod(p, s)
  \/ \E p \in Pod : LoadCredentials(p) \/ StopPod(p)

----------------------------------------------------------------------------
(* What a transaction sees. *)

Exists(s) == secrets[s] # NoSet

(* The keys of a Secret's data start with the prefix it was written with;  *)
(* a reader that expects another prefix finds nothing.                     *)
Readable(s) == Exists(s) /\ secrets[s].prefix = spec.prefix

LatestCredentials ==
  IF status.secretName # 0 /\ Readable(status.secretName)
  THEN secrets[status.secretName] ELSE NoSet

(* Mutant: every Secret but the one in the spec counts as unused. *)
UnusedButCurrent == {s \in Name : Exists(s) /\ s # spec.secretName}

UsedSecrets == {s \in Name : Exists(s) /\ Mounted(s)}
UnusedSecrets == {s \in Name : Exists(s) /\ ~Mounted(s)}

UsedKeyIDs == {secrets[s].current : s \in {u \in UsedSecrets : Readable(u)}}

HashChanged == status # spec
SecretNameChanged == status.secretName # spec.secretName

(* What the options builder makes of it.  A tenant other than the status's *)
(* is the case status.secretName = 0; that of a resynchronization request  *)
(* is the case of a changed spec.                                          *)
NeedsSynchronization == HashChanged \/ SecretNameChanged \/ aged \/ rotate
NeedsSecretRotation == SecretNameChanged \/ rotate
HasValidSecrets == ~aged /\ LatestCredentials # NoSet

(* Entra ID accepts the set: both credentials, both halves, unexpired. *)
Live(half) == {c \in half : c > horizon}
PasswordsValid(set) == {set.current, set.next} \subseteq Live(passwords)
KeysValid(set) == {set.current, set.next} \subseteq Live(keys)
Registered(set) == PasswordsValid(set) /\ KeysValid(set)

Newest(half) == {c \in half : \A d \in half : d <= c}

(* Mutant: the credentials of mounted Secrets are not looked at. *)
SparedWithoutUsed(half) ==
  half \cap ({tx.latest.current, tx.latest.next} \cup Newest(half))

(* Mutant: the next credential of the latest set is not looked at. *)
SparedWithoutNext(half) ==
  half \cap (tx.used \cup {tx.latest.current} \cup Newest(half))

(* What a revocation spares: everything, if none was made by azurerator.   *)
Spared(half) ==
  IF \E c \in half : c > Foreign
  THEN half \cap (tx.used \cup {tx.latest.current, tx.latest.next}
                    \cup Newest(half))
  ELSE half

KeysInUse == Spared(keys)
PasswordsInUse == Spared(passwords)

(* Passwords are removed one by one; the error of a removal is logged and  *)
(* ignored, and the password stays.                                        *)
RemovePasswordsBut(keep) ==
  \E ignored \in SUBSET (passwords \ keep) :
    /\ passwords' = keep \cup ignored
    /\ faults' = IF ignored = {} THEN faults ELSE faults + 1
    /\ faults' <= MaxFaults

----------------------------------------------------------------------------
(* Reconcile. *)

Prepare ==
  /\ pc = "idle"
  /\ tx' = [ spec |-> spec, registered |-> registered,
             latest |-> LatestCredentials, used |-> UsedKeyIDs,
             unused |-> UnusedSecrets, annotated |-> rotate,
             sync |-> NeedsSynchronization, azureSync |-> HashChanged,
             rotate |-> NeedsSecretRotation, valid |-> HasValidSecrets,
             set |-> LatestCredentials ]
  /\ pc' = "expired"
  /\ UNCHANGED <<cluster, entra, horizon, pods, edits, faults>>

DeleteExpiredCredentials ==
  /\ pc = "expired"
  /\ keys' = Live(keys)
  /\ RemovePasswordsBut(Live(passwords))
  /\ pc' = "validate"
  /\ UNCHANGED <<cluster, registered, issued, horizon, pods, tx, edits>>

(* Mutant: what Entra ID has is not compared. *)
ValidateLocally ==
  /\ pc = "validate"
  /\ tx' = [tx EXCEPT !.sync = @ \/ ~tx.valid]
  /\ pc' = "secrets"
  /\ UNCHANGED <<cluster, entra, horizon, pods, edits, faults>>

ValidateCredentials ==
  /\ pc = "validate"
  /\ LET valid == tx.registered /\ tx.valid /\ Registered(tx.latest)
     IN tx' = [tx EXCEPT !.valid = valid, !.sync = @ \/ ~valid]
  /\ pc' = "secrets"
  /\ UNCHANGED <<cluster, entra, horizon, pods, edits, faults>>

(* Mutant: the Secret the spec names is deleted like the others. *)
DeleteUnusedOrCurrent ==
  /\ pc = "secrets"
  /\ \E s \in tx.unused :
       /\ secrets' = [secrets EXCEPT ![s] = NoSet]
       /\ tx' = [tx EXCEPT !.unused = @ \ {s}]
  /\ UNCHANGED <<spec, rotate, status, aged, entra, horizon, pods, pc,
                 edits, faults>>

(* One Secret per step; the next step is taken when none is left. *)
DeleteUnusedSecret ==
  /\ pc = "secrets"
  /\ \E s \in tx.unused \ {tx.spec.secretName} :
       /\ secrets' = [secrets EXCEPT ![s] = NoSet]
       /\ tx' = [tx EXCEPT !.unused = @ \ {s}]
  /\ UNCHANGED <<spec, rotate, status, aged, entra, horizon, pods, pc,
                 edits, faults>>

(* Mutant: a pass that has nothing to synchronize skips the clean-up. *)
CleanUpWhenSynchronizing ==
  /\ pc = "secrets"
  /\ tx.unused \subseteq {tx.spec.secretName}
  /\ pc' = IF Cleanup /\ ~tx.rotate /\ tx.valid /\ tx.sync
           THEN "cleanup" ELSE "decide"
  /\ UNCHANGED <<cluster, entra, horizon, pods, tx, edits, faults>>

UnusedSecretsDeleted ==
  /\ pc = "secrets"
  /\ tx.unused \subseteq {tx.spec.secretName}
  /\ pc' = IF Cleanup /\ ~tx.rotate /\ tx.valid THEN "cleanup" ELSE "decide"
  /\ UNCHANGED <<cluster, entra, horizon, pods, tx, edits, faults>>

DeleteUnusedCredentials ==
  /\ pc = "cleanup"
  /\ keys' = KeysInUse
  /\ RemovePasswordsBut(PasswordsInUse)
  /\ pc' = "decide"
  /\ UNCHANGED <<cluster, registered, issued, horizon, pods, tx, edits>>

NothingToDo ==
  /\ pc = "decide"
  /\ ~tx.sync
  /\ pc' = "idle"
  /\ tx' = NoTx
  /\ UNCHANGED <<cluster, entra, horizon, pods, edits, faults>>

(* Create, Update or GetPreAuthorizedApps, and the choice in the Secrets'  *)
(* Process.                                                                *)
ProcessAzure ==
  /\ pc = "decide"
  /\ tx.sync
  /\ registered' = TRUE
  /\ LET notModified == tx.registered /\ ~tx.azureSync
     IN pc' = CASE ~tx.valid -> "add"
                [] tx.valid /\ tx.rotate -> "rotate"
                [] tx.valid /\ ~tx.rotate /\ notModified -> "status"
                [] OTHER -> "secret"
  /\ UNCHANGED <<cluster, passwords, keys, issued, horizon, pods, tx, edits,
                 faults>>

AddCurrentPassword ==
  /\ pc = "add"
  /\ issued' = issued + 1
  /\ passwords' = passwords \cup {issued + 1}
  /\ tx' = [tx EXCEPT !.set.current = issued + 1]
  /\ pc' = "addNext"
  /\ UNCHANGED <<cluster, registered, keys, horizon, pods, edits, faults>>

RotatePasswords ==
  /\ pc = "rotate"
  /\ RemovePasswordsBut(PasswordsInUse)
  /\ tx' = [tx EXCEPT !.set.current = tx.latest.next]
  /\ pc' = "addNext"
  /\ UNCHANGED <<cluster, registered, keys, issued, horizon, pods, edits>>

AddNextPassword ==
  /\ pc = "addNext"
  /\ issued' = issued + 1
  /\ passwords' = passwords \cup {issued + 1}
  /\ tx' = [tx EXCEPT !.set.next = issued + 1]
  /\ pc' = "keys"
  /\ UNCHANGED <<cluster, registered, keys, horizon, pods, edits, faults>>

AddedKeys == keys \cup {tx.set.current, tx.set.next}

(* Mutant: the PATCH lists the new certificate only. *)
NewKeyOnly == {tx.set.next}

RotatedKeys == KeysInUse \cup {tx.set.next}

(* One PATCH of the list of all certificates. *)
PatchKeys ==
  /\ pc = "keys"
  /\ keys' = IF tx.valid THEN RotatedKeys ELSE AddedKeys
  /\ pc' = "secret"
  /\ UNCHANGED <<cluster, registered, passwords, issued, horizon, pods, tx,
                 edits, faults>>

CreateOrUpdateSecret ==
  /\ pc = "secret"
  /\ secrets' = [secrets EXCEPT ![tx.spec.secretName] =
                               [tx.set EXCEPT !.prefix = tx.spec.prefix]]
  /\ pc' = "status"
  /\ UNCHANGED <<spec, rotate, status, aged, entra, horizon, pods, tx,
                 edits, faults>>

(* Mutant: the status takes the hash of the newest spec. *)
UpdateStatusNewest ==
  /\ pc = "status"
  /\ status' = spec
  /\ aged' = (aged /\ tx.valid /\ ~tx.rotate)
  /\ pc' = "annotations"
  /\ UNCHANGED <<spec, rotate, secrets, entra, horizon, pods, tx, edits, faults>>

(* The rotation time moves only if new credentials were made. *)
UpdateStatus ==
  /\ pc = "status"
  /\ status' = tx.spec
  /\ aged' = (aged /\ tx.valid /\ ~tx.rotate)
  /\ pc' = "annotations"
  /\ UNCHANGED <<spec, rotate, secrets, entra, horizon, pods, tx, edits, faults>>

(* Mutant: the annotation is removed whether or not this pass saw it. *)
RemoveAnyRotate ==
  /\ pc = "annotations"
  /\ rotate' = FALSE
  /\ pc' = "idle"
  /\ tx' = NoTx
  /\ UNCHANGED <<spec, status, aged, secrets, entra, horizon, pods,
                 edits, faults>>

UpdateAnnotations ==
  /\ pc = "annotations"
  /\ rotate' = (rotate /\ ~tx.annotated)
  /\ pc' = "idle"
  /\ tx' = NoTx
  /\ UNCHANGED <<spec, status, aged, secrets, entra, horizon, pods,
                 edits, faults>>

(* A call fails, the context times out or the operator stops: the pass is  *)
(* given up where it is and the resource is queued again.                  *)
Abort ==
  /\ pc # "idle"
  /\ faults < MaxFaults
  /\ faults' = faults + 1
  /\ pc' = "idle"
  /\ tx' = NoTx
  /\ UNCHANGED <<cluster, entra, horizon, pods, edits>>

Reconcile ==
  \/ Prepare
  \/ DeleteExpiredCredentials
  \/ ValidateCredentials
  \/ DeleteUnusedSecret
  \/ UnusedSecretsDeleted
  \/ DeleteUnusedCredentials
  \/ NothingToDo
  \/ ProcessAzure
  \/ AddCurrentPassword
  \/ RotatePasswords
  \/ AddNextPassword
  \/ PatchKeys
  \/ CreateOrUpdateSecret
  \/ UpdateStatus
  \/ UpdateAnnotations

Next == Environment \/ Reconcile \/ Abort

Spec == Init /\ [][Next]_vars

(* Requeue and RequeueAfter put the resource back into the work queue at   *)
(* the end of every pass, and a worker that runs takes its next step.      *)
FairSpec == Spec /\ WF_vars(Reconcile)

----------------------------------------------------------------------------
(* Properties. *)

(* Every variable has its type: the state of the cluster, of Entra ID and  *)
(* of the running Reconcile.  Whatever names a credential names one that   *)
(* was created, and the status is never ahead of the pass under way, which *)
(* may have read an old spec (updateStatus).                               *)
TypeOK ==
  /\ spec \in SpecType
  /\ rotate \in BOOLEAN
  /\ status \in SpecType
  /\ aged \in BOOLEAN
  /\ registered \in BOOLEAN
  /\ passwords \subseteq 0..issued
  /\ keys \subseteq 0..issued
  /\ issued \in Nat
  /\ horizon \in 0..issued
  /\ secrets \in [Name -> CredSet]
  /\ pods \in [Pod -> PodType]
  /\ pc \in {"idle", "expired", "validate", "secrets", "cleanup", "decide",
             "add", "rotate", "addNext", "keys", "secret", "status",
             "annotations"}
  /\ tx \in TxType
  /\ status.rev <= spec.rev
  /\ pc # "idle" => status.rev <= tx.spec.rev /\ tx.spec.rev <= spec.rev
  /\ edits \in 0..MaxEdits
  /\ faults \in 0..MaxFaults

(* Both halves of the credential are registered, or its time ran out. *)
NotRevoked(c) == c \in passwords \cap keys \/ c <= horizon

(* A pod that (re)starts gets credentials that work: whatever Secret a pod *)
(* mounts, its current credential is never revoked, through every rotation *)
(* and every interrupted pass (filterRevokedKeys, revocationCandidates).   *)
MountedCredentialsKept ==
  \A s \in Name :
    Mounted(s) /\ Readable(s) => NotRevoked(secrets[s].current)

(* The Secret of a running pod is never deleted, although DeleteUnused     *)
(* goes by a listing of pods and Secrets that is several calls old.        *)
LoadedSecretsKept ==
  \A p \in Pod : pods[p].loaded # 0 => Exists(pods[p].mounts)

(* The operator never invalidates the set the next pass starts from: both  *)
(* credentials in the Secret the status names stay registered, so only     *)
(* age, or an end date, makes ValidateCredentials refuse them.             *)
LatestSetKept ==
  status.secretName # 0 /\ Exists(status.secretName) =>
    /\ NotRevoked(secrets[status.secretName].current)
    /\ NotRevoked(secrets[status.secretName].next)

(* A status that says the current secretName is synchronized tells the     *)
(* truth: the Secret is there (createOrUpdate comes before updateStatus,   *)
(* DeleteUnused spares the Secret the spec names).                         *)
StatusNamesSecret ==
  status.secretName # 0 /\ status.secretName = spec.secretName =>
    Exists(spec.secretName)

(* The rotate annotation is taken away only by a pass that has put another *)
(* credential into the Secret; a request made while a pass is under way is *)
(* not lost (updateAnnotations).                                           *)
RotationAnswered ==
  [][rotate /\ ~rotate' =>
       /\ Exists(tx.spec.secretName)
       /\ secrets[tx.spec.secretName].current # tx.latest.current]_vars

(* Without age, end dates and faults a rewritten Secret keeps its current  *)
(* credential or moves on to the next one, which its readers know already  *)
(* (Rotate, and the Latest set of an update without rotation).             *)
SecretsAdvance ==
  [][\A s \in Name :
       Exists(s) /\ secrets'[s] # NoSet =>
         secrets'[s].current \in {secrets[s].current, secrets[s].next}]_vars

(* No process ever holds a revoked credential: rotation without downtime.  *)
ZeroDowntime ==
  \A p \in Pod : pods[p].loaded # 0 => NotRevoked(pods[p].loaded)

(* docs/lifecycle.md says of revocation: "Any set of credentials that      *)
(* exist in corev1.Secret resources in use by matching pods" stays.  The   *)
(* set of a Secret is its current and its next credential.                 *)
InUseSetsKept ==
  \A s \in UsedSecrets :
    NotRevoked(secrets[s].current) /\ NotRevoked(secrets[s].next)

(* What the resource asks for is there: its Secret, with credentials that  *)
(* Entra ID accepts, under a status that says so.                          *)
Delivered ==
  /\ status = spec
  /\ ~rotate
  /\ Readable(spec.secretName)
  /\ Registered(secrets[spec.secretName])

(* When disturbances and faults end, every request has been carried out.   *)
EventuallyDelivered == <>[]Delivered

(* Nobody needs c: it is in no mounted Secret, not in the latest set, and  *)
(* not the newest one, which is kept for users outside the cluster.        *)
Unneeded(half, c) ==
  /\ \A s \in UsedSecrets : c # secrets[s].current
  /\ c \notin {LatestCredentials.current, LatestCredentials.next}
  /\ c \notin Newest(half)

(* Credentials left behind by interrupted passes, ignored errors, earlier  *)
(* rotations or somebody else are revoked in the end (DeleteUnused).       *)
LeftoversRevoked ==
  <>[](\A half \in {passwords, keys} : \A c \in half : ~Unneeded(half, c))
============================================================================
