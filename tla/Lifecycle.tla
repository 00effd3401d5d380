------------------------------ MODULE Lifecycle ------------------------------
(***************************************************************************)
(* The life of one AzureAdApplication resource and of its applications in  *)
(* Entra ID, from creation to deletion.                                    *)
(*                                                                         *)
(* Each tenant has an operator of its own, which sees the resource and     *)
(* ignores it unless it is addressed to the operator's tenant.  An         *)
(* operator takes the resource from its work queue and makes one pass over *)
(* it (Reconcile, in controllers/azureadapplication), at most one at a     *)
(* time.  The finalizer keeps a deleted resource until a pass has deleted  *)
(* the application, or purged the credentials of one that is preserved.    *)
(*                                                                         *)
(* Credentials are only told apart by the application they belong to; what *)
(* happens to them while the resource is there is the matter of module     *)
(* Credentials.                                                            *)
(***************************************************************************)
EXTENDS Naturals, FiniteSets

CONSTANTS
  Tenant,           \* the tenants, each with its operator
  RequiresTenant,   \* tenants whose operator wants spec.tenant to be set
  CleanupOrphans,   \* azure.features.cleanup-orphans.enabled
  Disturbances,     \* what users do to the resource, and others in Entra ID
  MaxDisturbances,  \* bound on disturbances
  MaxCreations,     \* bound on how often the resource is created
  MaxFaults         \* bound on failed calls, timeouts and restarts

(* A resource need not name a tenant. *)
NoTenant == "unset"

ASSUME ConstantsAssumption ==
  /\ NoTenant \notin Tenant
  /\ RequiresTenant \subseteq Tenant
  /\ CleanupOrphans \in BOOLEAN
  /\ Disturbances \subseteq
       {"edit", "revert", "tenant", "preserve", "unpreserve", "lose"}
  /\ MaxDisturbances \in Nat
  /\ MaxCreations \in Nat
  /\ MaxFaults \in Nat

VARIABLES
  exists,        \* the resource is in the cluster
  deleting,      \* it has a deletion timestamp
  finalizer,     \* it has the operator's finalizer
  spec,          \* its spec: the tenant, and a revision of all the rest
  preserve,      \* it has the annotation azure.nais.io/preserve
  status,        \* the spec and the tenant of the last completed pass
  secret,        \* the application whose credentials its Secret holds
  entra,         \* the application with the resource's name in each tenant
  born,          \* how many applications each tenant has seen
  queue,         \* each operator's work queue: "empty", "later" or "now"
  pc,            \* the next step of each operator's pass
  tx,            \* its transaction
  wish,          \* what the user wants of the application; see Wish
  disturbances,  \* disturbances so far
  creations,     \* creations so far
  faults         \* faults so far

resource == <<exists, deleting, finalizer, spec, preserve, status, secret>>
azure == <<entra, born>>
passes == <<pc, tx>>
bounds == <<disturbances, creations, faults>>
vars == <<resource, azure, queue, passes, wish, bounds>>

SpecType == [tenant : Tenant \cup {NoTenant}, rev : Nat]
NoSpec == [tenant |-> NoTenant, rev |-> 0]
NoStatus == [spec |-> NoSpec, tenant |-> NoTenant]
NoSecret == [tenant |-> NoTenant, id |-> 0]

(* An application, what a pass has made of it, and its credentials. *)
NoApplication == [id |-> 0, sp |-> FALSE, uris |-> FALSE, app |-> 0,
                  config |-> 0, creds |-> {}]

(* Credentials of an application: "refused" are passwords whose removal    *)
(* Entra ID refused when the others were purged.                           *)
Credential == {"certificate", "password", "refused"}
Fresh == {"certificate", "password"}

NoTx == [spec |-> NoSpec, deleting |-> FALSE, finalizer |-> FALSE,
         preserve |-> FALSE, changed |-> FALSE, secret |-> NoSecret,
         valid |-> FALSE, id |-> 0]

(* "either": the user has asked for something else than what a pass over   *)
(* the deleted resource has read, or an earlier resource with this name    *)
(* has left its application behind.                                        *)
Wish == {"delete", "keep", "either"}

Everyone == [t \in Tenant |-> "now"]

Init ==
  /\ exists = FALSE
  /\ deleting = FALSE
  /\ finalizer = FALSE
  /\ spec = NoSpec
  /\ preserve = FALSE
  /\ status = NoStatus
  /\ secret = NoSecret
  /\ entra = [t \in Tenant |-> NoApplication]
  /\ born = [t \in Tenant |-> 0]
  /\ queue = [t \in Tenant |-> "empty"]
  /\ pc = [t \in Tenant |-> "idle"]
  /\ tx = [t \in Tenant |-> NoTx]
  /\ wish = "delete"
  /\ disturbances = 0
  /\ creations = 0
  /\ faults = 0

(* The operator of t does nothing for a resource of another tenant.        *)
NotAddressedTo(t, s) ==
  IF s.tenant = NoTenant THEN t \in RequiresTenant ELSE s.tenant # t

----------------------------------------------------------------------------
(* Users, and others with access to Entra ID. *)

CreateResource ==
  /\ ~exists
  /\ creations < MaxCreations
  /\ creations' = creations + 1
  /\ exists' = TRUE
  /\ \E t \in Tenant \cup {NoTenant} : spec' = [tenant |-> t, rev |-> 1]
  /\ queue' = Everyone
  /\ wish' = IF wish = "keep" THEN "either" ELSE wish
  /\ UNCHANGED <<deleting, finalizer, preserve, status, secret, azure, passes,
                 disturbances, faults>>

(* Mutant: the Secret has no owner, and outlives the resource. *)
VanishFromSecret ==
  /\ exists' = FALSE
  /\ deleting' = FALSE
  /\ finalizer' = FALSE
  /\ spec' = NoSpec
  /\ preserve' = FALSE
  /\ status' = NoStatus
  /\ UNCHANGED secret

(* Without a finalizer the API server deletes the resource at once, and    *)
(* with it the Secret, which it owns.                                      *)
Vanish ==
  /\ exists' = FALSE
  /\ deleting' = FALSE
  /\ finalizer' = FALSE
  /\ spec' = NoSpec
  /\ preserve' = FALSE
  /\ status' = NoStatus
  /\ secret' = NoSecret

DeleteResource ==
  /\ exists
  /\ ~deleting
  /\ IF finalizer
     THEN /\ deleting' = TRUE
          /\ UNCHANGED <<exists, finalizer, spec, preserve, status, secret>>
     ELSE Vanish
  /\ queue' = Everyone
  /\ UNCHANGED <<azure, passes, wish, bounds>>

Disturb(d) ==
  /\ d \in Disturbances
  /\ disturbances < MaxDisturbances
  /\ disturbances' = disturbances + 1
  /\ UNCHANGED <<passes, creations, faults>>

ChangeSpec(s) ==
  /\ exists
  /\ spec' = s
  /\ queue' = Everyone
  /\ UNCHANGED <<exists, deleting, finalizer, preserve, status, secret, azure,
                 wish>>

EditSpec == Disturb("edit") /\ ChangeSpec([spec EXCEPT !.rev = @ + 1])

RevertSpec ==
  /\ Disturb("revert")
  /\ spec.rev > 1
  /\ ChangeSpec([spec EXCEPT !.rev = @ - 1])

(* With an edit, so that only RevertSpec brings an earlier spec back. *)
MoveToTenant ==
  /\ Disturb("tenant")
  /\ \E t \in (Tenant \cup {NoTenant}) \ {spec.tenant} :
       ChangeSpec([tenant |-> t, rev |-> spec.rev + 1])

(* A pass has read that the resource is deleted, and another annotation.   *)
Overlooked(value) ==
  \E t \in Tenant : tx[t].deleting /\ tx[t].preserve = ~value

(* Annotations change also on a resource that is being deleted.            *)
Annotate(value) ==
  /\ exists
  /\ preserve = ~value
  /\ preserve' = value
  /\ wish' = IF Overlooked(value) THEN "either"
             ELSE IF value THEN "keep" ELSE "delete"
  /\ queue' = Everyone
  /\ UNCHANGED <<exists, deleting, finalizer, spec, status, secret, azure>>

AddPreserve == Disturb("preserve") /\ Annotate(TRUE)
RemovePreserve == Disturb("unpreserve") /\ Annotate(FALSE)

(* Somebody deletes the application in Entra ID. *)
LoseApplication(t) ==
  /\ Disturb("lose")
  /\ entra[t].id # 0
  /\ entra' = [entra EXCEPT ![t] = NoApplication]
  /\ UNCHANGED <<resource, born, queue, wish>>

Environment ==
  \/ CreateResource
  \/ DeleteResource
  \/ EditSpec
  \/ RevertSpec
  \/ MoveToTenant
  \/ AddPreserve
  \/ RemovePreserve
  \/ \E t \in Tenant : LoseApplication(t)

----------------------------------------------------------------------------
(* The end of a pass.  An event that came in during the pass is kept.      *)

At(t, step) == pc[t] = step
Goto(t, step) == pc' = [pc EXCEPT ![t] = step]

Finish(t) ==
  /\ pc' = [pc EXCEPT ![t] = "idle"]
  /\ tx' = [tx EXCEPT ![t] = NoTx]

Requeue(t, when) ==
  [queue EXCEPT ![t] = IF @ = "now" THEN "now" ELSE when]

(* HandleError: the resource goes back to the queue. *)
Fail(t) ==
  /\ Finish(t)
  /\ queue' = Requeue(t, "now")
  /\ UNCHANGED <<resource, azure, wish, bounds>>

RequeueAfter(t) ==
  /\ queue[t] = "later"
  /\ queue' = [queue EXCEPT ![t] = "now"]
  /\ UNCHANGED <<resource, azure, passes, wish, bounds>>

----------------------------------------------------------------------------
(* Prepare: read the resource and the Secrets, look up the application.    *)

ReadResource(t) ==
  /\ At(t, "idle")
  /\ queue[t] = "now"
  /\ queue' = [queue EXCEPT ![t] = "empty"]
  /\ IF exists
     THEN /\ tx' = [tx EXCEPT ![t] =
               [spec |-> spec, deleting |-> deleting, finalizer |-> finalizer,
                preserve |-> preserve, changed |-> status.spec # spec,
                secret |-> IF status.tenant = t THEN secret ELSE NoSecret,
                valid |-> FALSE, id |-> 0]]
          /\ Goto(t, "lookup")
     ELSE UNCHANGED passes
  /\ wish' = IF wish = "either" /\ preserve /\ ~Overlooked(TRUE)
             THEN "keep" ELSE wish
  /\ UNCHANGED <<resource, azure, bounds>>

(* Mutant: the pass goes on without the finalizer. *)
NextStepUnfinalized(t) ==
  CASE NotAddressedTo(t, tx[t].spec) -> "orphan"
    [] OTHER -> IF tx[t].deleting THEN "finalize" ELSE "validate"

NextStep(t) ==
  CASE NotAddressedTo(t, tx[t].spec) -> "orphan"
    [] ~NotAddressedTo(t, tx[t].spec) /\ ~tx[t].finalizer -> "register"
    [] OTHER -> IF tx[t].deleting THEN "finalize" ELSE "validate"

(* A missing service principal is registered on the way. *)
LookUpApplication(t) ==
  /\ At(t, "lookup")
  /\ tx' = [tx EXCEPT ![t].id = entra[t].id]
  /\ entra' = [entra EXCEPT ![t].sp = entra[t].id # 0]
  /\ Goto(t, NextStep(t))
  /\ UNCHANGED <<resource, born, queue, wish, bounds>>

----------------------------------------------------------------------------
(* A resource of another tenant, the finalizer. *)

(* The call fails when the application is gone since it was looked up.     *)
DeleteApplication(t) ==
  /\ tx[t].id # 0
  /\ entra[t].id = tx[t].id
  /\ entra' = [entra EXCEPT ![t] = NoApplication]

(* Mutant: only the tenant that the status names cleans up. *)
ProcessOwnOrphan(t) ==
  /\ At(t, "orphan")
  /\ IF tx[t].id # 0 /\ CleanupOrphans /\ status.tenant = t
     THEN DeleteApplication(t) ELSE UNCHANGED entra
  /\ Finish(t)
  /\ UNCHANGED <<resource, born, queue, wish, bounds>>

ProcessOrphaned(t) ==
  /\ At(t, "orphan")
  /\ IF tx[t].id # 0 /\ CleanupOrphans THEN DeleteApplication(t)
                                       ELSE UNCHANGED entra
  /\ Finish(t)
  /\ UNCHANGED <<resource, born, queue, wish, bounds>>

RegisterFinalizer(t) ==
  /\ At(t, "register")
  /\ Finish(t)
  /\ IF exists /\ ~finalizer
     THEN finalizer' = TRUE /\ queue' = Everyone
     ELSE UNCHANGED <<finalizer, queue>>
  /\ UNCHANGED <<exists, deleting, spec, preserve, status, secret, azure,
                 wish, bounds>>

(* Mutant: an application that does not exist cannot be deleted. *)
FinalizeExisting(t) ==
  /\ At(t, "finalize")
  /\ ~tx[t].preserve
  /\ DeleteApplication(t)
  /\ Goto(t, "unregister")
  /\ UNCHANGED <<resource, born, queue, tx, wish, bounds>>

(* There is no application, or it is deleted.                              *)
Finalize(t) ==
  /\ At(t, "finalize")
  /\ \/ tx[t].id = 0 /\ UNCHANGED entra
     \/ ~tx[t].preserve /\ DeleteApplication(t)
  /\ Goto(t, "unregister")
  /\ UNCHANGED <<resource, born, queue, tx, wish, bounds>>

(* The credentials of a preserved application are purged: one password     *)
(* after another, where an error is logged and ignored, ...                *)
PurgePasswords(t) ==
  /\ At(t, "finalize")
  /\ tx[t].preserve
  /\ tx[t].id # 0
  /\ entra[t].id = tx[t].id
  /\ \/ /\ entra' = [entra EXCEPT ![t].creds = @ \ {"password", "refused"}]
        /\ UNCHANGED faults
     \/ /\ entra[t].creds \cap {"password", "refused"} # {}
        /\ faults < MaxFaults
        /\ faults' = faults + 1
        /\ entra' = [entra EXCEPT ![t].creds = (@ \ {"password"}) \cup {"refused"}]
  /\ Goto(t, "purge")
  /\ UNCHANGED <<resource, born, queue, tx, wish, disturbances, creations>>

(* Mutant: this error is logged and ignored, too. *)
PurgeCertificatesRegardless(t) ==
  /\ At(t, "purge")
  /\ entra[t].id = tx[t].id
  /\ entra' = [entra EXCEPT ![t].creds = @ \ {"certificate"}] \/ UNCHANGED entra
  /\ Goto(t, "unregister")
  /\ UNCHANGED <<resource, born, queue, tx, wish, bounds>>

(* ... then all certificates in one call.                                  *)
PurgeCertificates(t) ==
  /\ At(t, "purge")
  /\ entra[t].id = tx[t].id
  /\ entra' = [entra EXCEPT ![t].creds = @ \ {"certificate"}]
  /\ Goto(t, "unregister")
  /\ UNCHANGED <<resource, born, queue, tx, wish, bounds>>

RemoveFinalizer(t) ==
  /\ At(t, "unregister")
  /\ Finish(t)
  /\ IF exists /\ deleting THEN Vanish
     ELSE /\ finalizer' = FALSE
          /\ UNCHANGED <<exists, deleting, spec, preserve, status, secret>>
  /\ queue' = Everyone
  /\ UNCHANGED <<azure, wish, bounds>>

----------------------------------------------------------------------------
(* Synchronization. *)

(* The credentials in the Secret are those of this application.            *)
HasValidCredentials(t) ==
  /\ tx[t].id # 0
  /\ tx[t].secret = [tenant |-> t, id |-> tx[t].id]
  /\ entra[t].id = tx[t].id
  /\ Fresh \subseteq entra[t].creds

ValidateCredentials(t) ==
  /\ At(t, "validate")
  /\ tx[t].changed \/ ~HasValidCredentials(t)
  /\ tx' = [tx EXCEPT ![t].valid = HasValidCredentials(t)]
  /\ Goto(t, IF tx[t].id = 0 THEN "create"
             ELSE IF tx[t].changed THEN "update" ELSE "credentials")
  /\ UNCHANGED <<resource, azure, queue, wish, bounds>>

NothingToDo(t) ==
  /\ At(t, "validate")
  /\ ~tx[t].changed
  /\ HasValidCredentials(t)
  /\ Finish(t)
  /\ queue' = Requeue(t, "later")
  /\ UNCHANGED <<resource, azure, wish, bounds>>

RegisterApplication(t) ==
  /\ At(t, "create")
  /\ born' = [born EXCEPT ![t] = @ + 1]
  /\ entra' = [entra EXCEPT ![t] = [NoApplication EXCEPT
                 !.id = born'[t], !.app = tx[t].spec.rev]]
  /\ tx' = [tx EXCEPT ![t].id = born'[t]]
  /\ Goto(t, "principal")
  /\ UNCHANGED <<resource, queue, wish, bounds>>

(* A step that changes the application the pass has found or made. *)
ChangeApplication(t, from, to, application) ==
  /\ At(t, from)
  /\ entra[t].id = tx[t].id
  /\ entra' = [entra EXCEPT ![t] = application]
  /\ Goto(t, to)
  /\ UNCHANGED <<resource, born, queue, tx, wish, bounds>>

RegisterServicePrincipal(t) ==
  ChangeApplication(t, "principal", "uris", [entra[t] EXCEPT !.sp = TRUE])

SetIdentifierUris(t) ==
  ChangeApplication(t, "uris", "process", [entra[t] EXCEPT !.uris = TRUE])

UpdateApplication(t) ==
  ChangeApplication(t, "update", "process",
    [entra[t] EXCEPT !.uris = TRUE, !.app = tx[t].spec.rev])

(* Grants, owners, pre-authorized apps, policies and groups. *)
ProcessApplication(t) ==
  ChangeApplication(t, "process", "credentials",
    [entra[t] EXCEPT !.config = tx[t].spec.rev])

(* What a purge has left may go on the way (DeleteUnused, DeleteExpired).  *)
AddCredentials(t) ==
  \E gone \in SUBSET {"refused"} :
    ChangeApplication(t, "credentials", "secret",
      [entra[t] EXCEPT !.creds =
         (@ \ gone) \cup (IF tx[t].valid THEN {} ELSE Fresh)])

CreateOrUpdateSecret(t) ==
  /\ At(t, "secret")
  /\ secret' = IF exists /\ ~tx[t].valid
               THEN [tenant |-> t, id |-> tx[t].id] ELSE secret
  /\ Goto(t, "status")
  /\ UNCHANGED <<exists, deleting, finalizer, spec, preserve, status, azure,
                 queue, tx, wish, bounds>>

(* Mutant: the hash is taken of the newest spec. *)
UpdateStatusNewest(t) ==
  /\ At(t, "status")
  /\ status' = IF exists THEN [spec |-> spec, tenant |-> t] ELSE status
  /\ Goto(t, "annotations")
  /\ UNCHANGED <<exists, deleting, finalizer, spec, preserve, secret, azure,
                 queue, tx, wish, bounds>>

UpdateStatus(t) ==
  /\ At(t, "status")
  /\ status' = IF exists THEN [spec |-> tx[t].spec, tenant |-> t] ELSE status
  /\ Goto(t, "annotations")
  /\ UNCHANGED <<exists, deleting, finalizer, spec, preserve, secret, azure,
                 queue, tx, wish, bounds>>

(* Mutant: the annotations that the pass has read replace the newest ones. *)
ReplaceAnnotations(t) ==
  /\ At(t, "annotations")
  /\ Finish(t)
  /\ preserve' = (exists /\ tx[t].preserve)
  /\ queue' = IF preserve' # preserve THEN Everyone ELSE Requeue(t, "later")
  /\ UNCHANGED <<exists, deleting, finalizer, spec, status, secret, azure,
                 wish, bounds>>

(* The annotations that the pass has read are copied over the newest ones. *)
UpdateAnnotations(t) ==
  /\ At(t, "annotations")
  /\ Finish(t)
  /\ IF exists /\ tx[t].preserve /\ ~preserve
     THEN preserve' = TRUE /\ queue' = Everyone
     ELSE queue' = Requeue(t, "later") /\ UNCHANGED preserve
  /\ UNCHANGED <<exists, deleting, finalizer, spec, status, secret, azure,
                 wish, bounds>>

(* The application is gone since it was looked up: the call fails. *)
ApplicationGone(t) ==
  /\ pc[t] \in {"orphan", "finalize", "purge", "principal", "uris", "update",
                "process", "credentials"}
  /\ tx[t].id # 0
  /\ entra[t].id # tx[t].id
  /\ At(t, "orphan") => CleanupOrphans
  /\ Fail(t)

(* Any call fails, the context times out, or the operator restarts.        *)
Abort(t) ==
  /\ pc[t] # "idle"
  /\ faults < MaxFaults
  /\ faults' = faults + 1
  /\ Finish(t)
  /\ queue' = Requeue(t, "now")
  /\ UNCHANGED <<resource, azure, wish, disturbances, creations>>

Reconcile(t) ==
  \/ ReadResource(t)
  \/ LookUpApplication(t)
  \/ ProcessOrphaned(t)
  \/ RegisterFinalizer(t)
  \/ Finalize(t)
  \/ PurgePasswords(t)
  \/ PurgeCertificates(t)
  \/ RemoveFinalizer(t)
  \/ ValidateCredentials(t)
  \/ NothingToDo(t)
  \/ RegisterApplication(t)
  \/ RegisterServicePrincipal(t)
  \/ SetIdentifierUris(t)
  \/ UpdateApplication(t)
  \/ ProcessApplication(t)
  \/ AddCredentials(t)
  \/ CreateOrUpdateSecret(t)
  \/ UpdateStatus(t)
  \/ UpdateAnnotations(t)
  \/ ApplicationGone(t)

Next ==
  \/ Environment
  \/ \E t \in Tenant : Reconcile(t) \/ RequeueAfter(t) \/ Abort(t)

Spec == Init /\ [][Next]_vars

(* The work queue hands out what is in it, and timers run out. *)
FairSpec ==
  /\ Spec
  /\ \A t \in Tenant : WF_vars(Reconcile(t)) /\ WF_vars(RequeueAfter(t))

----------------------------------------------------------------------------
(* Properties. *)

Step == {"idle", "lookup", "orphan", "register", "finalize", "purge",
         "unregister", "validate", "create", "principal", "uris", "update",
         "process", "credentials", "secret", "status", "annotations"}

ApplicationType ==
  [id : Nat, sp : BOOLEAN, uris : BOOLEAN, app : Nat, config : Nat,
   creds : SUBSET Credential]

SecretType == [tenant : Tenant \cup {NoTenant}, id : Nat]

TxType ==
  [spec : SpecType, deleting : BOOLEAN, finalizer : BOOLEAN,
   preserve : BOOLEAN, changed : BOOLEAN, secret : SecretType,
   valid : BOOLEAN, id : Nat]

(* Every variable is well typed; no identifier names an application that   *)
(* was never registered, and a resource that is gone leaves no trace.      *)
TypeOK ==
  /\ exists \in BOOLEAN
  /\ deleting \in BOOLEAN
  /\ finalizer \in BOOLEAN
  /\ spec \in SpecType
  /\ preserve \in BOOLEAN
  /\ status \in [spec : SpecType, tenant : Tenant \cup {NoTenant}]
  /\ secret \in SecretType
  /\ entra \in [Tenant -> ApplicationType]
  /\ born \in [Tenant -> Nat]
  /\ queue \in [Tenant -> {"empty", "later", "now"}]
  /\ pc \in [Tenant -> Step]
  /\ tx \in [Tenant -> TxType]
  /\ wish \in Wish
  /\ \A t \in Tenant : entra[t].id <= born[t] /\ tx[t].id <= born[t]
  /\ deleting => exists /\ finalizer
  /\ ~exists => ~preserve /\ secret = NoSecret /\ status = NoStatus

(* docs/lifecycle.md: "The associated application is deleted from Entra ID *)
(* whenever the related Kubernetes resource is deleted", unless the user   *)
(* asked for it to be preserved (finalizer.go).                            *)
NothingLeft ==
  ~exists /\ wish = "delete" => \A t \in Tenant : entra[t].id = 0

(* An application whose resource is gone has no certificate left, and no   *)
(* password but one whose removal Entra ID refused, which the code ignores *)
(* (finalizer.go, PurgeCredentials; remove in passwordcredential.go).      *)
OnlyRefusedLeft ==
  ~exists => \A t \in Tenant : entra[t].creds \subseteq {"refused"}

(* docs/lifecycle.md: "One can prevent deletion of the resource in Entra   *)
(* ID by applying the annotation": the operator does not delete it then,   *)
(* whatever fails and is repeated, unless the annotation has come after    *)
(* the pass that deletes it has read the deleted resource (finalizer.go).  *)
PreservedKept ==
  [][\A t \in Tenant :
       entra[t].id # 0 /\ entra'[t].id = 0 /\ disturbances' = disturbances =>
         wish # "keep"]_vars

Configured(t) ==
  /\ entra[t].id # 0
  /\ entra[t].sp
  /\ entra[t].uris
  /\ entra[t].app = spec.rev
  /\ entra[t].config = spec.rev
  /\ Fresh \subseteq entra[t].creds
  /\ secret = [tenant |-> t, id |-> entra[t].id]

(* Whatever fails on the way, a resource's application is there in the     *)
(* end, as its spec wants it, with the credentials in the Secret           *)
(* (Reconcile; create, update and notModified in azure.go).                *)
EventuallyConfigured ==
  <>[](exists /\ ~deleting =>
         \A t \in Tenant : ~NotAddressedTo(t, spec) => Configured(t))

(* docs/lifecycle.md: the finalizer "will be processed whenever the        *)
(* resource is deleted"; it does not keep the resource for ever.           *)
EventuallyGone == deleting ~> ~exists

(* With CleanupOrphans, no tenant keeps the application of a resource that *)
(* is addressed to another one (ProcessOrphaned, azure.go).                *)
OrphansCleanedUp ==
  <>[](exists => \A t \in Tenant :
                   NotAddressedTo(t, spec) => entra[t].id = 0)

(* The promise to the user, for one tenant: a resource is held by its      *)
(* finalizer before its application exists, and let go when nothing is     *)
(* left but what its user asked to preserve (Reconcile; finalizer.go).     *)
Custodian == INSTANCE Custody WITH
  resource <- IF ~exists THEN "none"
              ELSE IF deleting THEN "ending"
              ELSE IF finalizer THEN "held" ELSE "free",
  keep <- (wish = "keep"),
  application <- (\E t \in Tenant : entra[t].id # 0),
  credentials <- UNION {entra[t].creds : t \in Tenant}

ImplementsCustody == Custodian!Spec
=============================================================================
