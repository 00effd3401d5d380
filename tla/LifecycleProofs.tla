--------------------------- MODULE LifecycleProofs ---------------------------
(***************************************************************************)
(* Proofs about module Lifecycle: type correctness; what deletion leaves   *)
(* behind in any tenant, when every resource is addressed to one operator  *)
(* and stays with it; and, for one tenant, that it implements Custody.     *)
(***************************************************************************)
EXTENDS Lifecycle, TLAPS

(* Types. *)

LEMMA ConstantsInTypes ==
  /\ NoSpec \in SpecType
  /\ NoStatus \in [spec : SpecType, tenant : Tenant \cup {NoTenant}]
  /\ NoSecret \in SecretType
  /\ NoApplication \in ApplicationType
  /\ NoTx \in TxType
  /\ NoApplication.id = 0
  /\ NoTx.id = 0
  BY DEF NoSpec, NoStatus, NoSecret, NoApplication, NoTx, SpecType, SecretType,
         ApplicationType, TxType

LEMMA InitTypeOK == Init => TypeOK
<1> SUFFICES ASSUME Init PROVE TypeOK
  OBVIOUS
<1>1. /\ entra \in [Tenant -> ApplicationType]
      /\ tx \in [Tenant -> TxType]
      /\ born \in [Tenant -> Nat]
      /\ \A t \in Tenant : entra[t].id <= born[t] /\ tx[t].id <= born[t]
  BY ConstantsInTypes DEF Init
<1>2. /\ pc \in [Tenant -> Step]
      /\ queue \in [Tenant -> {"empty", "later", "now"}]
      /\ wish \in Wish
  BY DEF Init, Step, Wish
<1> QED BY <1>1, <1>2, ConstantsInTypes DEF Init, TypeOK

(* The three actions most steps end in. *)
LEMMA FinishType ==
  ASSUME TypeOK, NEW t \in Tenant, Finish(t)
  PROVE  /\ pc' \in [Tenant -> Step]
         /\ tx' \in [Tenant -> TxType]
         /\ \A u \in Tenant : tx'[u].id = tx[u].id \/ tx'[u].id = 0
  BY ConstantsInTypes DEF TypeOK, Finish, Step

LEMMA GotoType ==
  ASSUME TypeOK, NEW t \in Tenant, NEW s \in Step, Goto(t, s)
  PROVE  pc' \in [Tenant -> Step]
  BY DEF TypeOK, Goto

LEMMA QueueType ==
  ASSUME TypeOK, NEW t \in Tenant
  PROVE  /\ Everyone \in [Tenant -> {"empty", "later", "now"}]
         /\ Requeue(t, "now") \in [Tenant -> {"empty", "later", "now"}]
         /\ Requeue(t, "later") \in [Tenant -> {"empty", "later", "now"}]
  BY DEF TypeOK, Everyone, Requeue

LEMMA EnvironmentType == TypeOK /\ Environment => TypeOK'
<1> SUFFICES ASSUME TypeOK, Environment PROVE TypeOK'
  OBVIOUS
<1>q. Everyone \in [Tenant -> {"empty", "later", "now"}]
  BY DEF Everyone
<1> USE ConstantsInTypes, <1>q
<1>1. CASE CreateResource
  BY <1>1 DEF CreateResource, TypeOK, SpecType, Wish, azure, passes
<1>2. CASE DeleteResource
  BY <1>2 DEF DeleteResource, Vanish, TypeOK, azure, passes, bounds
<1>3. ASSUME NEW s \in SpecType, NEW d, Disturb(d), ChangeSpec(s)
      PROVE TypeOK'
  BY <1>3 DEF Disturb, ChangeSpec, TypeOK, azure, passes
<1>4. CASE EditSpec
  <2>1. [spec EXCEPT !.rev = @ + 1] \in SpecType
    BY DEF TypeOK, SpecType
  <2> QED BY <1>4, <2>1, <1>3 DEF EditSpec
<1>5. CASE RevertSpec
  <2>1. [spec EXCEPT !.rev = @ - 1] \in SpecType
    BY <1>5 DEF RevertSpec, TypeOK, SpecType
  <2> QED BY <1>5, <2>1, <1>3 DEF RevertSpec
<1>6. CASE MoveToTenant
  <2>1. PICK u \in Tenant \cup {NoTenant} :
          ChangeSpec([tenant |-> u, rev |-> spec.rev + 1])
    BY <1>6 DEF MoveToTenant
  <2>2. [tenant |-> u, rev |-> spec.rev + 1] \in SpecType
    BY DEF TypeOK, SpecType
  <2> QED BY <1>6, <2>1, <2>2, <1>3 DEF MoveToTenant
<1>7. ASSUME NEW v \in BOOLEAN, NEW d, Disturb(d), Annotate(v)
      PROVE TypeOK'
  BY <1>7 DEF Disturb, Annotate, TypeOK, azure, passes, Wish
<1>8. CASE AddPreserve
  BY <1>8, <1>7 DEF AddPreserve
<1>9. CASE RemovePreserve
  BY <1>9, <1>7 DEF RemovePreserve
<1>10. ASSUME NEW t \in Tenant, LoseApplication(t) PROVE TypeOK'
  BY <1>10 DEF LoseApplication, Disturb, TypeOK, resource, passes
<1> QED
  BY <1>1, <1>2, <1>4, <1>5, <1>6, <1>8, <1>9, <1>10 DEF Environment

(* An action that does no more than replace an application by another one  *)
(* with the same identifier.                                               *)
LEMMA ChangeType ==
  ASSUME TypeOK, NEW t \in Tenant, NEW from, NEW to \in Step,
         NEW a \in ApplicationType, a.id = entra[t].id,
         ChangeApplication(t, from, to, a)
  PROVE  TypeOK'
  BY GotoType DEF ChangeApplication, TypeOK, resource, bounds

LEMMA AddCredentialsStep ==
  ASSUME TypeOK, NEW t \in Tenant, AddCredentials(t)
  PROVE  \E gone \in SUBSET {"refused"}, new \in {{}, Fresh} :
           ChangeApplication(t, "credentials", "secret",
             [entra[t] EXCEPT !.creds = (entra[t].creds \ gone) \cup new])
<1>1. PICK gone \in SUBSET {"refused"} :
        ChangeApplication(t, "credentials", "secret",
          [entra[t] EXCEPT !.creds =
             (@ \ gone) \cup (IF tx[t].valid THEN {} ELSE Fresh)])
  BY DEF AddCredentials
<1>2. WITNESS gone \in SUBSET {"refused"},
              (IF tx[t].valid THEN {} ELSE Fresh) \in {{}, Fresh}
<1> QED BY <1>1 DEF TypeOK, ApplicationType

LEMMA ReconcileType ==
  ASSUME TypeOK, NEW t \in Tenant, Reconcile(t) \/ RequeueAfter(t) \/ Abort(t)
  PROVE  TypeOK'
<1> USE ConstantsInTypes
<1>1. CASE ReadResource(t)
  <2>1. CASE exists
    <3> DEFINE new == [spec |-> spec, deleting |-> deleting,
                       finalizer |-> finalizer, preserve |-> preserve,
                       changed |-> status.spec # spec,
                       secret |-> IF status.tenant = t THEN secret
                                  ELSE NoSecret,
                       valid |-> FALSE, id |-> 0]
    <3>1. new \in TxType
      BY DEF TypeOK, TxType
    <3>2. tx' = [tx EXCEPT ![t] = new] /\ pc' = [pc EXCEPT ![t] = "lookup"]
      BY <1>1, <2>1 DEF ReadResource, Goto
    <3>3. new.id = 0
      OBVIOUS
    <3> HIDE DEF new
    <3>4. wish' \in Wish
      BY <1>1 DEF ReadResource, TypeOK, Wish
    <3>5. /\ queue' \in [Tenant -> {"empty", "later", "now"}]
          /\ UNCHANGED <<resource, azure, bounds>>
      BY <1>1 DEF ReadResource, TypeOK
    <3>6. pc' \in [Tenant -> Step]
      BY <3>2 DEF TypeOK, Step
    <3>7. tx' \in [Tenant -> TxType]
      BY <3>1, <3>2 DEF TypeOK
    <3>8. \A u \in Tenant : tx'[u].id <= born[u]
      BY <3>2, <3>3 DEF TypeOK
    <3> QED
      BY <3>4, <3>5, <3>6, <3>7, <3>8 DEF TypeOK, resource, azure, bounds
  <2>2. CASE ~exists
    BY <1>1, <2>2 DEF ReadResource, TypeOK, resource, azure, bounds, passes
  <2> QED BY <2>1, <2>2
<1>2. CASE LookUpApplication(t)
  <2>1. NextStep(t) \in Step
    BY DEF NextStep, Step
  <2>2. [entra[t] EXCEPT !.sp = entra[t].id # 0] \in ApplicationType
    BY DEF TypeOK, ApplicationType
  <2>3. [tx[t] EXCEPT !.id = entra[t].id] \in TxType
    BY DEF TypeOK, TxType, ApplicationType
  <2> QED
    BY <1>2, <2>1, <2>2, <2>3, GotoType
    DEF LookUpApplication, TypeOK, resource, bounds
<1>3. CASE ProcessOrphaned(t)
  BY <1>3, FinishType
  DEF ProcessOrphaned, DeleteApplication, TypeOK, resource, bounds
<1>4. CASE RegisterFinalizer(t)
  <2>1. Finish(t) /\ queue' \in [Tenant -> {"empty", "later", "now"}]
    BY <1>4, QueueType DEF RegisterFinalizer, TypeOK
  <2>2. finalizer' \in BOOLEAN /\ (deleting' => exists' /\ finalizer')
    BY <1>4 DEF RegisterFinalizer, TypeOK
  <2> QED
    BY <1>4, <2>1, <2>2, FinishType DEF RegisterFinalizer, TypeOK, azure, bounds
<1>5. CASE Finalize(t)
  <2>1. pc' \in [Tenant -> Step]
    BY <1>5, GotoType DEF Finalize, Step
  <2>2. CASE UNCHANGED entra
    BY <1>5, <2>1, <2>2 DEF Finalize, TypeOK, resource, bounds
  <2>3. CASE entra' = [entra EXCEPT ![t] = NoApplication]
    <3>1. /\ entra' \in [Tenant -> ApplicationType]
          /\ \A u \in Tenant : entra'[u].id <= born[u]
      BY <2>3 DEF TypeOK
    <3> QED BY <1>5, <2>1, <3>1 DEF Finalize, TypeOK, resource, bounds
  <2> QED BY <1>5, <2>2, <2>3 DEF Finalize, DeleteApplication
<1>21. ASSUME NEW left \in SUBSET Credential, NEW to \in Step,
              entra' = [entra EXCEPT ![t].creds = left], Goto(t, to),
              UNCHANGED <<resource, born, queue, tx, wish>>
       PROVE  TypeOK'
  <2>1. [entra[t] EXCEPT !.creds = left] \in ApplicationType
    BY DEF TypeOK, ApplicationType
  <2>2. /\ entra' \in [Tenant -> ApplicationType]
        /\ \A u \in Tenant : entra'[u].id = entra[u].id
    BY <1>21, <2>1 DEF TypeOK, ApplicationType
  <2> QED BY <1>21, <2>2, GotoType DEF TypeOK, resource
<1>22. entra[t].creds \in SUBSET Credential /\ {"refused"} \subseteq Credential
  BY DEF TypeOK, ApplicationType, Credential
<1>23. CASE PurgePasswords(t)
  <2>1. PICK left \in SUBSET Credential :
          entra' = [entra EXCEPT ![t].creds = left]
    BY <1>22, <1>23 DEF PurgePasswords, TypeOK
  <2> QED BY <1>21, <1>23, <2>1 DEF PurgePasswords, Step
<1>24. CASE PurgeCertificates(t)
  <2>1. PICK left \in SUBSET Credential :
          entra' = [entra EXCEPT ![t].creds = left]
    BY <1>22, <1>24 DEF PurgeCertificates, TypeOK
  <2> QED BY <1>21, <1>24, <2>1 DEF PurgeCertificates, Step
<1>6. CASE RemoveFinalizer(t)
  <2>1. Finish(t) /\ queue' \in [Tenant -> {"empty", "later", "now"}]
    BY <1>6, QueueType DEF RemoveFinalizer
  <2>2. /\ pc' \in [Tenant -> Step]
        /\ tx' \in [Tenant -> TxType]
        /\ \A u \in Tenant : tx'[u].id <= born[u]
    BY <2>1, FinishType DEF TypeOK
  <2>3. /\ exists' \in BOOLEAN
        /\ deleting' = FALSE
        /\ finalizer' = FALSE
        /\ preserve' \in BOOLEAN
        /\ ~exists' => ~preserve'
    BY <1>6 DEF RemoveFinalizer, Vanish, TypeOK
  <2>4. /\ spec' \in SpecType
        /\ status' \in [spec : SpecType, tenant : Tenant \cup {NoTenant}]
        /\ secret' \in SecretType
        /\ ~exists' => secret' = NoSecret /\ status' = NoStatus
    BY <1>6 DEF RemoveFinalizer, Vanish, TypeOK
  <2> QED
    BY <1>6, <2>1, <2>2, <2>3, <2>4 DEF RemoveFinalizer, TypeOK, azure, bounds
<1>7. CASE ValidateCredentials(t)
  <2>1. [tx[t] EXCEPT !.valid = HasValidCredentials(t)] \in TxType
    BY DEF TypeOK, TxType, ApplicationType, HasValidCredentials
  <2> QED
    BY <1>7, <2>1
    DEF ValidateCredentials, Goto, TypeOK, Step, resource, azure, bounds
<1>8. CASE NothingToDo(t)
  <2>1. Finish(t) /\ queue' \in [Tenant -> {"empty", "later", "now"}]
    BY <1>8, QueueType DEF NothingToDo
  <2> QED BY <1>8, <2>1, FinishType DEF NothingToDo, TypeOK, resource, azure, bounds
<1>9. CASE RegisterApplication(t)
  <2>1. PICK n \in Nat : n = born[t] + 1
    BY DEF TypeOK
  <2>2. [NoApplication EXCEPT !.id = n, !.app = tx[t].spec.rev]
          \in ApplicationType
    BY DEF TypeOK, ApplicationType, TxType, SpecType, NoApplication
  <2>3. [tx[t] EXCEPT !.id = n] \in TxType
    BY DEF TypeOK, TxType
  <2> QED
    BY <1>9, <2>1, <2>2, <2>3, GotoType
    DEF RegisterApplication, TypeOK, Step, resource, bounds, NoApplication
<1>10. CASE RegisterServicePrincipal(t)
  <2>1. [entra[t] EXCEPT !.sp = TRUE] \in ApplicationType
    BY DEF TypeOK, ApplicationType
  <2> QED BY <1>10, <2>1, ChangeType DEF RegisterServicePrincipal, Step, TypeOK, ApplicationType
<1>11. CASE SetIdentifierUris(t)
  <2>1. [entra[t] EXCEPT !.uris = TRUE] \in ApplicationType
    BY DEF TypeOK, ApplicationType
  <2> QED BY <1>11, <2>1, ChangeType DEF SetIdentifierUris, Step, TypeOK, ApplicationType
<1>25. entra[t] \in ApplicationType /\ tx[t].spec.rev \in Nat
  BY DEF TypeOK, TxType, SpecType
<1>12. CASE UpdateApplication(t)
  <2>1. [entra[t] EXCEPT !.uris = TRUE, !.app = tx[t].spec.rev]
          \in ApplicationType
    BY <1>25 DEF ApplicationType
  <2> QED BY <1>12, <2>1, ChangeType DEF UpdateApplication, Step, TypeOK, ApplicationType
<1>13. CASE ProcessApplication(t)
  <2>1. [entra[t] EXCEPT !.config = tx[t].spec.rev] \in ApplicationType
    BY <1>25 DEF ApplicationType
  <2> QED BY <1>13, <2>1, ChangeType DEF ProcessApplication, Step, TypeOK, ApplicationType
<1>14. CASE AddCredentials(t)
  <2>1. PICK left \in SUBSET Credential :
          ChangeApplication(t, "credentials", "secret",
                            [entra[t] EXCEPT !.creds = left])
    BY <1>14, <1>22, AddCredentialsStep DEF Credential, Fresh
  <2>2. [entra[t] EXCEPT !.creds = left] \in ApplicationType
    BY DEF TypeOK, ApplicationType
  <2> QED BY <2>1, <2>2, ChangeType DEF Step, TypeOK, ApplicationType
<1>15. CASE CreateOrUpdateSecret(t)
  <2>1. secret' \in SecretType
    BY <1>15 DEF CreateOrUpdateSecret, TypeOK, SecretType, TxType
  <2> QED
    BY <1>15, <2>1, GotoType
    DEF CreateOrUpdateSecret, TypeOK, Step, azure, bounds
<1>16. CASE UpdateStatus(t)
  <2>1. status' \in [spec : SpecType, tenant : Tenant \cup {NoTenant}]
    BY <1>16 DEF UpdateStatus, TypeOK, TxType
  <2> QED
    BY <1>16, <2>1, GotoType DEF UpdateStatus, TypeOK, Step, azure, bounds
<1>17. CASE UpdateAnnotations(t)
  <2>1. Finish(t) /\ queue' \in [Tenant -> {"empty", "later", "now"}]
    BY <1>17, QueueType DEF UpdateAnnotations
  <2>2. preserve' \in BOOLEAN /\ (~exists => ~preserve')
    BY <1>17 DEF UpdateAnnotations, TypeOK
  <2> QED
    BY <1>17, <2>1, <2>2, FinishType DEF UpdateAnnotations, TypeOK, azure, bounds
<1>18. CASE ApplicationGone(t)
  <2>1. Finish(t) /\ queue' \in [Tenant -> {"empty", "later", "now"}]
    BY <1>18, QueueType DEF ApplicationGone, Fail
  <2> QED BY <1>18, <2>1, FinishType DEF ApplicationGone, Fail, TypeOK,
                                     resource, azure, bounds
<1>19. CASE RequeueAfter(t)
  BY <1>19 DEF RequeueAfter, TypeOK, resource, azure, bounds, passes
<1>20. CASE Abort(t)
  <2>1. Finish(t) /\ queue' \in [Tenant -> {"empty", "later", "now"}]
    BY <1>20, QueueType DEF Abort
  <2> QED BY <1>20, <2>1, FinishType DEF Abort, TypeOK, resource, azure, bounds
<1> QED
  BY <1>1, <1>2, <1>3, <1>4, <1>5, <1>6, <1>7, <1>8, <1>9, <1>10, <1>11, <1>12,
     <1>13, <1>14, <1>15, <1>16, <1>17, <1>18, <1>19, <1>20, <1>23, <1>24
  DEF Reconcile

(* Every reachable state is well typed, for any tenants and bounds. *)
THEOREM TypeCorrect == Spec => []TypeOK
<1>1. TypeOK /\ UNCHANGED vars => TypeOK'
  BY DEF TypeOK, vars, resource, azure, passes, bounds
<1>2. TypeOK /\ [Next]_vars => TypeOK'
  BY <1>1, EnvironmentType, ReconcileType DEF Next
<1> QED BY InitTypeOK, <1>2, PTL DEF Spec

----------------------------------------------------------------------------
(* One operator for each resource. *)

SingleTenant == \A t, u \in Tenant : t = u

(* A resource stays in its tenant, and at most one operator looks after    *)
(* those whose spec.tenant is not set.                                     *)
OneOperator ==
  \/ SingleTenant
  \/ /\ "tenant" \notin Disturbances
     /\ \A t, u \in Tenant \ RequiresTenant : t = u

(* The operator of t is the one that looks after a resource with spec s.   *)
Answers(t, s) == SingleTenant \/ ~NotAddressedTo(t, s)

(* The steps of a pass that has seen the finalizer. *)
Finalized == {"finalize", "purge", "unregister", "validate", "create",
              "principal", "uris", "update", "process", "credentials",
              "secret", "status", "annotations"}

(* What a pass has looked up is still true where it counts: an application *)
(* it has not found is not there.                                          *)
Known ==
  \A t \in Tenant :
    /\ entra[t].creds # {} => entra[t].id # 0
    /\ pc[t] = "finalize" /\ tx[t].id = 0 => entra[t].id = 0
    /\ pc[t] \in {"purge", "principal", "uris", "update", "process",
                  "credentials"} => tx[t].id # 0

(* A pass of the operator that looks after the resource has seen the       *)
(* finalizer.                                                              *)
Holding(t) == tx[t].finalizer /\ Answers(t, tx[t].spec)

(* Then the resource does not go away meanwhile.                           *)
Held ==
  \A t \in Tenant :
    /\ Holding(t) => exists /\ finalizer /\ Answers(t, spec)
    /\ pc[t] \in Finalized => Holding(t)
    /\ Holding(t) /\ tx[t].deleting => deleting
    /\ pc[t] \in {"finalize", "purge", "unregister"} => tx[t].deleting

(* The application has credentials that nobody has tried to remove. *)
Usable(t) == entra[t].creds \cap Fresh # {}

(* The finalizer is there before the credentials, and as long as they are; *)
(* passwords are purged first, then certificates.                          *)
Equipped ==
  \A t \in Tenant :
    /\ Usable(t) => exists /\ finalizer /\ Answers(t, spec)
    /\ pc[t] = "purge" => tx[t].preserve /\ "password" \notin entra[t].creds
    /\ pc[t] = "unregister" => ~Usable(t)

HInv == TypeOK /\ Known /\ Held /\ Equipped

(* And as long as an application that nobody wants to keep. *)
Owned ==
  \A t \in Tenant :
    /\ entra[t].id # 0 /\ wish = "delete" => exists /\ finalizer /\ Answers(t, spec)
    /\ pc[t] = "unregister" /\ wish = "delete" => entra[t].id = 0

(* The annotation is there only if the user has wished for it. *)
Wished ==
  /\ preserve => wish # "delete"
  /\ \A t \in Tenant : tx[t].preserve => wish # "delete"

(* And it is there if the user wishes for it. *)
Granted ==
  /\ wish = "keep" /\ exists => preserve
  /\ \A t \in Tenant :
       Holding(t) /\ tx[t].deleting /\ wish = "keep" => tx[t].preserve

WInv == Owned /\ Wished /\ Granted

IInv == HInv /\ WInv

LEMMA InitIInv == Init => IInv
<1> SUFFICES ASSUME Init PROVE IInv
  OBVIOUS
<1>1. \A t \in Tenant : /\ pc[t] = "idle"
                        /\ ~tx[t].finalizer
                        /\ ~tx[t].deleting
                        /\ ~tx[t].preserve
                        /\ entra[t].id = 0
                        /\ entra[t].creds = {}
  BY DEF Init, NoTx, NoApplication
<1>2. Known /\ Held /\ Equipped
  BY <1>1 DEF Init, Known, Held, Holding, Equipped, Usable, Finalized
<1>3. Owned /\ Wished /\ Granted
  BY <1>1 DEF Init, Owned, Wished, Granted, Holding
<1> QED BY <1>2, <1>3, InitTypeOK DEF IInv, HInv, WInv

LEMMA Alone ==
  ASSUME OneOperator, NEW s \in SpecType, NEW t \in Tenant, NEW u \in Tenant,
         Answers(t, s), Answers(u, s)
  PROVE  t = u
<1>1. CASE SingleTenant
  BY <1>1 DEF SingleTenant
<1>2. CASE ~SingleTenant
  BY <1>2 DEF OneOperator, Answers, NotAddressedTo
<1> QED BY <1>1, <1>2

(* While a pass holds the resource, there is neither another such pass nor *)
(* anything in another tenant.                                             *)
LEMMA HoldingAlone ==
  ASSUME HInv, OneOperator, NEW t \in Tenant, Holding(t),
         NEW u \in Tenant, u # t
  PROVE  /\ ~Holding(u)
         /\ pc[u] \notin Finalized
         /\ ~Usable(u)
         /\ Owned /\ wish = "delete" => entra[u].id = 0
<1>1. Answers(t, spec) /\ spec \in SpecType
  BY DEF HInv, Held, TypeOK
<1>2. ~Answers(u, spec)
  BY <1>1, Alone
<1> QED BY <1>2 DEF HInv, Held, Equipped, Owned

LEMMA KnownInductive ==
  ASSUME TypeOK, TypeOK', Known, Next
  PROVE  Known'
<1>1. CASE Environment
  <2>1. UNCHANGED <<pc, tx>>
    BY <1>1
    DEF Environment, CreateResource, DeleteResource, EditSpec, RevertSpec,
        MoveToTenant, AddPreserve, RemovePreserve, LoseApplication, Disturb,
        passes
  <2>2. \A u \in Tenant : \/ entra'[u] = entra[u]
                          \/ entra'[u] = NoApplication
    BY <1>1
    DEF Environment, CreateResource, DeleteResource, EditSpec, RevertSpec,
        MoveToTenant, AddPreserve, RemovePreserve, LoseApplication, Disturb,
        ChangeSpec, Annotate, azure, TypeOK
  <2> QED BY <2>1, <2>2 DEF Known, NoApplication
<1>2. ASSUME NEW t \in Tenant,
             entra' = entra \/ entra' = [entra EXCEPT ![t] = NoApplication],
             \/ UNCHANGED <<pc, tx>>
             \/ Finish(t)
             \/ /\ UNCHANGED tx
                /\ \E s \in {"unregister", "status", "annotations"} : Goto(t, s)
      PROVE  Known'
  BY <1>2 DEF Known, TypeOK, Finish, Goto, NoApplication
<1>3. ASSUME NEW t \in Tenant, NEW a, NEW from,
             NEW to \in {"uris", "process", "credentials", "secret"},
             tx[t].id # 0, a.id = entra[t].id,
             ChangeApplication(t, from, to, a)
      PROVE  Known'
  BY <1>3 DEF ChangeApplication, Known, TypeOK, Goto
<1>4. ASSUME NEW t \in Tenant, Reconcile(t) PROVE Known'
  <2>1. CASE ReadResource(t)
    BY <1>2, <2>1
    DEF ReadResource, Known, TypeOK, Goto, azure, passes
  <2>2. CASE LookUpApplication(t)
    <3>1. NextStep(t) \in {"orphan", "register", "finalize", "validate"}
      BY DEF NextStep
    <3> QED
      BY <2>2, <3>1
      DEF LookUpApplication, Known, TypeOK, Goto, TxType, ApplicationType
  <2>3. CASE ProcessOrphaned(t) \/ RegisterFinalizer(t) \/ RemoveFinalizer(t)
    BY <1>2, <2>3
    DEF ProcessOrphaned, DeleteApplication, RegisterFinalizer,
        RemoveFinalizer, azure
  <2>4. CASE Finalize(t)
    BY <1>2, <2>4 DEF Finalize, DeleteApplication
  <2>14. CASE PurgePasswords(t)
    <3>1. /\ UNCHANGED tx /\ tx[t].id # 0 /\ entra[t].id = tx[t].id
          /\ pc' = [pc EXCEPT ![t] = "purge"]
          /\ entra'[t].id = entra[t].id
          /\ \A u \in Tenant \ {t} : entra'[u] = entra[u]
      BY <2>14 DEF PurgePasswords, Goto, TypeOK, ApplicationType
    <3> QED BY <3>1 DEF Known, TypeOK
  <2>15. CASE PurgeCertificates(t)
    <3>1. /\ UNCHANGED tx
          /\ pc[t] = "purge" /\ pc' = [pc EXCEPT ![t] = "unregister"]
          /\ entra'[t].id = entra[t].id /\ entra[t].id = tx[t].id
          /\ \A u \in Tenant \ {t} : entra'[u] = entra[u]
      BY <2>15 DEF PurgeCertificates, At, Goto, TypeOK, ApplicationType
    <3> QED BY <3>1 DEF Known, TypeOK
  <2>5. CASE ValidateCredentials(t)
    BY <2>5 DEF ValidateCredentials, Known, TypeOK, Goto, TxType, azure
  <2>6. CASE NothingToDo(t) \/ UpdateAnnotations(t) \/ ApplicationGone(t)
    BY <1>2, <2>6
    DEF NothingToDo, UpdateAnnotations, ApplicationGone, Fail, azure
  <2>7. CASE RegisterApplication(t)
    BY <2>7
    DEF RegisterApplication, Known, TypeOK, Goto, TxType, NoApplication
  <2>8. CASE RegisterServicePrincipal(t)
    <3>1. tx[t].id # 0
      BY <2>8 DEF RegisterServicePrincipal, ChangeApplication, At, Known
    <3>2. [entra[t] EXCEPT !.sp = TRUE].id = entra[t].id
      BY DEF TypeOK, ApplicationType
    <3> QED BY <1>3, <2>8, <3>1, <3>2 DEF RegisterServicePrincipal
  <2>9. CASE SetIdentifierUris(t)
    <3>1. tx[t].id # 0
      BY <2>9 DEF SetIdentifierUris, ChangeApplication, At, Known
    <3>2. [entra[t] EXCEPT !.uris = TRUE].id = entra[t].id
      BY DEF TypeOK, ApplicationType
    <3> QED BY <1>3, <2>9, <3>1, <3>2 DEF SetIdentifierUris
  <2>10. CASE UpdateApplication(t)
    <3>1. tx[t].id # 0
      BY <2>10 DEF UpdateApplication, ChangeApplication, At, Known
    <3>2. [entra[t] EXCEPT !.uris = TRUE, !.app = tx[t].spec.rev].id = entra[t].id
      BY DEF TypeOK, ApplicationType
    <3> QED BY <1>3, <2>10, <3>1, <3>2 DEF UpdateApplication
  <2>11. CASE ProcessApplication(t)
    <3>1. tx[t].id # 0
      BY <2>11 DEF ProcessApplication, ChangeApplication, At, Known
    <3>2. [entra[t] EXCEPT !.config = tx[t].spec.rev].id = entra[t].id
      BY DEF TypeOK, ApplicationType
    <3> QED BY <1>3, <2>11, <3>1, <3>2 DEF ProcessApplication
  <2>12. CASE AddCredentials(t)
    <3>1. tx[t].id # 0
      BY <2>12 DEF AddCredentials, ChangeApplication, At, Known
    <3>2. PICK left : ChangeApplication(t, "credentials", "secret",
                                        [entra[t] EXCEPT !.creds = left])
      BY <2>12, AddCredentialsStep
    <3>3. [entra[t] EXCEPT !.creds = left].id = entra[t].id
      BY DEF TypeOK, ApplicationType
    <3> QED BY <1>3, <3>1, <3>2, <3>3
  <2>13. CASE CreateOrUpdateSecret(t) \/ UpdateStatus(t)
    BY <1>2, <2>13 DEF CreateOrUpdateSecret, UpdateStatus, azure
  <2> QED
    BY <1>4, <2>1, <2>2, <2>3, <2>4, <2>5, <2>6, <2>7, <2>8, <2>9, <2>10,
       <2>11, <2>12, <2>13, <2>14, <2>15 DEF Reconcile
<1>5. ASSUME NEW t \in Tenant, RequeueAfter(t) \/ Abort(t) PROVE Known'
  BY <1>2, <1>5 DEF RequeueAfter, Abort, azure, passes
<1> QED BY <1>1, <1>4, <1>5 DEF Next

(* What the passes know is not lost by what users do. *)
LEMMA EnvironmentSteps ==
  ASSUME TypeOK, OneOperator, Environment
  PROVE  /\ UNCHANGED <<pc, tx>>
         /\ \A u \in Tenant : \/ entra'[u] = entra[u]
                              \/ entra'[u].id = 0 /\ entra'[u].creds = {}
         /\ \/ CreateResource
            \/ DeleteResource
            \/ /\ UNCHANGED <<exists, deleting, finalizer>>
               /\ \A u \in Tenant : Answers(u, spec') = Answers(u, spec)
<1>1. CASE CreateResource \/ DeleteResource
  BY <1>1 DEF CreateResource, DeleteResource, azure, passes
<1>2. CASE EditSpec \/ RevertSpec
  <2>1. /\ UNCHANGED <<pc, tx, entra, exists, deleting, finalizer>>
        /\ spec'.tenant = spec.tenant
    BY <1>2 DEF EditSpec, RevertSpec, ChangeSpec, Disturb, azure, passes, TypeOK, SpecType
  <2> QED BY <2>1 DEF Answers, NotAddressedTo
<1>3. CASE MoveToTenant
  <2>1. SingleTenant
    BY <1>3 DEF MoveToTenant, Disturb, OneOperator
  <2> QED
    BY <1>3, <2>1 DEF MoveToTenant, ChangeSpec, Disturb, azure, passes, Answers
<1>4. CASE AddPreserve \/ RemovePreserve
  BY <1>4 DEF AddPreserve, RemovePreserve, Annotate, Disturb, azure, passes
<1>5. ASSUME NEW t \in Tenant, LoseApplication(t)
      PROVE  /\ UNCHANGED <<pc, tx, exists, deleting, finalizer, spec>>
             /\ \A u \in Tenant : \/ entra'[u] = entra[u]
                                  \/ entra'[u].id = 0 /\ entra'[u].creds = {}
  BY <1>5 DEF LoseApplication, Disturb, resource, passes, TypeOK, NoApplication
<1> QED BY <1>1, <1>2, <1>3, <1>4, <1>5 DEF Environment

LEMMA EnvironmentHInv ==
  ASSUME HInv, TypeOK', Known', OneOperator, Environment
  PROVE  HInv'
<1> USE DEF HInv
<1>1. /\ UNCHANGED <<pc, tx>>
      /\ \A u \in Tenant : entra'[u].creds \subseteq entra[u].creds
      /\ \A u \in Tenant : Usable(u)' => Usable(u)
  BY EnvironmentSteps DEF TypeOK, Usable
<1>2. CASE CreateResource
  <2>1. \A t \in Tenant : ~Holding(t) /\ pc[t] \notin Finalized /\ ~Usable(t)
    BY <1>2 DEF CreateResource, Held, Equipped
  <2> QED BY <1>1, <2>1 DEF Held, Holding, Equipped, Finalized
<1>3. CASE DeleteResource
  <2>1. CASE finalizer
    <3>1. UNCHANGED <<exists, finalizer, spec>> /\ deleting'
      BY <1>3, <2>1 DEF DeleteResource
    <3> QED BY <1>1, <3>1 DEF Held, Holding, Equipped
  <2>2. CASE ~finalizer
    <3>1. \A t \in Tenant : ~Holding(t) /\ pc[t] \notin Finalized /\ ~Usable(t)
      BY <2>2 DEF Held, Equipped
    <3> QED BY <1>1, <3>1 DEF Held, Holding, Equipped, Finalized
  <2> QED BY <2>1, <2>2
<1>4. CASE /\ UNCHANGED <<exists, deleting, finalizer>>
           /\ \A u \in Tenant : Answers(u, spec') = Answers(u, spec)
  BY <1>1, <1>4 DEF Held, Holding, Equipped
<1> QED BY <1>2, <1>3, <1>4, EnvironmentSteps

LEMMA EnvironmentWInv ==
  ASSUME HInv, WInv, OneOperator, "unpreserve" \notin Disturbances, Environment
  PROVE  WInv'
<1> USE DEF HInv, WInv
<1>1. /\ UNCHANGED <<pc, tx>>
      /\ \A u \in Tenant : entra'[u].id # 0 => entra[u].id # 0
  BY EnvironmentSteps DEF TypeOK
<1>2. CASE CreateResource
  <2>1. \A t \in Tenant : /\ ~Holding(t)
                          /\ pc[t] \notin Finalized
                          /\ wish = "delete" => entra[t].id = 0
    BY <1>2 DEF CreateResource, Held, Owned
  <2>2. /\ wish' = IF wish = "keep" THEN "either" ELSE wish
        /\ preserve' = preserve /\ ~preserve
        /\ wish \in Wish
    BY <1>2 DEF CreateResource, TypeOK
  <2>3. Owned' /\ Wished'
    BY <1>1, <2>1, <2>2 DEF Owned, Wished, Finalized
  <2>4. Granted'
    BY <2>2 DEF Granted, Wish
  <2> QED BY <2>3, <2>4
<1>3. CASE DeleteResource
  <2>1. CASE finalizer
    <3>1. UNCHANGED <<exists, finalizer, spec, preserve, wish>>
      BY <1>3, <2>1 DEF DeleteResource
    <3> QED BY <1>1, <3>1 DEF Owned, Wished, Granted, Holding
  <2>2. CASE ~finalizer
    <3>1. \A t \in Tenant : /\ ~Holding(t)
                            /\ pc[t] \notin Finalized
                            /\ wish = "delete" => entra[t].id = 0
      BY <2>2 DEF Held, Owned
    <3>2. wish' = wish /\ ~exists' /\ ~preserve'
      BY <1>3, <2>2 DEF DeleteResource, Vanish
    <3>3. Owned' /\ Wished'
      BY <1>1, <3>1, <3>2 DEF Owned, Wished, Finalized
    <3>4. Granted'
      BY <1>1, <3>1, <3>2 DEF Granted, Holding
    <3> QED BY <3>3, <3>4
  <2> QED BY <2>1, <2>2
<1>4. CASE /\ ~CreateResource /\ ~DeleteResource /\ ~AddPreserve
           /\ UNCHANGED <<exists, deleting, finalizer>>
           /\ \A u \in Tenant : Answers(u, spec') = Answers(u, spec)
  <2>1. UNCHANGED <<preserve, wish>>
    BY <1>4
    DEF Environment, EditSpec, RevertSpec, MoveToTenant, ChangeSpec, Disturb,
        RemovePreserve, LoseApplication, resource
  <2> QED BY <1>1, <1>4, <2>1 DEF Owned, Wished, Granted, Holding
<1>5. CASE AddPreserve
  <2>1. /\ UNCHANGED <<exists, finalizer, spec>>
        /\ preserve' = TRUE /\ wish' \in {"keep", "either"}
    BY <1>5 DEF AddPreserve, Annotate
  <2>2. wish' = "keep" => \A t \in Tenant : tx[t].deleting => tx[t].preserve
    BY <1>5 DEF AddPreserve, Annotate, Overlooked, TypeOK, TxType
  <2> QED BY <1>1, <2>1, <2>2 DEF Owned, Wished, Granted, Holding
<1> QED BY <1>2, <1>3, <1>4, <1>5, EnvironmentSteps

(* What one pass does is no concern of the others. *)
Alike(t) ==
  /\ \A u \in Tenant \ {t} : pc'[u] = pc[u] /\ tx'[u] = tx[u]
  /\ \A u \in Tenant \ {t} : entra'[u] = entra[u]

(* A pass that has seen the finalizer goes on: whatever it does to the     *)
(* application, the finalizer is there.                                    *)
GoesOn(t) ==
  /\ pc[t] \in Finalized
  /\ pc'[t] \in Finalized \ {"finalize", "purge", "unregister"}
  /\ tx'[t].finalizer = tx[t].finalizer
  /\ tx'[t].deleting = tx[t].deleting
  /\ tx'[t].preserve = tx[t].preserve
  /\ tx'[t].spec = tx[t].spec
  /\ UNCHANGED <<exists, deleting, finalizer, spec, preserve, wish>>

(* A pass ends, and leaves the application alone or without credentials.   *)
Ends(t) ==
  /\ pc'[t] = "idle"
  /\ ~tx'[t].finalizer /\ ~tx'[t].deleting /\ ~tx'[t].preserve
  /\ UNCHANGED <<exists, deleting, spec, wish>>
  /\ finalizer => finalizer'
  /\ entra'[t] = entra[t] \/ (entra'[t].id = 0 /\ entra'[t].creds = {})
  /\ preserve' => preserve \/ (pc[t] \in Finalized /\ tx[t].preserve)
  /\ preserve => preserve'

(* The annotation has been read, by every pass that it matters to. *)
Heeds ==
  /\ wish = "either" /\ wish' = "keep"
  /\ preserve
  /\ \A u \in Tenant : tx[u].deleting => tx[u].preserve

(* The steps of a pass before it goes on to Entra ID. *)
Looks(t) ==
  /\ pc'[t] \in {"lookup", "orphan", "register", "finalize", "validate"}
  /\ UNCHANGED <<exists, deleting, finalizer, spec, preserve>>
  /\ wish' = wish \/ Heeds
  /\ entra'[t].id = entra[t].id /\ entra'[t].creds = entra[t].creds
  /\ \/ ReadResource(t) /\ exists
     \/ LookUpApplication(t)

(* What a pass has to do with the resource. *)
LEMMA FinishEnds ==
  ASSUME TypeOK, NEW t \in Tenant, Finish(t)
  PROVE  /\ pc'[t] = "idle"
         /\ ~tx'[t].finalizer /\ ~tx'[t].deleting /\ ~tx'[t].preserve
         /\ \A u \in Tenant \ {t} : pc'[u] = pc[u] /\ tx'[u] = tx[u]
  BY DEF TypeOK, Finish, NoTx

LEMMA ReconcileSteps ==
  ASSUME TypeOK, NEW t \in Tenant, Reconcile(t) \/ RequeueAfter(t) \/ Abort(t)
  PROVE  /\ Alike(t)
         /\ \/ GoesOn(t)
            \/ Ends(t)
            \/ Looks(t)
            \/ Finalize(t) \/ PurgePasswords(t) \/ PurgeCertificates(t)
            \/ RemoveFinalizer(t)
            \/ UNCHANGED <<resource, entra, passes, wish>>
<1>1. CASE ReadResource(t)
  <2>1. CASE exists
    <3>1. wish' = wish \/ Heeds
      BY <1>1 DEF ReadResource, Heeds, Overlooked, TypeOK, TxType
    <3> QED
      BY <1>1, <2>1, <3>1
      DEF ReadResource, Looks, Alike, resource, azure, Goto, TypeOK
  <2>2. CASE ~exists
    BY <1>1, <2>2 DEF ReadResource, Alike, azure, passes, TypeOK
  <2> QED BY <2>1, <2>2
<1>2. CASE LookUpApplication(t)
  <2>1. NextStep(t) \in {"orphan", "register", "finalize", "validate"}
    BY DEF NextStep
  <2> QED
    BY <1>2, <2>1
    DEF LookUpApplication, Looks, Alike, resource, Goto, TypeOK, ApplicationType
<1>3. CASE \/ ProcessOrphaned(t) \/ RegisterFinalizer(t) \/ NothingToDo(t)
           \/ UpdateAnnotations(t) \/ ApplicationGone(t) \/ Abort(t)
  <2>1. Finish(t) /\ UNCHANGED <<exists, deleting, spec, wish>>
    BY <1>3
    DEF ProcessOrphaned, RegisterFinalizer, NothingToDo, UpdateAnnotations,
        ApplicationGone, Fail, Abort, resource
  <2>2. \/ entra' = entra
        \/ entra' = [entra EXCEPT ![t] = NoApplication]
    BY <1>3
    DEF ProcessOrphaned, DeleteApplication, RegisterFinalizer, NothingToDo,
        UpdateAnnotations, ApplicationGone, Fail, Abort, azure
  <2>3. /\ finalizer => finalizer'
        /\ preserve => preserve'
        /\ preserve' => preserve \/ (pc[t] \in Finalized /\ tx[t].preserve)
    BY <1>3
    DEF ProcessOrphaned, RegisterFinalizer, NothingToDo, UpdateAnnotations, At,
        ApplicationGone, Fail, Abort, resource, Finalized
  <2>4. /\ \A u \in Tenant \ {t} : entra'[u] = entra[u]
        /\ entra'[t] = entra[t] \/ (entra'[t].id = 0 /\ entra'[t].creds = {})
    BY <2>2 DEF TypeOK, NoApplication
  <2> QED BY <2>1, <2>3, <2>4, FinishEnds DEF Ends, Alike
<1>4. CASE Finalize(t) \/ PurgePasswords(t) \/ PurgeCertificates(t)
  BY <1>4
  DEF Finalize, DeleteApplication, PurgePasswords, PurgeCertificates, Goto,
      Alike, TypeOK
<1>5. CASE RemoveFinalizer(t)
  BY <1>5, FinishEnds DEF RemoveFinalizer, Alike, azure
<1>6. CASE ValidateCredentials(t)
  BY <1>6
  DEF ValidateCredentials, GoesOn, Alike, resource, azure, At, Goto, TypeOK,
      TxType, Finalized
<1>7. CASE RegisterApplication(t)
  BY <1>7
  DEF RegisterApplication, GoesOn, Alike, resource, At, Goto, TypeOK, TxType,
      Finalized
<1>8. ASSUME NEW from \in Finalized, NEW a,
             NEW to \in Finalized \ {"finalize", "purge", "unregister"},
             ChangeApplication(t, from, to, a)
      PROVE  GoesOn(t) /\ Alike(t)
  BY <1>8 DEF ChangeApplication, GoesOn, Alike, resource, At, Goto, TypeOK
<1>9. CASE RegisterServicePrincipal(t)
  BY <1>8, <1>9 DEF RegisterServicePrincipal, Finalized
<1>10. CASE SetIdentifierUris(t)
  BY <1>8, <1>10 DEF SetIdentifierUris, Finalized
<1>11. CASE UpdateApplication(t)
  BY <1>8, <1>11 DEF UpdateApplication, Finalized
<1>12. CASE ProcessApplication(t)
  BY <1>8, <1>12 DEF ProcessApplication, Finalized
<1>13. CASE AddCredentials(t)
  BY <1>8, <1>13, AddCredentialsStep DEF Finalized
<1>14. CASE CreateOrUpdateSecret(t) \/ UpdateStatus(t)
  BY <1>14
  DEF CreateOrUpdateSecret, UpdateStatus, GoesOn, Alike, azure, At, Goto,
      TypeOK, Finalized
<1>15. CASE RequeueAfter(t)
  BY <1>15 DEF RequeueAfter, Alike, azure, passes
<1> QED
  BY <1>1, <1>2, <1>3, <1>4, <1>5, <1>6, <1>7, <1>9, <1>10, <1>11, <1>12,
     <1>13, <1>14, <1>15 DEF Reconcile

(* A pass holds what it has read, and goes on only if it holds it. *)
LEMMA LooksSteps ==
  ASSUME TypeOK, NEW t \in Tenant, Looks(t)
  PROVE  /\ Holding(t)' => \/ /\ exists /\ finalizer /\ Answers(t, spec)
                              /\ tx'[t].deleting = deleting
                              /\ tx'[t].preserve = preserve
                           \/ /\ Holding(t)
                              /\ tx'[t].deleting = tx[t].deleting
                              /\ tx'[t].preserve = tx[t].preserve
         /\ pc'[t] \in Finalized => Holding(t)'
         /\ pc'[t] = "finalize" => tx'[t].deleting
         /\ pc'[t] \notin {"purge", "unregister"}
         /\ tx'[t].preserve => preserve \/ tx[t].preserve
<1>1. CASE ReadResource(t) /\ exists
  <2>1. /\ tx'[t].spec = spec
        /\ tx'[t].finalizer = finalizer
        /\ tx'[t].deleting = deleting
        /\ tx'[t].preserve = preserve
        /\ pc'[t] = "lookup"
    BY <1>1 DEF ReadResource, TypeOK, Goto
  <2> QED BY <1>1, <2>1 DEF Holding, Finalized
<1>2. CASE LookUpApplication(t)
  <2>1. /\ tx'[t].spec = tx[t].spec
        /\ tx'[t].finalizer = tx[t].finalizer
        /\ tx'[t].deleting = tx[t].deleting
        /\ tx'[t].preserve = tx[t].preserve
        /\ pc'[t] = NextStep(t)
    BY <1>2 DEF LookUpApplication, TypeOK, TxType, Goto
  <2>2. /\ NextStep(t) \in Finalized =>
             tx[t].finalizer /\ ~NotAddressedTo(t, tx[t].spec)
        /\ NextStep(t) = "finalize" => tx[t].deleting
        /\ NextStep(t) \notin {"purge", "unregister"}
    BY DEF NextStep, Finalized
  <2> QED BY <2>1, <2>2 DEF Holding, Answers
<1> QED BY <1>1, <1>2 DEF Looks

(* The application is gone. *)
LEMMA FinalizeSteps ==
  ASSUME HInv, NEW t \in Tenant, Finalize(t)
  PROVE  /\ UNCHANGED <<exists, deleting, finalizer, spec, preserve, wish, tx>>
         /\ pc[t] = "finalize"
         /\ pc'[t] = "unregister"
         /\ Holding(t) /\ tx[t].deleting
         /\ entra'[t].creds = {}
         /\ entra'[t].id = 0
<1>1. /\ UNCHANGED <<exists, deleting, finalizer, spec, preserve, wish, tx>>
      /\ pc[t] = "finalize"
      /\ pc'[t] = "unregister"
  BY DEF Finalize, resource, Goto, At, HInv, TypeOK
<1>2. Holding(t) /\ tx[t].deleting
  BY <1>1 DEF HInv, Held, Finalized
<1>3. CASE tx[t].id = 0 /\ UNCHANGED entra
  BY <1>1, <1>2, <1>3 DEF HInv, Known
<1>4. CASE DeleteApplication(t)
  BY <1>1, <1>2, <1>4 DEF DeleteApplication, HInv, TypeOK, NoApplication
<1> QED BY <1>3, <1>4 DEF Finalize

(* Or it is preserved, and has no passwords but refused ones ... *)
LEMMA PurgePasswordsSteps ==
  ASSUME HInv, NEW t \in Tenant, PurgePasswords(t)
  PROVE  /\ UNCHANGED <<exists, deleting, finalizer, spec, preserve, wish, tx>>
         /\ pc[t] = "finalize"
         /\ pc'[t] = "purge"
         /\ Holding(t) /\ tx[t].deleting /\ tx[t].preserve
         /\ "password" \notin entra'[t].creds
         /\ Usable(t)' => Usable(t)
         /\ entra'[t].id = entra[t].id
<1>1. /\ UNCHANGED <<exists, deleting, finalizer, spec, preserve, wish, tx>>
      /\ pc[t] = "finalize"
      /\ pc'[t] = "purge"
      /\ tx[t].preserve
  BY DEF PurgePasswords, resource, Goto, At, HInv, TypeOK
<1>2. Holding(t) /\ tx[t].deleting
  BY <1>1 DEF HInv, Held, Finalized
<1>3. /\ "password" \notin entra'[t].creds
      /\ Usable(t)' => Usable(t)
      /\ entra'[t].id = entra[t].id
  BY DEF PurgePasswords, Usable, Fresh, HInv, TypeOK, ApplicationType
<1> QED BY <1>1, <1>2, <1>3

(* ... and then no certificates. *)
LEMMA PurgeCertificatesSteps ==
  ASSUME HInv, NEW t \in Tenant, PurgeCertificates(t)
  PROVE  /\ UNCHANGED <<exists, deleting, finalizer, spec, preserve, wish, tx>>
         /\ pc[t] = "purge"
         /\ pc'[t] = "unregister"
         /\ Holding(t) /\ tx[t].deleting /\ tx[t].preserve
         /\ ~Usable(t)'
         /\ entra'[t].id = entra[t].id
<1>1. /\ UNCHANGED <<exists, deleting, finalizer, spec, preserve, wish, tx>>
      /\ pc[t] = "purge"
      /\ pc'[t] = "unregister"
  BY DEF PurgeCertificates, resource, Goto, At, HInv, TypeOK
<1>2. /\ Holding(t) /\ tx[t].deleting /\ tx[t].preserve
      /\ "password" \notin entra[t].creds
  BY <1>1 DEF HInv, Held, Equipped, Finalized
<1>3. ~Usable(t)' /\ entra'[t].id = entra[t].id
  BY <1>2 DEF PurgeCertificates, Usable, Fresh, HInv, TypeOK, ApplicationType
<1> QED BY <1>1, <1>2, <1>3

(* The resource goes away with its finalizer. *)
LEMMA RemoveFinalizerSteps ==
  ASSUME HInv, NEW t \in Tenant, RemoveFinalizer(t)
  PROVE  /\ pc[t] = "unregister" /\ Holding(t)
         /\ exists /\ deleting /\ finalizer
         /\ Vanish /\ UNCHANGED <<entra, wish>>
         /\ pc'[t] = "idle"
         /\ ~tx'[t].finalizer /\ ~tx'[t].deleting /\ ~tx'[t].preserve
<1>1. pc[t] = "unregister" /\ Holding(t) /\ exists /\ deleting /\ finalizer
  BY DEF RemoveFinalizer, At, HInv, Held, Finalized
<1>2. Vanish /\ UNCHANGED <<entra, wish>> /\ Finish(t)
  BY <1>1 DEF RemoveFinalizer, azure
<1> QED BY <1>1, <1>2, FinishEnds DEF HInv

LEMMA ReconcileHInv ==
  ASSUME HInv, TypeOK', Known', OneOperator, NEW t \in Tenant,
         Reconcile(t) \/ RequeueAfter(t) \/ Abort(t)
  PROVE  HInv'
<1> USE DEF HInv
<1>0. Alike(t)
  BY ReconcileSteps
<1>1. CASE GoesOn(t)
  <2>1. Holding(t) /\ exists /\ finalizer /\ Answers(t, spec)
    BY <1>1 DEF GoesOn, Held
  <2>2. Held'
    BY <1>0, <1>1, <2>1 DEF GoesOn, Alike, Held, Holding
  <2>3. Equipped'
    BY <1>0, <1>1, <2>1 DEF GoesOn, Alike, Equipped, Usable
  <2> QED BY <2>2, <2>3
<1>2. CASE Ends(t)
  <2>1. Held'
    BY <1>0, <1>2 DEF Ends, Alike, Held, Holding, Finalized
  <2>2. Equipped'
    BY <1>0, <1>2 DEF Ends, Alike, Equipped, Usable
  <2> QED BY <2>1, <2>2
<1>3. CASE Looks(t)
  <2>1. UNCHANGED <<exists, deleting, finalizer, spec>>
    BY <1>3 DEF Looks
  <2>2. Held'
    <3>1. /\ Holding(t)' => exists /\ finalizer /\ Answers(t, spec)
          /\ Holding(t)' /\ tx'[t].deleting => deleting
          /\ pc'[t] \in Finalized => Holding(t)'
          /\ pc'[t] \in {"finalize", "purge", "unregister"} => tx'[t].deleting
      BY <1>3, LooksSteps DEF Held
    <3> QED BY <1>0, <2>1, <3>1 DEF Alike, Held, Holding
  <2>3. Equipped'
    BY <1>0, <1>3, <2>1 DEF Looks, Alike, Equipped, Usable
  <2> QED BY <2>2, <2>3
<1>4. CASE Finalize(t)
  <2>1. Held'
    BY <1>0, <1>4, FinalizeSteps DEF Alike, Held, Holding, Finalized
  <2>2. Equipped'
    BY <1>0, <1>4, FinalizeSteps DEF Alike, Equipped, Usable
  <2> QED BY <2>1, <2>2
<1>7. CASE PurgePasswords(t)
  <2>1. Held'
    BY <1>0, <1>7, PurgePasswordsSteps DEF Alike, Held, Holding, Finalized
  <2>2. Equipped'
    BY <1>0, <1>7, PurgePasswordsSteps DEF Alike, Equipped, Usable, Held
  <2> QED BY <2>1, <2>2
<1>8. CASE PurgeCertificates(t)
  <2>1. Held'
    BY <1>0, <1>8, PurgeCertificatesSteps DEF Alike, Held, Holding, Finalized
  <2>2. Equipped'
    BY <1>0, <1>8, PurgeCertificatesSteps DEF Alike, Equipped, Usable
  <2> QED BY <2>1, <2>2
<1>5. CASE RemoveFinalizer(t)
  <2>1. \A u \in Tenant \ {t} : ~Holding(u) /\ pc[u] \notin Finalized /\ ~Usable(u)
    BY <1>5, RemoveFinalizerSteps, HoldingAlone
  <2>2. Held'
    BY <1>0, <1>5, <2>1, RemoveFinalizerSteps DEF Alike, Held, Holding, Finalized
  <2>3. Equipped'
    BY <1>0, <1>5, <2>1, RemoveFinalizerSteps
    DEF Alike, Equipped, Usable, Finalized
  <2> QED BY <2>2, <2>3
<1>6. CASE UNCHANGED <<resource, entra, passes, wish>>
  BY <1>6 DEF resource, passes, Held, Holding, Equipped, Usable
<1> QED
  BY <1>1, <1>2, <1>3, <1>4, <1>5, <1>6, <1>7, <1>8, ReconcileSteps

LEMMA ReconcileWInv ==
  ASSUME HInv, WInv, OneOperator, NEW t \in Tenant,
         Reconcile(t) \/ RequeueAfter(t) \/ Abort(t)
  PROVE  WInv'
<1> USE DEF HInv, WInv
<1>0. Alike(t)
  BY ReconcileSteps
<1>1. CASE GoesOn(t)
  <2>1. Holding(t) /\ exists /\ finalizer /\ Answers(t, spec)
    BY <1>1 DEF GoesOn, Held
  <2>2. Owned'
    BY <1>0, <1>1, <2>1 DEF GoesOn, Alike, Owned
  <2>3. Wished' /\ Granted'
    BY <1>0, <1>1 DEF GoesOn, Alike, Wished, Granted, Holding
  <2> QED BY <2>2, <2>3
<1>2. CASE Ends(t)
  <2>1. Owned'
    BY <1>0, <1>2 DEF Ends, Alike, Owned
  <2>2. Wished'
    BY <1>0, <1>2 DEF Ends, Alike, Wished
  <2>3. Granted'
    BY <1>0, <1>2 DEF Ends, Alike, Granted, Holding
  <2> QED BY <2>1, <2>2, <2>3
<1>3. CASE Looks(t)
  <2>1. /\ UNCHANGED <<exists, deleting, finalizer, spec, preserve>>
        /\ wish' = wish \/ Heeds
    BY <1>3 DEF Looks
  <2>2. Owned'
    BY <1>0, <1>3, <2>1, LooksSteps DEF Looks, Heeds, Alike, Owned
  <2>3. Wished'
    BY <1>0, <1>3, <2>1, LooksSteps DEF Heeds, Alike, Wished
  <2>4. Granted'
    <3>1. Holding(t)' /\ tx'[t].deleting /\ wish' = "keep" => tx'[t].preserve
      BY <1>3, <2>1, LooksSteps DEF Heeds, Granted
    <3> QED BY <1>0, <2>1, <3>1 DEF Heeds, Alike, Granted, Holding
  <2> QED BY <2>2, <2>3, <2>4
<1>4. CASE Finalize(t)
  <2>1. Owned'
    BY <1>0, <1>4, FinalizeSteps DEF Alike, Owned, Wished, Held
  <2>2. Wished' /\ Granted'
    BY <1>4, FinalizeSteps DEF Wished, Granted, Holding
  <2> QED BY <2>1, <2>2
<1>7. CASE PurgePasswords(t) \/ PurgeCertificates(t)
  <2>1. /\ UNCHANGED <<exists, deleting, finalizer, spec, preserve, wish, tx>>
        /\ pc[t] # "unregister"
        /\ tx[t].preserve
        /\ entra'[t].id = entra[t].id
    BY <1>7, PurgePasswordsSteps, PurgeCertificatesSteps
  <2>2. wish # "delete"
    BY <2>1 DEF Wished
  <2> QED BY <2>1, <2>2 DEF Owned, Wished, Granted, Holding
<1>5. CASE RemoveFinalizer(t)
  <2>1. \A u \in Tenant \ {t} : /\ ~Holding(u)
                                /\ pc[u] \notin Finalized
                                /\ wish = "delete" => entra[u].id = 0
    BY <1>5, RemoveFinalizerSteps, HoldingAlone
  <2>2. Owned'
    BY <1>0, <1>5, <2>1, RemoveFinalizerSteps DEF Alike, Owned, Finalized
  <2>3. ~exists' /\ ~preserve' /\ wish' = wish
    BY <1>5, RemoveFinalizerSteps DEF Vanish
  <2>4. Wished'
    BY <1>0, <1>5, <2>3, RemoveFinalizerSteps DEF Alike, Wished
  <2>5. Granted'
    BY <1>0, <1>5, <2>1, <2>3, RemoveFinalizerSteps DEF Alike, Granted, Holding
  <2> QED BY <2>2, <2>4, <2>5
<1>6. CASE UNCHANGED <<resource, entra, passes, wish>>
  BY <1>6 DEF resource, passes, Owned, Wished, Granted, Holding
<1> QED BY <1>1, <1>2, <1>3, <1>4, <1>5, <1>6, <1>7, ReconcileSteps

LEMMA HInvInductive ==
  ASSUME HInv, OneOperator, [Next]_vars
  PROVE  HInv'
<1>1. CASE UNCHANGED vars
  BY <1>1
  DEF vars, resource, azure, passes, bounds, HInv, TypeOK, Known, Held,
      Holding, Equipped, Usable
<1>2. CASE Next
  <2>1. TypeOK'
    BY <1>2, EnvironmentType, ReconcileType DEF Next, HInv
  <2>2. Known'
    BY <1>2, <2>1, KnownInductive DEF HInv
  <2> QED BY <1>2, <2>1, <2>2, EnvironmentHInv, ReconcileHInv DEF Next
<1> QED BY <1>1, <1>2

LEMMA IInvInductive ==
  ASSUME IInv, OneOperator, "unpreserve" \notin Disturbances, [Next]_vars
  PROVE  IInv'
<1>1. CASE UNCHANGED vars
  BY <1>1, HInvInductive
  DEF vars, resource, passes, azure, IInv, WInv, Owned, Wished, Granted, Holding
<1>2. CASE Next
  BY <1>2, HInvInductive, EnvironmentWInv, ReconcileWInv DEF Next, IInv
<1> QED BY <1>1, <1>2

(* What deletion leaves: nothing, unless the user has asked for it.  When  *)
(* every resource is looked after by one operator, and as long as nobody   *)
(* takes the annotation back, a resource that is gone has no application   *)
(* in any tenant unless that was to be preserved, in any order of edits,   *)
(* deletions, failures and restarts of all the operators (Finalize, and    *)
(* what an operator may do to a resource of another tenant).               *)
THEOREM DeletionComplete ==
  ASSUME OneOperator, "unpreserve" \notin Disturbances
  PROVE  Spec => []NothingLeft
<1>1. IInv /\ [Next]_vars => IInv'
  BY IInvInductive
<1>2. IInv => NothingLeft
  BY DEF IInv, WInv, Owned, NothingLeft
<1> QED BY InitIInv, <1>1, <1>2, PTL DEF Spec

(* And never one that still has credentials other than passwords whose     *)
(* removal was refused, whatever the user does with the annotation         *)
(* (PurgeCredentials comes before the finalizer goes).                     *)
THEOREM CredentialsPurged ==
  ASSUME OneOperator
  PROVE  Spec => []OnlyRefusedLeft
<1>1. Init => HInv
  BY InitIInv DEF IInv
<1>2. HInv /\ [Next]_vars => HInv'
  BY HInvInductive
<1>3. HInv => OnlyRefusedLeft
  BY DEF HInv, Equipped, Usable, OnlyRefusedLeft, TypeOK, ApplicationType,
         Credential, Fresh
<1> QED BY <1>1, <1>2, <1>3, PTL DEF Spec

(* The other direction.  Only Finalize deletes an application when orphans *)
(* are left alone.                                                         *)
Counted == disturbances \in Nat

LEMMA CountedInductive == Counted /\ [Next]_vars => Counted'
<1> SUFFICES ASSUME Counted, [Next]_vars PROVE Counted'
  OBVIOUS
<1> USE DEF Counted
<1>1. CASE UNCHANGED vars
  BY <1>1 DEF vars, bounds
<1>2. CASE Environment
  <2>1. CASE CreateResource \/ DeleteResource
    BY <2>1 DEF CreateResource, DeleteResource, bounds
  <2>2. CASE \E d \in Disturbances : Disturb(d)
    BY <2>2 DEF Disturb
  <2> QED
    BY <1>2, <2>1, <2>2
    DEF Environment, EditSpec, RevertSpec, MoveToTenant, AddPreserve,
        RemovePreserve, LoseApplication, Disturb
<1>3. ASSUME NEW t \in Tenant, Reconcile(t) PROVE Counted'
  BY <1>3
  DEF Reconcile, ReadResource, LookUpApplication, ProcessOrphaned,
      RegisterFinalizer, Finalize, PurgePasswords, PurgeCertificates,
      RemoveFinalizer, ValidateCredentials, NothingToDo, RegisterApplication,
      RegisterServicePrincipal, SetIdentifierUris, UpdateApplication,
      ProcessApplication, AddCredentials, ChangeApplication, CreateOrUpdateSecret, UpdateStatus,
      UpdateAnnotations, ApplicationGone, Fail, bounds
<1>4. ASSUME NEW t \in Tenant, RequeueAfter(t) \/ Abort(t) PROVE Counted'
  BY <1>4 DEF RequeueAfter, Abort, bounds
<1> QED BY <1>1, <1>2, <1>3, <1>4 DEF Next

(* Which steps unregister an application. *)
LEMMA OnlyFinalizeDeletes ==
  ASSUME TypeOK, Counted, CleanupOrphans = FALSE, NEW t \in Tenant,
         entra[t].id # 0, entra'[t].id = 0, disturbances' = disturbances,
         NEW u \in Tenant, Reconcile(u)
  PROVE  Finalize(u)
<1>1. ASSUME NEW from, NEW to, NEW a \in ApplicationType,
             a.id = entra[u].id, ChangeApplication(u, from, to, a)
      PROVE  FALSE
  BY <1>1 DEF ChangeApplication, TypeOK
<1>2. entra[u] \in ApplicationType /\ tx[u].spec.rev \in Nat
  BY DEF TypeOK, TxType, SpecType
<1>3. CASE RegisterServicePrincipal(u)
  BY <1>1, <1>2, <1>3 DEF RegisterServicePrincipal, ApplicationType
<1>4. CASE SetIdentifierUris(u)
  BY <1>1, <1>2, <1>4 DEF SetIdentifierUris, ApplicationType
<1>5. CASE UpdateApplication(u)
  BY <1>1, <1>2, <1>5 DEF UpdateApplication, ApplicationType
<1>6. CASE ProcessApplication(u)
  BY <1>1, <1>2, <1>6 DEF ProcessApplication, ApplicationType
<1>7. CASE AddCredentials(u)
  <2>1. PICK left : entra' = [entra EXCEPT ![u] =
                                [entra[u] EXCEPT !.creds = left]]
    BY <1>7, AddCredentialsStep DEF ChangeApplication
  <2>2. entra'[t].id = entra[t].id
    BY <2>1 DEF TypeOK, ApplicationType
  <2> QED BY <2>2
<1>8. CASE RegisterApplication(u)
  <2>1. CASE t = u
    BY <1>8, <2>1 DEF RegisterApplication, TypeOK, NoApplication
  <2>2. CASE t # u
    BY <1>8, <2>2 DEF RegisterApplication, TypeOK
  <2> QED BY <2>1, <2>2
<1>9. CASE LookUpApplication(u)
  BY <1>9 DEF LookUpApplication, TypeOK, ApplicationType
<1>10. CASE Finalize(u)
  BY <1>10
<1>13. ASSUME PurgePasswords(u) \/ PurgeCertificates(u) PROVE FALSE
  <2>1. PICK left : entra' = [entra EXCEPT ![u].creds = left]
    BY <1>13 DEF PurgePasswords, PurgeCertificates
  <2>2. entra'[t].id = entra[t].id
    BY <2>1 DEF TypeOK, ApplicationType
  <2> QED BY <2>2
<1>11. CASE UNCHANGED entra
  BY <1>11
<1>12. ProcessOrphaned(u) => UNCHANGED entra
  BY DEF ProcessOrphaned
<1> QED
  BY <1>3, <1>4, <1>5, <1>6, <1>7, <1>8, <1>9, <1>10, <1>11, <1>12,
     <1>13
  DEF Reconcile, ReadResource, RegisterFinalizer, RemoveFinalizer,
      ValidateCredentials, NothingToDo, CreateOrUpdateSecret, UpdateStatus,
      UpdateAnnotations, ApplicationGone, Fail, azure

(* The operator does not delete an application that the user has asked in  *)
(* time to keep (finalizer.go): a pass that deletes has read the deleted   *)
(* resource without the annotation.  Once a pass has read it with it, or   *)
(* when it was there before the deletion, no failed and repeated pass, no  *)
(* restart and no update of the annotations loses it again.                *)
THEOREM PreservedNotDeleted ==
  ASSUME OneOperator, "unpreserve" \notin Disturbances,
         CleanupOrphans = FALSE
  PROVE  Spec => PreservedKept
<1>1. IInv /\ [Next]_vars => IInv'
  BY IInvInductive
<1>2. Init => Counted
  BY DEF Init, Counted
<1>3. IInv /\ Counted /\ [Next]_vars =>
        [\A t \in Tenant :
           entra[t].id # 0 /\ entra'[t].id = 0 /\ disturbances' = disturbances
             => wish # "keep"]_vars
  <2> SUFFICES ASSUME IInv, Counted, Next, NEW t \in Tenant,
                      entra[t].id # 0, entra'[t].id = 0,
                      disturbances' = disturbances
               PROVE  wish # "keep"
    OBVIOUS
  <2>1. ~Environment \/ UNCHANGED entra
    <3>1. AddPreserve \/ RemovePreserve => UNCHANGED entra
      BY DEF AddPreserve, RemovePreserve, Annotate, azure
    <3>2. \A u \in Tenant : ~LoseApplication(u)
      BY DEF LoseApplication, Disturb, Counted
    <3> QED
      BY <3>1, <3>2
      DEF Environment, CreateResource, DeleteResource, EditSpec, RevertSpec,
          MoveToTenant, ChangeSpec, azure
  <2>2. PICK u \in Tenant : Reconcile(u)
    BY <2>1 DEF Next, RequeueAfter, Abort, azure
  <2>3. Finalize(u)
    BY <2>2, OnlyFinalizeDeletes DEF IInv, HInv
  <2>4. Holding(u) /\ tx[u].deleting
    BY <2>3 DEF Finalize, At, IInv, HInv, Held, Finalized
  <2>5. CASE tx[u].preserve
    BY <2>3, <2>5 DEF Finalize
  <2>6. CASE ~tx[u].preserve
    BY <2>4, <2>6 DEF IInv, WInv, Granted
  <2> QED BY <2>5, <2>6
<1> QED
  BY InitIInv, CountedInductive, <1>1, <1>2, <1>3, PTL DEF Spec, PreservedKept

----------------------------------------------------------------------------
(* The abstract specification.  A step of it needs a little more than IInv *)
(* says: the pass knows that there is no application when it registers     *)
(* one, and that the user asks for what it preserves.                      *)
Custodial ==
  /\ finalizer => exists
  /\ \A t \in Tenant :
       /\ pc[t] = "idle" => ~tx[t].deleting
       /\ tx[t].finalizer /\ tx[t].preserve => wish = "keep"
       /\ pc[t] = "validate" /\ tx[t].id = 0 => entra[t].id = 0
       /\ pc[t] = "create" => entra[t].id = 0
       /\ pc[t] = "unregister" /\ wish # "keep" => entra[t].id = 0

LEMMA InitCustodial == Init => Custodial
  BY DEF Init, Custodial, NoTx

(* A pass that ends knows nothing. *)
LEMMA EndsCustodial ==
  ASSUME IInv, Custodial, SingleTenant, NEW t \in Tenant, Finish(t),
         finalizer' => exists'
  PROVE  Custodial'
<1>1. \A u \in Tenant : /\ u = t /\ pc'[u] = "idle"
                        /\ ~tx'[u].finalizer /\ ~tx'[u].deleting
  BY DEF IInv, HInv, SingleTenant, Finish, TypeOK, NoTx
<1> QED BY <1>1 DEF Custodial

LEMMA EnvironmentCustodial ==
  ASSUME IInv, Custodial, SingleTenant, "unpreserve" \notin Disturbances,
         Environment
  PROVE  Custodial'
<1> USE DEF IInv, HInv, WInv
<1>1. UNCHANGED <<pc, tx>>
  BY DEF Environment, CreateResource, DeleteResource, EditSpec, RevertSpec,
         MoveToTenant, AddPreserve, RemovePreserve, LoseApplication, Disturb,
         passes
<1>2. CASE CreateResource
  <2>1. \A u \in Tenant : ~tx[u].finalizer /\ pc[u] \notin Finalized
    BY <1>2 DEF CreateResource, TypeOK, Held, Holding, Answers
  <2> QED BY <1>1, <1>2, <2>1 DEF CreateResource, Custodial, azure, Finalized
<1>3. CASE DeleteResource
  BY <1>1, <1>3 DEF DeleteResource, Vanish, Custodial, azure
<1>4. CASE EditSpec \/ RevertSpec \/ MoveToTenant
  BY <1>1, <1>4
  DEF EditSpec, RevertSpec, MoveToTenant, ChangeSpec, Custodial, azure
<1>5. CASE AddPreserve
  <2>1. UNCHANGED <<exists, finalizer, entra>> /\ exists /\ ~preserve
    BY <1>5 DEF AddPreserve, Annotate, azure
  <2>2. wish # "keep"
    BY <2>1 DEF Granted
  <2> QED BY <1>1, <2>1, <2>2 DEF Custodial
<1>6. ~RemovePreserve
  BY DEF RemovePreserve, Disturb
<1>7. ASSUME NEW t \in Tenant, LoseApplication(t) PROVE Custodial'
  BY <1>1, <1>7
  DEF LoseApplication, Custodial, resource, TypeOK, NoApplication
<1> QED
  BY <1>2, <1>3, <1>4, <1>5, <1>6, <1>7 DEF Environment

LEMMA ReconcileCustodial ==
  ASSUME IInv, TypeOK', Custodial, SingleTenant, NEW t \in Tenant, Reconcile(t)
  PROVE  Custodial'
<1> USE DEF IInv, HInv, WInv
<1>1. \A u \in Tenant : u = t
  BY DEF SingleTenant
<1>2. CASE ReadResource(t)
  <2>1. UNCHANGED <<exists, finalizer, preserve, entra>>
    BY <1>2 DEF ReadResource, resource, azure
  <2>2. CASE exists
    <3>1. pc'[t] = "lookup" /\ tx'[t].preserve = preserve
      BY <1>2, <2>2 DEF ReadResource, Goto, TypeOK
    <3>2. ~Overlooked(TRUE)
      BY <1>1, <1>2 DEF ReadResource, At, Custodial, Overlooked
    <3>3. preserve => wish' = "keep"
      BY <1>2, <3>2 DEF ReadResource, Wished, TypeOK, Wish
    <3> QED BY <1>1, <2>1, <3>1, <3>3 DEF Custodial
  <2>3. CASE ~exists
    <3>1. UNCHANGED <<pc, tx, wish>>
      BY <1>2, <2>3 DEF ReadResource, passes, TypeOK
    <3> QED BY <2>1, <3>1 DEF Custodial
  <2> QED BY <2>2, <2>3
<1>3. CASE LookUpApplication(t)
  <2>1. /\ UNCHANGED <<exists, finalizer, preserve, wish>>
        /\ pc'[t] \notin {"idle", "create", "unregister"}
        /\ tx'[t].finalizer = tx[t].finalizer
        /\ tx'[t].preserve = tx[t].preserve
        /\ tx'[t].id = entra[t].id
        /\ entra'[t].id = entra[t].id
    BY <1>3
    DEF LookUpApplication, NextStep, resource, Goto, TypeOK, TxType,
        ApplicationType
  <2> QED BY <1>1, <2>1 DEF Custodial
<1>4. CASE ProcessOrphaned(t)
  BY <1>4, EndsCustodial DEF ProcessOrphaned, resource, Custodial
<1>5. CASE RegisterFinalizer(t)
  BY <1>5, EndsCustodial DEF RegisterFinalizer, Custodial
<1>6. CASE Finalize(t)
  BY <1>1, <1>6, FinalizeSteps DEF Custodial
<1>15. CASE PurgePasswords(t)
  BY <1>1, <1>15, PurgePasswordsSteps DEF Custodial
<1>16. CASE PurgeCertificates(t)
  <2>1. wish = "keep"
    BY <1>16, PurgeCertificatesSteps DEF Custodial, Holding
  <2> QED BY <1>1, <1>16, <2>1, PurgeCertificatesSteps DEF Custodial
<1>7. CASE RemoveFinalizer(t)
  BY <1>7, EndsCustodial DEF RemoveFinalizer, Vanish, Custodial
<1>8. CASE ValidateCredentials(t)
  <2>1. /\ UNCHANGED <<exists, finalizer, preserve, wish, entra>>
        /\ pc[t] = "validate"
        /\ pc'[t] \in {"create", "update", "credentials"}
        /\ pc'[t] = "create" => tx[t].id = 0
        /\ tx'[t].finalizer = tx[t].finalizer
        /\ tx'[t].preserve = tx[t].preserve
    BY <1>8
    DEF ValidateCredentials, resource, azure, Goto, At, TypeOK, TxType
  <2>2. pc'[t] \notin {"idle", "validate", "unregister"}
    BY <2>1
  <2>3. pc'[t] = "create" => entra'[t].id = 0
    BY <2>1 DEF Custodial
  <2> QED BY <1>1, <2>1, <2>2, <2>3 DEF Custodial
<1>9. CASE NothingToDo(t) \/ ApplicationGone(t)
  BY <1>9, EndsCustodial
  DEF NothingToDo, ApplicationGone, Fail, resource, Custodial
<1>10. CASE RegisterApplication(t)
  BY <1>1, <1>10
  DEF RegisterApplication, resource, Goto, TypeOK, TxType, Custodial
<1>11. ASSUME UNCHANGED <<exists, finalizer, preserve, wish, tx>>,
              NEW s \in Finalized \ {"validate", "create", "unregister"},
              Goto(t, s)
       PROVE  Custodial'
  <2>1. pc'[t] = s /\ s \notin {"idle", "validate", "create", "unregister"}
    BY <1>11 DEF Goto, TypeOK, Finalized
  <2> QED BY <1>1, <1>11, <2>1 DEF Custodial
<1>12. CASE \/ RegisterServicePrincipal(t) \/ SetIdentifierUris(t)
            \/ UpdateApplication(t) \/ ProcessApplication(t)
            \/ AddCredentials(t)
  BY <1>11, <1>12
  DEF RegisterServicePrincipal, SetIdentifierUris, UpdateApplication,
      ProcessApplication, AddCredentials, ChangeApplication, resource, Finalized
<1>13. CASE CreateOrUpdateSecret(t) \/ UpdateStatus(t)
  BY <1>11, <1>13 DEF CreateOrUpdateSecret, UpdateStatus, Finalized
<1>14. CASE UpdateAnnotations(t)
  BY <1>14, EndsCustodial DEF UpdateAnnotations, Custodial
<1> QED
  BY <1>2, <1>3, <1>4, <1>5, <1>6, <1>7, <1>8, <1>9, <1>10, <1>12, <1>13,
     <1>14, <1>15, <1>16 DEF Reconcile

LEMMA CustodialInductive ==
  ASSUME IInv, IInv', Custodial, SingleTenant, "unpreserve" \notin Disturbances,
         [Next]_vars
  PROVE  Custodial'
<1>1. CASE UNCHANGED vars
  BY <1>1 DEF vars, resource, azure, passes, Custodial
<1>2. CASE Environment
  BY <1>2, EnvironmentCustodial
<1>3. ASSUME NEW t \in Tenant, Reconcile(t) PROVE Custodial'
  BY <1>3, ReconcileCustodial DEF IInv, HInv
<1>4. ASSUME NEW t \in Tenant, RequeueAfter(t) PROVE Custodial'
  BY <1>4 DEF RequeueAfter, resource, azure, passes, Custodial
<1>5. ASSUME NEW t \in Tenant, Abort(t) PROVE Custodial'
  BY <1>5, EndsCustodial DEF Abort, resource, Custodial
<1> QED BY <1>1, <1>2, <1>3, <1>4, <1>5 DEF Next

(* What the mapping says of a step that leaves the application alone. *)
Same == UNCHANGED <<exists, deleting, finalizer, wish, entra>>

LEMMA SameStutters == Same => UNCHANGED Custodian!vars
  BY DEF Same, Custodian!vars

LEMMA EnvironmentStep ==
  ASSUME IInv, Custodial, SingleTenant, "unpreserve" \notin Disturbances,
         Environment
  PROVE  [Custodian!Next]_(Custodian!vars)
<1> USE DEF IInv, HInv, WInv
<1>1. CASE CreateResource
  <2>1. Custodian!Create
    BY <1>1
    DEF CreateResource, azure, Custodian!Create, Custodian!Become, TypeOK,
        Custodial
  <2> QED BY <2>1 DEF Custodian!Next
<1>2. CASE DeleteResource
  <2>1. CASE finalizer
    <3>1. Custodian!Delete
      BY <1>2, <2>1
      DEF DeleteResource, azure, Custodian!Delete, Custodian!Become
    <3> QED BY <3>1 DEF Custodian!Next
  <2>2. CASE ~finalizer
    <3>1. Custodian!DeleteFree
      BY <1>2, <2>2
      DEF DeleteResource, Vanish, azure, Custodian!DeleteFree,
          Custodian!Become
    <3> QED BY <3>1 DEF Custodian!Next
  <2> QED BY <2>1, <2>2
<1>3. CASE EditSpec \/ RevertSpec \/ MoveToTenant
  BY <1>3, SameStutters
  DEF EditSpec, RevertSpec, MoveToTenant, ChangeSpec, azure, Same
<1>4. CASE AddPreserve
  <2>1. /\ UNCHANGED <<exists, deleting, finalizer, entra>>
        /\ exists /\ wish # "keep"
    BY <1>4 DEF AddPreserve, Annotate, azure, Granted, TypeOK
  <2>2. CASE wish' = "keep"
    <3>1. Custodian!AskToKeep
      BY <2>1, <2>2 DEF Custodian!AskToKeep
    <3> QED BY <3>1 DEF Custodian!Next
  <2>3. CASE wish' # "keep"
    BY <2>1, <2>3 DEF Custodian!vars
  <2> QED BY <2>2, <2>3
<1>5. ~RemovePreserve
  BY DEF RemovePreserve, Disturb
<1>6. ASSUME NEW t \in Tenant, LoseApplication(t)
      PROVE  [Custodian!Next]_(Custodian!vars)
  <2>1. \A u \in Tenant : u = t /\ entra'[u].id = 0 /\ entra'[u].creds = {}
    BY <1>6 DEF LoseApplication, SingleTenant, TypeOK, NoApplication
  <2>2. Custodian!Lose
    BY <1>6, <2>1 DEF LoseApplication, resource, Custodian!Lose
  <2> QED BY <2>2 DEF Custodian!Next
<1> QED
  BY <1>1, <1>2, <1>3, <1>4, <1>5, <1>6 DEF Environment

(* The application of the one tenant. *)
LEMMA OneApplication ==
  ASSUME SingleTenant, NEW t \in Tenant
  PROVE  /\ (\E u \in Tenant : entra[u].id # 0) <=> entra[t].id # 0
         /\ UNION {entra[u].creds : u \in Tenant} = entra[t].creds
         /\ (\E u \in Tenant : entra[u].id # 0)' <=> entra'[t].id # 0
         /\ (UNION {entra[u].creds : u \in Tenant})' = entra'[t].creds
<1>1. \A u \in Tenant : u = t
  BY DEF SingleTenant
<1>2. UNION {entra[u].creds : u \in Tenant} = entra[t].creds
  BY <1>1
<1>3. UNION {entra'[u].creds : u \in Tenant} = entra'[t].creds
  BY <1>1
<1> QED BY <1>1, <1>2, <1>3

(* A step that changes what module Custody does not speak of. *)
LEMMA DetailsStutter ==
  ASSUME SingleTenant, NEW t \in Tenant,
         UNCHANGED <<exists, deleting, finalizer, wish>>,
         entra'[t].id = entra[t].id, entra'[t].creds = entra[t].creds
  PROVE  UNCHANGED Custodian!vars
  BY OneApplication DEF Custodian!vars

(* The passes of the operator: eight of their steps are steps of Custody.  *)
LEMMA HeedStep ==
  ASSUME IInv, NEW t \in Tenant, ReadResource(t)
  PROVE  [Custodian!Next]_(Custodian!vars)
<1>1. UNCHANGED <<exists, deleting, finalizer, entra>>
  BY DEF ReadResource, resource, azure
<1>2. CASE wish' = wish
  BY <1>1, <1>2, SameStutters DEF Same
<1>3. CASE wish' # wish
  <2>1. exists /\ wish' = "keep"
    BY <1>3 DEF ReadResource, IInv, HInv, TypeOK
  <2>2. Custodian!AskToKeep
    BY <1>1, <2>1 DEF Custodian!AskToKeep
  <2> QED BY <2>2 DEF Custodian!Next
<1> QED BY <1>2, <1>3

LEMMA HoldStep ==
  ASSUME IInv, NEW t \in Tenant, RegisterFinalizer(t)
  PROVE  [Custodian!Next]_(Custodian!vars)
<1>1. CASE exists /\ ~finalizer
  <2>1. Custodian!Hold
    BY <1>1
    DEF RegisterFinalizer, azure, IInv, HInv, TypeOK, Custodian!Hold,
        Custodian!Become
  <2> QED BY <2>1 DEF Custodian!Next
<1>2. CASE ~(exists /\ ~finalizer)
  BY <1>2, SameStutters DEF RegisterFinalizer, azure, Same
<1> QED BY <1>1, <1>2

LEMMA RegisterStep ==
  ASSUME IInv, Custodial, SingleTenant, NEW t \in Tenant,
         RegisterApplication(t)
  PROVE  [Custodian!Next]_(Custodian!vars)
<1>1. /\ UNCHANGED <<exists, deleting, finalizer, wish>>
      /\ exists /\ finalizer
      /\ entra[t].id = 0 /\ entra[t].creds = {}
  BY DEF RegisterApplication, resource, At, IInv, HInv, Held, Holding,
         Finalized, Known, Custodial
<1>2. entra'[t].id # 0 /\ entra'[t].creds = {}
  BY DEF RegisterApplication, IInv, HInv, TypeOK, NoApplication
<1>3. Custodian!Register
  BY <1>1, <1>2, OneApplication DEF Custodian!Register, Custodian!Held
<1> QED BY <1>3 DEF Custodian!Next

LEMMA EquipStep ==
  ASSUME IInv, SingleTenant, NEW t \in Tenant, AddCredentials(t)
  PROVE  [Custodian!Next]_(Custodian!vars)
<1>1. /\ UNCHANGED <<exists, deleting, finalizer, wish>>
      /\ exists /\ finalizer
      /\ entra[t].id # 0
  BY DEF AddCredentials, ChangeApplication, resource, At, IInv, HInv, Held,
         Holding, Finalized, Known, TypeOK, ApplicationType
<1>2. PICK gone \in SUBSET {"refused"}, new \in {{}, Fresh} :
        ChangeApplication(t, "credentials", "secret",
          [entra[t] EXCEPT !.creds = (entra[t].creds \ gone) \cup new])
  BY AddCredentialsStep DEF IInv, HInv
<1>3. /\ entra'[t].id = entra[t].id
      /\ entra'[t].creds = (entra[t].creds \ gone) \cup new
  BY <1>2 DEF ChangeApplication, IInv, HInv, TypeOK, ApplicationType
<1>4. Custodian!Equip
  <2>1. new \in {{}, Custodian!Fresh}
    BY DEF Fresh, Custodian!Fresh
  <2> QED
    BY <1>1, <1>3, <2>1, OneApplication DEF Custodian!Equip, Custodian!Held
<1> QED BY <1>4 DEF Custodian!Next

LEMMA FinalizeStep ==
  ASSUME IInv, Custodial, SingleTenant, NEW t \in Tenant, Finalize(t)
  PROVE  [Custodian!Next]_(Custodian!vars)
<1>1. /\ UNCHANGED <<exists, deleting, finalizer, wish>>
      /\ exists /\ deleting
      /\ entra'[t].id = 0 /\ entra'[t].creds = {}
      /\ wish = "keep" => tx[t].preserve
  BY FinalizeSteps DEF IInv, HInv, WInv, Held, Granted
<1>2. CASE UNCHANGED entra
  BY <1>1, <1>2, SameStutters DEF Same
<1>3. CASE ~tx[t].preserve
  <2>1. Custodian!Unregister
    BY <1>1, <1>3, OneApplication DEF Custodian!Unregister
  <2> QED BY <2>1 DEF Custodian!Next
<1> QED BY <1>2, <1>3 DEF Finalize

LEMMA PurgeStep ==
  ASSUME IInv, Custodial, SingleTenant, NEW t \in Tenant,
         PurgePasswords(t) \/ PurgeCertificates(t)
  PROVE  [Custodian!Next]_(Custodian!vars)
<1>1. /\ UNCHANGED <<exists, deleting, finalizer, wish>>
      /\ exists /\ deleting
      /\ wish = "keep"
      /\ entra'[t].id = entra[t].id
  BY PurgePasswordsSteps, PurgeCertificatesSteps
  DEF IInv, HInv, Held, Holding, Custodial
<1>2. \/ entra'[t].creds = entra[t].creds \ {"password", "refused"}
      \/ /\ entra[t].creds \cap {"password", "refused"} # {}
         /\ entra'[t].creds = (entra[t].creds \ {"password"}) \cup {"refused"}
      \/ entra'[t].creds = entra[t].creds \ {"certificate"}
  BY DEF PurgePasswords, PurgeCertificates, IInv, HInv, TypeOK, ApplicationType
<1>3. Custodian!Purge
  BY <1>1, <1>2, OneApplication DEF Custodian!Purge
<1> QED BY <1>3 DEF Custodian!Next

LEMMA ReleaseStep ==
  ASSUME IInv, Custodial, SingleTenant, NEW t \in Tenant, RemoveFinalizer(t)
  PROVE  [Custodian!Next]_(Custodian!vars)
<1>1. /\ exists /\ deleting
      /\ entra[t].creds \subseteq {"refused"}
      /\ entra[t].id # 0 => wish = "keep"
  BY DEF RemoveFinalizer, At, IInv, HInv, Held, Finalized, Equipped, Usable,
         Custodial, TypeOK, ApplicationType, Credential, Fresh
<1>2. ~exists' /\ UNCHANGED <<entra, wish>>
  BY <1>1 DEF RemoveFinalizer, Vanish, azure
<1>3. Custodian!Release
  BY <1>1, <1>2, OneApplication DEF Custodian!Release, Custodian!Become
<1> QED BY <1>3 DEF Custodian!Next

LEMMA ReconcileStep ==
  ASSUME IInv, Custodial, SingleTenant, CleanupOrphans = FALSE,
         NEW t \in Tenant, Reconcile(t)
  PROVE  [Custodian!Next]_(Custodian!vars)
<1>1. CASE \/ ProcessOrphaned(t) \/ ValidateCredentials(t)
           \/ NothingToDo(t) \/ CreateOrUpdateSecret(t) \/ UpdateStatus(t)
           \/ UpdateAnnotations(t) \/ ApplicationGone(t)
  BY <1>1, SameStutters
  DEF ProcessOrphaned, ValidateCredentials, NothingToDo, CreateOrUpdateSecret,
      UpdateStatus, UpdateAnnotations, ApplicationGone,
      Fail, resource, azure, Same
<1>2. CASE LookUpApplication(t)
  <2>1. /\ UNCHANGED <<exists, deleting, finalizer, wish>>
        /\ entra'[t].id = entra[t].id /\ entra'[t].creds = entra[t].creds
    BY <1>2 DEF LookUpApplication, resource, IInv, HInv, TypeOK, ApplicationType
  <2> QED BY <2>1, DetailsStutter
<1>3. CASE \/ RegisterServicePrincipal(t) \/ SetIdentifierUris(t)
           \/ UpdateApplication(t) \/ ProcessApplication(t)
  <2>1. ASSUME NEW from, NEW to, NEW a, a.id = entra[t].id,
               a.creds = entra[t].creds, ChangeApplication(t, from, to, a)
        PROVE  UNCHANGED Custodian!vars
    <3>1. /\ UNCHANGED <<exists, deleting, finalizer, wish>>
          /\ entra'[t] = a
      BY <2>1 DEF ChangeApplication, resource, IInv, HInv, TypeOK
    <3> QED BY <2>1, <3>1, DetailsStutter
  <2>2. entra[t] \in ApplicationType
    BY DEF IInv, HInv, TypeOK
  <2>3. CASE RegisterServicePrincipal(t)
    BY <2>1, <2>2, <2>3 DEF RegisterServicePrincipal, ApplicationType
  <2>4. CASE SetIdentifierUris(t)
    BY <2>1, <2>2, <2>4 DEF SetIdentifierUris, ApplicationType
  <2>5. CASE UpdateApplication(t)
    BY <2>1, <2>2, <2>5 DEF UpdateApplication, ApplicationType
  <2>6. CASE ProcessApplication(t)
    BY <2>1, <2>2, <2>6 DEF ProcessApplication, ApplicationType
  <2> QED BY <1>3, <2>3, <2>4, <2>5, <2>6
<1> QED
  BY <1>1, <1>2, <1>3, HeedStep, HoldStep, RegisterStep, EquipStep,
     FinalizeStep, PurgeStep, ReleaseStep DEF Reconcile

(* The operator of one tenant keeps the promise of module Custody: every   *)
(* step of a pass, of the user, of a failure or a restart is a step of it, *)
(* or one that it does not speak of.                                       *)
THEOREM Implementation ==
  ASSUME SingleTenant, "unpreserve" \notin Disturbances,
         CleanupOrphans = FALSE
  PROVE  Spec => ImplementsCustody
<1>1. Init => Custodian!Init
  BY DEF Init, Custodian!Init, NoApplication
<1>2. IInv /\ [Next]_vars => IInv'
  BY IInvInductive DEF OneOperator
<1>3. IInv /\ IInv' /\ Custodial /\ [Next]_vars => Custodial'
  BY CustodialInductive
<1>4. IInv /\ Custodial /\ [Next]_vars =>
        [Custodian!Next]_(Custodian!vars)
  <2> SUFFICES ASSUME IInv, Custodial, [Next]_vars
               PROVE  [Custodian!Next]_(Custodian!vars)
    OBVIOUS
  <2>1. CASE UNCHANGED vars
    BY <2>1, SameStutters DEF vars, resource, azure, Same
  <2>2. CASE Environment
    BY <2>2, EnvironmentStep
  <2>3. ASSUME NEW t \in Tenant, Reconcile(t)
        PROVE  [Custodian!Next]_(Custodian!vars)
    BY <2>3, ReconcileStep
  <2>4. ASSUME NEW t \in Tenant, RequeueAfter(t) \/ Abort(t)
        PROVE  [Custodian!Next]_(Custodian!vars)
    BY <2>4, SameStutters DEF RequeueAfter, Abort, resource, azure, Same
  <2> QED BY <2>1, <2>2, <2>3, <2>4 DEF Next
<1> QED
  BY <1>1, <1>2, <1>3, <1>4, InitIInv, InitCustodial, PTL
  DEF Spec, ImplementsCustody, Custodian!Spec
=============================================================================
