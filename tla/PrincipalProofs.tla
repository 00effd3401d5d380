---------------------------- MODULE PrincipalProofs ----------------------------
(***************************************************************************)
(* Proofs about module Principal: type correctness, that no group is let   *)
(* in that was not asked for and none locked out, what happens to the      *)
(* policies, and that the status is true.                                  *)
(***************************************************************************)
EXTENDS Principal, FiniteSetTheorems, TLAPS

LEMMA ConstantsInTypes ==
  /\ \A e \in 1..Len(Specs) : Specs[e] \in SpecType
  /\ \A s \in 1..Len(Settings) : Settings[s] \in SettingType
  /\ Len(Specs) \in Nat /\ Len(Specs) >= 1
  /\ Len(Settings) \in Nat /\ Len(Settings) >= 1
  /\ AllUsers \subseteq Group
  BY ConstantsAssumption

LEMMA Counting ==
  ASSUME TypeOK
  PROVE  edition \in Nat /\ setting \in Nat /\ setting \in 1..Len(Settings)
  BY ConstantsInTypes DEF TypeOK

LEMMA NoTxType == NoTx \in TxType
  BY DEF NoTx, TxType

LEMMA StepsAfter ==
  AfterOwners \in Step /\ AfterPolicies \in Step /\ AfterGroups \in Step
  BY DEF AfterOwners, AfterPolicies, AfterGroups, Step

LEMMA WantedType ==
  ASSUME NEW e \in 1..Len(Specs), NEW s \in 1..Len(Settings)
  PROVE  WantedGroups(e, s) \subseteq Group
  BY ConstantsInTypes DEF WantedGroups, SpecType

LEMMA ClaimType ==
  ASSUME NEW e \in 1..Len(Specs), NEW s \in 1..Len(Settings), NEW c \in Claim
  PROVE  /\ Default(Specs[e].claim, Settings[s].claim) \in Claim
         /\ Default(Specs[e].claim, Default(c, Settings[s].claim)) \in Claim
  BY ConstantsInTypes DEF Default, SpecType, SettingType

LEMMA RedirectsType ==
  ASSUME NEW e \in 1..Len(Specs)
  PROVE  RedirectUris(e) \subseteq Platform \X Url
  BY ConstantsInTypes DEF RedirectUris, Platform, SpecType

LEMMA AttributesType ==
  DefaultUris \subseteq Attribute /\ OptionalClaims \subseteq Attribute
  BY DEF Attribute

LEMMA InitTypeOK == Init => TypeOK
<1> SUFFICES ASSUME Init PROVE TypeOK
  OBVIOUS
<1>1. /\ assignments \subseteq Assignment
      /\ \A a \in assignments : a[1] \in groups \cup User
  BY DEF Init, Assignment, Role
<1>2. policies \subseteq Nat
  <2>1. policies = {} \/ \E p \in Foreign : policies = {p}
    BY DEF Init
  <2> QED BY <2>1, ConstantsAssumption
<1>3. tx \in TxType /\ tx.edition = 0 /\ tx.marks = 0
  BY NoTxType DEF Init, NoTx
<1>4. /\ claim \in Claim /\ required \in BOOLEAN
      /\ registered \in BOOLEAN /\ principal \in BOOLEAN
  BY DEF Init, Claim
<1>5. /\ edition \in 1..Len(Specs) /\ status \in 0..edition
      /\ setting \in 1..Len(Settings) /\ under \in 0..setting
      /\ marks \in 0..changes /\ heard \in 0..marks
      /\ changes \in 0..MaxChanges /\ faults \in 0..MaxFaults
  BY ConstantsInTypes, ConstantsAssumption DEF Init
<1>6. /\ ties \subseteq Tie /\ mapped \in BOOLEAN
      /\ groups \subseteq Group /\ cached \subseteq Group
      /\ pc \in Step /\ pc = "idle"
  BY DEF Init, Step
<1>7. /\ redirects \subseteq Platform \X Url /\ attributes \subseteq Attribute
      /\ ownRole \in BOOLEAN /\ status = 0
  BY DEF Init, Platform, Attribute
<1> QED
  BY <1>1, <1>2, <1>3, <1>4, <1>5, <1>6, <1>7 DEF TypeOK

LEMMA RegisteredType ==
  ASSUME RegisterServicePrincipal
  PROVE  /\ principal' \in BOOLEAN /\ required' \in BOOLEAN
         /\ UNCHANGED <<ties, policies>>
<1>1. Enabled("required") \in BOOLEAN
  BY DEF Enabled
<1>2. required' = Enabled("required") /\ principal' = TRUE /\ UNCHANGED <<ties, policies>>
  BY DEF RegisterServicePrincipal
<1>3. required' \in BOOLEAN
  BY <1>1, <1>2, Zenon
<1> QED BY <1>2, <1>3

(* What a pass has in hand. *)
LEMMA InHand ==
  ASSUME TypeOK, pc # "idle"
  PROVE  /\ tx.edition \in 1..Len(Specs)
         /\ setting \in 1..Len(Settings)
         /\ claim \in Claim
  BY ConstantsInTypes DEF TypeOK, TxType

(* The end of a pass, and the start of another attempt.                    *)
LEMMA FailType ==
  ASSUME TypeOK, pc # "idle", Fail
  PROVE  /\ pc' \in Step
         /\ tx' \in TxType
         /\ tx'.edition <= edition /\ tx'.marks <= marks
         /\ pc' # "idle" => tx'.edition # 0 /\ tx'.edition >= status
<1>1. CASE tx' = NoTx /\ Goto("idle")
  BY <1>1, NoTxType, ConstantsInTypes DEF TypeOK, Goto, Step, NoTx
<1>2. CASE /\ tx' = [NoTx EXCEPT !.edition = tx.edition, !.marks = tx.marks]
           /\ Goto("grant")
  BY <1>2, NoTxType DEF TypeOK, Goto, Step, Tie, NoTx, TxType
<1> QED BY <1>1, <1>2 DEF Fail

(* A step that goes on in the same pass. *)
LEMMA GoesOn ==
  ASSUME TypeOK, pc # "idle",
         UNCHANGED <<resource, operator, groups, registered, bounds>>,
         claim' \in Claim, mapped' \in BOOLEAN,
         redirects' \subseteq Platform \X Url, attributes' \subseteq Attribute,
         ownRole' \in BOOLEAN, ownRole' => ownRole, principal' \in BOOLEAN,
         required' \in BOOLEAN, ties' \subseteq Tie, policies' \subseteq Nat,
         assignments' \subseteq Assignment,
         \A a \in assignments' : a[1] \in groups \cup User,
         cached' \subseteq Group,
         tx' \in TxType, tx'.edition = tx.edition, tx'.marks = tx.marks,
         pc' \in Step
  PROVE  TypeOK'
  BY DEF TypeOK, resource, operator, bounds

LEMMA EnvironmentType ==
  ASSUME TypeOK,
         \/ EditSpec \/ AskForSynchronization \/ Reconfigure
         \/ \E g \in Group : DeleteGroup(g) \/ ExpireGroup(g)
  PROVE  TypeOK'
<1> USE ConstantsInTypes, ConstantsAssumption
<1>1. CASE EditSpec
  BY <1>1
  DEF EditSpec, TypeOK, TxType, operator, application, serviceprincipal, bounds
<1>2. CASE AskForSynchronization
  <2>1. /\ marks \in Nat /\ heard \in 0..marks
        /\ tx.marks \in Nat /\ tx.marks <= marks
        /\ marks <= changes /\ changes \in 0..MaxChanges
    BY DEF TypeOK, TxType
  <2> QED
    BY <1>2, <2>1
    DEF AskForSynchronization, Change, TypeOK, operator, application,
        serviceprincipal
<1>3. CASE Reconfigure
  <2>1. pc' = "idle" /\ "idle" \in Step /\ tx' = NoTx /\ NoTx.edition = 0 /\ NoTx.marks = 0
    BY <1>3 DEF Reconfigure, Step, NoTx
  <2> QED
    BY <1>3, <2>1, NoTxType
    DEF Reconfigure, TypeOK, resource, application, serviceprincipal, bounds
<1>4. ASSUME NEW g \in Group, DeleteGroup(g) PROVE TypeOK'
  BY <1>4
  DEF DeleteGroup, Change, TypeOK, operator, application, serviceprincipal
<1>5. ASSUME NEW g \in Group, ExpireGroup(g) PROVE TypeOK'
  BY <1>5
  DEF ExpireGroup, TypeOK, resource, operator, application, serviceprincipal,
      bounds
<1> QED BY <1>1, <1>2, <1>3, <1>4, <1>5

(* A call that writes the application or the service principal. *)
LEMMA WriteType ==
  ASSUME TypeOK,
         \/ Exists \/ Register \/ RegisterPrincipal \/ SetIdentifierUris
         \/ Update \/ UpdateRedirectUris \/ AddGrantAndOwners
         \/ SetAppRoleAssignmentRequired \/ RemoveDisabledPermissions
  PROVE  TypeOK'
<1> USE ConstantsInTypes, StepsAfter
<1>1. CASE Exists
  <2>1. /\ principal' \in BOOLEAN /\ required' \in BOOLEAN
        /\ UNCHANGED <<ties, policies>>
    BY <1>1, RegisteredType DEF Exists, serviceprincipal, TypeOK
  <2>2. tx' \in TxType /\ tx'.edition = tx.edition /\ tx'.marks = tx.marks
    BY <1>1 DEF Exists, TypeOK, TxType
  <2>3. pc # "idle" /\ pc' \in Step
    BY <1>1 DEF Exists, Goto, Step
  <2> QED
    BY <1>1, <2>1, <2>2, <2>3, GoesOn DEF Exists, application, TypeOK
<1>2. CASE Register
  <2>1. claim' \in Claim
    BY <1>2, ClaimType, InHand DEF Register
  <2>2. pc' \in Step
    BY <1>2 DEF Register, Goto, Step
  <2>3. redirects' \subseteq Platform \X Url /\ attributes' \subseteq Attribute
    BY <1>2, InHand, RedirectsType, AttributesType DEF Register
  <2> QED
    BY <1>2, <2>1, <2>2, <2>3
    DEF Register, TypeOK, resource, operator, serviceprincipal, bounds
<1>3. CASE RegisterPrincipal
  <2>1. /\ principal' \in BOOLEAN /\ required' \in BOOLEAN
        /\ UNCHANGED <<ties, policies>>
        /\ pc # "idle" /\ pc' \in Step
    BY <1>3, RegisteredType DEF RegisterPrincipal, Goto, Step, Tie
  <2> QED
    BY <1>3, <2>1, GoesOn DEF RegisterPrincipal, application, TypeOK
<1>4. CASE Update
  <2>1. claim' \in Claim
    BY <1>4, ClaimType, InHand DEF Update
  <2>2. pc # "idle" /\ pc' \in Step
    BY <1>4 DEF Update, Goto, Step
  <2>3. attributes' \subseteq Attribute
    BY <1>4, AttributesType DEF Update, TypeOK
  <2> QED
    BY <1>4, <2>1, <2>2, <2>3, GoesOn DEF Update, serviceprincipal, TypeOK
<1>5. ASSUME NEW tie \in Tie, NEW next \in Step, AddIfMissing(tie, next)
      PROVE  TypeOK'
  BY <1>5, GoesOn DEF AddIfMissing, Goto, application, TypeOK, Tie
<1>6. CASE AddGrantAndOwners
  <2>1. "grant" \in Tie /\ "owner" \in Tie /\ "spowner" \in Tie /\ Tie \subseteq Step
    BY DEF Tie, Step
  <2> QED BY <1>5, <1>6, <2>1 DEF AddGrantAndOwners
<1>7. CASE SetAppRoleAssignmentRequired
  <2>1. pc # "idle" /\ pc' \in Step
    BY <1>7 DEF SetAppRoleAssignmentRequired, Goto, Step
  <2> QED
    BY <1>7, <2>1, GoesOn DEF SetAppRoleAssignmentRequired, application, TypeOK
<1>8. CASE SetIdentifierUris
  <2>1. pc # "idle" /\ pc' \in Step
    BY <1>8 DEF SetIdentifierUris, Goto, Step, Tie
  <2>2. attributes' \subseteq Attribute
    BY <1>8, AttributesType DEF SetIdentifierUris
  <2> QED
    BY <1>8, <2>1, <2>2, GoesOn DEF SetIdentifierUris, serviceprincipal, TypeOK
<1>9. CASE UpdateRedirectUris
  <2>1. pc # "idle" /\ pc' \in Step
    BY <1>9 DEF UpdateRedirectUris, Goto, Step, Tie
  <2>2. redirects' \subseteq Platform \X Url
    BY <1>9, InHand, RedirectsType DEF UpdateRedirectUris
  <2> QED
    BY <1>9, <2>1, <2>2, GoesOn
    DEF UpdateRedirectUris, serviceprincipal, TypeOK
<1>10. CASE RemoveDisabledPermissions
  BY <1>10, GoesOn DEF RemoveDisabledPermissions, serviceprincipal, TypeOK
<1> QED BY <1>1, <1>2, <1>3, <1>4, <1>6, <1>7, <1>8, <1>9, <1>10

LEMMA PolicyType ==
  ASSUME TypeOK,
         \/ EnableAcceptMappedClaims \/ GetAssignedPolicies \/ KeepPolicy
         \/ AssignPolicy \/ \E p \in tx.policies : RemovePolicy(p)
  PROVE  TypeOK'
<1> USE ConstantsInTypes, StepsAfter DEF PrincipalStep, application
<1>1. Desired \in Nat
  BY DEF Desired, TypeOK, SettingType
<1>2. CASE EnableAcceptMappedClaims
  <2>1. pc # "idle" /\ pc' \in Step
    BY <1>2 DEF EnableAcceptMappedClaims, Goto, Step
  <2> QED
    BY <1>2, <2>1, GoesOn DEF EnableAcceptMappedClaims, serviceprincipal, TypeOK
<1>3. CASE GetAssignedPolicies
  <2>1. pc # "idle" /\ pc' \in Step
    BY <1>3 DEF GetAssignedPolicies, Goto, Step
  <2>2. tx' \in TxType /\ tx'.edition = tx.edition /\ tx'.marks = tx.marks
    BY <1>3 DEF GetAssignedPolicies, TypeOK, TxType
  <2> QED BY <1>3, <2>1, <2>2, GoesOn DEF GetAssignedPolicies, TypeOK
<1>4. CASE KeepPolicy
  <2>1. tx' \in TxType /\ tx'.edition = tx.edition /\ tx'.marks = tx.marks
    BY <1>4 DEF KeepPolicy, TypeOK, TxType
  <2> QED BY <1>4, <2>1, GoesOn DEF KeepPolicy, TypeOK, Goto
<1>5. CASE AssignPolicy
  BY <1>1, <1>5, GoesOn DEF AssignPolicy, TypeOK, Goto
<1>6. ASSUME NEW p, RemovePolicy(p) PROVE TypeOK'
  <2>1. tx' \in TxType /\ tx'.edition = tx.edition /\ tx'.marks = tx.marks
    BY <1>6 DEF RemovePolicy, TypeOK, TxType
  <2> QED BY <1>6, <2>1, GoesOn DEF RemovePolicy, TypeOK
<1> QED BY <1>2, <1>3, <1>4, <1>5, <1>6

LEMMA GroupType ==
  ASSUME TypeOK,
         \/ GetGroups \/ ListAssignments \/ GroupsProcessed
         \/ \E g \in tx.todo : GetById(g)
         \/ \E a \in tx.assign : Assign(a)
         \/ \E a \in tx.revoke : Revoke(a)
  PROVE  TypeOK'
<1> USE StepsAfter DEF PrincipalStep, application
<1>1. CASE GetGroups
  <2>1. WantedGroups(tx.edition, setting) \subseteq Group
    BY <1>1, InHand, WantedType DEF GetGroups
  <2>2. tx' \in TxType /\ tx'.edition = tx.edition /\ tx'.marks = tx.marks
    BY <1>1, <2>1 DEF GetGroups, TypeOK, TxType
  <2>3. pc # "idle" /\ pc' \in Step
    BY <1>1 DEF GetGroups, Goto, Step
  <2> QED BY <1>1, <2>2, <2>3, GoesOn DEF GetGroups, TypeOK
<1>2. ASSUME NEW g \in tx.todo, GetById(g) PROVE TypeOK'
  <2>1. g \in Group
    BY DEF TypeOK, TxType
  <2>2. /\ tx' \in TxType /\ tx'.edition = tx.edition /\ tx'.marks = tx.marks
        /\ cached' \subseteq Group
    <3>1. CASE /\ tx' = [tx EXCEPT !.todo = @ \ {g}, !.found = @ \cup {g}]
               /\ cached' = cached \cup {g}
      BY <2>1, <3>1 DEF TypeOK, TxType
    <3>2. CASE tx' = [tx EXCEPT !.todo = @ \ {g}] /\ UNCHANGED cached
      BY <3>2 DEF TypeOK, TxType
    <3> QED BY <1>2, <3>1, <3>2, Zenon DEF GetById
  <2>3. /\ pc # "idle" /\ UNCHANGED <<policies, assignments, pc>>
        /\ PrincipalStep
    BY <1>2, Zenon DEF GetById
  <2> QED BY <2>2, <2>3, GoesOn DEF TypeOK
<1>3. CASE ListAssignments
  <2>1. DesiredAssignments \subseteq Assignment /\ Existing \subseteq Assignment
    BY DEF DesiredAssignments, Existing, Assignment, Role, TypeOK, TxType
  <2>2. tx' \in TxType /\ tx'.edition = tx.edition /\ tx'.marks = tx.marks
    BY <1>3, <2>1 DEF ListAssignments, TypeOK, TxType
  <2>3. pc # "idle" /\ pc' \in Step
    BY <1>3 DEF ListAssignments, Goto, Step
  <2> QED BY <1>3, <2>2, <2>3, GoesOn DEF ListAssignments, TypeOK
<1>4. CASE GroupsProcessed
  BY <1>4, GoesOn DEF GroupsProcessed, Goto, TypeOK
<1>5. ASSUME NEW a \in tx.assign, Assign(a) PROVE TypeOK'
  <2>1. a \in Assignment /\ a[1] \in groups
    BY <1>5 DEF Assign, TypeOK, TxType
  <2>2. tx' \in TxType /\ tx'.edition = tx.edition /\ tx'.marks = tx.marks
    BY <1>5 DEF Assign, TypeOK, TxType
  <2> QED BY <1>5, <2>1, <2>2, GoesOn DEF Assign, TypeOK
<1>6. ASSUME NEW a \in tx.revoke, Revoke(a) PROVE TypeOK'
  <2>1. tx' \in TxType /\ tx'.edition = tx.edition /\ tx'.marks = tx.marks
    BY <1>6 DEF Revoke, TypeOK, TxType
  <2> QED BY <1>6, <2>1, GoesOn DEF Revoke, TypeOK
<1> QED BY <1>1, <1>2, <1>3, <1>4, <1>5, <1>6

LEMMA EndType ==
  ASSUME TypeOK,
         Prepare \/ UpdateStatus \/ UpdateAnnotations \/ Refused \/ Abort
  PROVE  TypeOK'
<1> USE DEF application, serviceprincipal
<1>1. CASE Prepare
  <2>1. /\ tx' \in TxType /\ tx'.edition = edition /\ tx'.marks = marks
        /\ edition \in Nat /\ edition # 0 /\ status <= edition /\ marks \in Nat
        /\ pc' \in Step
    <3>1. edition \in Nat /\ edition # 0 /\ status <= edition /\ marks \in Nat
      BY ConstantsInTypes DEF TypeOK
    <3>2. tx' = [NoTx EXCEPT !.edition = edition, !.marks = marks]
      BY <1>1 DEF Prepare
    <3>3. tx' \in TxType /\ tx'.edition = edition /\ tx'.marks = marks
      BY <3>1, <3>2, NoTxType DEF TxType
    <3> QED BY <1>1, <3>1, <3>3 DEF Prepare, Goto, Step
  <2> QED
    BY <1>1, <2>1 DEF Prepare, TypeOK, resource, operator, bounds
<1>2. CASE UpdateStatus
  <2>1. /\ tx.edition \in 0..edition /\ setting \in 0..setting
        /\ tx.edition >= tx.edition
    BY <1>2, InHand DEF UpdateStatus, TypeOK, TxType
  <2>2. pc # "idle" /\ pc' \in Step
    BY <1>2 DEF UpdateStatus, Goto, Step
  <2> QED
    BY <1>2, <2>1, <2>2 DEF UpdateStatus, TypeOK, bounds
<1>3. CASE UpdateAnnotations
  <2>1. tx.marks \in 0..marks
    BY DEF TypeOK, TxType
  <2>2. pc' = "idle" /\ "idle" \in Step /\ tx' = NoTx /\ NoTx.edition = 0 /\ NoTx.marks = 0
    BY <1>3 DEF UpdateAnnotations, Goto, Step, NoTx
  <2>3. /\ edition \in Nat /\ marks \in Nat /\ 0 <= edition /\ 0 <= marks
        /\ tx' \in TxType /\ tx'.edition <= edition /\ tx'.marks <= marks
    BY <2>2, NoTxType, ConstantsInTypes DEF TypeOK
  <2> QED
    BY <1>3, <2>1, <2>2, <2>3 DEF UpdateAnnotations, TypeOK, operator, bounds
<1>4. CASE Refused
  <2>1. pc # "idle" /\ Fail
    BY <1>4 DEF Refused
  <2> QED
    BY <1>4, <2>1, FailType
    DEF Refused, TypeOK, resource, operator, bounds
<1>5. CASE Abort
  <2>1. pc # "idle" /\ Fail /\ faults' \in 0..MaxFaults
    BY <1>5, ConstantsAssumption DEF Abort, TypeOK
  <2> QED
    BY <1>5, <2>1, FailType DEF Abort, TypeOK, resource, operator
<1> QED BY <1>1, <1>2, <1>3, <1>4, <1>5

(* Every reachable state is well typed, for any specs, settings, groups.   *)
THEOREM TypeCorrect == Spec => []TypeOK
<1>1. TypeOK /\ UNCHANGED vars => TypeOK'
  BY DEF TypeOK, vars, resource, operator, application, serviceprincipal,
         bounds
<1>2. TypeOK /\ [Next]_vars => TypeOK'
  BY <1>1, EnvironmentType, WriteType, PolicyType, GroupType, EndType
  DEF Next, Pass
<1> QED BY InitTypeOK, <1>2, PTL DEF Spec

----------------------------------------------------------------------------
(* Groups. *)

(* What the running pass may leave, and what the status vouches for.       *)
ByPass(a) ==
  a[1] \in Group => a[2] = "default" /\ a[1] \in WantedGroups(tx.edition, setting)

Permitted(a) ==
  a[1] \in Group =>
    /\ a[2] = "default"
    /\ \E e \in RecentEditions, s \in RecentSettings : a[1] \in WantedGroups(e, s)

(* A pass looks for groups that are wanted, assigns those, is about to     *)
(* revoke all others, and has done so when it comes to its end.            *)
InProgress ==
  /\ pc = "group" => tx.todo \cup tx.found \subseteq WantedGroups(tx.edition, setting)
  /\ pc = "assign" => /\ \A a \in tx.assign : ByPass(a)
                      /\ \A a \in assignments : a \in tx.revoke \/ ByPass(a)
  /\ pc \in {"require", "complete"} /\ Enabled("groups") =>
       \A a \in assignments : ByPass(a)

GInv == TypeOK /\ GroupsAuthorized /\ InProgress

LEMMA ByPassStays ==
  ASSUME UNCHANGED setting, tx'.edition = tx.edition
  PROVE  \A a : ByPass(a)' <=> ByPass(a)
  BY DEF ByPass, WantedGroups

LEMMA AuthorizedMeans ==
  GroupsAuthorized <=>
    (status # 0 /\ AssigningGroups => \A a \in assignments : Permitted(a))
  BY DEF GroupsAuthorized, Permitted

(* The pass speaks for an edition and a setting that are recent. *)
LEMMA ByPassPermitted ==
  ASSUME TypeOK, pc # "idle", NEW a, ByPass(a)
  PROVE  Permitted(a)
<1>1. tx.edition \in RecentEditions /\ setting \in RecentSettings
  BY ConstantsInTypes DEF TypeOK, TxType, RecentEditions, RecentSettings
<1> QED BY <1>1 DEF ByPass, Permitted

(* Nothing is lost when nothing is assigned, and no status is written.     *)
LEMMA StaysAuthorized ==
  ASSUME TypeOK, TypeOK', GroupsAuthorized,
         UNCHANGED <<status, under>>, edition <= edition', setting <= setting',
         assignments' \subseteq assignments
  PROVE  GroupsAuthorized'
<1>1. RecentEditions \subseteq RecentEditions' /\ RecentSettings \subseteq RecentSettings'
  <2>1. edition \in Nat /\ setting \in Nat
    BY ConstantsInTypes DEF TypeOK
  <2>2. edition' \in Nat /\ setting' \in Nat
    BY ConstantsInTypes DEF TypeOK
  <2> QED BY <2>1, <2>2 DEF RecentEditions, RecentSettings
<1>2. AssigningGroups' => AssigningGroups
  BY <1>1 DEF AssigningGroups
<1>3. ASSUME NEW a \in assignments', a[1] \in Group, status' # 0, AssigningGroups'
      PROVE  /\ a[2] = "default"
             /\ \E e \in RecentEditions', s \in RecentSettings' :
                  a[1] \in WantedGroups(e, s)
  <2>1. a \in assignments /\ status # 0 /\ AssigningGroups
    BY <1>2, <1>3
  <2>2. PICK e \in RecentEditions, s \in RecentSettings : a[1] \in WantedGroups(e, s)
    BY <1>3, <2>1 DEF GroupsAuthorized
  <2>3. a[2] = "default"
    BY <1>3, <2>1 DEF GroupsAuthorized
  <2> QED BY <1>1, <2>2, <2>3
<1> QED BY <1>3 DEF GroupsAuthorized

LEMMA EnvironmentGInv ==
  ASSUME GInv, TypeOK',
         \/ EditSpec \/ AskForSynchronization \/ Reconfigure
         \/ \E g \in Group : DeleteGroup(g) \/ ExpireGroup(g)
  PROVE  GInv'
<1>1. /\ UNCHANGED <<status, under>>
      /\ edition <= edition' /\ setting <= setting'
      /\ assignments' \subseteq assignments
      /\ \/ pc' = "idle" \/ UNCHANGED <<setting, pc, tx>>
  <2>1. edition \in Nat /\ setting \in Nat
    BY Counting DEF GInv
  <2> QED
    BY <2>1
    DEF EditSpec, AskForSynchronization, Reconfigure, DeleteGroup, ExpireGroup,
        Change, resource, operator
<1>2. GroupsAuthorized'
  BY <1>1, StaysAuthorized DEF GInv
<1>3. InProgress'
  BY <1>1 DEF GInv, InProgress, ByPass, WantedGroups, Enabled
<1> QED BY <1>2, <1>3 DEF GInv

LEMMA WriteGInv ==
  ASSUME GInv, TypeOK',
         \/ Prepare \/ Exists \/ Register \/ RegisterPrincipal
         \/ SetIdentifierUris \/ Update \/ UpdateRedirectUris
         \/ AddGrantAndOwners \/ EnableAcceptMappedClaims
         \/ GetAssignedPolicies \/ KeepPolicy \/ AssignPolicy
         \/ \E p \in tx.policies : RemovePolicy(p)
         \/ UpdateAnnotations \/ Refused \/ Abort
  PROVE  GInv'
<1>1. /\ UNCHANGED <<edition, status, setting, under, assignments>>
      /\ pc' \notin {"group", "assign"}
      /\ pc' \in {"require", "complete"} => ~Enabled("groups")
  BY DEF Prepare, Exists, Register, RegisterPrincipal, SetIdentifierUris,
         Update, UpdateRedirectUris, AddGrantAndOwners, AddIfMissing, EnableAcceptMappedClaims,
         GetAssignedPolicies, KeepPolicy, AssignPolicy, RemovePolicy,
         PrincipalStep, UpdateAnnotations, Refused, Abort, Fail, Goto,
         AfterOwners, AfterPolicies, resource, operator
<1>2. edition <= edition' /\ setting <= setting'
  BY <1>1, Counting DEF GInv
<1>3. GroupsAuthorized'
  BY <1>1, <1>2, StaysAuthorized DEF GInv
<1>4. InProgress'
  BY <1>1 DEF InProgress, Enabled
<1> QED BY <1>3, <1>4 DEF GInv

(* The steps over the groups. *)
LEMMA GroupsGInv ==
  ASSUME GInv, TypeOK',
         \/ GetGroups \/ ListAssignments \/ GroupsProcessed
         \/ \E g \in tx.todo : GetById(g)
         \/ \E a \in tx.revoke : Revoke(a)
         \/ SetAppRoleAssignmentRequired \/ RemoveDisabledPermissions
  PROVE  GInv'
<1> USE DEF PrincipalStep, operator, resource
<1>1. /\ UNCHANGED <<edition, status, setting, under>>
      /\ assignments' \subseteq assignments
  <2>1. CASE \E g \in tx.todo : GetById(g)
    BY <2>1, Zenon DEF GetById
  <2>2. CASE ~\E g \in tx.todo : GetById(g)
    BY <2>2
    DEF GetGroups, ListAssignments, GroupsProcessed, Revoke,
        SetAppRoleAssignmentRequired, RemoveDisabledPermissions
  <2> QED BY <2>1, <2>2
<1>2. edition <= edition' /\ setting <= setting'
  <2>1. edition \in Nat /\ setting \in Nat
    BY Counting DEF GInv
  <2> QED BY <1>1, <2>1
<1>3. GroupsAuthorized'
  BY <1>1, <1>2, StaysAuthorized DEF GInv
<1>4. tx.edition \in Nat /\ tx \in TxType
  BY DEF GInv, TypeOK, TxType
<1>5. CASE GetGroups
  <2>1. /\ pc' = "group"
        /\ tx'.todo = WantedGroups(tx.edition, setting) /\ tx'.found = {}
        /\ tx'.edition = tx.edition
    BY <1>4, <1>5 DEF GetGroups, Goto, TxType
  <2> QED BY <1>1, <1>3, <2>1 DEF GInv, InProgress, WantedGroups
<1>6. ASSUME NEW g \in tx.todo, GetById(g) PROVE InProgress'
  <2>1. /\ pc = "group" /\ pc' = "group"
        /\ tx'.todo \subseteq tx.todo /\ tx'.found \subseteq tx.found \cup {g}
        /\ tx'.edition = tx.edition
    <3>1. pc = "group" /\ UNCHANGED pc
      BY <1>6, Zenon DEF GetById
    <3>2. CASE tx' = [tx EXCEPT !.todo = @ \ {g}, !.found = @ \cup {g}]
      BY <1>4, <3>1, <3>2 DEF TxType
    <3>3. CASE tx' = [tx EXCEPT !.todo = @ \ {g}]
      BY <1>4, <3>1, <3>3 DEF TxType
    <3> QED BY <1>6, <3>2, <3>3, Zenon DEF GetById
  <2> QED BY <1>1, <2>1 DEF GInv, InProgress, WantedGroups
<1>7. CASE ListAssignments
  <2>1. /\ pc = "group" /\ pc' = "assign" /\ tx'.edition = tx.edition
        /\ tx'.assign = DesiredAssignments \ Existing
        /\ tx'.revoke = Existing \ DesiredAssignments
        /\ UNCHANGED assignments
    BY <1>4, <1>7 DEF ListAssignments, Goto, TxType
  <2>2. \A a \in DesiredAssignments : ByPass(a)
    BY <2>1 DEF DesiredAssignments, ByPass, GInv, InProgress
  <2>3. \A a \in assignments : a \in tx'.revoke \/ ByPass(a)
    BY <2>1, <2>2 DEF Existing, ByPass
  <2> QED
    BY <1>1, <1>3, <2>1, <2>2, <2>3, ByPassStays DEF GInv, InProgress
<1>8. CASE GroupsProcessed
  <2>1. pc' \in {"require", "complete"} /\ \A a \in assignments : ByPass(a)
    BY <1>8 DEF GroupsProcessed, Goto, AfterGroups, GInv, InProgress
  <2>2. UNCHANGED <<tx, assignments>>
    BY <1>8 DEF GroupsProcessed
  <2> QED BY <1>1, <1>3, <2>1, <2>2, ByPassStays DEF GInv, InProgress
<1>9. ASSUME NEW a \in tx.revoke, Revoke(a) PROVE InProgress'
  <2>1. /\ pc = "assign" /\ UNCHANGED pc /\ tx'.edition = tx.edition
        /\ tx'.assign = tx.assign /\ tx'.revoke = tx.revoke \ {a}
        /\ assignments' = assignments \ {a}
    BY <1>4, <1>9 DEF Revoke, TxType
  <2> QED BY <1>1, <2>1 DEF GInv, InProgress, ByPass, WantedGroups
<1>10. CASE SetAppRoleAssignmentRequired \/ RemoveDisabledPermissions
  <2>1. /\ pc \in {"require", "complete"} /\ pc' = "complete"
        /\ UNCHANGED <<tx, assignments>>
    BY <1>10 DEF SetAppRoleAssignmentRequired, RemoveDisabledPermissions, Goto
  <2>2. Enabled("groups")' <=> Enabled("groups")
    BY <1>1 DEF Enabled
  <2> QED BY <1>1, <1>3, <2>1, <2>2, ByPassStays DEF GInv, InProgress
<1> QED
  BY <1>3, <1>5, <1>6, <1>7, <1>8, <1>9, <1>10 DEF GInv

(* A wanted group is assigned, by the pass that wants it. *)
LEMMA AssignGInv ==
  ASSUME GInv, TypeOK', NEW a \in tx.assign, Assign(a)
  PROVE  GInv'
<1>1. /\ pc = "assign" /\ UNCHANGED pc
      /\ UNCHANGED <<edition, status, setting, under>>
      /\ assignments' = assignments \cup {a}
      /\ tx'.edition = tx.edition /\ tx'.revoke = tx.revoke
      /\ tx'.assign \subseteq tx.assign
  BY DEF Assign, PrincipalStep, operator, resource, GInv, TypeOK, TxType
<1>2. ByPass(a)
  BY <1>1 DEF GInv, InProgress
<1>3. InProgress'
  BY <1>1, <1>2, ByPassStays DEF GInv, InProgress
<1>4. GroupsAuthorized'
  <2>1. Permitted(a)
    BY <1>1, <1>2, ByPassPermitted DEF GInv
  <2>2. AssigningGroups' => AssigningGroups
    BY <1>1 DEF AssigningGroups, RecentSettings
  <2>3. \A b : Permitted(b)' <=> Permitted(b)
    BY <1>1 DEF Permitted, RecentEditions, RecentSettings, WantedGroups
  <2>4. status' # 0 /\ AssigningGroups' => \A b \in assignments' : Permitted(b)'
    BY <1>1, <2>1, <2>2, <2>3, AuthorizedMeans DEF GInv
  <2> QED BY <2>4 DEF GroupsAuthorized, Permitted
<1> QED BY <1>3, <1>4 DEF GInv

(* The status vouches for what the pass has left. *)
LEMMA StatusGInv ==
  ASSUME GInv, TypeOK', UpdateStatus
  PROVE  GInv'
<1>1. /\ pc = "complete" /\ pc' = "annotations"
      /\ status' = tx.edition /\ under' = setting
      /\ UNCHANGED <<edition, setting, assignments>>
  BY DEF UpdateStatus, Goto
<1>2. InProgress'
  BY <1>1 DEF InProgress
<1>3. tx.edition \in RecentEditions' /\ setting \in RecentSettings'
  <2>1. edition \in Nat /\ setting \in 1..Len(Settings)
    BY Counting DEF GInv
  <2>2. tx.edition \in Nat /\ tx.edition # 0 /\ tx.edition <= edition
    BY <1>1 DEF GInv, TypeOK, TxType
  <2> QED
    BY <1>1, <2>1, <2>2, ConstantsInTypes DEF RecentEditions, RecentSettings
<1>4. AssigningGroups' => \A a \in assignments : ByPass(a)
  BY <1>1, <1>3 DEF AssigningGroups, Enabled, GInv, InProgress
<1>5. GroupsAuthorized'
  BY <1>1, <1>3, <1>4 DEF GroupsAuthorized, ByPass
<1> QED BY <1>2, <1>5 DEF GInv

LEMMA GInvHolds == Spec => []GInv
<1>1. Init => GInv
  BY InitTypeOK DEF Init, GInv, GroupsAuthorized, InProgress
<1>2. GInv /\ [Next]_vars => GInv'
  <2> SUFFICES ASSUME GInv, [Next]_vars PROVE GInv'
    OBVIOUS
  <2>1. TypeOK'
    <3>1. CASE UNCHANGED vars
      BY <3>1
      DEF GInv, TypeOK, vars, resource, operator, application,
          serviceprincipal, bounds
    <3> QED
      BY <3>1, EnvironmentType, WriteType, PolicyType, GroupType, EndType
      DEF GInv, Next, Pass
  <2>2. CASE UNCHANGED vars
    BY <2>1, <2>2
    DEF vars, resource, operator, GInv, GroupsAuthorized, InProgress,
        ByPass, WantedGroups, Enabled, AssigningGroups, RecentEditions,
        RecentSettings
  <2> QED
    BY <2>1, <2>2, EnvironmentGInv, WriteGInv, GroupsGInv, AssignGInv,
       StatusGInv DEF Next, Pass
<1> QED BY <1>1, <1>2, PTL DEF Spec

(* No group may sign in that neither the last edition carried out nor a    *)
(* newer one asked for, whatever failed, whichever groups were deleted or  *)
(* remembered, and however the operator was restarted or reconfigured.     *)
THEOREM NoOtherGroups == Spec => []GroupsAuthorized
<1>1. GInv => GroupsAuthorized
  BY DEF GInv
<1> QED BY <1>1, GInvHolds, PTL

----------------------------------------------------------------------------
(* The policies: at most one, none that the pass does not know of while it *)
(* replaces them, and none assigned before mapped claims are accepted.     *)
PoliciesKnown ==
  /\ \E p : policies \subseteq {p}
  /\ pc \in {"policies", "policy"} => mapped
  /\ pc = "policy" => policies \subseteq tx.policies

LEMMA InitPolicies == Init => PoliciesKnown
<1> SUFFICES ASSUME Init PROVE \E p : policies \subseteq {p}
  BY DEF Init, PoliciesKnown
<1>1. policies = {} \/ \E p \in Foreign : policies = {p}
  BY DEF Init
<1> QED BY <1>1

(* Steps on the groups leave policies and principal alone. *)
LEMMA GroupsLeave ==
  ASSUME \/ GetGroups \/ ListAssignments \/ GroupsProcessed
         \/ \E g \in tx.todo : GetById(g)
         \/ \E a \in tx.assign : Assign(a)
         \/ \E a \in tx.revoke : Revoke(a)
  PROVE  /\ UNCHANGED <<policies, mapped, principal, required>>
         /\ pc' \notin {"policies", "policy"}
<1>1. CASE GetGroups
  BY <1>1 DEF GetGroups, Goto, PrincipalStep, application
<1>2. CASE ListAssignments
  BY <1>2, Zenon DEF ListAssignments, Goto, PrincipalStep, application
<1>3. CASE GroupsProcessed
  BY <1>3 DEF GroupsProcessed, AfterGroups, Goto, PrincipalStep, application
<1>4. ASSUME NEW g \in tx.todo, GetById(g)
      PROVE  /\ UNCHANGED <<policies, mapped, principal, required>>
             /\ pc' \notin {"policies", "policy"}
  BY <1>4 DEF GetById, PrincipalStep, application
<1>5. ASSUME NEW a \in tx.assign, Assign(a)
      PROVE  /\ UNCHANGED <<policies, mapped, principal, required>>
             /\ pc' \notin {"policies", "policy"}
  BY <1>5 DEF Assign, PrincipalStep, application
<1>6. ASSUME NEW a \in tx.revoke, Revoke(a)
      PROVE  /\ UNCHANGED <<policies, mapped, principal, required>>
             /\ pc' \notin {"policies", "policy"}
  BY <1>6 DEF Revoke, PrincipalStep, application
<1> QED BY <1>1, <1>2, <1>3, <1>4, <1>5, <1>6

(* Only RemovePolicy and AssignPolicy change the policies. *)
LEMMA OtherPolicies ==
  ASSUME TypeOK, PoliciesKnown, Next,
         \A p \in tx.policies : ~RemovePolicy(p), ~AssignPolicy
  PROVE  UNCHANGED policies /\ PoliciesKnown'
<1>1. CASE EditSpec \/ AskForSynchronization \/ Reconfigure
           \/ \E g \in Group : DeleteGroup(g) \/ ExpireGroup(g)
  BY <1>1
  DEF EditSpec, AskForSynchronization, Reconfigure, Change, DeleteGroup,
      ExpireGroup, serviceprincipal, application, PoliciesKnown
<1>2. CASE Prepare \/ Exists \/ Register \/ RegisterPrincipal
           \/ SetIdentifierUris \/ Update \/ UpdateRedirectUris
           \/ AddGrantAndOwners
  BY <1>2
  DEF Prepare, Exists, Register, RegisterPrincipal, SetIdentifierUris, Update,
      UpdateRedirectUris, AddGrantAndOwners, AddIfMissing, RegisterServicePrincipal, AfterOwners, AfterPolicies, Goto,
      serviceprincipal, application, PoliciesKnown
<1>3. CASE EnableAcceptMappedClaims
  BY <1>3
  DEF EnableAcceptMappedClaims, Goto, serviceprincipal, PoliciesKnown
<1>4. CASE GetAssignedPolicies \/ KeepPolicy
  <2>1. UNCHANGED <<policies, mapped>>
    BY <1>4 DEF GetAssignedPolicies, KeepPolicy, PrincipalStep, application
  <2>2. pc \in {"policies", "policy"}
    BY <1>4 DEF GetAssignedPolicies, KeepPolicy
  <2>3. pc' = "policy" => policies' \subseteq tx'.policies
    BY <1>4
    DEF GetAssignedPolicies, KeepPolicy, AfterPolicies, Goto, TypeOK, TxType
  <2> QED BY <2>1, <2>2, <2>3 DEF PoliciesKnown
<1>5. CASE GetGroups \/ (\E g \in tx.todo : GetById(g)) \/ ListAssignments
           \/ (\E a \in tx.assign : Assign(a)) \/ (\E a \in tx.revoke : Revoke(a))
           \/ GroupsProcessed
  BY <1>5, GroupsLeave DEF PoliciesKnown
<1>6. CASE Refused \/ SetAppRoleAssignmentRequired \/ RemoveDisabledPermissions
               \/ UpdateStatus
           \/ UpdateAnnotations \/ Abort
  BY <1>6
  DEF Refused, SetAppRoleAssignmentRequired, RemoveDisabledPermissions, UpdateStatus,
      UpdateAnnotations, Abort, Fail, Goto, serviceprincipal, application,
      PoliciesKnown
<1> QED BY <1>1, <1>2, <1>3, <1>4, <1>5, <1>6 DEF Next, Pass

LEMMA ReplacePolicies ==
  ASSUME TypeOK, PoliciesKnown,
         (\E p \in tx.policies : RemovePolicy(p)) \/ AssignPolicy
  PROVE  (policies' \subseteq policies \/ mapped) /\ PoliciesKnown'
<1>1. CASE \E p \in tx.policies : RemovePolicy(p)
  <2>1. PICK p \in tx.policies : RemovePolicy(p)
    BY <1>1
  <2>2. tx'.policies = tx.policies \ {p}
    BY <2>1 DEF RemovePolicy, TypeOK, TxType
  <2> QED
    BY <2>1, <2>2 DEF RemovePolicy, PrincipalStep, application, PoliciesKnown
<1>2. CASE AssignPolicy
  <2>1. policies' = {Desired} /\ mapped /\ UNCHANGED mapped /\ pc' # "policy"
    BY <1>2
    DEF AssignPolicy, PoliciesKnown, PrincipalStep, application, AfterPolicies,
        Goto
  <2> QED BY <2>1 DEF PoliciesKnown
<1> QED BY <1>1, <1>2

LEMMA PoliciesStep ==
  ASSUME TypeOK, PoliciesKnown, [Next]_vars
  PROVE  PoliciesKnown' /\ (policies' \subseteq policies \/ mapped)
<1>1. CASE UNCHANGED vars
  BY <1>1 DEF vars, serviceprincipal, application, PoliciesKnown
<1>2. CASE Next
  BY <1>2, OtherPolicies, ReplacePolicies
<1> QED BY <1>1, <1>2

LEMMA PoliciesKnownHolds == Spec => []PoliciesKnown
<1>1. TypeOK /\ PoliciesKnown /\ [Next]_vars => PoliciesKnown'
  BY PoliciesStep
<1> QED BY <1>1, InitPolicies, TypeCorrect, PTL DEF Spec

(* Entra ID never refuses a policy: whatever failed in between, there is   *)
(* none left when one is assigned, and mapped claims are accepted.         *)
THEOREM OnePolicy == Spec => PoliciesAccepted
<1>1. TypeOK /\ PoliciesKnown /\ [Next]_vars =>
        policies' \subseteq policies \/ mapped
  BY PoliciesStep
<1>2. PoliciesKnown' => Cardinality(policies') <= 1
  <2> SUFFICES ASSUME PoliciesKnown' PROVE Cardinality(policies') <= 1
    OBVIOUS
  <2>1. PICK p : policies' \subseteq {p}
    BY DEF PoliciesKnown
  <2>2. IsFiniteSet({p}) /\ Cardinality({p}) = 1
    BY FS_Singleton
  <2>3. Cardinality(policies') <= Cardinality({p})
    BY <2>1, <2>2, FS_Subset
  <2> QED BY <2>2, <2>3
<1> QED BY <1>1, <1>2, TypeCorrect, PoliciesKnownHolds, PTL DEF Spec, PoliciesAccepted

----------------------------------------------------------------------------
(* Only RegisterServicePrincipal creates a principal, with the requirement *)
(* if that is enabled, and only a registration ever lifts a requirement.   *)
LEMMA OtherPrincipals ==
  ASSUME Next, ~Exists, ~RegisterPrincipal
  PROVE  UNCHANGED principal /\ (required => required')
<1>1. CASE EditSpec \/ AskForSynchronization \/ Reconfigure
           \/ \E g \in Group : DeleteGroup(g) \/ ExpireGroup(g)
  BY <1>1
  DEF EditSpec, AskForSynchronization, Reconfigure, Change, DeleteGroup,
      ExpireGroup, serviceprincipal
<1>2. CASE Prepare \/ Register \/ SetIdentifierUris \/ Update
           \/ UpdateRedirectUris \/ AddGrantAndOwners
           \/ EnableAcceptMappedClaims
  BY <1>2
  DEF Prepare, Register, SetIdentifierUris, Update, UpdateRedirectUris,
      AddGrantAndOwners, AddIfMissing, EnableAcceptMappedClaims,
      serviceprincipal
<1>3. CASE GetAssignedPolicies \/ (\E p \in tx.policies : RemovePolicy(p))
           \/ KeepPolicy \/ AssignPolicy
  BY <1>3
  DEF GetAssignedPolicies, RemovePolicy, KeepPolicy, AssignPolicy, PrincipalStep
<1>4. CASE GetGroups \/ (\E g \in tx.todo : GetById(g)) \/ ListAssignments
           \/ (\E a \in tx.assign : Assign(a)) \/ (\E a \in tx.revoke : Revoke(a))
           \/ GroupsProcessed
  BY <1>4, GroupsLeave
<1>5. CASE Refused \/ SetAppRoleAssignmentRequired \/ RemoveDisabledPermissions
               \/ UpdateStatus
           \/ UpdateAnnotations \/ Abort
  BY <1>5
  DEF Refused, SetAppRoleAssignmentRequired, RemoveDisabledPermissions, UpdateStatus,
      UpdateAnnotations, Abort, serviceprincipal
<1> QED BY <1>1, <1>2, <1>3, <1>4, <1>5 DEF Next, Pass

(* With the requirement on, nobody but those assigned ever gets in through *)
(* a principal that was closed or not there, in no step of a first pass    *)
(* that others may see, and after no failure, restart or reconfiguration.  *)
THEOREM NoOpenWindow == Spec => NeverOpened
<1>1. [Next]_vars =>
        (principal' /\ ~required' /\ Enabled("required") => principal /\ ~required)
  <2> SUFFICES ASSUME [Next]_vars, principal', ~required', Enabled("required")
               PROVE  principal /\ ~required
    OBVIOUS
  <2>1. CASE UNCHANGED vars
    BY <2>1 DEF vars, serviceprincipal
  <2>2. CASE Exists \/ RegisterPrincipal
    BY <2>2
    DEF Exists, RegisterPrincipal, RegisterServicePrincipal, serviceprincipal
  <2>3. CASE Next /\ ~Exists /\ ~RegisterPrincipal
    BY <2>3, OtherPrincipals
  <2> QED BY <2>1, <2>2, <2>3
<1> QED BY <1>1, PTL DEF Spec, NeverOpened

----------------------------------------------------------------------------
(* Who may sign in stays in. *)

(* A principal is registered once, with or after its application.          *)
RegisteredOnce ==
  /\ principal => registered
  /\ pc = "register" => ~registered
  /\ pc = "principal" => registered /\ ~principal

(* No wanted group that exists is missed by the lookup; when the groups    *)
(* are assigned, none of those found is forgotten, or revoked; and none is *)
(* unassigned when the requirement is set.                                 *)
NoneMissed ==
  /\ pc \in {"group", "assign"} =>
       \A g \in WantedGroups(tx.edition, setting) \cap groups : g \in tx.todo \cup tx.found
  /\ pc = "assign" => /\ tx.todo = {}
                      /\ \A g \in tx.found \cap groups :
                           <<g, "default">> \in assignments \cup tx.assign
                      /\ \A g \in tx.found : <<g, "default">> \notin tx.revoke
                      /\ \A a \in tx.revoke : a[1] \in Group
  /\ pc = "require" /\ Enabled("groups") =>
       \A g \in WantedGroups(tx.edition, setting) \cap groups :
         <<g, "default">> \in assignments

SInv == RegisteredOnce /\ NoneMissed

LEMMA RegisteredOnceStep ==
  ASSUME RegisteredOnce, Next
  PROVE  RegisteredOnce'
<1>1. CASE Exists
  BY <1>1
  DEF Exists, RegisterServicePrincipal, Goto, serviceprincipal, application,
      RegisteredOnce
<1>2. CASE Register
  BY <1>2 DEF Register, Goto, serviceprincipal, RegisteredOnce
<1>3. CASE RegisterPrincipal
  <2>1. pc' = "identifiers" /\ registered' = registered /\ principal' = TRUE
    BY <1>3 DEF RegisterPrincipal, RegisterServicePrincipal, Goto, application
  <2> QED BY <1>3, <2>1 DEF RegisteredOnce, RegisterPrincipal
<1>4. CASE ~Exists /\ ~Register /\ ~RegisterPrincipal
  <2>1. UNCHANGED principal
    BY <1>4, OtherPrincipals
  <2>2. UNCHANGED registered /\ (pc' \in {"register", "principal"} => pc' = pc)
    <3>1. CASE EditSpec \/ AskForSynchronization \/ Reconfigure
               \/ \E g \in Group : DeleteGroup(g) \/ ExpireGroup(g)
      BY <3>1
      DEF EditSpec, AskForSynchronization, Reconfigure, Change, DeleteGroup,
          ExpireGroup, application
    <3>2. CASE Prepare \/ SetIdentifierUris \/ Update \/ UpdateRedirectUris
               \/ AddGrantAndOwners \/ EnableAcceptMappedClaims
      BY <3>2
      DEF Prepare, SetIdentifierUris, Update, UpdateRedirectUris, AddGrantAndOwners,
          AddIfMissing, AfterOwners, AfterPolicies, EnableAcceptMappedClaims, Goto,
          application
    <3>3. CASE GetAssignedPolicies \/ (\E p \in tx.policies : RemovePolicy(p))
               \/ KeepPolicy \/ AssignPolicy
      BY <3>3
      DEF GetAssignedPolicies, RemovePolicy, KeepPolicy, AssignPolicy, AfterPolicies,
          Goto, PrincipalStep, application
    <3>4. CASE GetGroups \/ (\E g \in tx.todo : GetById(g)) \/ ListAssignments
               \/ (\E a \in tx.assign : Assign(a)) \/ (\E a \in tx.revoke : Revoke(a))
               \/ GroupsProcessed
      BY <3>4, Zenon
      DEF GetGroups, GetById, ListAssignments, Assign, Revoke, GroupsProcessed,
          AfterGroups, Goto, PrincipalStep, application
    <3>5. CASE Refused \/ SetAppRoleAssignmentRequired \/ RemoveDisabledPermissions
               \/ UpdateStatus
               \/ UpdateAnnotations \/ Abort
      BY <3>5
      DEF Refused, SetAppRoleAssignmentRequired, RemoveDisabledPermissions,
          UpdateStatus,
          UpdateAnnotations, Abort, Fail, Goto, application
    <3> QED BY <1>4, <3>1, <3>2, <3>3, <3>4, <3>5 DEF Next, Pass
  <2> QED BY <2>1, <2>2 DEF RegisteredOnce
<1> QED BY <1>1, <1>2, <1>3, <1>4

LEMMA EnvironmentNoneMissed ==
  ASSUME NoneMissed, TypeOK,
         \/ EditSpec \/ AskForSynchronization \/ Reconfigure
         \/ \E g \in Group : DeleteGroup(g) \/ ExpireGroup(g)
  PROVE  NoneMissed'
<1>1. CASE Reconfigure
  BY <1>1 DEF Reconfigure, NoneMissed
<1>2. CASE ~Reconfigure
  <2>1. /\ UNCHANGED <<setting, pc, tx>>
        /\ groups' \subseteq groups
    BY <1>2 DEF EditSpec, AskForSynchronization, DeleteGroup, ExpireGroup, Change, operator
  <2>2. \A g \in groups' : <<g, "default">> \in assignments
                           => <<g, "default">> \in assignments'
    <3>1. ASSUME NEW h \in Group, DeleteGroup(h), NEW g \in groups',
                 <<g, "default">> \in assignments
          PROVE  <<g, "default">> \in assignments'
      <4>1. g # h /\ assignments' = {a \in assignments : a[1] # h}
        BY <3>1 DEF DeleteGroup
      <4>2. <<g, "default">>[1] = g
        OBVIOUS
      <4> QED BY <3>1, <4>1, <4>2
    <3>2. CASE UNCHANGED assignments
      BY <3>2
    <3> QED
      BY <1>2, <3>1, <3>2 DEF EditSpec, AskForSynchronization, ExpireGroup
  <2> QED BY <2>1, <2>2 DEF NoneMissed, WantedGroups, Enabled
<1> QED BY <1>1, <1>2

(* The lookup: todo and found together keep what exists.                   *)
LEMMA LookupNoneMissed ==
  ASSUME NoneMissed, TypeOK, GetGroups \/ \E g \in tx.todo : GetById(g)
  PROVE  NoneMissed'
<1>0. tx \in TxType
  BY DEF TypeOK
<1>1. CASE GetGroups
  <2>1. /\ pc' = "group" /\ tx'.edition = tx.edition
        /\ tx'.todo = WantedGroups(tx.edition, setting)
        /\ UNCHANGED <<setting, groups>>
    BY <1>0, <1>1 DEF GetGroups, Goto, TxType, PrincipalStep, operator
  <2> QED BY <2>1 DEF NoneMissed, WantedGroups
<1>2. ASSUME NEW g \in tx.todo, GetById(g) PROVE NoneMissed'
  <2>1. pc = "group" /\ pc' = "group" /\ UNCHANGED <<setting, groups>>
    BY <1>2, Zenon DEF GetById, PrincipalStep, operator
  <2>2. /\ tx'.edition = tx.edition
        /\ tx'.todo = tx.todo \ {g}
        /\ tx'.found = tx.found \cup {g} \/ (g \notin groups /\ tx'.found = tx.found)
    <3>1. CASE tx' = [tx EXCEPT !.todo = @ \ {g}, !.found = @ \cup {g}]
      BY <1>0, <3>1 DEF TxType
    <3>2. CASE g \notin cached \cup groups /\ tx' = [tx EXCEPT !.todo = @ \ {g}]
      BY <1>0, <3>2 DEF TxType
    <3> QED BY <1>2, <3>1, <3>2, Zenon DEF GetById
  <2>3. \A h \in groups : h \in tx.todo \cup tx.found => h \in tx'.todo \cup tx'.found
    BY <2>2
  <2> QED BY <2>1, <2>2, <2>3 DEF NoneMissed, WantedGroups
<1> QED BY <1>1, <1>2

LEMMA AssignNoneMissed ==
  ASSUME NoneMissed, TypeOK, ConstantsAssumption,
         \/ ListAssignments \/ GroupsProcessed
         \/ \E a \in tx.assign : Assign(a)
         \/ \E a \in tx.revoke : Revoke(a)
  PROVE  NoneMissed'
<1>0. tx \in TxType
  BY DEF TypeOK
<1>1. CASE ListAssignments
  <2>1. /\ pc = "group" /\ pc' = "assign" /\ tx.todo = {}
        /\ tx'.edition = tx.edition /\ tx'.todo = tx.todo /\ tx'.found = tx.found
        /\ tx'.assign = DesiredAssignments \ Existing
        /\ tx'.revoke = Existing \ DesiredAssignments
        /\ UNCHANGED <<setting, groups, assignments>>
    BY <1>0, <1>1 DEF ListAssignments, Goto, TxType, PrincipalStep, operator
  <2>2. \A g \in tx.found : <<g, "default">> \in DesiredAssignments
    BY DEF DesiredAssignments
  <2>3. Existing \subseteq assignments /\ \A a \in Existing : a[1] \in Group
    BY DEF Existing
  <2> QED BY <2>1, <2>2, <2>3 DEF NoneMissed, WantedGroups
<1>2. CASE GroupsProcessed
  <2>1. /\ pc = "assign" /\ tx.assign = {}
        /\ pc' \in {"require", "complete"}
        /\ UNCHANGED <<setting, groups, assignments, tx>>
    BY <1>2 DEF GroupsProcessed, AfterGroups, Goto, PrincipalStep, operator
  <2>2. \A g \in WantedGroups(tx.edition, setting) \cap groups :
          <<g, "default">> \in assignments
    BY <2>1 DEF NoneMissed
  <2> QED BY <2>1, <2>2 DEF NoneMissed, WantedGroups
<1>3. ASSUME NEW a \in tx.assign, Assign(a) PROVE NoneMissed'
  <2>1. /\ pc = "assign" /\ pc' = "assign"
        /\ tx'.edition = tx.edition /\ tx'.todo = tx.todo /\ tx'.found = tx.found
        /\ tx'.assign = tx.assign \ {a} /\ tx'.revoke = tx.revoke
        /\ assignments' = assignments \cup {a}
        /\ UNCHANGED <<setting, groups>>
    BY <1>0, <1>3 DEF Assign, TxType, PrincipalStep, operator
  <2> QED BY <2>1 DEF NoneMissed, WantedGroups
<1>4. ASSUME NEW a \in tx.revoke, Revoke(a) PROVE NoneMissed'
  <2>1. /\ pc = "assign" /\ pc' = "assign"
        /\ tx'.edition = tx.edition /\ tx'.todo = tx.todo /\ tx'.found = tx.found
        /\ tx'.assign = tx.assign /\ tx'.revoke = tx.revoke \ {a}
        /\ assignments' = assignments \ {a}
        /\ UNCHANGED <<setting, groups>>
    BY <1>0, <1>4 DEF Revoke, TxType, PrincipalStep, operator
  <2>2. \A g \in tx.found : <<g, "default">> # a
    BY <2>1 DEF NoneMissed
  <2> QED BY <2>1, <2>2 DEF NoneMissed, WantedGroups
<1> QED BY <1>1, <1>2, <1>3, <1>4

LEMMA OtherNoneMissed ==
  ASSUME \/ Prepare \/ Exists \/ Register \/ RegisterPrincipal
         \/ SetIdentifierUris \/ Update \/ UpdateRedirectUris
         \/ AddGrantAndOwners \/ EnableAcceptMappedClaims
         \/ GetAssignedPolicies \/ KeepPolicy \/ AssignPolicy
         \/ \E p \in tx.policies : RemovePolicy(p)
         \/ SetAppRoleAssignmentRequired \/ RemoveDisabledPermissions
               \/ UpdateStatus
         \/ UpdateAnnotations \/ Refused \/ Abort
  PROVE  NoneMissed'
<1>1. /\ UNCHANGED setting
      /\ pc' \notin {"group", "assign"}
      /\ pc' = "require" => ~Enabled("groups")
  BY DEF Prepare, Exists, Register, RegisterPrincipal, SetIdentifierUris,
         Update, UpdateRedirectUris, AddGrantAndOwners, AddIfMissing,
         EnableAcceptMappedClaims, GetAssignedPolicies, KeepPolicy, AssignPolicy,
         RemovePolicy, PrincipalStep, SetAppRoleAssignmentRequired, RemoveDisabledPermissions,
         UpdateStatus,
         UpdateAnnotations, Refused, Abort, Fail, Goto, AfterOwners,
         AfterPolicies, operator
<1> QED BY <1>1 DEF NoneMissed, Enabled

LEMMA SInvHolds == Spec => [](TypeOK /\ SInv)
<1>1. Init => SInv
  BY DEF Init, SInv, RegisteredOnce, NoneMissed
<1>2. TypeOK /\ SInv /\ [Next]_vars => SInv'
  <2> SUFFICES ASSUME TypeOK, SInv, [Next]_vars PROVE SInv'
    OBVIOUS
  <2>1. CASE UNCHANGED vars
    BY <2>1
    DEF vars, SInv, RegisteredOnce, NoneMissed, WantedGroups, Enabled, operator,
        application, serviceprincipal
  <2>2. CASE Next
    <3>1. NoneMissed'
      BY <2>2, EnvironmentNoneMissed, LookupNoneMissed, AssignNoneMissed,
         OtherNoneMissed, ConstantsAssumption
      DEF Next, Pass, SInv
    <3> QED BY <2>2, <3>1, RegisteredOnceStep DEF SInv
  <2> QED BY <2>1, <2>2
<1> QED BY <1>1, <1>2, TypeCorrect, PTL DEF Spec

(* Where assignments are taken away. *)
LEMMA LosingSteps ==
  ASSUME Next
  PROVE  \/ \E g \in Group : DeleteGroup(g)
         \/ \E a \in tx.revoke : Revoke(a)
         \/ assignments \subseteq assignments'
<1>1. CASE EditSpec \/ AskForSynchronization \/ Reconfigure
           \/ \E g \in Group : ExpireGroup(g)
  BY <1>1 DEF EditSpec, AskForSynchronization, Reconfigure, ExpireGroup
<1>2. CASE Prepare \/ Exists \/ Register \/ RegisterPrincipal \/ SetIdentifierUris
           \/ Update \/ UpdateRedirectUris \/ AddGrantAndOwners
           \/ EnableAcceptMappedClaims
  BY <1>2
  DEF Prepare, Exists, Register, RegisterPrincipal, SetIdentifierUris, Update,
      UpdateRedirectUris, AddGrantAndOwners, AddIfMissing, EnableAcceptMappedClaims
<1>3. CASE GetAssignedPolicies \/ (\E p \in tx.policies : RemovePolicy(p))
           \/ KeepPolicy \/ AssignPolicy
  BY <1>3 DEF GetAssignedPolicies, RemovePolicy, KeepPolicy, AssignPolicy
<1>4. CASE GetGroups \/ (\E g \in tx.todo : GetById(g)) \/ ListAssignments
           \/ (\E a \in tx.assign : Assign(a)) \/ GroupsProcessed
  BY <1>4, Zenon DEF GetGroups, GetById, ListAssignments, Assign, GroupsProcessed
<1>5. CASE Refused \/ SetAppRoleAssignmentRequired \/ RemoveDisabledPermissions
               \/ UpdateStatus
           \/ UpdateAnnotations \/ Abort
  BY <1>5
  DEF Refused, SetAppRoleAssignmentRequired, RemoveDisabledPermissions,
      UpdateStatus, UpdateAnnotations, Abort
<1> QED BY <1>1, <1>2, <1>3, <1>4, <1>5 DEF Next, Pass

(* Where a principal that is there gets the requirement. *)
LEMMA ClosingSteps ==
  ASSUME SInv, Next, principal, ~required, required'
  PROVE  SetAppRoleAssignmentRequired
<1>1. ~RegisterPrincipal
  BY DEF RegisterPrincipal, SInv, RegisteredOnce
<1>2. ~Exists
  BY DEF Exists, serviceprincipal
<1>3. CASE EditSpec \/ AskForSynchronization \/ Reconfigure
           \/ \E g \in Group : DeleteGroup(g) \/ ExpireGroup(g)
  BY <1>3
  DEF EditSpec, AskForSynchronization, Reconfigure, Change, DeleteGroup, ExpireGroup,
      serviceprincipal
<1>4. CASE Prepare \/ Register \/ SetIdentifierUris \/ Update \/ UpdateRedirectUris
           \/ AddGrantAndOwners \/ EnableAcceptMappedClaims
  BY <1>4
  DEF Prepare, Register, SetIdentifierUris, Update, UpdateRedirectUris,
      AddGrantAndOwners, AddIfMissing, EnableAcceptMappedClaims, serviceprincipal
<1>5. CASE GetAssignedPolicies \/ (\E p \in tx.policies : RemovePolicy(p))
           \/ KeepPolicy \/ AssignPolicy
  BY <1>5
  DEF GetAssignedPolicies, RemovePolicy, KeepPolicy, AssignPolicy, PrincipalStep
<1>6. CASE GetGroups \/ (\E g \in tx.todo : GetById(g)) \/ ListAssignments
           \/ (\E a \in tx.assign : Assign(a)) \/ (\E a \in tx.revoke : Revoke(a))
           \/ GroupsProcessed
  BY <1>6, GroupsLeave
<1>7. CASE Refused \/ RemoveDisabledPermissions \/ UpdateStatus
           \/ UpdateAnnotations \/ Abort
  BY <1>7
  DEF Refused, RemoveDisabledPermissions, UpdateStatus, UpdateAnnotations, Abort,
      serviceprincipal
<1> QED BY <1>1, <1>2, <1>3, <1>4, <1>5, <1>6, <1>7 DEF Next, Pass

LEMMA GroupSignsIn ==
  ASSUME TypeOK, SInv, Next, AssigningGroups, NEW g \in groups \cap groups', MaySignIn(g),
         \A e \in RecentEditions, s \in RecentSettings : g \in WantedGroups(e, s)
  PROVE  MaySignIn(g)'
<1>1. setting \in RecentSettings /\ (pc # "idle" => tx.edition \in RecentEditions)
  BY ConstantsInTypes DEF TypeOK, TxType, RecentEditions, RecentSettings
<1>2. Enabled("groups") /\ (pc # "idle" => g \in WantedGroups(tx.edition, setting))
  BY <1>1 DEF AssigningGroups, Enabled
<1>3. principal'
  BY OtherPrincipals
  DEF Exists, RegisterPrincipal, RegisterServicePrincipal, serviceprincipal, MaySignIn
<1>4. ASSUME required' PROVE \E a \in assignments' : a[1] = g
  <2>1. CASE ~required
    <3>1. /\ pc = "require"
          /\ assignments' = assignments
      BY <1>4, <2>1, ClosingSteps DEF MaySignIn, SetAppRoleAssignmentRequired
    <3>2. <<g, "default">> \in assignments'
      BY <1>2, <3>1 DEF SInv, NoneMissed
    <3> QED BY <3>2
  <2>2. CASE required
    <3>1. PICK a \in assignments : a[1] = g
      BY <2>2 DEF MaySignIn
    <3>2. ASSUME NEW h \in Group, DeleteGroup(h) PROVE a \in assignments'
      BY <3>1, <3>2 DEF DeleteGroup
    <3>3. ASSUME NEW r \in tx.revoke, Revoke(r)
          PROVE  \E b \in assignments' : b[1] = g
      <4>1. pc = "assign" /\ tx.assign = {} /\ assignments' = assignments \ {r}
        BY <3>3 DEF Revoke, MayRevoke
      <4>2. g \in tx.found
        BY <1>2, <4>1 DEF SInv, NoneMissed
      <4>3. <<g, "default">> \in assignments /\ <<g, "default">> # r
        BY <4>1, <4>2 DEF SInv, NoneMissed
      <4>4. <<g, "default">>[1] = g
        OBVIOUS
      <4> QED BY <4>1, <4>3, <4>4
    <3> QED BY <3>1, <3>2, <3>3, LosingSteps
  <2> QED BY <2>1, <2>2
<1> QED BY <1>3, <1>4 DEF MaySignIn

LEMMA UserSignsIn ==
  ASSUME ConstantsAssumption, SInv, Next, NEW a \in assignments, a[1] \in User
  PROVE  a \in assignments'
<1>1. a[1] \notin Group
  BY DEF ConstantsAssumption
<1>2. ASSUME NEW h \in Group, DeleteGroup(h) PROVE a \in assignments'
  BY <1>1, <1>2 DEF DeleteGroup
<1>3. ASSUME NEW r \in tx.revoke, Revoke(r) PROVE a \in assignments'
  BY <1>1, <1>3 DEF Revoke, SInv, NoneMissed
<1> QED BY <1>2, <1>3, LosingSteps

(* Nobody is locked out on the way: a group that may sign in, and that all *)
(* recent editions and settings let in, may sign in after every step, also *)
(* the one that closes an open principal, and a user whom somebody else    *)
(* has assigned stays assigned (process in client.go, group.go).           *)
THEOREM NobodyLockedOut == Spec => SignInKept
<1> DEFINE LetIn ==
      AssigningGroups /\ AssigningGroups' =>
        /\ \A g \in groups \cap groups' :
             /\ MaySignIn(g)
             /\ \A e \in RecentEditions \cup RecentEditions',
                   s \in RecentSettings \cup RecentSettings' :
                  g \in WantedGroups(e, s)
             => MaySignIn(g)'
        /\ \A a \in assignments : a[1] \in User => a \in assignments'
<1>1. TypeOK /\ SInv /\ Next => LetIn
  BY GroupSignsIn, UserSignsIn, ConstantsAssumption
<1>2. TypeOK /\ SInv /\ [Next]_vars => [LetIn]_vars
  BY <1>1
<1> HIDE DEF LetIn
<1>3. Spec => [][LetIn]_vars
  BY <1>2, SInvHolds, PTL DEF Spec
<1> QED BY <1>3 DEF LetIn, SignInKept

----------------------------------------------------------------------------
(* The status is true. *)

ClaimRight(e) == \/ claim = Specs[e].claim
                 \/ Specs[e].claim = "unset" /\ claim # "unset"

GroupsRight(e) ==
  Existing = {<<g, "default">> : g \in groups \cap WantedGroups(e, setting)}

ExactFor(e) ==
  /\ registered /\ principal /\ ties = Tie
  /\ ClaimRight(e)
  /\ redirects = RedirectUris(e)
  /\ DefaultUris \cup OptionalClaims \subseteq attributes
  /\ Enabled("policies") => policies = {Desired} /\ mapped
  /\ Enabled("groups") => GroupsRight(e)
  /\ Enabled("required") => required

AfterTies == {"claims", "policies", "policy", "lookup", "group", "assign",
              "require", "complete", "annotations"}
InProcess == Tie \cup AfterTies

(* What a pass has written stays written, until it comes to its end.       *)
Written ==
  /\ pc \in {"update", "redirects"} => tx.exists
  /\ pc \in {"principal", "identifiers", "update", "redirects"} \cup InProcess => registered
  /\ pc \in {"identifiers", "update", "redirects"} \cup InProcess => principal
  /\ pc \in {"principal", "identifiers", "redirects"} \cup InProcess => ClaimRight(tx.edition)
  /\ pc \in {"principal", "identifiers"} \cup InProcess => redirects = RedirectUris(tx.edition)
  /\ pc \in {"redirects"} \cup InProcess
       => DefaultUris \cup OptionalClaims \subseteq attributes

Tied ==
  /\ pc \in {"owner", "spowner"} => "grant" \in ties
  /\ pc = "spowner" => "owner" \in ties
  /\ pc \in AfterTies => ties = Tie

PolicySet ==
  /\ pc = "policy" => tx.policies \subseteq policies
  /\ Enabled("policies") /\ pc \in {"lookup", "group", "assign", "require", "complete",
                                    "annotations"}
       => policies = {Desired} /\ mapped

GroupsSet ==
  Enabled("groups") /\ pc \in {"require", "complete", "annotations"}
    => GroupsRight(tx.edition)

RequirementSet ==
  Enabled("required") /\ pc \in {"complete", "annotations"} => required

Due == status # edition \/ heard # marks

(* Only a pass that is due runs, it does not hear more than it has read,   *)
(* and it ends under the settings it started with.                         *)
DueWhileRunning ==
  /\ pc \notin {"idle", "annotations"} => Due
  /\ pc # "idle" => heard <= tx.marks
  /\ pc = "annotations" => status = tx.edition /\ under = setting
  /\ ~Due /\ under = setting => ExactFor(edition)

QInv ==
  /\ Written
  /\ Tied
  /\ PolicySet
  /\ GroupsSet
  /\ RequirementSet
  /\ DueWhileRunning

(* Steps that write nothing of the application or its principal's being.   *)
Onward ==
  /\ UNCHANGED <<registered, claim, redirects, attributes, principal>>
  /\ \/ pc' \in {"idle", "exists"}
     \/ /\ tx'.edition = tx.edition
        /\ \/ pc' = pc
           \/ pc \in InProcess /\ pc' \in InProcess

LEMMA OnwardSteps ==
  ASSUME TypeOK, Written, Next,
         ~Exists, ~Register, ~RegisterPrincipal, ~SetIdentifierUris, ~Update,
         ~UpdateRedirectUris
  PROVE  Onward
<1>0. tx \in TxType
  BY DEF TypeOK
<1>1. CASE EditSpec \/ AskForSynchronization \/ Reconfigure
           \/ \E g \in Group : DeleteGroup(g) \/ ExpireGroup(g)
  BY <1>1
  DEF EditSpec, AskForSynchronization, Reconfigure, Change, DeleteGroup,
      ExpireGroup, application, serviceprincipal, Onward
<1>2. CASE Prepare \/ AddGrantAndOwners \/ EnableAcceptMappedClaims
  BY <1>2
  DEF Prepare, AddGrantAndOwners, AddIfMissing, AfterOwners, AfterPolicies,
      EnableAcceptMappedClaims, Goto, application, serviceprincipal, Onward,
      InProcess, AfterTies, Tie
<1>3. CASE GetAssignedPolicies \/ KeepPolicy \/ AssignPolicy \/ GetGroups
  BY <1>0, <1>3
  DEF GetAssignedPolicies, KeepPolicy, AssignPolicy, GetGroups, AfterPolicies,
      Goto, PrincipalStep, application, Onward, InProcess, AfterTies, TxType
<1>4. ASSUME NEW p \in tx.policies, RemovePolicy(p) PROVE Onward
  BY <1>0, <1>4 DEF RemovePolicy, PrincipalStep, application, Onward, TxType
<1>5. ASSUME NEW g \in tx.todo, GetById(g) PROVE Onward
  BY <1>0, <1>5 DEF GetById, PrincipalStep, application, Onward, TxType
<1>6. CASE ListAssignments
  BY <1>0, <1>6
  DEF ListAssignments, Goto, PrincipalStep, application, Onward, InProcess, AfterTies, TxType
<1>7. ASSUME NEW a \in tx.assign, Assign(a) PROVE Onward
  BY <1>0, <1>7 DEF Assign, PrincipalStep, application, Onward, TxType
<1>8. ASSUME NEW a \in tx.revoke, Revoke(a) PROVE Onward
  BY <1>0, <1>8 DEF Revoke, PrincipalStep, application, Onward, TxType
<1>9. CASE GroupsProcessed \/ SetAppRoleAssignmentRequired \/ RemoveDisabledPermissions
               \/ UpdateStatus
           \/ UpdateAnnotations
  BY <1>9
  DEF GroupsProcessed, AfterGroups, SetAppRoleAssignmentRequired, RemoveDisabledPermissions,
      UpdateStatus,
      UpdateAnnotations, Goto, PrincipalStep, application, serviceprincipal, Onward,
      InProcess, AfterTies
<1>10. CASE Refused \/ Abort
  <2>1. /\ UNCHANGED <<application, serviceprincipal>>
        /\ Fail /\ pc \in Step /\ pc # "idle"
    BY <1>10 DEF Refused, Abort, TypeOK
  <2>2. CASE tx' = NoTx /\ Goto("idle")
    BY <2>1, <2>2 DEF Goto, application, serviceprincipal, Onward
  <2>3. CASE /\ ~tx.exists
             /\ pc \notin {"exists", "register", "principal", "identifiers", "complete",
                            "annotations"}
             /\ tx' = [NoTx EXCEPT !.edition = tx.edition, !.marks = tx.marks]
             /\ Goto("grant")
    <3>1. tx'.edition = tx.edition /\ pc' = "grant"
      BY <2>3, NoTxType DEF TxType, Goto
    <3>2. pc \in InProcess
      BY <2>1, <2>3 DEF Step, InProcess, AfterTies, Written
    <3>3. "grant" \in InProcess
      BY DEF InProcess, Tie
    <3> QED BY <2>1, <3>1, <3>2, <3>3 DEF application, serviceprincipal, Onward
  <2> QED BY <2>1, <2>2, <2>3 DEF Fail
<1> QED BY <1>1, <1>2, <1>3, <1>4, <1>5, <1>6, <1>7, <1>8, <1>9, <1>10 DEF Next, Pass

LEMMA WrittenStep ==
  ASSUME TypeOK, Written, Next
  PROVE  Written'
<1>0. tx \in TxType /\ claim \in Claim
  BY DEF TypeOK
<1>1. CASE Exists
  <2>1. /\ pc = "exists" /\ tx'.edition = tx.edition /\ tx'.exists = registered
        /\ pc' = IF registered THEN "update" ELSE "register"
        /\ registered => principal'
        /\ registered' = registered
        /\ registered \in BOOLEAN
    BY <1>0, <1>1
    DEF Exists, RegisterServicePrincipal, Goto, serviceprincipal, application, TxType, TypeOK
  <2> QED BY <2>1 DEF Written, InProcess, AfterTies, Tie
<1>2. CASE Register
  <2>1. /\ pc' = "principal" /\ tx' = tx /\ registered'
        /\ redirects' = RedirectUris(tx.edition)
        /\ claim' = Default(Specs[tx.edition].claim, Settings[setting].claim)
    BY <1>2 DEF Register, Goto
  <2>2. Settings[setting].claim # "unset"
    BY ConstantsInTypes DEF TypeOK, SettingType
  <2>3. ClaimRight(tx.edition)'
    BY <2>1, <2>2 DEF ClaimRight, Default
  <2>4. RedirectUris(tx.edition)' = RedirectUris(tx.edition)
    BY <2>1 DEF RedirectUris
  <2> QED BY <2>1, <2>3, <2>4 DEF Written, InProcess, AfterTies, Tie
<1>3. CASE RegisterPrincipal
  <2>1. /\ pc = "principal" /\ pc' = "identifiers" /\ tx' = tx /\ principal'
        /\ UNCHANGED <<registered, claim, redirects, attributes>>
    BY <1>3 DEF RegisterPrincipal, RegisterServicePrincipal, Goto, application
  <2> QED BY <2>1 DEF Written, InProcess, AfterTies, Tie, ClaimRight, RedirectUris
<1>4. CASE SetIdentifierUris
  <2>1. /\ pc = "identifiers" /\ pc' = "grant" /\ tx' = tx
        /\ attributes' = OptionalClaims \cup DefaultUris
        /\ UNCHANGED <<registered, claim, redirects, principal>>
    BY <1>4 DEF SetIdentifierUris, Goto, serviceprincipal
  <2> QED BY <2>1 DEF Written, InProcess, AfterTies, Tie, ClaimRight, RedirectUris
<1>5. CASE Update
  <2>1. /\ pc = "update" /\ pc' = "redirects" /\ tx' = tx
        /\ attributes' = attributes \cup DefaultUris \cup OptionalClaims
        /\ claim' = Default(Specs[tx.edition].claim,
                            Default(claim, Settings[setting].claim))
        /\ UNCHANGED <<registered, principal>>
    BY <1>5 DEF Update, Goto, serviceprincipal
  <2>2. Settings[setting].claim # "unset"
    BY ConstantsInTypes DEF TypeOK, SettingType
  <2>3. ClaimRight(tx.edition)'
    BY <2>1, <2>2 DEF ClaimRight, Default
  <2> QED BY <2>1, <2>3 DEF Written, InProcess, AfterTies, Tie
<1>6. CASE UpdateRedirectUris
  <2>1. /\ pc = "redirects" /\ pc' = "grant" /\ tx' = tx
        /\ redirects' = RedirectUris(tx.edition)
        /\ UNCHANGED <<registered, claim, attributes, principal>>
    BY <1>6 DEF UpdateRedirectUris, Goto, serviceprincipal
  <2> QED BY <2>1 DEF Written, InProcess, AfterTies, Tie, ClaimRight, RedirectUris
<1>7. CASE /\ ~Exists /\ ~Register /\ ~RegisterPrincipal /\ ~SetIdentifierUris
           /\ ~Update /\ ~UpdateRedirectUris
  <2>1. Onward
    BY <1>7, OnwardSteps
  <2>2. pc' \in {"update", "redirects"} => tx' = tx
    BY <1>7
    DEF Next, Pass, EditSpec, AskForSynchronization, Reconfigure, Change, DeleteGroup,
        ExpireGroup, Prepare, AddGrantAndOwners, AddIfMissing, AfterOwners, AfterPolicies,
        EnableAcceptMappedClaims, GetAssignedPolicies, RemovePolicy, KeepPolicy,
        AssignPolicy, GetGroups, GetById, ListAssignments, Assign, Revoke, GroupsProcessed,
        AfterGroups, SetAppRoleAssignmentRequired, RemoveDisabledPermissions,
        UpdateStatus, UpdateAnnotations,
        Refused, Abort, Fail, Goto
  <2>3. \/ pc' \in {"idle", "exists"}
        \/ /\ ClaimRight(tx.edition)' <=> ClaimRight(tx.edition)
           /\ RedirectUris(tx.edition)' = RedirectUris(tx.edition)
    BY <2>1 DEF Onward, ClaimRight, RedirectUris
  <2>4. {"idle", "exists"} \cap InProcess = {}
    BY DEF InProcess, AfterTies, Tie
  <2>5. {"principal", "identifiers", "update", "redirects"} \cap InProcess = {}
    BY DEF InProcess, AfterTies, Tie
  <2> QED BY <2>1, <2>2, <2>3, <2>4, <2>5 DEF Onward, Written
<1> QED BY <1>1, <1>2, <1>3, <1>4, <1>5, <1>6, <1>7

(* The ties are added one after another. *)
LEMMA TiedStep ==
  ASSUME TypeOK, Written, Tied, Next
  PROVE  Tied'
<1>1. CASE AddGrantAndOwners
  <2>1. CASE AddIfMissing("grant", "owner")
    BY <2>1 DEF AddIfMissing, Goto, Tied, AfterTies
  <2>2. CASE AddIfMissing("owner", "spowner")
    BY <2>2 DEF AddIfMissing, Goto, Tied, AfterTies
  <2>3. CASE AddIfMissing("spowner", AfterOwners)
    <3>1. /\ pc = "spowner" /\ ties' = ties \cup {"spowner"}
          /\ pc' \in AfterTies
      BY <2>3 DEF AddIfMissing, AfterOwners, AfterPolicies, Goto, AfterTies
    <3>2. "grant" \in ties /\ "owner" \in ties /\ ties \subseteq Tie
      BY <3>1 DEF Tied, TypeOK
    <3>3. ties' = Tie
      BY <3>1, <3>2 DEF Tie
    <3> QED BY <3>1, <3>3 DEF Tied, AfterTies, Tie
  <2> QED BY <1>1, <2>1, <2>2, <2>3 DEF AddGrantAndOwners
<1>2. CASE \/ Exists \/ Register \/ RegisterPrincipal \/ SetIdentifierUris \/ Update
           \/ UpdateRedirectUris
  <2>1. pc' \in {"register", "update", "principal", "identifiers", "grant", "redirects"}
    BY <1>2 DEF Exists, Register, RegisterPrincipal, SetIdentifierUris, Update,
       UpdateRedirectUris, Goto
  <2> QED BY <2>1 DEF Tied, AfterTies
<1>3. CASE /\ ~AddGrantAndOwners /\ ~Exists /\ ~Register /\ ~RegisterPrincipal
           /\ ~SetIdentifierUris /\ ~Update /\ ~UpdateRedirectUris
  <2>1. ties' = ties
    BY <1>3, Zenon
    DEF Next, Pass, EditSpec, AskForSynchronization, Reconfigure, Change, DeleteGroup,
        ExpireGroup, Prepare,
        EnableAcceptMappedClaims, GetAssignedPolicies, RemovePolicy, KeepPolicy,
        AssignPolicy, GetGroups, GetById, ListAssignments, Assign, Revoke, GroupsProcessed,
        SetAppRoleAssignmentRequired, RemoveDisabledPermissions,
        UpdateStatus, UpdateAnnotations,
        Refused, Abort, PrincipalStep, serviceprincipal
  <2>2. \/ pc' \in {"idle", "exists", "grant"}
        \/ pc' = pc
        \/ pc \in AfterTies
    BY <1>3
    DEF Next, Pass, EditSpec, AskForSynchronization, Reconfigure, Change, DeleteGroup,
        ExpireGroup, Prepare,
        EnableAcceptMappedClaims, GetAssignedPolicies, RemovePolicy, KeepPolicy,
        AssignPolicy, GetGroups, GetById, ListAssignments, Assign, Revoke, GroupsProcessed,
        SetAppRoleAssignmentRequired, RemoveDisabledPermissions,
        UpdateStatus, UpdateAnnotations,
        Refused, Abort, Fail, Goto, AfterTies
  <2> QED BY <2>1, <2>2 DEF Tied, AfterTies, Tie
<1> QED BY <1>1, <1>2, <1>3

LEMMA PolicySetStep ==
  ASSUME TypeOK, PoliciesKnown, PolicySet, Next
  PROVE  PolicySet'
<1>0. tx \in TxType
  BY DEF TypeOK
<1>1. CASE GetAssignedPolicies
  <2>1. pc' = "policy" /\ tx'.policies = policies /\ policies' = policies
    BY <1>0, <1>1 DEF GetAssignedPolicies, Goto, TxType
  <2> QED BY <2>1 DEF PolicySet
<1>2. ASSUME NEW p \in tx.policies, RemovePolicy(p) PROVE PolicySet'
  <2>1. /\ pc = "policy" /\ pc' = "policy"
        /\ tx'.policies = tx.policies \ {p} /\ policies' = policies \ {p}
    BY <1>0, <1>2 DEF RemovePolicy, TxType
  <2> QED BY <2>1 DEF PolicySet
<1>3. CASE KeepPolicy
  <2>1. /\ pc = "policy" /\ Desired \in tx.policies /\ pc' # "policy"
        /\ UNCHANGED <<policies, mapped, setting>>
    BY <1>3 DEF KeepPolicy, AfterPolicies, Goto, PrincipalStep, application, operator
  <2>2. policies = {Desired} /\ mapped
    BY <2>1 DEF PolicySet, PoliciesKnown
  <2> QED BY <2>1, <2>2 DEF PolicySet, Desired
<1>4. CASE AssignPolicy
  <2>1. /\ pc = "policy" /\ tx.policies = {} /\ pc' # "policy"
        /\ policies' = policies \cup {Desired}
        /\ UNCHANGED <<mapped, setting>>
    BY <1>4 DEF AssignPolicy, AfterPolicies, Goto, PrincipalStep, application, operator
  <2>2. policies' = {Desired} /\ mapped
    BY <2>1 DEF PoliciesKnown
  <2> QED BY <2>1, <2>2 DEF PolicySet, Desired
<1>5. CASE /\ ~GetAssignedPolicies /\ ~KeepPolicy /\ ~AssignPolicy
           /\ \A p \in tx.policies : ~RemovePolicy(p)
  <2>1. UNCHANGED policies
    BY <1>5, OtherPolicies
  <2>2. \/ pc' \in {"idle", "exists", "register", "update", "principal", "identifiers",
                    "grant", "redirects", "owner", "claims", "policies"}
        \/ pc = "spowner" /\ pc' = AfterOwners /\ UNCHANGED setting
        \/ pc' = pc /\ UNCHANGED <<setting, mapped, tx>>
        \/ /\ pc \in {"lookup", "group", "assign", "require", "complete"}
           /\ pc' # "policy"
           /\ UNCHANGED <<setting, mapped>>
        \/ pc' = "spowner"
    <3>1. CASE EditSpec \/ AskForSynchronization \/ Reconfigure
               \/ \E g \in Group : DeleteGroup(g) \/ ExpireGroup(g)
      BY <3>1
      DEF EditSpec, AskForSynchronization, Reconfigure, Change, DeleteGroup,
          ExpireGroup, application, operator
    <3>2. CASE Prepare \/ Exists \/ Register \/ RegisterPrincipal
               \/ SetIdentifierUris \/ Update \/ UpdateRedirectUris
               \/ AddGrantAndOwners \/ EnableAcceptMappedClaims
      BY <3>2
      DEF Prepare, Exists, Register, RegisterPrincipal, SetIdentifierUris, Update,
          UpdateRedirectUris, AddGrantAndOwners, AddIfMissing, EnableAcceptMappedClaims,
          Goto, operator
    <3>3. CASE GetGroups \/ (\E g \in tx.todo : GetById(g)) \/ ListAssignments
               \/ (\E a \in tx.assign : Assign(a)) \/ (\E a \in tx.revoke : Revoke(a))
               \/ GroupsProcessed
      BY <3>3, Zenon
      DEF GetGroups, GetById, ListAssignments, Assign, Revoke, GroupsProcessed,
          AfterGroups, Goto, PrincipalStep, application, operator
    <3>4. CASE Refused \/ SetAppRoleAssignmentRequired \/ RemoveDisabledPermissions
               \/ UpdateStatus
               \/ UpdateAnnotations \/ Abort
      BY <3>4
      DEF Refused, SetAppRoleAssignmentRequired, RemoveDisabledPermissions,
          UpdateStatus,
          UpdateAnnotations, Abort, Fail, Goto, application, operator
    <3> QED BY <1>5, <3>1, <3>2, <3>3, <3>4 DEF Next, Pass
  <2>3. pc' = AfterOwners => pc' # "policy" /\ (Enabled("policies") => pc' = "claims")
    BY DEF AfterOwners, AfterPolicies
  <2> QED BY <2>1, <2>2, <2>3 DEF PolicySet, Desired, Enabled
<1> QED BY <1>1, <1>2, <1>3, <1>4, <1>5

(* What is wanted and there is what is assigned. *)
LEMMA GroupsSetAtEnd ==
  ASSUME TypeOK, InProgress, NoneMissed, GroupsProcessed, ConstantsAssumption
  PROVE  GroupsRight(tx.edition)'
<1>1. /\ pc = "assign" /\ tx.assign = {} /\ tx.revoke = {}
      /\ UNCHANGED <<assignments, tx, groups, setting>>
  BY DEF GroupsProcessed, PrincipalStep, operator
<1>2. \A a \in assignments : ByPass(a)
  BY <1>1 DEF InProgress
<1>3. \A g \in WantedGroups(tx.edition, setting) \cap groups :
        <<g, "default">> \in assignments
  BY <1>1 DEF NoneMissed
<1>4. ASSUME NEW a \in Existing
      PROVE  a \in {<<g, "default">> : g \in groups \cap WantedGroups(tx.edition, setting)}
  <2>1. /\ a \in assignments /\ a[1] \in Group /\ a[1] \in groups
        /\ a = <<a[1], a[2]>>
    BY ConstantsAssumption DEF Existing, TypeOK, Assignment
  <2>2. a[2] = "default" /\ a[1] \in WantedGroups(tx.edition, setting)
    BY <1>2, <2>1 DEF ByPass
  <2> QED BY <2>1, <2>2
<1>5. ASSUME NEW g \in groups \cap WantedGroups(tx.edition, setting)
      PROVE  <<g, "default">> \in Existing
  <2>1. g \in Group /\ <<g, "default">>[1] = g
    BY DEF TypeOK
  <2> QED BY <1>3, <2>1 DEF Existing
<1>6. GroupsRight(tx.edition)
  BY <1>4, <1>5 DEF GroupsRight
<1> QED BY <1>1, <1>6 DEF GroupsRight, Existing, WantedGroups

(* A group that is deleted was assigned for the last time. *)
LEMMA GroupsRightKept ==
  ASSUME TypeOK, NEW e, GroupsRight(e), UNCHANGED setting,
         \/ UNCHANGED <<groups, assignments>>
         \/ \E g \in Group : DeleteGroup(g)
  PROVE  /\ Existing' = {<<g, "default">> : g \in groups' \cap WantedGroups(e, setting)}
         /\ \A f : WantedGroups(f, setting)' = WantedGroups(f, setting)
<1>1. CASE UNCHANGED <<groups, assignments>>
  BY <1>1 DEF GroupsRight, Existing, WantedGroups
<1>2. ASSUME NEW h \in Group, DeleteGroup(h)
      PROVE  Existing' = {<<g, "default">> : g \in groups' \cap WantedGroups(e, setting)}
  <2>1. groups' = groups \ {h} /\ assignments' = {a \in assignments : a[1] # h}
    BY <1>2 DEF DeleteGroup
  <2>2. Existing' = {a \in Existing : a[1] # h}
    BY <2>1 DEF Existing
  <2>3. \A g : <<g, "default">>[1] = g
    OBVIOUS
  <2> QED BY <2>1, <2>2, <2>3 DEF GroupsRight
<1> QED BY <1>1, <1>2 DEF WantedGroups

LEMMA GroupsSetStep ==
  ASSUME TypeOK, InProgress, NoneMissed, GroupsSet, Next, ConstantsAssumption
  PROVE  GroupsSet'
<1>1. CASE GroupsProcessed
  BY <1>1, GroupsSetAtEnd DEF GroupsSet
<1>2. CASE ~GroupsProcessed
  <2>1. \/ pc' \notin {"require", "complete", "annotations"}
        \/ ~Enabled("groups")'
        \/ /\ pc \in {"require", "complete", "annotations"}
           /\ UNCHANGED <<tx, setting>>
           /\ \/ UNCHANGED <<groups, assignments>>
              \/ \E g \in Group : DeleteGroup(g)
    <3>1. CASE EditSpec \/ AskForSynchronization \/ Reconfigure
               \/ \E g \in Group : DeleteGroup(g) \/ ExpireGroup(g)
      BY <3>1
      DEF EditSpec, AskForSynchronization, Reconfigure, Change, DeleteGroup,
          ExpireGroup, operator
    <3>2. CASE Prepare \/ Exists \/ Register \/ RegisterPrincipal
               \/ SetIdentifierUris \/ Update \/ UpdateRedirectUris
               \/ AddGrantAndOwners \/ EnableAcceptMappedClaims
      BY <3>2
      DEF Prepare, Exists, Register, RegisterPrincipal, SetIdentifierUris, Update,
          UpdateRedirectUris, AddGrantAndOwners, AddIfMissing, EnableAcceptMappedClaims,
          AfterOwners, AfterPolicies, Enabled, Goto, operator
    <3>3. CASE GetAssignedPolicies \/ (\E p \in tx.policies : RemovePolicy(p))
               \/ KeepPolicy \/ AssignPolicy
      BY <3>3
      DEF GetAssignedPolicies, RemovePolicy, KeepPolicy, AssignPolicy, AfterPolicies,
          Enabled, Goto, PrincipalStep, operator
    <3>4. CASE GetGroups \/ (\E g \in tx.todo : GetById(g)) \/ ListAssignments
               \/ (\E a \in tx.assign : Assign(a)) \/ (\E a \in tx.revoke : Revoke(a))
      BY <3>4, Zenon
      DEF GetGroups, GetById, ListAssignments, Assign, Revoke, Goto
    <3>5. CASE Refused \/ SetAppRoleAssignmentRequired \/ RemoveDisabledPermissions
               \/ UpdateStatus
               \/ UpdateAnnotations \/ Abort
      BY <3>5
      DEF Refused, SetAppRoleAssignmentRequired, RemoveDisabledPermissions,
          UpdateStatus,
          UpdateAnnotations, Abort, Fail, Goto, operator
    <3> QED BY <1>2, <3>1, <3>2, <3>3, <3>4, <3>5 DEF Next, Pass
  <2>2. ASSUME Enabled("groups")', pc' \in {"require", "complete", "annotations"}
        PROVE  GroupsRight(tx.edition)'
    <3>1. /\ pc \in {"require", "complete", "annotations"}
          /\ UNCHANGED <<tx, setting>>
          /\ \/ UNCHANGED <<groups, assignments>>
             \/ \E g \in Group : DeleteGroup(g)
      BY <2>1, <2>2
    <3>2. GroupsRight(tx.edition)
      BY <2>2, <3>1 DEF GroupsSet, Enabled
    <3>3. /\ Existing' = {<<g, "default">> : g \in groups' \cap WantedGroups(tx.edition, setting)}
          /\ \A f : WantedGroups(f, setting)' = WantedGroups(f, setting)
      BY <3>1, <3>2, GroupsRightKept
    <3> QED BY <3>1, <3>3 DEF GroupsRight, WantedGroups
  <2> QED BY <2>2 DEF GroupsSet
<1> QED BY <1>1, <1>2

LEMMA RequirementSetStep ==
  ASSUME RequirementSet, Next
  PROVE  RequirementSet'
<1>1. CASE SetAppRoleAssignmentRequired
  BY <1>1 DEF SetAppRoleAssignmentRequired, RequirementSet
<1>2. CASE ~SetAppRoleAssignmentRequired
  <2>1. \/ pc' \notin {"complete", "annotations"}
        \/ ~Enabled("required")'
        \/ /\ pc \in {"complete", "annotations"}
           /\ UNCHANGED setting
           /\ ~Exists /\ ~RegisterPrincipal
    <3>1. CASE EditSpec \/ AskForSynchronization \/ Reconfigure
               \/ \E g \in Group : DeleteGroup(g) \/ ExpireGroup(g)
      <4>1. pc' = "idle" \/ (pc' = pc /\ UNCHANGED setting)
        BY <3>1
        DEF EditSpec, AskForSynchronization, Reconfigure, Change, DeleteGroup,
            ExpireGroup, operator
      <4> QED BY <4>1 DEF Exists, RegisterPrincipal
    <3>2. CASE Prepare \/ Exists \/ Register \/ RegisterPrincipal
               \/ SetIdentifierUris \/ Update \/ UpdateRedirectUris
               \/ AddGrantAndOwners \/ EnableAcceptMappedClaims
      BY <3>2
      DEF Prepare, Exists, Register, RegisterPrincipal, SetIdentifierUris, Update,
          UpdateRedirectUris, AddGrantAndOwners, AddIfMissing, EnableAcceptMappedClaims,
          AfterOwners, AfterPolicies, Enabled, Goto, operator
    <3>3. CASE GetAssignedPolicies \/ (\E p \in tx.policies : RemovePolicy(p))
               \/ KeepPolicy \/ AssignPolicy
      BY <3>3
      DEF GetAssignedPolicies, RemovePolicy, KeepPolicy, AssignPolicy, AfterPolicies,
          Enabled, Goto, PrincipalStep, operator
    <3>4. CASE GetGroups \/ (\E g \in tx.todo : GetById(g)) \/ ListAssignments
               \/ (\E a \in tx.assign : Assign(a)) \/ (\E a \in tx.revoke : Revoke(a))
      BY <3>4, Zenon
      DEF GetGroups, GetById, ListAssignments, Assign, Revoke, Goto
    <3>5. CASE GroupsProcessed
      BY <3>5 DEF GroupsProcessed, AfterGroups, Enabled, Goto, PrincipalStep, operator
    <3>6. CASE Refused \/ RemoveDisabledPermissions \/ UpdateStatus
               \/ UpdateAnnotations \/ Abort
      BY <3>6
      DEF Refused, RemoveDisabledPermissions,
          UpdateStatus, UpdateAnnotations, Abort, Fail, Goto, operator,
          Exists, RegisterPrincipal
    <3> QED BY <1>2, <3>1, <3>2, <3>3, <3>4, <3>5, <3>6 DEF Next, Pass
  <2>2. ASSUME Enabled("required")', pc' \in {"complete", "annotations"}
        PROVE  required'
    <3>1. /\ pc \in {"complete", "annotations"}
          /\ UNCHANGED setting
          /\ ~Exists /\ ~RegisterPrincipal
      BY <2>1, <2>2
    <3>2. required
      BY <2>2, <3>1 DEF RequirementSet, Enabled
    <3> QED BY <3>1, <3>2, OtherPrincipals
  <2> QED BY <2>2 DEF RequirementSet
<1> QED BY <1>1, <1>2

(* A pass that has come to its end has carried out its edition. *)
LEMMA ExactAtEnd ==
  ASSUME Written, Tied, PolicySet, GroupsSet, RequirementSet,
         pc \in {"complete", "annotations"}
  PROVE  ExactFor(tx.edition)
<1>1. pc \in AfterTies /\ pc \in InProcess
  BY DEF AfterTies, InProcess
<1>2. /\ registered /\ principal /\ ties = Tie
      /\ ClaimRight(tx.edition) /\ redirects = RedirectUris(tx.edition)
      /\ DefaultUris \cup OptionalClaims \subseteq attributes
  BY <1>1 DEF Written, Tied
<1>3. /\ Enabled("policies") => policies = {Desired} /\ mapped
      /\ Enabled("groups") => GroupsRight(tx.edition)
      /\ Enabled("required") => required
  BY DEF PolicySet, GroupsSet, RequirementSet
<1> QED BY <1>2, <1>3 DEF ExactFor

LEMMA ExactKept ==
  ASSUME TypeOK, UNCHANGED <<edition, setting, application, serviceprincipal>>,
         \/ UNCHANGED <<groups, assignments>>
         \/ \E g \in Group : DeleteGroup(g),
         ExactFor(edition)
  PROVE  ExactFor(edition)'
<1>1. Enabled("groups") => GroupsRight(edition)'
  <2> SUFFICES ASSUME Enabled("groups") PROVE GroupsRight(edition)'
    OBVIOUS
  <2>1. GroupsRight(edition)
    BY DEF ExactFor
  <2>2. /\ Existing' = {<<g, "default">> : g \in groups' \cap WantedGroups(edition, setting)}
        /\ \A f : WantedGroups(f, setting)' = WantedGroups(f, setting)
    BY <2>1, GroupsRightKept
  <2> QED BY <2>2 DEF GroupsRight, WantedGroups
<1>2. \A f : Enabled(f)' <=> Enabled(f)
  BY DEF Enabled
<1>3. Desired' = Desired /\ RedirectUris(edition)' = RedirectUris(edition)
  BY DEF Desired, RedirectUris
<1>4. ClaimRight(edition)' <=> ClaimRight(edition)
  BY DEF ClaimRight, application
<1> QED BY <1>1, <1>2, <1>3, <1>4 DEF ExactFor, application, serviceprincipal

(* The steps of a pass between its first and its last two. *)
LEMMA StepsBetween ==
  ASSUME TypeOK, Pass \/ Abort, ~Prepare, ~UpdateStatus, ~UpdateAnnotations
  PROVE  /\ pc # "idle"
         /\ UNCHANGED <<resource, operator>>
         /\ pc' = "idle" \/ tx'.marks = tx.marks
         /\ \/ pc # "annotations" /\ pc' # "annotations"
            \/ /\ pc' = "idle"
               /\ UNCHANGED <<application, serviceprincipal, groups, assignments>>
<1>0. tx \in TxType
  BY DEF TypeOK
<1>1. CASE Exists
  BY <1>0, <1>1 DEF Exists, Goto, TxType
<1>2. CASE Register \/ RegisterPrincipal \/ SetIdentifierUris \/ Update
           \/ UpdateRedirectUris \/ EnableAcceptMappedClaims
  BY <1>2
  DEF Register, RegisterPrincipal, SetIdentifierUris, Update, UpdateRedirectUris,
      EnableAcceptMappedClaims, Goto
<1>3. CASE AddGrantAndOwners
  BY <1>3
  DEF AddGrantAndOwners, AddIfMissing, AfterOwners, AfterPolicies, Goto
<1>4. CASE GetAssignedPolicies \/ KeepPolicy \/ AssignPolicy \/ GetGroups
           \/ GroupsProcessed
  BY <1>0, <1>4
  DEF GetAssignedPolicies, KeepPolicy, AssignPolicy, GetGroups, GroupsProcessed,
      AfterPolicies, AfterGroups, Goto, PrincipalStep, TxType
<1>5. CASE \E p \in tx.policies : RemovePolicy(p)
  BY <1>0, <1>5 DEF RemovePolicy, PrincipalStep, TxType
<1>6. CASE \E g \in tx.todo : GetById(g)
  BY <1>0, <1>6 DEF GetById, PrincipalStep, TxType
<1>7. CASE ListAssignments
  BY <1>0, <1>7 DEF ListAssignments, Goto, PrincipalStep, TxType
<1>8. CASE \E a \in tx.assign : Assign(a)
  BY <1>0, <1>8 DEF Assign, PrincipalStep, TxType
<1>9. CASE \E a \in tx.revoke : Revoke(a)
  BY <1>0, <1>9 DEF Revoke, PrincipalStep, TxType
<1>10. CASE SetAppRoleAssignmentRequired \/ RemoveDisabledPermissions
  BY <1>10 DEF SetAppRoleAssignmentRequired, RemoveDisabledPermissions, Goto
<1>11. CASE Refused \/ Abort
  <2>1. /\ pc # "idle" /\ Fail
        /\ UNCHANGED <<resource, operator, application, serviceprincipal, groups,
                       assignments>>
    BY <1>11 DEF Refused, Abort
  <2>2. pc' = "idle" \/ (pc' = "grant" /\ pc # "annotations" /\ tx'.marks = tx.marks)
    BY <1>0, <2>1, NoTxType DEF Fail, Goto, TxType
  <2> QED BY <2>1, <2>2
<1> QED
  BY <1>1, <1>2, <1>3, <1>4, <1>5, <1>6, <1>7, <1>8, <1>9, <1>10, <1>11 DEF Pass

LEMMA DueStep ==
  ASSUME TypeOK, QInv, Next
  PROVE  DueWhileRunning'
<1>0. /\ edition \in Nat /\ status \in Nat /\ status <= edition
      /\ heard \in Nat /\ marks \in Nat /\ tx.marks \in Nat
      /\ heard <= marks /\ tx.marks <= marks
      /\ setting \in Nat /\ under \in Nat /\ under <= setting
      /\ tx \in TxType
      /\ pc # "idle" => heard <= tx.marks
  BY DEF TypeOK, TxType, QInv, DueWhileRunning
<1>1. CASE EditSpec
  <2>1. edition' = edition + 1 /\ UNCHANGED <<status, heard, marks, setting, under, pc, tx>>
    BY <1>1 DEF EditSpec, operator
  <2> QED BY <1>0, <2>1 DEF QInv, DueWhileRunning, Due
<1>2. CASE AskForSynchronization
  <2>1. marks' = marks + 1 /\ UNCHANGED <<edition, status, heard, setting, under, pc, tx>>
    BY <1>2 DEF AskForSynchronization, Change, operator
  <2> QED BY <1>0, <2>1 DEF QInv, DueWhileRunning, Due
<1>3. CASE Reconfigure
  <2>1. setting' = setting + 1 /\ under' = under /\ pc' = "idle"
    BY <1>3 DEF Reconfigure
  <2> QED BY <1>0, <2>1 DEF DueWhileRunning
<1>4. CASE \E g \in Group : DeleteGroup(g) \/ ExpireGroup(g)
  <2>1. /\ UNCHANGED <<resource, operator, application, serviceprincipal, pc, tx>>
        /\ UNCHANGED <<groups, assignments>> \/ \E g \in Group : DeleteGroup(g)
    BY <1>4 DEF DeleteGroup, ExpireGroup, Change, resource
  <2>2. Due' <=> Due
    BY <2>1 DEF Due, resource
  <2>3. ExactFor(edition) => ExactFor(edition)'
    BY <2>1, ExactKept DEF resource, operator
  <2> QED BY <2>1, <2>2, <2>3 DEF QInv, DueWhileRunning, resource, operator
<1>5. CASE Prepare
  <2>1. UNCHANGED <<resource, operator>> /\ Due /\ tx'.marks = marks /\ pc' = "exists"
    BY <1>0, <1>5, NoTxType DEF Prepare, Due, Goto, TxType
  <2> QED BY <1>0, <2>1 DEF DueWhileRunning, Due, resource
<1>6. CASE UpdateStatus
  <2>1. /\ pc = "complete" /\ pc' = "annotations" /\ status' = tx.edition
        /\ under' = setting
        /\ UNCHANGED <<edition, marks, heard, setting, groups, application,
                       serviceprincipal, assignments, tx>>
    BY <1>6 DEF UpdateStatus, Goto
  <2>2. ExactFor(tx.edition)
    BY <2>1, ExactAtEnd DEF QInv
  <2>3. ASSUME ~Due' PROVE ExactFor(edition)'
    <3>1. tx.edition = edition
      BY <2>1, <2>3 DEF Due
    <3> QED BY <2>1, <2>2, <3>1, ExactKept
  <2> QED BY <1>0, <2>1, <2>3 DEF DueWhileRunning
<1>7. CASE UpdateAnnotations
  <2>1. /\ pc = "annotations" /\ pc' = "idle"
        /\ UNCHANGED <<edition, status, marks, setting, groups, application,
                       serviceprincipal, assignments>>
    BY <1>7 DEF UpdateAnnotations, Goto, operator
  <2>2. ExactFor(tx.edition) /\ status = tx.edition
    BY <2>1, ExactAtEnd DEF QInv, DueWhileRunning
  <2>3. ASSUME ~Due' PROVE ExactFor(edition)'
    <3>1. tx.edition = edition
      BY <2>1, <2>2, <2>3 DEF Due
    <3> QED BY <2>1, <2>2, <3>1, ExactKept
  <2> QED BY <2>1, <2>3 DEF DueWhileRunning
<1>8. CASE (Pass \/ Abort) /\ ~Prepare /\ ~UpdateStatus /\ ~UpdateAnnotations
  <2>1. /\ pc # "idle"
        /\ UNCHANGED <<resource, operator>>
        /\ pc' = "idle" \/ tx'.marks = tx.marks
        /\ \/ pc # "annotations" /\ pc' # "annotations"
           \/ /\ pc' = "idle"
              /\ UNCHANGED <<application, serviceprincipal, groups, assignments>>
    BY <1>8, StepsBetween
  <2>2. Due' <=> Due
    BY <2>1 DEF Due, resource
  <2>3. pc' # "idle" => heard' <= tx'.marks
    BY <1>0, <2>1 DEF resource
  <2>4. CASE pc # "annotations" /\ pc' # "annotations"
    <3>1. Due'
      BY <2>1, <2>2, <2>4 DEF QInv, DueWhileRunning
    <3> QED BY <2>3, <2>4, <3>1 DEF DueWhileRunning
  <2>5. CASE /\ pc' = "idle"
             /\ UNCHANGED <<application, serviceprincipal, groups, assignments>>
    <3>1. ExactFor(edition) => ExactFor(edition)'
      BY <2>1, <2>5, ExactKept DEF resource, operator
    <3> QED BY <2>1, <2>2, <2>5, <3>1 DEF QInv, DueWhileRunning, resource, operator
  <2> QED BY <2>1, <2>4, <2>5
<1> QED BY <1>1, <1>2, <1>3, <1>4, <1>5, <1>6, <1>7, <1>8 DEF Next, Pass

LEMMA InitQInv == Init => QInv
<1> SUFFICES ASSUME Init PROVE QInv
  OBVIOUS
<1>1. pc = "idle" /\ status # edition
  BY DEF Init
<1>2. "idle" \notin InProcess /\ "idle" \notin AfterTies
  BY DEF InProcess, AfterTies, Tie
<1> QED BY <1>1, <1>2
  DEF QInv, Written, Tied, PolicySet, GroupsSet, RequirementSet, DueWhileRunning, Due

LEMMA QInvInductive ==
  ASSUME TypeOK, InProgress, PoliciesKnown, NoneMissed, QInv, [Next]_vars
  PROVE  QInv'
<1>1. CASE Next
  BY <1>1, ConstantsAssumption, WrittenStep, TiedStep, PolicySetStep, GroupsSetStep,
     RequirementSetStep, DueStep DEF QInv
<1>2. CASE UNCHANGED vars
  <2>1. /\ UNCHANGED <<resource, operator, groups, application, serviceprincipal,
                       assignments, pc, tx>>
    BY <1>2 DEF vars
  <2>2. Written' /\ Tied'
    BY <2>1 DEF QInv, Written, Tied, ClaimRight, RedirectUris, application,
                serviceprincipal
  <2>3. PolicySet' /\ GroupsSet' /\ RequirementSet'
    BY <2>1 DEF QInv, PolicySet, GroupsSet, RequirementSet, Enabled, Desired,
                GroupsRight, Existing, WantedGroups, operator, application,
                serviceprincipal
  <2>4. ExactFor(edition) => ExactFor(edition)'
    BY <2>1, ExactKept DEF resource, operator
  <2>5. DueWhileRunning'
    BY <2>1, <2>4 DEF QInv, DueWhileRunning, Due, resource, operator
  <2> QED BY <2>2, <2>3, <2>5 DEF QInv
<1> QED BY <1>1, <1>2

(* The hash in the status is written last: when it is that of the spec, and*)
(* no synchronization asked for is unheard, application and principal are  *)
(* what spec and settings want, whichever passes failed, wherever they     *)
(* were restarted or repeated, and whichever groups were deleted.          *)
THEOREM StatusIsTrue == Spec => []SynchronizedExact
<1>1. QInv => SynchronizedExact
  <2> SUFFICES ASSUME QInv, status = edition, heard = marks, under = setting PROVE Exact
    BY DEF SynchronizedExact
  <2>1. ExactFor(edition)
    BY DEF QInv, DueWhileRunning, Due
  <2> QED BY <2>1 DEF ExactFor, ClaimRight, GroupsRight, Exact
<1>2. GInv => InProgress
  BY DEF GInv
<1>3. SInv => NoneMissed
  BY DEF SInv
<1>4. Spec => []QInv
  BY <1>2, <1>3, GInvHolds, PoliciesKnownHolds, SInvHolds, InitQInv, QInvInductive,
     PTL DEF Spec
<1> QED BY <1>1, <1>4, PTL
=============================================================================
