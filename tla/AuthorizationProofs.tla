------------------------- MODULE AuthorizationProofs -------------------------
(***************************************************************************)
(* More proofs about module Access, from the invariant of AccessProofs:    *)
(* that nobody has access which no recent edition gives, that nobody loses *)
(* access which all recent editions give, that what others have granted    *)
(* stays, and that the status is true.                                     *)
(***************************************************************************)
EXTENDS AccessProofs

(* Editions, marks and registrations are counted; a pass works for an      *)
(* edition that is not older than the one of the status.                   *)
Counted ==
  /\ edition \in 1..Len(Rules)
  /\ status \in 0..edition
  /\ marks \in 0..changes
  /\ heard \in 0..marks
  /\ \A b \in Peer : peers[b].born \in 1..(changes + 1)
  /\ pc \in {"idle", "register", "update", "resolve", "list", "assign",
             "complete", "annotations"}
  /\ tx.edition \in 0..edition
  /\ tx.marks \in 0..marks
  /\ pc # "idle" => tx.edition # 0 /\ status <= tx.edition
  /\ changes \in 0..MaxChanges
  /\ faults \in 0..MaxFaults

Sound(permissionsOf) ==
  \A n \in Name : /\ permissionsOf[n].gen <= born
                  /\ permissionsOf[n].on => permissionsOf[n].gen # 0

(* Identifiers are made once for an edition: edition e has all it wants.   *)
Settled(e) ==
  /\ born <= e + 1
  /\ e # 0 => \A n \in Wanted(e) : scopes[n].gen # 0

Generated ==
  /\ Sound(roles) /\ Sound(scopes) /\ Sound(tx.roles) /\ Sound(tx.scopes)
  /\ Described => tx.edition # 0 /\ Settled(tx.edition)
  /\ \E e \in 0..edition : /\ Settled(e)
                           /\ pc \in {"register", "update"} => e <= tx.edition

(* The built-in permissions are never touched. *)
BuiltInKept ==
  \A p \in {roles, scopes, tx.roles, tx.scopes} : p[Default] = BuiltIn[Default]

(* Grants and assignments name peers and permissions that were made, and   *)
(* an assignment does not outlive its peer.                                *)
Named ==
  /\ \A g \in preauth : /\ g.peer \in Peer
                        /\ g.id \in 1..peers[g.peer].born
                        /\ g.scopes \subseteq PermissionID
  /\ \A a \in assignments : /\ a.id = ClientID(a.peer)
                            /\ a.id # 0
                            /\ a.role \in PermissionID
  /\ \A b \in Managed : tx.valid[b] <= peers[b].born
  /\ pc \in {"list", "assign"} => tx.todo = {}

GivesRole(e, a) == a.peer \in Listed(e) /\ a.role[1] \in WantedRoles(e, a.peer)
GivesScopes(e, g) ==
  g.peer \in Listed(e) /\ \A p \in g.scopes : p[1] \in WantedScopes(e, g.peer)

OfManaged(s) == {x \in s : x.peer \in Managed}

(* What there is comes from a recent edition, and from the edition of the  *)
(* pass once that has written it.                                          *)
Authorized ==
  /\ \A a \in OfManaged(assignments) : \E e \in Recent : GivesRole(e, a)
  /\ \A g \in OfManaged(preauth) : \E e \in Recent : GivesScopes(e, g)
  /\ pc \in {"list", "assign", "complete"} =>
       \A g \in OfManaged(preauth) : GivesScopes(tx.edition, g)
  /\ pc = "assign" =>
       \A a \in OfManaged(assignments) : a \in tx.revoke \/ GivesRole(tx.edition, a)
  /\ pc = "complete" =>
       \A a \in OfManaged(assignments) : GivesRole(tx.edition, a)

(* A peer that was looked up has no access under an identifier that the    *)
(* pass does not know.                                                     *)
LookedUp ==
  Described => \A b \in Listed(tx.edition) \ tx.todo :
    /\ \A a \in assignments : a.peer = b => a.id = tx.valid[b]
    /\ \A g \in preauth : g.peer = b /\ g.id = ClientID(b) => g.id = tx.valid[b]

(* Only what is desired is assigned, and nothing of it is revoked.         *)
Planned ==
  pc = "assign" => /\ tx.assign \subseteq DesiredAssignments
                   /\ tx.revoke \cap DesiredAssignments = {}
                   /\ tx.revoke = OfManaged(tx.revoke)

JInv ==
  /\ Counted
  /\ Generated
  /\ BuiltInKept
  /\ Named
  /\ Authorized
  /\ LookedUp
  /\ Planned

----------------------------------------------------------------------------
(* What the steps have in common. *)

(* A step of a pass that is under way. *)
Working ==
  /\ pc # "idle"
  /\ UNCHANGED <<edition, marks, peers, changes>>
  /\ \/ pc' = "idle" /\ tx' = NoTx
     \/ /\ pc' # "idle"
        /\ tx'.edition = tx.edition
        /\ tx'.marks = tx.marks
  /\ status' = status \/ (status' = tx.edition /\ pc = "complete")
  /\ heard' = heard \/ heard' = tx.marks
  /\ faults' = faults \/ (faults < MaxFaults /\ faults' = faults + 1)
  /\ pc' \in {"idle", "resolve", "list", "assign", "complete", "annotations"}

Step == Pass \/ Abort

LEMMA PassSteps ==
  ASSUME IInv, Step, ~Prepare
  PROVE  Working
<1> USE DEF IInv, Typed, TxType, Working, Goto, resource
<1>1. CASE Register \/ Update
  BY <1>1 DEF Register, Update, WritePermissions
<1>2. ASSUME NEW b \in Managed, MapDesiredPreAuthorizedApp(b) PROVE Working
  BY <1>2 DEF MapDesiredPreAuthorizedApp
<1>3. CASE PatchPreAuthorizedApplications \/ ListAssignments
  BY <1>3 DEF PatchPreAuthorizedApplications, ListAssignments
<1>4. ASSUME NEW a \in tx.assign, Assign(a) PROVE Working
  BY <1>4 DEF Assign
<1>5. ASSUME NEW a \in tx.revoke, Revoke(a) PROVE Working
  BY <1>5 DEF Revoke
<1>6. CASE FindVanished \/ Abort
  BY <1>6 DEF FindVanished, Abort, Fail
<1>7. CASE RemoveDisabledPermissions \/ Created
  BY <1>7 DEF RemoveDisabledPermissions, Created, AssignmentsProcessed
<1>8. CASE UpdateStatus \/ UpdateAnnotations
  BY <1>8 DEF UpdateStatus, UpdateAnnotations
<1> QED BY <1>1, <1>2, <1>3, <1>4, <1>5, <1>6, <1>7, <1>8 DEF Pass, Step

LEMMA CountedStep ==
  ASSUME IInv, Counted, Next
  PROVE  Counted'
<1> USE ConstantsAssumption DEF Counted, IInv, Typed
<1>1. CASE EditSpec
  BY <1>1 DEF EditSpec
<1>2. ASSUME NEW b \in Managed, RegisterPeer(b) PROVE Counted'
  BY <1>2 DEF RegisterPeer, Peer
<1>3. ASSUME NEW b \in Peer, DeletePeer(b) PROVE Counted'
  <2>1. \A c \in Peer : peers'[c].born = peers[c].born
    BY <1>3 DEF DeletePeer
  <2>2. /\ UNCHANGED <<resource, pc, tx, faults>>
        /\ changes < MaxChanges
        /\ changes' = changes + 1
    BY <1>3 DEF DeletePeer
  <2> QED BY <2>1, <2>2 DEF resource
<1>4. CASE Prepare
  <2>1. tx'.edition = edition /\ tx'.marks = marks
    BY <1>4 DEF Prepare, NoTx
  <2> QED BY <1>4, <2>1 DEF Prepare, Goto, resource
<1>5. CASE Step /\ ~Prepare
  <2>1. Working
    BY <1>5, PassSteps
  <2>2. NoTx.edition = 0 /\ NoTx.marks = 0
    BY DEF NoTx
  <2> QED BY <2>1, <2>2 DEF Working
<1> QED BY <1>1, <1>2, <1>3, <1>4, <1>5 DEF Next, Step

(* Permissions change only in the two PATCHes. *)
LEMMA PermissionSteps ==
  ASSUME Next
  PROVE  Register \/ Update \/ RemoveDisabledPermissions \/ UNCHANGED permissions
  BY DEF Next, Pass, EditSpec, RegisterPeer, DeletePeer, Abort, Prepare,
         MapDesiredPreAuthorizedApp, PatchPreAuthorizedApplications,
         ListAssignments, Assign, Revoke, FindVanished, Created,
         UpdateStatus, UpdateAnnotations

(* What an edition wants has a name. *)
LEMMA WantedNames ==
  ASSUME NEW e \in 1..Len(Rules), NEW b \in Managed
  PROVE  /\ WantedRoles(e, b) \subseteq Name
         /\ WantedScopes(e, b) \subseteq Name
         /\ b \in Listed(e) => /\ WantedRoles(e, b) \subseteq Wanted(e)
                               /\ WantedScopes(e, b) \subseteq Wanted(e)
<1>1. Rules[e][b] \in Rule
  BY ConstantsAssumption
<1> QED BY <1>1 DEF Rule, WantedRoles, WantedScopes, Wanted, Name

----------------------------------------------------------------------------
(* Permissions. *)

(* What steps other than these leave of what the pass has described.       *)
Kept ==
  /\ \/ tx'.roles = tx.roles /\ tx'.scopes = tx.scopes
     \/ tx'.roles = BuiltIn /\ tx'.scopes = BuiltIn
  /\ Described' => Described /\ tx'.edition = tx.edition
  /\ pc' \in {"register", "update"} => \/ Prepare
                                       \/ pc' = pc /\ tx'.edition = tx.edition
  /\ edition' \in {edition, edition + 1}

LEMMA FailKept == ASSUME IInv, Fail, pc # "idle", edition' = edition PROVE Kept
<1>0. edition \in Nat
  BY DEF IInv, Typed
<1>1. CASE tx' = NoTx /\ Goto("idle")
  BY <1>0, <1>1, BuiltInType DEF Kept, Goto, Described
<1>2. CASE /\ pc \in {"resolve", "list", "assign"}
           /\ tx' = [tx EXCEPT !.valid = NoTx.valid, !.todo = Listed(tx.edition),
                               !.assign = {}, !.revoke = {}]
           /\ Goto("resolve")
  <2>1. tx'.roles = tx.roles /\ tx'.scopes = tx.scopes /\ tx'.edition = tx.edition
    BY <1>2 DEF IInv, Typed, TxType
  <2> QED BY <1>0, <1>2, <2>1 DEF Kept, Goto, Described
<1> QED BY <1>1, <1>2 DEF Fail

LEMMA OtherSteps ==
  ASSUME IInv, Next, ~Register, ~Update, ~RemoveDisabledPermissions
  PROVE  UNCHANGED permissions /\ Kept
<1>0. edition \in Nat
  BY DEF IInv, Typed
<1>1. CASE EditSpec
  BY <1>0, <1>1 DEF EditSpec, Kept, Described
<1>2. CASE (\E b \in Managed : RegisterPeer(b)) \/ (\E b \in Peer : DeletePeer(b))
  BY <1>0, <1>2 DEF RegisterPeer, DeletePeer, Kept, Described, resource
<1>3. CASE Prepare
  <2>1. tx'.roles = BuiltIn /\ tx'.scopes = BuiltIn
    BY <1>3, BuiltInType DEF Prepare, TxType
  <2> QED BY <1>0, <1>3, <2>1 DEF Prepare, Goto, Kept, Described, resource
<1>4. ASSUME /\ tx'.roles = tx.roles /\ tx'.scopes = tx.scopes
             /\ tx'.edition = tx.edition
             /\ edition' = edition
             /\ Described /\ pc' \notin {"register", "update"}
      PROVE  Kept
  BY <1>0, <1>4 DEF Kept
<1>5. CASE PatchPreAuthorizedApplications \/ ListAssignments
  <2>1. CASE PatchPreAuthorizedApplications
    BY <1>4, <2>1
    DEF PatchPreAuthorizedApplications, Described, Goto, resource
  <2>2. CASE ListAssignments
    BY <1>4, <2>2 DEF ListAssignments, Described, Goto, resource, IInv, Typed, TxType
  <2> QED BY <1>5, <2>1, <2>2
<1>6. ASSUME NEW b \in Managed, MapDesiredPreAuthorizedApp(b) PROVE Kept
  BY <1>4, <1>6 DEF MapDesiredPreAuthorizedApp, Described, resource, IInv, Typed, TxType
<1>7. ASSUME NEW a \in tx.assign, Assign(a) PROVE Kept
  BY <1>4, <1>7 DEF Assign, Described, resource, IInv, Typed, TxType
<1>8. ASSUME NEW a \in tx.revoke, Revoke(a) PROVE Kept
  BY <1>4, <1>8 DEF Revoke, Described, resource, IInv, Typed, TxType
<1>9. CASE FindVanished \/ Abort
  BY <1>9, FailKept DEF FindVanished, Abort, resource
<1>10. CASE Created \/ UpdateStatus
  BY <1>0, <1>10
  DEF Created, UpdateStatus, AssignmentsProcessed, Goto, Kept, Described, resource
<1>11. CASE UpdateAnnotations
  BY <1>0, <1>11, BuiltInType DEF UpdateAnnotations, Goto, Kept, Described
<1>12. UNCHANGED permissions
  BY PermissionSteps
<1> QED
  BY <1>1, <1>2, <1>3, <1>5, <1>6, <1>7, <1>8, <1>9, <1>10, <1>11, <1>12
  DEF Next, Pass

LEMMA BornPositive ==
  ASSUME IInv, Generated, BuiltInKept
  PROVE  /\ born \in Nat /\ born >= 1
         /\ Default \in Name
         /\ roles[Default].gen = 1 /\ scopes[Default].gen = 1
         /\ BuiltIn[Default] = [gen |-> 1, on |-> TRUE]
<1>1. Default \in Name /\ BuiltIn[Default] = [gen |-> 1, on |-> TRUE]
  BY BuiltInType DEF BuiltIn
<1> QED BY <1>1 DEF IInv, Typed, BuiltInKept, Generated, Sound

LEMMA DescribedAs ==
  ASSUME NEW existing \in PermissionsType, NEW e, NEW n \in Name, NEW d,
         d = DescribeUpdate(existing, e)[n]
  PROVE  /\ existing[n].gen # 0 => d.gen = existing[n].gen
         /\ existing[n].gen = 0 /\ n \in Wanted(e)
            => d.gen = Identifier(n) /\ d.on
         /\ existing[n].gen = 0 /\ n \notin Wanted(e) => d.gen = 0 /\ ~d.on
<1>1. d = IF existing[n].gen # 0 THEN [gen |-> existing[n].gen, on |-> n \in Wanted(e)]
          ELSE IF n \in Wanted(e) THEN [gen |-> Identifier(n), on |-> TRUE]
          ELSE Absent
  BY DEF DescribeUpdate
<1>2. CASE existing[n].gen # 0
  <2>1. d = [gen |-> existing[n].gen, on |-> n \in Wanted(e)]
    BY <1>1, <1>2
  <2> QED BY <1>2, <2>1
<1>3. CASE existing[n].gen = 0 /\ n \in Wanted(e)
  <2>1. d = [gen |-> Identifier(n), on |-> TRUE]
    BY <1>1, <1>3
  <2> QED BY <1>3, <2>1
<1>4. CASE existing[n].gen = 0 /\ n \notin Wanted(e)
  <2>1. d = [gen |-> 0, on |-> FALSE]
    BY <1>1, <1>4 DEF Absent
  <2> QED BY <1>4, <2>1
<1> QED BY <1>2, <1>3, <1>4

LEMMA WrittenPermissions ==
  ASSUME IInv, Counted, Generated, BuiltInKept, WritePermissions,
         pc \in {"register", "update"}
  PROVE  /\ Sound(roles)' /\ Sound(scopes)'
         /\ roles'[Default] = BuiltIn[Default] /\ scopes'[Default] = BuiltIn[Default]
         /\ Settled(tx.edition)'
         /\ born <= born'
         /\ tx'.roles = roles' /\ tx'.scopes = scopes'
         /\ tx'.edition = tx.edition
         /\ pc' = "resolve"
<1>1. /\ roles' = DescribeRoles
      /\ scopes' = DescribeScopes
      /\ born' = IF \E n \in Name : scopes[n].gen # scopes'[n].gen THEN born + 1
                 ELSE born
      /\ tx'.roles = roles' /\ tx'.scopes = scopes'
      /\ tx'.edition = tx.edition
      /\ pc' = "resolve"
  BY DEF WritePermissions, Goto, IInv, Typed, TxType
<1>2. /\ born \in Nat /\ born >= 1 /\ Default \in Name
      /\ roles[Default].gen = 1 /\ scopes[Default].gen = 1
      /\ BuiltIn[Default] = [gen |-> 1, on |-> TRUE]
  BY BornPositive
<1>3. \A n \in Name : /\ roles[n].gen \in Nat /\ roles[n].gen <= born
                      /\ scopes[n].gen \in Nat /\ scopes[n].gen <= born
  BY DEF IInv, Typed, PermissionsType, Generated, Sound
<1>4. \A n \in Name : /\ Identifier(n) \in Nat \ {0}
                      /\ \/ Identifier(n) <= born
                         \/ Identifier(n) = born + 1 /\ scopes[n].gen = 0
  BY <1>2, <1>3 DEF Identifier
<1>5. ASSUME NEW n \in Name
      PROVE  /\ roles[n].gen # 0 => roles'[n].gen = roles[n].gen
             /\ roles[n].gen = 0 /\ n \in Wanted(tx.edition)
                => roles'[n].gen = Identifier(n) /\ roles'[n].on
             /\ roles[n].gen = 0 /\ n \notin Wanted(tx.edition)
                => roles'[n].gen = 0 /\ ~roles'[n].on
             /\ scopes[n].gen # 0 => scopes'[n].gen = scopes[n].gen
             /\ scopes[n].gen = 0 /\ n \in Wanted(tx.edition)
                => scopes'[n].gen = Identifier(n) /\ scopes'[n].on
             /\ scopes[n].gen = 0 /\ n \notin Wanted(tx.edition)
                => scopes'[n].gen = 0 /\ ~scopes'[n].on
  <2>1. /\ roles'[n] = DescribeUpdate(roles, tx.edition)[n]
        /\ scopes'[n] = DescribeUpdate(scopes, tx.edition)[n]
        /\ roles \in PermissionsType /\ scopes \in PermissionsType
    BY <1>1 DEF DescribeRoles, DescribeScopes, IInv, Typed
  <2>2. /\ roles[n].gen # 0 => roles'[n].gen = roles[n].gen
        /\ roles[n].gen = 0 /\ n \in Wanted(tx.edition)
           => roles'[n].gen = Identifier(n) /\ roles'[n].on
        /\ roles[n].gen = 0 /\ n \notin Wanted(tx.edition)
           => roles'[n].gen = 0 /\ ~roles'[n].on
    BY <2>1, DescribedAs
  <2>3. /\ scopes[n].gen # 0 => scopes'[n].gen = scopes[n].gen
        /\ scopes[n].gen = 0 /\ n \in Wanted(tx.edition)
           => scopes'[n].gen = Identifier(n) /\ scopes'[n].on
        /\ scopes[n].gen = 0 /\ n \notin Wanted(tx.edition)
           => scopes'[n].gen = 0 /\ ~scopes'[n].on
    BY <2>1, DescribedAs
  <2> QED BY <2>2, <2>3
<1>6. born' \in {born, born + 1}
  BY <1>1
<1>7. \A n \in Name : /\ scopes[n].gen = 0 /\ n \in Wanted(tx.edition) => born' = born + 1
                      /\ roles'[n].gen <= born'
                      /\ scopes'[n].gen <= born'
                      /\ roles'[n].on => roles'[n].gen # 0
                      /\ scopes'[n].on => scopes'[n].gen # 0
                      /\ n \in Wanted(tx.edition) => scopes'[n].gen # 0
  <2> TAKE n \in Name
  <2>1. scopes[n].gen = 0 /\ n \in Wanted(tx.edition) => born' = born + 1
    <3>1. scopes[n].gen = 0 /\ n \in Wanted(tx.edition) => scopes'[n].gen # scopes[n].gen
      BY <1>4, <1>5
    <3> QED BY <1>1, <3>1
  <2>2. roles'[n].gen <= born' /\ (roles'[n].on => roles'[n].gen # 0)
    <3>1. CASE roles[n].gen # 0
      BY <1>2, <1>3, <1>5, <1>6, <3>1
    <3>2. CASE roles[n].gen = 0 /\ n \in Wanted(tx.edition)
      BY <1>2, <1>4, <1>5, <1>6, <2>1, <3>2
    <3>3. CASE roles[n].gen = 0 /\ n \notin Wanted(tx.edition)
      BY <1>2, <1>5, <1>6, <3>3
    <3> QED BY <3>1, <3>2, <3>3
  <2>3. scopes'[n].gen <= born' /\ (scopes'[n].on => scopes'[n].gen # 0)
    <3>1. CASE scopes[n].gen # 0
      BY <1>2, <1>3, <1>5, <1>6, <3>1
    <3>2. CASE scopes[n].gen = 0 /\ n \in Wanted(tx.edition)
      BY <1>2, <1>4, <1>5, <1>6, <2>1, <3>2
    <3>3. CASE scopes[n].gen = 0 /\ n \notin Wanted(tx.edition)
      BY <1>2, <1>5, <1>6, <3>3
    <3> QED BY <3>1, <3>2, <3>3
  <2>4. n \in Wanted(tx.edition) => scopes'[n].gen # 0
    BY <1>4, <1>5
  <2> QED BY <2>1, <2>2, <2>3, <2>4
<1>8. roles'[Default] = BuiltIn[Default] /\ scopes'[Default] = BuiltIn[Default]
  <2>1. /\ roles'[Default].gen = 1 /\ scopes'[Default].gen = 1
        /\ roles'[Default].on /\ scopes'[Default].on
    BY <1>1, <1>2, <1>5, DefaultWanted, DescribeType DEF DescribeRoles, DescribeScopes, IInv, Typed
  <2>2. /\ roles'[Default] \in [gen : Nat, on : BOOLEAN]
        /\ scopes'[Default] \in [gen : Nat, on : BOOLEAN]
    BY <1>1, <1>2, DescribeType
    DEF DescribeRoles, DescribeScopes, IInv, Typed, PermissionsType
  <2> QED BY <1>2, <2>1, <2>2
<1>9. born' <= tx.edition + 1
  <2>1. PICK e \in 0..edition : Settled(e) /\ e <= tx.edition
    BY DEF Generated
  <2>2. tx.edition \in Nat /\ e \in Nat /\ tx.edition # 0
    BY DEF Counted
  <2>3. CASE e = tx.edition
    <3>1. \A n \in Name : n \in Wanted(tx.edition) => scopes[n].gen # 0
      BY <2>1, <2>2, <2>3 DEF Settled
    <3>2. \A n \in Name : scopes'[n].gen = scopes[n].gen
      BY <1>5, <3>1
    <3>3. born' = born
      BY <1>1, <3>2
    <3> QED BY <2>1, <2>3, <3>3 DEF Settled
  <2>4. CASE e # tx.edition
    BY <1>2, <1>6, <2>1, <2>2, <2>4 DEF Settled
  <2> QED BY <2>3, <2>4
<1>10. Wanted(tx.edition)' = Wanted(tx.edition) 
  BY <1>1 DEF Wanted, Listed
<1>11. \A n \in Wanted(tx.edition) : n \in Name
  BY WantedNames DEF Counted, Wanted, Listed, WantedRoles, WantedScopes, Name
<1> QED
  BY <1>1, <1>2, <1>6, <1>7, <1>8, <1>9, <1>10, <1>11 DEF Sound, Settled

LEMMA BuiltInSound == ASSUME born \in Nat, born >= 1 PROVE Sound(BuiltIn)
  BY DEF Sound, BuiltIn, Absent

LEMMA WrittenGenerated ==
  ASSUME IInv, Counted, Generated, BuiltInKept, Register \/ Update
  PROVE  Generated' /\ BuiltInKept'
<1>1. /\ WritePermissions /\ pc \in {"register", "update"}
      /\ edition' = edition
      /\ tx.edition \in 0..edition /\ tx.edition # 0
  BY DEF Register, Update, Counted, resource
<1>2. /\ Sound(roles)' /\ Sound(scopes)'
      /\ roles'[Default] = BuiltIn[Default] /\ scopes'[Default] = BuiltIn[Default]
      /\ Settled(tx.edition)'
      /\ tx'.roles = roles' /\ tx'.scopes = scopes'
      /\ tx'.edition = tx.edition
      /\ pc' = "resolve"
  BY <1>1, WrittenPermissions
<1>3. Sound(tx.roles)' /\ Sound(tx.scopes)'
  BY <1>2 DEF Sound
<1>4. \E e \in 0..edition' : Settled(e)' /\ (pc' \in {"register", "update"} => e <= tx'.edition)
  <2>2. tx'.edition \in 0..edition'
    BY <1>1, <1>2
  <2>3. pc' \notin {"register", "update"}
    BY <1>2
  <2> QED BY <1>2, <2>2, <2>3 DEF Settled, Wanted, Listed
<1>5. Generated'
  BY <1>1, <1>2, <1>3, <1>4 DEF Generated
<1> QED BY <1>2, <1>5 DEF BuiltInKept

LEMMA RemovedGenerated ==
  ASSUME IInv, Counted, Generated, BuiltInKept, RemoveDisabledPermissions
  PROVE  Generated' /\ BuiltInKept'
<1>1. /\ roles' = RemoveDisabled(roles) /\ scopes' = RemoveDisabled(scopes)
      /\ tx' = tx /\ born' = born /\ edition' = edition
      /\ pc = "assign" /\ pc' = "complete" /\ Described
  BY DEF RemoveDisabledPermissions, AssignmentsProcessed, Goto, IInv, DescribedRead,
         Described, resource
<1>2. /\ \A n \in Name : roles'[n] = roles[n] \/ roles'[n] = Absent
      /\ \A n \in Name : scopes'[n] = scopes[n] \/ scopes'[n] = Absent
      /\ \A n \in Name : roles[n].on => roles'[n] = roles[n]
      /\ \A n \in Name : scopes[n].on => scopes'[n] = scopes[n]
  BY <1>1 DEF RemoveDisabled
<1>3. born \in Nat /\ Default \in Name /\ BuiltIn[Default] = [gen |-> 1, on |-> TRUE]
  BY BornPositive
<1>4. roles'[Default] = BuiltIn[Default] /\ scopes'[Default] = BuiltIn[Default]
  BY <1>2, <1>3 DEF BuiltInKept
<1>5. Sound(roles)' /\ Sound(scopes)'
  <2>1. Absent.gen <= born /\ ~Absent.on
    BY <1>3 DEF Absent
  <2> QED BY <1>1, <1>2, <2>1 DEF Generated, Sound
<1>6. Sound(tx.roles)' /\ Sound(tx.scopes)'
  BY <1>1 DEF Generated, Sound
<1>7. tx.edition \in 0..edition /\ Settled(tx.edition) /\ tx.edition # 0
  BY <1>1 DEF Generated, Counted
<1>8. \A n \in Wanted(tx.edition) : n \in Name
  BY <1>7, WantedNames DEF Counted, Wanted, Listed, WantedRoles, WantedScopes, Name
<1>9. Settled(tx.edition)'
  <2>1. \A n \in Wanted(tx.edition) : scopes[n].gen # 0 /\ scopes[n].on
    BY <1>1, <1>7, <1>8 DEF Settled, IInv, DescribedRead
  <2>2. \A n \in Wanted(tx.edition) : scopes'[n].gen # 0
    BY <1>2, <1>8, <2>1
  <2> QED BY <1>1, <1>7, <2>2 DEF Settled, Wanted, Listed
<1>10. \E e \in 0..edition' : Settled(e)' /\ (pc' \in {"register", "update"} => e <= tx'.edition)
  BY <1>1, <1>7, <1>9 DEF Settled, Wanted, Listed
<1>11. Generated'
  BY <1>1, <1>5, <1>6, <1>10 DEF Generated, Described
<1> QED BY <1>1, <1>4, <1>11 DEF BuiltInKept

LEMMA OtherGenerated ==
  ASSUME IInv, Counted, Generated, BuiltInKept, UNCHANGED permissions, Kept
  PROVE  Generated' /\ BuiltInKept'
<1>1. born \in Nat /\ born >= 1 /\ edition \in Nat /\ edition' \in {edition, edition + 1}
  BY BornPositive DEF Counted, IInv, Typed, Kept
<1>2. /\ roles' = roles /\ scopes' = scopes /\ born' = born
      /\ \A e : Settled(e)' <=> Settled(e)
  BY DEF permissions, Settled, Wanted, Listed
<1>3. Sound(BuiltIn)
  BY <1>1, BuiltInSound
<1>4. /\ Sound(roles)' /\ Sound(scopes)'
      /\ Sound(tx.roles)' /\ Sound(tx.scopes)'
  BY <1>2, <1>3 DEF Kept, Generated, Sound
<1>5. Described' => tx'.edition # 0 /\ Settled(tx.edition)'
  BY <1>2 DEF Kept, Generated, Settled, Wanted, Listed
<1>6. \E e \in 0..edition' : Settled(e)' /\ (pc' \in {"register", "update"} => e <= tx'.edition)
  <2>1. PICK e \in 0..edition : /\ Settled(e)
                                /\ pc \in {"register", "update"} => e <= tx.edition
    BY DEF Generated
  <2>2. e \in 0..edition' /\ Settled(e)'
    BY <1>1, <1>2, <2>1
  <2>3. pc' \in {"register", "update"} => e <= tx'.edition
    <3>1. CASE Prepare
      <4>1. tx'.edition = edition
        BY <3>1, BuiltInType DEF Prepare, TxType
      <4> QED BY <1>1, <2>1, <4>1
    <3>2. CASE pc' = pc /\ tx'.edition = tx.edition
      BY <2>1, <3>2
    <3> QED BY <3>1, <3>2 DEF Kept
  <2> QED BY <2>2, <2>3
<1>7. Generated'
  BY <1>4, <1>5, <1>6 DEF Generated
<1> QED BY <1>2, <1>7 DEF Kept, BuiltInKept

LEMMA PermissionsStep ==
  ASSUME IInv, Counted, Generated, BuiltInKept, Next
  PROVE  Generated' /\ BuiltInKept'
<1>1. CASE Register \/ Update
  BY <1>1, WrittenGenerated
<1>2. CASE RemoveDisabledPermissions
  BY <1>2, RemovedGenerated
<1>3. CASE ~Register /\ ~Update /\ ~RemoveDisabledPermissions
  BY <1>3, OtherSteps, OtherGenerated
<1> QED BY <1>1, <1>2, <1>3

----------------------------------------------------------------------------
(* Who is named in grants and assignments. *)

LEMMA ExtractedBound ==
  ASSUME IInv, Generated, BuiltInKept, NEW n \in Name
  PROVE  /\ Extracted(n).gen \in 0..born
         /\ Extracted(n).on => Extracted(n).gen # 0
         /\ Extracted(n).gen # 0 => PermissionOf(n) \in PermissionID
<1>1. born \in Nat
  BY BornPositive
<1>2. \A p \in {tx.roles, tx.scopes} : /\ p[n].gen \in Nat /\ p[n].gen <= born
                                       /\ p[n].on => p[n].gen # 0
  BY DEF IInv, Typed, TxType, PermissionsType, Generated, Sound
<1>3. Extracted(n) \in {tx.scopes[n], tx.roles[n]}
  BY DEF Extracted
<1>4. Extracted(n).gen \in 0..born /\ (Extracted(n).on => Extracted(n).gen # 0)
  BY <1>1, <1>2, <1>3
<1> QED BY <1>1, <1>4 DEF PermissionOf, PermissionID

(* What is desired, in the terms of the other definitions. *)
LEMMA Desired ==
  ASSUME IInv, Counted, Generated, BuiltInKept, Described, NEW a \in DesiredAssignments
  PROVE  /\ a.peer \in Valid
         /\ a.peer \in Listed(tx.edition)
         /\ a.id = tx.valid[a.peer]
         /\ a.role \in PermissionID
         /\ GivesRole(tx.edition, a)
<1>1. PICK b \in Valid, n \in EnabledRoles :
        /\ n \in WantedRoles(tx.edition, b)
        /\ a = [peer |-> b, id |-> tx.valid[b], role |-> PermissionOf(n)]
  BY DEF DesiredAssignments
<1>2. b \in Managed /\ b \in Listed(tx.edition) /\ tx.valid[b] # 0
  BY DEF Valid, IInv, ListedRead
<1>3. n \in Name /\ Extracted(n).on
  BY DEF EnabledRoles
<1>4. PermissionOf(n) \in PermissionID
  BY <1>3, ExtractedBound
<1>5. a.role[1] = n
  BY <1>1 DEF PermissionOf
<1> QED BY <1>1, <1>2, <1>4, <1>5 DEF GivesRole

LEMMA Granting ==
  ASSUME IInv, Counted, Generated, BuiltInKept, Described, NEW b \in Valid
  PROVE  /\ ToPreAuthorizedApp(b).peer = b
         /\ ToPreAuthorizedApp(b).id = tx.valid[b]
         /\ ToPreAuthorizedApp(b).scopes \subseteq PermissionID
         /\ GivesScopes(tx.edition, ToPreAuthorizedApp(b))
<1>1. b \in Managed /\ b \in Listed(tx.edition)
  BY DEF Valid, IInv, ListedRead
<1>2. WantedScopes(tx.edition, b) \subseteq Name
  BY <1>1, WantedNames DEF Counted, Described, Generated
<1>3. ASSUME NEW p \in ToPreAuthorizedApp(b).scopes
      PROVE  p \in PermissionID /\ p[1] \in WantedScopes(tx.edition, b)
  <2>1. PICK n \in WantedScopes(tx.edition, b) : p = PermissionOf(n) /\ Extracted(n).gen # 0
    BY DEF ToPreAuthorizedApp
  <2>2. p \in PermissionID
    BY <1>2, <2>1, ExtractedBound
  <2> QED BY <2>1, <2>2 DEF PermissionOf
<1>4. ToPreAuthorizedApp(b).peer = b /\ ToPreAuthorizedApp(b).id = tx.valid[b]
  BY DEF ToPreAuthorizedApp
<1> QED BY <1>1, <1>3, <1>4 DEF GivesScopes

(* Registrations and generations are never taken back. *)
LEMMA Grown ==
  ASSUME IInv, Counted, Generated, BuiltInKept, Next
  PROVE  /\ PermissionID \subseteq PermissionID'
         /\ \A b \in Peer : /\ peers[b].born \in Nat /\ peers'[b].born \in Nat
                            /\ peers[b].born <= peers'[b].born
<1>1. born \in Nat /\ born' \in Nat /\ born <= born'
  <2>1. CASE Register \/ Update
    BY <2>1, BornPositive DEF Register, Update, WritePermissions
  <2>2. CASE ~Register /\ ~Update
    BY <2>2, BornPositive, PermissionSteps DEF RemoveDisabledPermissions, permissions
  <2> QED BY <2>1, <2>2
<1>2. \A b \in Peer : /\ peers[b].born \in Nat /\ peers'[b].born \in Nat
                      /\ peers[b].born <= peers'[b].born
  <2>0. peers \in [Peer -> [born : Nat, there : BOOLEAN]]
    BY DEF IInv, Typed
  <2>1. ASSUME NEW c \in Managed, RegisterPeer(c), NEW b \in Peer
        PROVE  peers'[b].born \in Nat /\ peers[b].born <= peers'[b].born
    <3>1. peers' = [peers EXCEPT ![c] = [born |-> peers[c].born + 1, there |-> TRUE]]
      BY <2>1 DEF RegisterPeer
    <3> QED BY <2>0, <3>1
  <2>2. ASSUME NEW c \in Peer, DeletePeer(c), NEW b \in Peer
        PROVE  peers'[b].born = peers[b].born
    BY <2>0, <2>2 DEF DeletePeer
  <2>3. CASE peers' = peers
    BY <2>0, <2>3
  <2>4. CASE Step
    <3>1. peers' = peers
      BY <2>4, PassSteps DEF Prepare, Working
    <3> QED BY <2>3, <3>1
  <2>5. CASE EditSpec
    BY <2>3, <2>5 DEF EditSpec
  <2> QED BY <2>0, <2>1, <2>2, <2>4, <2>5 DEF Next, Step
<1> QED BY <1>1, <1>2 DEF PermissionID

GrantsNamed ==
  \A g \in preauth : /\ g.peer \in Peer
                     /\ g.id \in 1..peers[g.peer].born
                     /\ g.scopes \subseteq PermissionID

AssignmentsNamed ==
  \A a \in assignments : /\ a.id = ClientID(a.peer)
                         /\ a.id # 0
                         /\ a.role \in PermissionID

LEMMA GrantsNamedStep ==
  ASSUME IInv, Counted, Generated, BuiltInKept, Named, Next
  PROVE  GrantsNamed'
<1>1. /\ PermissionID \subseteq PermissionID'
      /\ \A b \in Peer : /\ peers[b].born \in Nat /\ peers'[b].born \in Nat
                         /\ peers[b].born <= peers'[b].born
  BY Grown
<1>2. ASSUME NEW g \in preauth
      PROVE  /\ g.peer \in Peer
             /\ g.id \in 1..peers'[g.peer].born
             /\ g.scopes \subseteq PermissionID'
  BY <1>1 DEF Named
<1>3. CASE PatchPreAuthorizedApplications
  <2>1. Described /\ preauth' = KeepUnmanaged \cup {ToPreAuthorizedApp(b) : b \in Valid}
    BY <1>3 DEF PatchPreAuthorizedApplications, Described
  <2>2. ASSUME NEW b \in Valid, NEW g, g = ToPreAuthorizedApp(b)
        PROVE  /\ g.peer \in Peer
               /\ g.id \in 1..peers'[g.peer].born
               /\ g.scopes \subseteq PermissionID'
    <3>1. b \in Managed /\ b \in Peer /\ tx.valid[b] # 0 /\ tx.valid[b] \in Nat
      BY DEF Valid, Peer, IInv, Typed, TxType
    <3>2. tx.valid[b] <= peers[b].born
      BY <3>1 DEF Named
    <3>3. g.peer = b /\ g.id = tx.valid[b] /\ g.scopes \subseteq PermissionID
      BY <2>1, <2>2, Granting
    <3> QED BY <1>1, <3>1, <3>2, <3>3
  <2>3. \A g \in preauth' : g \in preauth \/ \E b \in Valid : g = ToPreAuthorizedApp(b)
    BY <2>1 DEF KeepUnmanaged
  <2> QED BY <1>2, <2>2, <2>3 DEF GrantsNamed
<1>4. CASE preauth' = preauth
  BY <1>2, <1>4 DEF GrantsNamed
<1>5. PatchPreAuthorizedApplications \/ preauth' = preauth
  BY DEF Next, Pass, EditSpec, RegisterPeer, DeletePeer, Abort, Prepare, Register,
         Update, MapDesiredPreAuthorizedApp, ListAssignments, Assign, Revoke,
         FindVanished, RemoveDisabledPermissions, Created, UpdateStatus,
         UpdateAnnotations, access
<1> QED BY <1>3, <1>4, <1>5

(* Where assignments, and the identifiers of peers, change. *)
LEMMA AssignmentSteps ==
  ASSUME Next
  PROVE  \/ \E b \in Managed : RegisterPeer(b)
         \/ \E b \in Peer : DeletePeer(b)
         \/ \E a \in tx.assign : Assign(a)
         \/ \E a \in tx.revoke : Revoke(a)
         \/ assignments' = assignments /\ peers' = peers
  BY DEF Next, Pass, EditSpec, Abort, Prepare, Register, Update,
         MapDesiredPreAuthorizedApp, PatchPreAuthorizedApplications,
         ListAssignments, FindVanished, RemoveDisabledPermissions, Created,
         UpdateStatus, UpdateAnnotations, access

LEMMA AssignmentsNamedStep ==
  ASSUME IInv, Counted, Generated, BuiltInKept, Named, Planned, Next
  PROVE  AssignmentsNamed'
<1>1. PermissionID \subseteq PermissionID'
  BY Grown
<1>2. \A a \in assignments : a.peer \in Peer
  BY DEF IInv, Typed, AssignmentType
<1>3. CASE assignments' \subseteq assignments /\ peers' = peers
  BY <1>1, <1>3 DEF Named, AssignmentsNamed, ClientID
<1>4. ASSUME NEW b \in Managed, RegisterPeer(b) PROVE AssignmentsNamed'
  <2>1. assignments' = assignments /\ ClientID(b) = 0
    BY <1>4 DEF RegisterPeer, access, ClientID
  <2>2. \A a \in assignments : a.peer # b
    BY <2>1 DEF Named
  <2>3. \A c \in Peer : c # b => peers'[c] = peers[c]
    BY <1>4 DEF RegisterPeer, IInv, Typed
  <2> QED BY <1>1, <1>2, <2>1, <2>2, <2>3 DEF Named, AssignmentsNamed, ClientID
<1>5. ASSUME NEW b \in Peer, DeletePeer(b) PROVE AssignmentsNamed'
  <2>1. \A c \in Peer : c # b => peers'[c] = peers[c]
    BY <1>5 DEF DeletePeer, IInv, Typed
  <2> QED BY <1>1, <1>2, <1>5, <2>1 DEF DeletePeer, Named, AssignmentsNamed, ClientID
<1>6. ASSUME NEW a \in tx.assign, Assign(a) PROVE AssignmentsNamed'
  <2>1. /\ Described /\ a \in DesiredAssignments
        /\ a.id = ClientID(a.peer)
        /\ assignments' = assignments \cup {a} /\ peers' = peers
    BY <1>6 DEF Assign, IsThere, Planned, Described
  <2>2. a.peer \in Valid /\ a.id = tx.valid[a.peer] /\ a.role \in PermissionID
    BY <2>1, Desired
  <2>3. a.id # 0
    BY <2>2 DEF Valid
  <2> QED BY <1>1, <2>1, <2>2, <2>3 DEF Named, AssignmentsNamed, ClientID
<1>7. ASSUME NEW a \in tx.revoke, Revoke(a) PROVE AssignmentsNamed'
  BY <1>3, <1>7 DEF Revoke
<1> QED BY <1>3, <1>4, <1>5, <1>6, <1>7, AssignmentSteps

(* The identifiers that a pass has looked up. *)
LEMMA LookupSteps ==
  ASSUME IInv, Next
  PROVE  /\ \/ \E b \in Managed : MapDesiredPreAuthorizedApp(b)
            \/ tx'.valid = tx.valid
            \/ tx'.valid = NoTx.valid
         /\ pc' \in {"list", "assign"} => /\ tx'.todo = tx.todo
                                          /\ tx.todo = {} \/ pc \in {"list", "assign"}
<1>1. CASE Prepare \/ UpdateAnnotations \/ (FindVanished \/ Abort)
  <2>1. tx'.valid = NoTx.valid
    BY <1>1, BuiltInType
    DEF Prepare, UpdateAnnotations, FindVanished, Abort, Fail, IInv, Typed, TxType
  <2>2. pc' \notin {"list", "assign"}
    BY <1>1 DEF Prepare, UpdateAnnotations, FindVanished, Abort, Fail, Goto
  <2> QED BY <2>1, <2>2
<1>2. CASE Register \/ Update
  BY <1>2 DEF Register, Update, WritePermissions, Goto, IInv, Typed, TxType
<1>3. CASE PatchPreAuthorizedApplications
  BY <1>3 DEF PatchPreAuthorizedApplications, Goto
<1>4. CASE ListAssignments
  BY <1>4 DEF ListAssignments, Goto, IInv, Typed, TxType
<1>5. ASSUME NEW a \in tx.assign, Assign(a)
      PROVE  tx'.valid = tx.valid /\ tx'.todo = tx.todo /\ pc = "assign"
  BY <1>5 DEF Assign, IInv, Typed, TxType
<1>6. ASSUME NEW a \in tx.revoke, Revoke(a)
      PROVE  tx'.valid = tx.valid /\ tx'.todo = tx.todo /\ pc = "assign"
  BY <1>6 DEF Revoke, IInv, Typed, TxType
<1>7. CASE RemoveDisabledPermissions \/ Created \/ UpdateStatus
  BY <1>7 DEF RemoveDisabledPermissions, Created, UpdateStatus, Goto
<1>8. CASE EditSpec \/ (\E b \in Managed : RegisterPeer(b)) \/ (\E b \in Peer : DeletePeer(b))
  BY <1>8 DEF EditSpec, RegisterPeer, DeletePeer
<1>9. CASE \E b \in Managed : MapDesiredPreAuthorizedApp(b)
  BY <1>9 DEF MapDesiredPreAuthorizedApp
<1> QED
  BY <1>1, <1>2, <1>3, <1>4, <1>5, <1>6, <1>7, <1>8, <1>9 DEF Next, Pass

LEMMA NamedStep ==
  ASSUME IInv, Counted, Generated, BuiltInKept, Named, Planned, Next
  PROVE  Named'
<1>1. GrantsNamed' /\ AssignmentsNamed'
  BY GrantsNamedStep, AssignmentsNamedStep
<1>2. \A b \in Peer : /\ peers[b].born \in Nat /\ peers'[b].born \in Nat
                      /\ peers[b].born <= peers'[b].born
  BY Grown
<1>3. \A b \in Managed : b \in Peer /\ tx.valid[b] \in Nat
  BY DEF Peer, IInv, Typed, TxType
<1>4. \A b \in Managed : tx'.valid[b] <= peers'[b].born
  <2>1. CASE tx'.valid = tx.valid
    BY <1>2, <1>3, <2>1 DEF Named
  <2>2. CASE tx'.valid = NoTx.valid
    <3>1. \A b \in Managed : tx'.valid[b] = 0
      BY <2>2 DEF NoTx
    <3> QED BY <1>2, <1>3, <3>1
  <2>3. ASSUME NEW c \in Managed, MapDesiredPreAuthorizedApp(c), NEW b \in Managed
        PROVE  tx'.valid[b] <= peers'[b].born
    <3>1. peers' = peers /\ tx'.valid = [tx.valid EXCEPT ![c] = ClientID(c)]
      BY <2>3 DEF MapDesiredPreAuthorizedApp, IInv, Typed, TxType
    <3>2. ClientID(c) <= peers[c].born
      BY <1>2, <1>3 DEF ClientID
    <3>3. tx.valid \in [Managed -> Nat]
      BY DEF IInv, Typed, TxType
    <3> QED BY <1>3, <3>1, <3>2, <3>3 DEF Named
  <2> QED BY <2>1, <2>2, <2>3, LookupSteps
<1>5. pc' \in {"list", "assign"} => tx'.todo = {}
  BY LookupSteps DEF Named
<1> QED BY <1>1, <1>4, <1>5 DEF Named, GrantsNamed, AssignmentsNamed

----------------------------------------------------------------------------
(* What a pass has looked up and planned. *)

LEMMA LookedUpStep ==
  ASSUME ConstantsAssumption, IInv, Counted, Generated, BuiltInKept, Named,
         LookedUp, Planned, Next
  PROVE  LookedUp'
<1> SUFFICES ASSUME Described', NEW b \in Listed(tx.edition)', b \notin tx'.todo
             PROVE  /\ \A a \in assignments' : a.peer = b => a.id = tx'.valid[b]
                    /\ \A g \in preauth' : g.peer = b /\ g.id = ClientID(b)'
                                           => g.id = tx'.valid[b]
  BY DEF LookedUp
<1>0. b \in Managed /\ b \in Peer /\ peers \in [Peer -> [born : Nat, there : BOOLEAN]]
  BY DEF Listed, Peer, IInv, Typed
<1>1. ASSUME Described, tx'.edition = tx.edition, tx'.todo = tx.todo, tx'.valid = tx.valid,
             peers'[b] = peers[b],
             \A a \in assignments' : a.peer = b => a \in assignments \/ a.id = tx.valid[b],
             \A g \in preauth' : g.peer = b => g \in preauth \/ g.id = tx.valid[b]
      PROVE  /\ \A a \in assignments' : a.peer = b => a.id = tx'.valid[b]
             /\ \A g \in preauth' : g.peer = b /\ g.id = ClientID(b)'
                                    => g.id = tx'.valid[b]
  <2>1. b \in Listed(tx.edition) \ tx.todo
    BY <1>1 DEF Listed
  <2> QED BY <1>1, <2>1 DEF LookedUp, ClientID
<1>2. CASE EditSpec
  <2>1. Described /\ tx' = tx /\ peers' = peers /\ UNCHANGED access
    BY <1>2 DEF EditSpec, Described
  <2> QED BY <1>1, <2>1 DEF access
<1>3. ASSUME NEW c \in Managed, RegisterPeer(c)
      PROVE  /\ \A a \in assignments' : a.peer = b => a.id = tx'.valid[b]
             /\ \A g \in preauth' : g.peer = b /\ g.id = ClientID(b)'
                                    => g.id = tx'.valid[b]
  <2>1. /\ Described /\ tx' = tx /\ UNCHANGED access
        /\ peers' = [peers EXCEPT ![c] = [born |-> peers[c].born + 1, there |-> TRUE]]
        /\ ClientID(c) = 0
    BY <1>3 DEF RegisterPeer, Described, ClientID
  <2>2. CASE c # b
    <3>1. peers'[b] = peers[b]
      BY <1>0, <2>1, <2>2
    <3> QED BY <1>1, <2>1, <3>1 DEF access
  <2>3. CASE c = b
    <3>1. \A a \in assignments' : a.peer # b
      BY <2>1, <2>3 DEF Named, access
    <3>2. ClientID(b)' = peers[b].born + 1
      BY <1>0, <2>1, <2>3 DEF ClientID
    <3>3. \A g \in preauth' : g.peer = b => g.id \in 1..peers[b].born
      BY <2>1 DEF Named, access
    <3> QED BY <1>0, <3>1, <3>2, <3>3
  <2> QED BY <2>2, <2>3
<1>4. ASSUME NEW c \in Peer, DeletePeer(c)
      PROVE  /\ \A a \in assignments' : a.peer = b => a.id = tx'.valid[b]
             /\ \A g \in preauth' : g.peer = b /\ g.id = ClientID(b)'
                                    => g.id = tx'.valid[b]
  <2>1. /\ Described /\ tx' = tx /\ preauth' = preauth
        /\ peers' = [peers EXCEPT ![c].there = FALSE]
        /\ assignments' = {a \in assignments : a.peer # c}
    BY <1>4 DEF DeletePeer, Described
  <2>2. CASE c # b
    <3>1. peers'[b] = peers[b]
      BY <1>0, <2>1, <2>2
    <3> QED BY <1>1, <2>1, <3>1
  <2>3. CASE c = b
    <3>1. \A a \in assignments' : a.peer # b
      BY <2>1, <2>3
    <3>2. ClientID(b)' = 0
      BY <1>0, <2>1, <2>3 DEF ClientID
    <3>3. \A g \in preauth' : g.peer = b => g.id # 0
      BY <2>1 DEF Named
    <3> QED BY <3>1, <3>2, <3>3
  <2> QED BY <2>2, <2>3
<1>5. CASE Prepare \/ RemoveDisabledPermissions \/ Created \/ UpdateStatus
           \/ UpdateAnnotations
  BY <1>5
  DEF Prepare, RemoveDisabledPermissions, Created, UpdateStatus, UpdateAnnotations,
      Goto, Described
<1>6. CASE Register \/ Update
  <2>1. tx'.edition = tx.edition /\ tx'.todo = Listed(tx.edition)
    BY <1>6 DEF Register, Update, WritePermissions, IInv, Typed, TxType
  <2> QED BY <2>1 DEF Listed
<1>7. CASE FindVanished \/ Abort
  <2>1. tx'.edition = tx.edition /\ tx'.todo = Listed(tx.edition)
    BY <1>7 DEF FindVanished, Abort, Fail, Goto, Described, IInv, Typed, TxType
  <2> QED BY <2>1 DEF Listed
<1>8. ASSUME NEW c \in Managed, MapDesiredPreAuthorizedApp(c)
      PROVE  /\ \A a \in assignments' : a.peer = b => a.id = tx'.valid[b]
             /\ \A g \in preauth' : g.peer = b /\ g.id = ClientID(b)'
                                    => g.id = tx'.valid[b]
  <2>1. /\ Described /\ peers' = peers /\ UNCHANGED access
        /\ tx'.edition = tx.edition
        /\ tx'.todo = tx.todo \ {c}
        /\ tx'.valid = [tx.valid EXCEPT ![c] = ClientID(c)]
    BY <1>8 DEF MapDesiredPreAuthorizedApp, Described, IInv, Typed, TxType
  <2>2. tx.valid \in [Managed -> Nat]
    BY DEF IInv, Typed, TxType
  <2>3. CASE c = b
    <3>1. tx'.valid[b] = ClientID(b) /\ ClientID(b)' = ClientID(b)
      BY <1>0, <2>1, <2>2, <2>3 DEF ClientID
    <3>2. \A a \in assignments' : a.peer = b => a.id = ClientID(b)
      BY <2>1 DEF Named, access
    <3> QED BY <3>1, <3>2
  <2>4. CASE c # b
    <3>1. /\ b \in Listed(tx.edition) \ tx.todo
          /\ tx'.valid[b] = tx.valid[b] /\ ClientID(b)' = ClientID(b)
      BY <1>0, <2>1, <2>2, <2>4 DEF Listed, ClientID
    <3> QED BY <2>1, <3>1 DEF LookedUp, access
  <2> QED BY <2>3, <2>4
<1>9. CASE PatchPreAuthorizedApplications
  <2>1. /\ Described /\ tx' = tx /\ peers' = peers /\ assignments' = assignments
        /\ preauth' = KeepUnmanaged \cup {ToPreAuthorizedApp(c) : c \in Valid}
    BY <1>9 DEF PatchPreAuthorizedApplications, Described
  <2>2. \A g \in KeepUnmanaged : g.peer # b
    BY <1>0 DEF KeepUnmanaged, ConstantsAssumption
  <2>3. \A c \in Valid : LET g == ToPreAuthorizedApp(c)
                         IN  g.peer = b => g.id = tx.valid[b]
    BY <2>1, Granting
  <2> QED BY <1>1, <2>1, <2>2, <2>3
<1>10. CASE ListAssignments
  <2>1. /\ Described /\ peers' = peers /\ UNCHANGED access
        /\ tx'.edition = tx.edition /\ tx'.todo = tx.todo /\ tx'.valid = tx.valid
    BY <1>10 DEF ListAssignments, Described, IInv, Typed, TxType
  <2> QED BY <1>1, <2>1 DEF access
<1>11. ASSUME NEW a \in tx.assign, Assign(a)
       PROVE  /\ \A x \in assignments' : x.peer = b => x.id = tx'.valid[b]
              /\ \A g \in preauth' : g.peer = b /\ g.id = ClientID(b)'
                                     => g.id = tx'.valid[b]
  <2>1. /\ Described /\ peers' = peers /\ preauth' = preauth
        /\ assignments' = assignments \cup {a}
        /\ tx'.edition = tx.edition /\ tx'.todo = tx.todo /\ tx'.valid = tx.valid
        /\ a \in DesiredAssignments
    BY <1>11 DEF Assign, Described, Planned, IInv, Typed, TxType
  <2>2. a.id = tx.valid[a.peer]
    BY <2>1, Desired
  <2> QED BY <1>1, <2>1, <2>2
<1>12. ASSUME NEW a \in tx.revoke, Revoke(a)
       PROVE  /\ \A x \in assignments' : x.peer = b => x.id = tx'.valid[b]
              /\ \A g \in preauth' : g.peer = b /\ g.id = ClientID(b)'
                                     => g.id = tx'.valid[b]
  <2>1. /\ Described /\ peers' = peers /\ preauth' = preauth
        /\ assignments' = assignments \ {a}
        /\ tx'.edition = tx.edition /\ tx'.todo = tx.todo /\ tx'.valid = tx.valid
    BY <1>12 DEF Revoke, Described, IInv, Typed, TxType
  <2> QED BY <1>1, <2>1
<1> QED
  BY <1>2, <1>3, <1>4, <1>5, <1>6, <1>7, <1>8, <1>9, <1>10, <1>11, <1>12 DEF Next, Pass

LEMMA SamePlan ==
  ASSUME tx'.edition = tx.edition, tx'.roles = tx.roles, tx'.scopes = tx.scopes,
         tx'.valid = tx.valid
  PROVE  DesiredAssignments' = DesiredAssignments
<1>1. Valid' = Valid
  BY DEF Valid
<1>2. \A n : Extracted(n)' = Extracted(n) /\ PermissionOf(n)' = PermissionOf(n)
  BY DEF Extracted, PermissionOf
<1>3. EnabledRoles' = EnabledRoles
  BY <1>2 DEF EnabledRoles
<1> QED BY <1>1, <1>2, <1>3 DEF DesiredAssignments, WantedRoles

LEMMA PlannedStep == ASSUME IInv, Planned, Next PROVE Planned'
<1> SUFFICES ASSUME pc' = "assign"
             PROVE  /\ tx'.assign \subseteq DesiredAssignments'
                    /\ tx'.revoke \cap DesiredAssignments' = {}
                    /\ tx'.revoke = OfManaged(tx'.revoke)
  BY DEF Planned, OfManaged
<1>1. CASE ListAssignments
  <2>1. /\ tx'.assign = DesiredAssignments \ Existing
        /\ tx'.revoke = Existing \ DesiredAssignments
        /\ DesiredAssignments' = DesiredAssignments
    BY <1>1, SamePlan DEF ListAssignments, IInv, Typed, TxType
  <2> QED BY <2>1 DEF OfManaged, Existing
<1>2. ASSUME NEW a \in tx.assign, Assign(a)
      PROVE  /\ tx'.assign \subseteq DesiredAssignments'
             /\ tx'.revoke \cap DesiredAssignments' = {}
             /\ tx'.revoke = OfManaged(tx'.revoke)
  <2>1. /\ tx'.assign = tx.assign \ {a} /\ tx'.revoke = tx.revoke
        /\ DesiredAssignments' = DesiredAssignments /\ pc = "assign"
    BY <1>2, SamePlan DEF Assign, IInv, Typed, TxType
  <2> QED BY <2>1 DEF Planned, OfManaged
<1>3. ASSUME NEW a \in tx.revoke, Revoke(a)
      PROVE  /\ tx'.assign \subseteq DesiredAssignments'
             /\ tx'.revoke \cap DesiredAssignments' = {}
             /\ tx'.revoke = OfManaged(tx'.revoke)
  <2>1. /\ tx'.assign = tx.assign /\ tx'.revoke = tx.revoke \ {a}
        /\ DesiredAssignments' = DesiredAssignments /\ pc = "assign"
    BY <1>3, SamePlan DEF Revoke, IInv, Typed, TxType
  <2> QED BY <2>1 DEF Planned, OfManaged
<1>4. CASE EditSpec \/ (\E b \in Managed : RegisterPeer(b)) \/ (\E b \in Peer : DeletePeer(b))
  <2>1. tx' = tx /\ pc = "assign"
    BY <1>4 DEF EditSpec, RegisterPeer, DeletePeer
  <2>2. DesiredAssignments' = DesiredAssignments
    BY <2>1, SamePlan
  <2> QED BY <2>1, <2>2 DEF Planned
<1>5. ListAssignments \/ (\E a \in tx.assign : Assign(a)) \/ (\E a \in tx.revoke : Revoke(a))
      \/ EditSpec \/ (\E b \in Managed : RegisterPeer(b)) \/ (\E b \in Peer : DeletePeer(b))
  BY DEF Next, Pass, Abort, Prepare, Register, Update, WritePermissions, Goto, Fail,
         MapDesiredPreAuthorizedApp, PatchPreAuthorizedApplications, FindVanished,
         RemoveDisabledPermissions, Created, UpdateStatus, UpdateAnnotations
<1> QED BY <1>1, <1>2, <1>3, <1>4, <1>5

----------------------------------------------------------------------------
(* Where access comes from. *)

(* Recent editions stay recent until a pass has completed. *)
LEMMA RecentSteps ==
  ASSUME IInv, Counted, Next
  PROVE  /\ ~UpdateStatus => Recent \subseteq Recent'
         /\ pc # "idle" => tx.edition \in Recent
<1>1. /\ edition \in Nat /\ status \in Nat /\ status <= edition
      /\ tx.edition \in 0..edition
      /\ pc # "idle" => tx.edition # 0 /\ status <= tx.edition
  BY DEF Counted, IInv, Typed
<1>2. pc # "idle" => tx.edition \in Recent
  BY <1>1 DEF Recent
<1>3. ~UpdateStatus => /\ status' = status
                       /\ edition' \in {edition, edition + 1}
  BY DEF Next, Pass, EditSpec, RegisterPeer, DeletePeer, Abort, Prepare, Register,
         Update, MapDesiredPreAuthorizedApp, PatchPreAuthorizedApplications,
         ListAssignments, Assign, Revoke, FindVanished, RemoveDisabledPermissions,
         Created, UpdateAnnotations, resource
<1> QED BY <1>1, <1>2, <1>3 DEF Recent

LEMMA PatchAuthorized ==
  ASSUME ConstantsAssumption, IInv, Counted, Generated, BuiltInKept, Authorized,
         PatchPreAuthorizedApplications
  PROVE  Authorized'
<1>1. /\ Described /\ pc # "idle"
      /\ tx' = tx /\ assignments' = assignments /\ Recent' = Recent /\ pc' = "list"
      /\ preauth' = KeepUnmanaged \cup {ToPreAuthorizedApp(b) : b \in Valid}
  BY DEF PatchPreAuthorizedApplications, Described, Goto, resource, Recent
<1>2. tx.edition \in Recent
  BY <1>1, RecentSteps DEF Next, Pass
<1>3. \A g \in KeepUnmanaged : g.peer \notin Managed
  BY DEF KeepUnmanaged, ConstantsAssumption
<1>4. \A b \in Valid : GivesScopes(tx.edition, ToPreAuthorizedApp(b))
  BY <1>1, Granting
<1>5. \A g \in OfManaged(preauth') : GivesScopes(tx.edition, g)
  BY <1>1, <1>3, <1>4 DEF OfManaged
<1> QED
  BY <1>1, <1>2, <1>5
  DEF Authorized, OfManaged, GivesScopes, GivesRole, Listed, WantedScopes, WantedRoles

LEMMA AssignAuthorized ==
  ASSUME IInv, Counted, Generated, BuiltInKept, Authorized, Planned,
         NEW a \in tx.assign, Assign(a)
  PROVE  Authorized'
<1>1. /\ pc = "assign" /\ pc' = "assign" /\ Described
      /\ preauth' = preauth /\ Recent' = Recent
      /\ tx'.edition = tx.edition /\ tx'.revoke = tx.revoke
      /\ assignments' = assignments \cup {a}
  BY DEF Assign, Described, resource, Recent, IInv, Typed, TxType
<1>2. tx.edition \in Recent
  BY <1>1, RecentSteps DEF Next, Pass
<1>3. GivesRole(tx.edition, a)
  BY <1>1, Desired DEF Planned
<1>4. /\ \A x \in OfManaged(assignments') : \E e \in Recent : GivesRole(e, x)
      /\ \A x \in OfManaged(assignments') : x \in tx.revoke \/ GivesRole(tx.edition, x)
  BY <1>1, <1>2, <1>3 DEF Authorized, OfManaged
<1> QED
  BY <1>1, <1>4
  DEF Authorized, OfManaged, GivesScopes, GivesRole, Listed, WantedScopes, WantedRoles

LEMMA RevokeAuthorized ==
  ASSUME IInv, Authorized, NEW a \in tx.revoke, Revoke(a)
  PROVE  Authorized'
<1>1. /\ pc = "assign" /\ pc' = "assign"
      /\ preauth' = preauth /\ Recent' = Recent
      /\ tx'.edition = tx.edition /\ tx'.revoke = tx.revoke \ {a}
      /\ assignments' = assignments \ {a}
  BY DEF Revoke, resource, Recent, IInv, Typed, TxType
<1>2. /\ \A x \in OfManaged(assignments') : \E e \in Recent : GivesRole(e, x)
      /\ \A x \in OfManaged(assignments') : x \in tx'.revoke \/ GivesRole(tx.edition, x)
  BY <1>1 DEF Authorized, OfManaged
<1> QED
  BY <1>1, <1>2
  DEF Authorized, OfManaged, GivesScopes, GivesRole, Listed, WantedScopes, WantedRoles

LEMMA ListAuthorized ==
  ASSUME IInv, Counted, Generated, BuiltInKept, Authorized, ListAssignments
  PROVE  Authorized'
<1>1. /\ pc = "list" /\ pc' = "assign" /\ Described
      /\ preauth' = preauth /\ Recent' = Recent /\ assignments' = assignments
      /\ tx'.edition = tx.edition /\ tx'.revoke = Existing \ DesiredAssignments
  BY DEF ListAssignments, Goto, Described, access, resource, Recent, IInv, Typed, TxType
<1>2. \A x \in OfManaged(assignments) : x \in tx'.revoke \/ GivesRole(tx.edition, x)
  BY <1>1, Desired DEF OfManaged, Existing
<1> QED
  BY <1>1, <1>2
  DEF Authorized, OfManaged, GivesScopes, GivesRole, Listed, WantedScopes, WantedRoles

LEMMA StatusAuthorized ==
  ASSUME IInv, Counted, Authorized, UpdateStatus
  PROVE  Authorized'
<1>1. /\ pc = "complete" /\ pc' = "annotations"
      /\ edition' = edition /\ status' = tx.edition /\ UNCHANGED access
  BY DEF UpdateStatus, Goto
<1>2. tx.edition \in Recent'
  BY <1>1 DEF Recent, Counted
<1>3. /\ \A a \in OfManaged(assignments) : GivesRole(tx.edition, a)
      /\ \A g \in OfManaged(preauth) : GivesScopes(tx.edition, g)
  BY <1>1 DEF Authorized
<1> QED
  BY <1>1, <1>2, <1>3
  DEF Authorized, OfManaged, GivesScopes, GivesRole, Listed, WantedScopes, WantedRoles,
      access

(* The other steps give no access, and keep what a pass has written.       *)
LEMMA OtherAuthorized ==
  ASSUME Authorized,
         Recent \subseteq Recent',
         preauth' = preauth,
         assignments' \subseteq assignments,
         pc' \in {"list", "assign", "complete"} => pc' = pc /\ tx' = tx
  PROVE  Authorized'
<1>1. /\ OfManaged(assignments') \subseteq OfManaged(assignments)
      /\ OfManaged(preauth') = OfManaged(preauth)
  BY DEF OfManaged
<1>2. \A a \in OfManaged(assignments') : \E e \in Recent' : GivesRole(e, a)
  BY <1>1 DEF Authorized
<1>3. \A g \in OfManaged(preauth') : \E e \in Recent' : GivesScopes(e, g)
  BY <1>1 DEF Authorized
<1> QED
  BY <1>1, <1>2, <1>3
  DEF Authorized, OfManaged, GivesScopes, GivesRole, Listed, WantedScopes, WantedRoles

LEMMA FinishAuthorized ==
  ASSUME Authorized, RemoveDisabledPermissions \/ Created
  PROVE  Authorized'
<1>1. /\ pc = "assign" /\ tx.revoke = {} /\ pc' = "complete"
      /\ tx' = tx /\ UNCHANGED access /\ Recent' = Recent
  BY DEF RemoveDisabledPermissions, Created, AssignmentsProcessed, Goto, resource, Recent
<1> QED
  BY <1>1
  DEF Authorized, OfManaged, GivesScopes, GivesRole, Listed, WantedScopes, WantedRoles,
      access

LEMMA AuthorizedStep ==
  ASSUME ConstantsAssumption, IInv, Counted, Generated, BuiltInKept, Authorized,
         Planned, Next
  PROVE  Authorized'
<1>1. CASE EditSpec \/ (\E b \in Managed : RegisterPeer(b)) \/ (\E b \in Peer : DeletePeer(b))
  <2>1. /\ preauth' = preauth /\ pc' = pc /\ tx' = tx
        /\ assignments' \subseteq assignments
    BY <1>1 DEF EditSpec, RegisterPeer, DeletePeer, access
  <2>2. ~UpdateStatus
    BY <1>1, <2>1 DEF UpdateStatus, Goto
  <2> QED BY <2>1, <2>2, RecentSteps, OtherAuthorized
<1>2. CASE Prepare \/ Register \/ Update \/ UpdateAnnotations \/ FindVanished \/ Abort
           \/ (\E b \in Managed : MapDesiredPreAuthorizedApp(b))
  <2>1. /\ UNCHANGED access
        /\ pc' \notin {"list", "assign", "complete", "annotations"}
    BY <1>2 DEF Prepare, Register, Update, WritePermissions, UpdateAnnotations, Goto,
                FindVanished, Abort, Fail, MapDesiredPreAuthorizedApp, access
  <2>2. ~UpdateStatus
    BY <2>1 DEF UpdateStatus, Goto
  <2> QED BY <2>1, <2>2, RecentSteps, OtherAuthorized DEF access
<1> QED
  BY <1>1, <1>2, PatchAuthorized, AssignAuthorized, RevokeAuthorized, ListAuthorized,
     StatusAuthorized, FinishAuthorized
  DEF Next, Pass

----------------------------------------------------------------------------
LEMMA InitJInv == ASSUME ConstantsAssumption, Init PROVE JInv
<1>0. IInv
  BY InitIInv
<1>1. PICK there \in SUBSET Managed :
        peers = [b \in Peer |-> [born |-> 1, there |-> b \in there \cup Unmanaged]]
  BY DEF Init
<1>2. PICK adopted \in BOOLEAN, theirs \in SUBSET Permission :
        LET others == IF adopted THEN Unmanaged ELSE {}
        IN  /\ scopes = [n \in Name |-> IF n \in theirs \cup {Default}
                                        THEN [gen |-> 1, on |-> TRUE] ELSE Absent]
            /\ preauth = {[peer |-> u, id |-> 1,
                           scopes |-> {<<n, 1>> : n \in Granted \cup {Default}}] :
                            u \in others}
            /\ assignments = {[peer |-> u, id |-> 1, role |-> <<Default, 1>>] :
                                 u \in others}
  BY DEF Init
<1>3. /\ edition = 1 /\ status = 0 /\ marks = 0 /\ heard = 0
      /\ roles = BuiltIn /\ born = 1 /\ pc = "idle" /\ tx = NoTx
      /\ changes = 0 /\ faults = 0
  BY DEF Init
<1>4. Counted
  <2>1. 1 \in 1..Len(Rules)
    BY DEF ConstantsAssumption
  <2>2. tx.edition = 0 /\ tx.marks = 0
    BY <1>3 DEF NoTx
  <2> QED BY <1>1, <1>3, <2>1, <2>2 DEF Counted, ConstantsAssumption
<1>5. Sound(BuiltIn) /\ Sound(scopes) /\ scopes[Default] = BuiltIn[Default]
  <2>1. BuiltIn[Default] = [gen |-> 1, on |-> TRUE] /\ Default \in Name
    BY BuiltInType DEF BuiltIn
  <2>2. Sound(BuiltIn)
    BY <1>3, BuiltInSound
  <2>3. Sound(scopes)
    <3> SUFFICES ASSUME NEW n \in Name
                 PROVE  scopes[n].gen <= 1 /\ (scopes[n].on => scopes[n].gen # 0)
      BY <1>3 DEF Sound
    <3>1. scopes[n] \in {[gen |-> 1, on |-> TRUE], Absent}
      BY <1>2
    <3> QED BY <3>1 DEF Absent
  <2> QED BY <1>2, <2>1, <2>2, <2>3
<1>6. Generated
  <2>1. Settled(0)
    BY <1>3 DEF Settled
  <2> QED BY <1>3, <1>5, <2>1, BuiltInType DEF Generated, Described
<1>7. BuiltInKept
  BY <1>3, <1>5, BuiltInType DEF BuiltInKept
<1>8. \A g \in preauth : /\ g.peer \in Unmanaged
                         /\ g.id = 1
                         /\ g.scopes \subseteq PermissionID
  BY <1>2, <1>3 DEF PermissionID, Name, ConstantsAssumption
<1>9. \A a \in assignments : /\ a.peer \in Unmanaged
                             /\ a.id = 1
                             /\ a.role \in PermissionID
  BY <1>2, <1>3 DEF PermissionID, Name
<1>10. \A u \in Unmanaged : u \in Peer /\ peers[u].born = 1 /\ ClientID(u) = 1
  BY <1>1 DEF Peer, ClientID
<1>11. Named
  <2>1. \A b \in Managed : b \in Peer /\ tx.valid[b] <= peers[b].born
    BY <1>1, <1>3 DEF Peer, NoTx
  <2> QED BY <1>3, <1>8, <1>9, <1>10, <2>1 DEF Named
<1>12. Authorized
  <2>1. OfManaged(assignments) = {} /\ OfManaged(preauth) = {}
    BY <1>8, <1>9 DEF OfManaged, ConstantsAssumption
  <2> QED BY <1>3, <2>1 DEF Authorized
<1>13. LookedUp /\ Planned
  BY <1>3 DEF LookedUp, Planned, Described
<1> QED BY <1>4, <1>6, <1>7, <1>11, <1>12, <1>13 DEF JInv

LEMMA JInvInductive ==
  ASSUME ConstantsAssumption, IInv, JInv, [Next]_vars
  PROVE  JInv'
<1>1. CASE Next
  BY <1>1, CountedStep, PermissionsStep, NamedStep, AuthorizedStep, LookedUpStep,
     PlannedStep
  DEF JInv
<1>2. CASE UNCHANGED vars
  <2>1. /\ \A n \in Name : PermissionOf(n)' = PermissionOf(n)
        /\ DesiredAssignments' = DesiredAssignments
    BY <1>2, SamePlan DEF vars, PermissionOf, Extracted
  <2>2. Counted' /\ Generated' /\ BuiltInKept'
    BY <1>2
    DEF vars, JInv, Counted, Generated, BuiltInKept, Sound, Settled, Described, Wanted,
        Listed, resource, permissions
  <2>3. Named' /\ LookedUp'
    BY <1>2
    DEF vars, JInv, Named, LookedUp, Described, Listed, PermissionID, ClientID,
        permissions, access
  <2>4. Authorized'
    BY <1>2
    DEF vars, JInv, Authorized, OfManaged, GivesRole, GivesScopes, Listed, WantedRoles,
        WantedScopes, Recent, resource, access
  <2>5. Planned'
    BY <1>2, <2>1 DEF vars, JInv, Planned, OfManaged
  <2> QED BY <2>2, <2>3, <2>4, <2>5 DEF JInv
<1> QED BY <1>1, <1>2

(* What a pass has looked up and planned, and what is granted, assigned    *)
(* and registered, stay in step, for any editions, peers and failures      *)
(* (Update and Create in client.go).                                       *)
THEOREM AccessInvariant == Spec => [](IInv /\ JInv)
<1>1. Init => JInv
  BY InitJInv, ConstantsAssumption
<1>2. IInv /\ JInv /\ [Next]_vars => JInv'
  BY JInvInductive, ConstantsAssumption
<1> QED BY <1>1, <1>2, InvariantHolds, PTL DEF Spec

(* The values of the variables: no identifier is empty, none is made twice *)
(* for one edition, and a grant or an assignment names what was made       *)
(* (mapDesiredPreAuthorizedApps in preauthorizedapp.go sorts the others    *)
(* out).                                                                   *)
THEOREM TypeCorrect == Spec => []TypeOK
<1>1. IInv /\ JInv => TypeOK
  <2> SUFFICES ASSUME IInv, JInv PROVE TypeOK
    OBVIOUS
  <2>0. ConstantsAssumption
    BY ConstantsAssumption
  <2>1. /\ edition \in 1..Len(Rules)
        /\ status \in 0..edition
        /\ heard \in 0..marks
        /\ marks \in 0..MaxChanges
        /\ pc \in {"idle", "register", "update", "resolve", "list", "assign",
                   "complete", "annotations"}
        /\ tx.edition \in 0..edition /\ tx.marks \in 0..marks
        /\ changes \in 0..MaxChanges
        /\ faults \in 0..MaxFaults
    BY <2>0 DEF JInv, Counted, ConstantsAssumption
  <2>2. /\ peers \in [Peer -> [born : 1..(MaxChanges + 1), there : BOOLEAN]]
        /\ \A b \in Peer : peers[b].born \in Nat /\ peers[b].born <= MaxChanges + 1
    <3>1. peers \in [Peer -> [born : Nat, there : BOOLEAN]]
      BY DEF IInv, Typed
    <3>2. \A b \in Peer : peers[b].born \in 1..(MaxChanges + 1)
      BY <2>0, <3>1 DEF JInv, Counted, ConstantsAssumption
    <3> QED BY <3>1, <3>2
  <2>3. born \in Nat /\ born >= 1
    BY BornPositive DEF JInv
  <2>4. roles \in Permissions /\ scopes \in Permissions
    <3>1. \A p \in {roles, scopes} : /\ p \in PermissionsType
                                     /\ \A n \in Name : p[n].gen <= born
      BY DEF JInv, Generated, Sound, IInv, Typed
    <3>2. ASSUME NEW p \in {roles, scopes} PROVE p \in Permissions
      <4>1. p \in PermissionsType /\ \A n \in Name : p[n].gen \in 0..born
        BY <2>3, <3>1 DEF PermissionsType
      <4> QED BY <4>1 DEF PermissionsType, Permissions
    <3> QED BY <3>2
  <2>5. born \in 1..(Len(Rules) + 1)
    <3>1. PICK e \in 0..edition : born <= e + 1
      BY DEF JInv, Generated, Settled
    <3>2. Len(Rules) \in Nat
      BY <2>0 DEF ConstantsAssumption
    <3> QED BY <2>1, <2>3, <3>1, <3>2
  <2>6. \A b \in Peer, i \in 1..(MaxChanges + 1) : <<b, i>> \in PeerID
    BY DEF PeerID
  <2>7. ASSUME NEW g \in preauth
        PROVE  <<g.peer, g.id>> \in PeerID /\ g.scopes \subseteq PermissionID
    <3>1. g.peer \in Peer /\ g.id \in 1..peers[g.peer].born
          /\ g.scopes \subseteq PermissionID
      BY DEF JInv, Named
    <3>2. g.id \in 1..(MaxChanges + 1)
      BY <2>0, <2>2, <3>1 DEF ConstantsAssumption
    <3> QED BY <2>6, <3>1, <3>2
  <2>8. ASSUME NEW a \in assignments
        PROVE  <<a.peer, a.id>> \in PeerID /\ a.role \in PermissionID
    <3>1. a.peer \in Peer /\ a.id = ClientID(a.peer) /\ a.id # 0 /\ a.role \in PermissionID
      BY DEF JInv, Named, IInv, Typed, AssignmentType
    <3>2. a.id = peers[a.peer].born
      BY <3>1 DEF ClientID
    <3>3. a.id \in 1..(MaxChanges + 1)
      BY <2>0, <2>2, <3>1, <3>2 DEF ConstantsAssumption
    <3> QED BY <2>6, <3>1, <3>3
  <2>9. registered \in BOOLEAN /\ tx.todo \subseteq Managed
    BY DEF IInv, Typed, TxType
  <2> QED BY <2>1, <2>2, <2>3, <2>4, <2>5, <2>7, <2>8, <2>9 DEF TypeOK
<1> QED BY <1>1, AccessInvariant, PTL

(* Nobody has a role or a scope that no edition since the last completed   *)
(* pass gives: no matter which steps of which passes have failed, in which *)
(* order peers and permissions were deleted and made again (Process in     *)
(* preauthorizedapp.go and approleassignments.go).                         *)
THEOREM AccessIsAuthorized == Spec => []GrantsAuthorized
<1>1. Authorized => GrantsAuthorized
  <2> SUFFICES ASSUME Authorized PROVE GrantsAuthorized
    OBVIOUS
  <2>1. ASSUME NEW a \in assignments, a.peer \in Managed
        PROVE  \E e \in Recent : a.peer \in Listed(e) /\ a.role[1] \in WantedRoles(e, a.peer)
    BY <2>1 DEF Authorized, OfManaged, GivesRole
  <2>2. ASSUME NEW g \in preauth, NEW n \in Name, g.peer \in Managed,
               <<n, scopes[n].gen>> \in g.scopes
        PROVE  \E e \in Recent : g.peer \in Listed(e) /\ n \in WantedScopes(e, g.peer)
    <3>1. PICK e \in Recent : GivesScopes(e, g)
      BY <2>2 DEF Authorized, OfManaged
    <3>2. <<n, scopes[n].gen>>[1] = n
      OBVIOUS
    <3> QED BY <2>2, <3>1, <3>2 DEF GivesScopes
  <2> QED BY <2>1, <2>2 DEF GrantsAuthorized
<1> QED BY <1>1, AccessInvariant, PTL DEF JInv

----------------------------------------------------------------------------
(* Access is never interrupted. *)

(* What is wanted, and there, comes out of a step enabled under the same   *)
(* identifier.                                                             *)
LEMMA EnabledKept ==
  ASSUME IInv, Counted, Generated, BuiltInKept, Next, NEW n \in Name,
         Register \/ Update => n \in Wanted(tx.edition)
  PROVE  /\ roles[n].on => roles'[n].on /\ roles'[n].gen = roles[n].gen
         /\ scopes[n].on => scopes'[n].on /\ scopes'[n].gen = scopes[n].gen
<1>1. /\ roles[n].on => roles[n].gen # 0
      /\ scopes[n].on => scopes[n].gen # 0
      /\ roles \in PermissionsType /\ scopes \in PermissionsType
  BY DEF Generated, Sound, IInv, Typed
<1>2. CASE Register \/ Update
  <2>1. /\ roles' = DescribeUpdate(roles, tx.edition)
        /\ scopes' = DescribeUpdate(scopes, tx.edition)
        /\ n \in Wanted(tx.edition)
    BY <1>2 DEF Register, Update, WritePermissions, DescribeRoles, DescribeScopes
  <2>2. /\ roles[n].gen # 0 => roles'[n].gen = roles[n].gen
        /\ roles'[n].on
    BY <1>1, <2>1, DescribeType DEF IInv
  <2>3. /\ scopes[n].gen # 0 => scopes'[n].gen = scopes[n].gen
        /\ scopes'[n].on
    BY <1>1, <2>1, DescribeType DEF IInv
  <2> QED BY <1>1, <2>2, <2>3
<1>3. CASE RemoveDisabledPermissions
  <2>1. roles' = RemoveDisabled(roles) /\ scopes' = RemoveDisabled(scopes)
    BY <1>3 DEF RemoveDisabledPermissions, AssignmentsProcessed, IInv, DescribedRead,
                Described
  <2>2. /\ roles[n].on => roles'[n] = roles[n]
        /\ scopes[n].on => scopes'[n] = scopes[n]
    BY <2>1 DEF RemoveDisabled
  <2> QED BY <2>2
<1>4. CASE UNCHANGED permissions
  BY <1>4 DEF permissions
<1> QED BY <1>2, <1>3, <1>4, PermissionSteps

(* A permission that is wanted is extracted as it is registered. *)
LEMMA ExtractedAsRegistered ==
  ASSUME IInv, Generated, Described, NEW n \in Name, n \in Wanted(tx.edition)
  PROVE  /\ roles[n].on => Extracted(n).on /\ Extracted(n).gen = roles[n].gen
         /\ scopes[n].on => Extracted(n).gen # 0 /\ Extracted(n).gen = scopes[n].gen
<1>1. tx.roles = roles /\ tx.scopes = scopes
  BY DEF IInv, DescribedRead
<1>2. /\ roles[n].on => roles[n].gen # 0
      /\ scopes[n].on => scopes[n].gen # 0
      /\ scopes[n].gen # 0 => scopes[n].on
      /\ roles[n].gen # 0 /\ scopes[n].gen # 0 => roles[n].gen = scopes[n].gen
  BY DEF Generated, Sound, IInv, DescribedRead, Identified, Same
<1>3. CASE scopes[n].gen # 0
  <2>1. Extracted(n) = scopes[n]
    BY <1>1, <1>3 DEF Extracted
  <2> QED BY <1>2, <1>3, <2>1
<1>4. CASE scopes[n].gen = 0
  <2>1. Extracted(n) = roles[n]
    BY <1>1, <1>4 DEF Extracted
  <2> QED BY <1>2, <1>4, <2>1
<1> QED BY <1>3, <1>4

(* A peer is listed by every edition that the state may come from. *)
Trusted(b) == \A e \in Recent \cup Recent' : b \in Listed(e)

LEMMA RoleKept ==
  ASSUME IInv, JInv, Next, NEW b \in Managed, NEW n \in Name,
         peers'[b] = peers[b], Trusted(b), HasRole(b, n),
         \A e \in Recent \cup Recent' : n \in WantedRoles(e, b)
  PROVE  HasRole(b, n)'
<1> DEFINE held == [peer |-> b, id |-> ClientID(b), role |-> <<n, roles[n].gen>>]
<1>1. /\ roles[n].on /\ held \in assignments
      /\ held.peer = b /\ held.id = ClientID(b) /\ held.role = <<n, roles[n].gen>>
      /\ ClientID(b)' = ClientID(b)
  BY DEF HasRole, ClientID
<1>2. pc # "idle" => /\ b \in Listed(tx.edition)
                     /\ n \in WantedRoles(tx.edition, b)
                     /\ n \in Wanted(tx.edition)
  <2>1. pc # "idle" => /\ b \in Listed(tx.edition)
                       /\ n \in WantedRoles(tx.edition, b)
    BY RecentSteps DEF Trusted, JInv
  <2> QED BY <2>1, WantedNames DEF Wanted, WantedRoles
<1> HIDE DEF held
<1>3. roles'[n].on /\ roles'[n].gen = roles[n].gen
  BY <1>1, <1>2, EnabledKept DEF JInv, Register, Update
<1>4. held \in assignments'
  <2>1. ASSUME NEW c \in Peer, DeletePeer(c) PROVE held \in assignments'
    <3>1. c # b
      BY <2>1 DEF DeletePeer, IInv, Typed
    <3> QED BY <1>1, <2>1, <3>1 DEF DeletePeer
  <2>2. ASSUME NEW a \in tx.revoke, Revoke(a) PROVE held \in assignments'
    <3>1. Described /\ pc = "assign" /\ assignments' = assignments \ {a}
      BY <2>2 DEF Revoke, Described
    <3>2. /\ b \in Listed(tx.edition) \ tx.todo
          /\ n \in WantedRoles(tx.edition, b) /\ n \in Wanted(tx.edition)
      BY <1>2, <3>1 DEF JInv, Named
    <3>3. held.id = tx.valid[b] /\ held.id # 0
      BY <1>1, <3>1, <3>2 DEF JInv, LookedUp, Named
    <3>4. Extracted(n).on /\ Extracted(n).gen = roles[n].gen
      BY <1>1, <3>1, <3>2, ExtractedAsRegistered DEF JInv
    <3>5. held = [peer |-> b, id |-> tx.valid[b], role |-> PermissionOf(n)]
      BY <1>1, <3>3, <3>4 DEF PermissionOf, held
    <3>6. held \in DesiredAssignments
      BY <3>2, <3>3, <3>4, <3>5 DEF DesiredAssignments, EnabledRoles, Valid
    <3>7. held # a
      BY <3>1, <3>6 DEF JInv, Planned
    <3> QED BY <1>1, <3>1, <3>7
  <2> QED BY <1>1, <2>1, <2>2, AssignmentSteps DEF RegisterPeer, Assign, access
<1> QED BY <1>1, <1>3, <1>4 DEF HasRole, held

LEMMA GrantSteps ==
  ASSUME Next
  PROVE  PatchPreAuthorizedApplications \/ preauth' = preauth
  BY DEF Next, Pass, EditSpec, RegisterPeer, DeletePeer, Abort, Prepare, Register,
         Update, MapDesiredPreAuthorizedApp, ListAssignments, Assign, Revoke,
         FindVanished, RemoveDisabledPermissions, Created, UpdateStatus,
         UpdateAnnotations, access

LEMMA ScopeKept ==
  ASSUME IInv, JInv, Next, NEW b \in Managed, NEW n \in Name,
         peers'[b] = peers[b], Trusted(b), HasScope(b, n),
         \A e \in Recent \cup Recent' : n \in WantedScopes(e, b)
  PROVE  HasScope(b, n)'
<1>1. PICK g \in preauth : /\ g.peer = b
                           /\ g.id = ClientID(b)
                           /\ <<n, scopes[n].gen>> \in g.scopes
  BY DEF HasScope
<1>2. pc # "idle" => /\ b \in Listed(tx.edition)
                     /\ n \in WantedScopes(tx.edition, b)
                     /\ n \in Wanted(tx.edition)
  <2>1. pc # "idle" => /\ b \in Listed(tx.edition)
                       /\ n \in WantedScopes(tx.edition, b)
    BY RecentSteps DEF Trusted, JInv
  <2> QED BY <2>1 DEF Wanted, WantedScopes
<1>3. scopes[n].on /\ scopes'[n].on /\ scopes'[n].gen = scopes[n].gen
  BY <1>2, EnabledKept DEF HasScope, JInv, Register, Update
<1>4. ClientID(b)' = ClientID(b)
  BY DEF ClientID
<1>5. CASE preauth' = preauth
  BY <1>1, <1>3, <1>4, <1>5 DEF HasScope
<1>6. CASE PatchPreAuthorizedApplications
  <2>1. /\ Described /\ pc = "resolve" /\ tx.todo = {}
        /\ preauth' = KeepUnmanaged \cup {ToPreAuthorizedApp(c) : c \in Valid}
    BY <1>6 DEF PatchPreAuthorizedApplications, Described
  <2>2. b \in Listed(tx.edition) \ tx.todo /\ n \in WantedScopes(tx.edition, b)
        /\ n \in Wanted(tx.edition)
    BY <1>2, <2>1
  <2>3. g.id = tx.valid[b] /\ g.id # 0
    BY <1>1, <2>1, <2>2 DEF JInv, LookedUp, Named
  <2>4. Extracted(n).gen # 0 /\ Extracted(n).gen = scopes[n].gen
    BY <1>3, <2>1, <2>2, ExtractedAsRegistered DEF JInv
  <2>5. ToPreAuthorizedApp(b) \in preauth'
    BY <2>1, <2>3 DEF Valid
  <2>6. /\ ToPreAuthorizedApp(b).peer = b
        /\ ToPreAuthorizedApp(b).id = tx.valid[b]
        /\ <<n, scopes[n].gen>> \in ToPreAuthorizedApp(b).scopes
    BY <2>2, <2>4 DEF ToPreAuthorizedApp, PermissionOf
  <2> QED BY <1>1, <1>3, <1>4, <2>3, <2>5, <2>6 DEF HasScope
<1> QED BY <1>5, <1>6, GrantSteps

(* Whoever has a role or a scope keeps it under the same identifier as     *)
(* long as no edition since the last completed pass takes it away: the     *)
(* list is replaced and assignments are revoked without a gap, whatever    *)
(* has failed before (Update in client.go, Process in preauthorizedapp.go  *)
(* and approleassignments.go).                                             *)
THEOREM NoInterruption == Spec => AccessKept
<1> DEFINE Uninterrupted ==
      \A b \in Managed, n \in Name :
        /\ peers'[b] = peers[b]
        /\ \A e \in Recent \cup Recent' : b \in Listed(e)
        => /\ HasRole(b, n) /\ (\A e \in Recent \cup Recent' : n \in WantedRoles(e, b))
              => HasRole(b, n)'
           /\ HasScope(b, n) /\ (\A e \in Recent \cup Recent' : n \in WantedScopes(e, b))
              => HasScope(b, n)'
<1>1. IInv /\ JInv /\ Next => Uninterrupted
  BY RoleKept, ScopeKept DEF Trusted
<1>2. IInv /\ JInv /\ [Next]_vars => [Uninterrupted]_vars
  BY <1>1
<1> HIDE DEF Uninterrupted
<1>3. Spec => [][Uninterrupted]_vars
  BY <1>2, AccessInvariant, PTL DEF Spec
<1> QED BY <1>3 DEF Uninterrupted, AccessKept

----------------------------------------------------------------------------
(* What others have granted. *)

LEMMA OthersStep ==
  ASSUME ConstantsAssumption, IInv, JInv, Next, NEW u \in Unmanaged, peers'[u].there
  PROVE  /\ HasRole(u, Default) => HasRole(u, Default)'
         /\ HasScope(u, Default) => HasScope(u, Default)'
<1>1. roles'[Default] = roles[Default] /\ scopes'[Default] = scopes[Default]
  BY PermissionsStep DEF JInv, BuiltInKept, BuiltIn
<1>2. u \in Peer /\ u \notin Managed
  BY DEF Peer, ConstantsAssumption
<1>3. ASSUME NEW c \in Peer, DeletePeer(c) PROVE c # u
  BY <1>2, <1>3 DEF DeletePeer, IInv, Typed
<1>4. peers'[u] = peers[u]
  <2>1. ASSUME NEW c \in Managed, RegisterPeer(c) PROVE peers'[u] = peers[u]
    BY <1>2, <2>1 DEF RegisterPeer, IInv, Typed
  <2>2. ASSUME NEW c \in Peer, DeletePeer(c) PROVE peers'[u] = peers[u]
    BY <1>2, <1>3, <2>2 DEF DeletePeer, IInv, Typed
  <2> QED BY <2>1, <2>2, AssignmentSteps DEF Assign, Revoke
<1>5. ClientID(u)' = ClientID(u)
  BY <1>4 DEF ClientID
<1>6. ASSUME NEW a \in assignments, a.peer = u PROVE a \in assignments'
  <2>1. ASSUME NEW c \in Peer, DeletePeer(c) PROVE a \in assignments'
    BY <1>3, <1>6, <2>1 DEF DeletePeer
  <2>2. ASSUME NEW r \in tx.revoke, Revoke(r) PROVE a \in assignments'
    BY <1>2, <1>6, <2>2 DEF Revoke, JInv, Planned, OfManaged
  <2> QED BY <2>1, <2>2, AssignmentSteps DEF RegisterPeer, Assign, access
<1>7. ASSUME NEW g \in preauth, g.peer = u, g.id = ClientID(u) PROVE g \in preauth'
  BY <1>7, GrantSteps DEF PatchPreAuthorizedApplications, KeepUnmanaged
<1>8. HasRole(u, Default) => HasRole(u, Default)'
  BY <1>1, <1>5, <1>6 DEF HasRole
<1>9. HasScope(u, Default) => HasScope(u, Default)'
  BY <1>1, <1>5, <1>7 DEF HasScope
<1> QED BY <1>8, <1>9

(* What somebody else has granted and assigned survives every pass         *)
(* (mapExistingPreAuthorizedApps in preauthorizedapp.go), and so do the    *)
(* built-in permissions.                                                   *)
THEOREM NothingTakenFromOthers == Spec => OthersKept
<1> DEFINE Untouched ==
      \A u \in Unmanaged :
        peers'[u].there
        => /\ HasRole(u, Default) => HasRole(u, Default)'
           /\ HasScope(u, Default) => HasScope(u, Default)'
<1>1. IInv /\ JInv /\ [Next]_vars => [Untouched]_vars
  BY OthersStep, ConstantsAssumption
<1> HIDE DEF Untouched
<1>2. Spec => [][Untouched]_vars
  BY <1>1, AccessInvariant, PTL DEF Spec
<1> QED BY <1>2 DEF Untouched, OthersKept

----------------------------------------------------------------------------
(* The status is true. *)

ExactFor(e) ==
  /\ \A b \in {p \in Managed : peers[p].there}, n \in Name :
       /\ HasRole(b, n) <=> b \in Listed(e) /\ n \in WantedRoles(e, b)
       /\ HasScope(b, n) <=> b \in Listed(e) /\ n \in WantedScopes(e, b)
  /\ \A n \in Name : /\ roles[n].on <=> n \in Wanted(e)
                     /\ scopes[n].on <=> n \in Wanted(e)
                     /\ roles[n].gen # 0 => roles[n].on
                     /\ scopes[n].gen # 0 => scopes[n].on

(* A pass that creates the application has no permissions to delete.       *)
NothingLeftover ==
  /\ ~registered => roles = BuiltIn /\ scopes = BuiltIn
  /\ pc \notin {"idle", "register"} => registered
  /\ pc = "register" => ~registered /\ ~tx.exists
  /\ pc = "update" => tx.exists
  /\ Described /\ ~tx.exists => \A n \in Name : /\ roles[n].gen # 0 => roles[n].on
                                                /\ scopes[n].gen # 0 => scopes[n].on

(* Between the two PATCHes what is wanted is enabled, and nothing else.    *)
WantedEnabled ==
  Described => \A n \in Name : /\ roles[n].on <=> n \in Wanted(tx.edition)
                               /\ scopes[n].on <=> n \in Wanted(tx.edition)

(* What a pass has looked up is right, unless it is asked to look again.   *)
LookedUpRight ==
  Described /\ tx.marks = marks =>
    \A b \in Listed(tx.edition) \ tx.todo :
      peers[b].there => tx.valid[b] = ClientID(b)

GrantsWritten ==
  pc \in {"list", "assign"} => \A b \in Valid : ToPreAuthorizedApp(b) \in preauth

(* What is desired of peers that are still there is assigned, or will be.  *)
AssignmentsUnderWay ==
  pc = "assign" => \A a \in DesiredAssignments :
                     IsThere(a) => a \in assignments \cup tx.assign

(* A pass that nothing has happened to arrives at what its edition says.   *)
Accomplished ==
  /\ pc \in {"complete", "annotations"} /\ tx.marks = marks => ExactFor(tx.edition)
  /\ pc = "annotations" => status = tx.edition

Due == status # edition \/ heard # marks

(* Only a pass that is due runs, and it does not hear more than it reads.  *)
DueWhileRunning ==
  /\ pc \notin {"idle", "annotations"} => Due
  /\ pc # "idle" => heard <= tx.marks
  /\ ~Due => ExactFor(edition)

KInv ==
  /\ NothingLeftover
  /\ WantedEnabled
  /\ LookedUpRight
  /\ GrantsWritten
  /\ AssignmentsUnderWay
  /\ Accomplished
  /\ DueWhileRunning

(* Only the creation of the application finds nothing to delete.           *)
LEMMA LeftoverStep ==
  ASSUME IInv, Counted, Generated, BuiltInKept, NothingLeftover, Next
  PROVE  NothingLeftover'
<1>1. CASE Register
  <2>1. /\ pc = "register" /\ pc' = "resolve" /\ registered'
        /\ tx'.exists = tx.exists
        /\ roles' = DescribeUpdate(roles, tx.edition)
        /\ scopes' = DescribeUpdate(scopes, tx.edition)
    BY <1>1
    DEF Register, WritePermissions, DescribeRoles, DescribeScopes, Goto, IInv, Typed, TxType
  <2>2. roles = BuiltIn /\ scopes = BuiltIn
    BY <2>1 DEF NothingLeftover
  <2>3. ASSUME NEW n \in Name, NEW d, d = DescribeUpdate(BuiltIn, tx.edition)[n],
               d.gen # 0
        PROVE  d.on
    <3>1. CASE n = Default
      BY <2>3, <3>1, BuiltInType, DescribeType, DefaultWanted DEF IInv
    <3>2. CASE n # Default
      <4>1. BuiltIn[n].gen = 0
        BY <3>2 DEF BuiltIn, Absent
      <4> QED BY <2>3, <4>1, BuiltInType, DescribedAs
    <3> QED BY <3>1, <3>2
  <2> QED BY <2>1, <2>2, <2>3 DEF NothingLeftover
<1>2. CASE Update
  <2>1. /\ pc = "update" /\ pc' = "resolve" /\ registered' = registered
        /\ tx'.exists = tx.exists
    BY <1>2 DEF Update, WritePermissions, Goto, IInv, Typed, TxType
  <2> QED BY <2>1 DEF NothingLeftover
<1>3. CASE RemoveDisabledPermissions
  <2>1. /\ pc = "assign" /\ pc' = "complete" /\ registered' = registered
    BY <1>3 DEF RemoveDisabledPermissions, AssignmentsProcessed, Goto
  <2> QED BY <2>1 DEF NothingLeftover, Described
<1>4. CASE Prepare
  <2>1. /\ registered' = registered /\ roles' = roles /\ scopes' = scopes
        /\ tx'.exists = registered
        /\ pc' = IF registered THEN "update" ELSE "register"
    BY <1>4, BuiltInType DEF Prepare, permissions, Goto, TxType, IInv, Typed
  <2> QED BY <2>1 DEF NothingLeftover, Described, IInv, Typed
<1>5. CASE ~Prepare /\ ~Register /\ ~Update /\ ~RemoveDisabledPermissions
  <2>1. UNCHANGED permissions /\ Kept
    BY <1>5, OtherSteps
  <2>2. \/ pc' = "idle"
        \/ pc' = pc /\ tx'.exists = tx.exists
        \/ /\ Described
           /\ pc' \in {"resolve", "list", "assign", "complete"}
           /\ tx'.exists = tx.exists
        \/ pc = "complete" /\ pc' = "annotations"
    <3>1. CASE EditSpec \/ (\E b \in Managed : RegisterPeer(b)) \/ (\E b \in Peer : DeletePeer(b))
      BY <3>1 DEF EditSpec, RegisterPeer, DeletePeer
    <3>2. CASE FindVanished \/ Abort
      BY <3>2 DEF FindVanished, Abort, Fail, Goto, Described, IInv, Typed, TxType
    <3>3. ASSUME NEW b \in Managed, MapDesiredPreAuthorizedApp(b)
          PROVE  pc' = pc /\ tx'.exists = tx.exists
      BY <3>3 DEF MapDesiredPreAuthorizedApp, IInv, Typed, TxType
    <3>4. ASSUME NEW a \in tx.assign, Assign(a)
          PROVE  pc' = pc /\ tx'.exists = tx.exists
      BY <3>4 DEF Assign, IInv, Typed, TxType
    <3>5. ASSUME NEW a \in tx.revoke, Revoke(a)
          PROVE  pc' = pc /\ tx'.exists = tx.exists
      BY <3>5 DEF Revoke, IInv, Typed, TxType
    <3>6. CASE PatchPreAuthorizedApplications \/ ListAssignments \/ Created
               \/ UpdateStatus \/ UpdateAnnotations
      BY <3>6
      DEF PatchPreAuthorizedApplications, ListAssignments, Created, UpdateStatus,
          UpdateAnnotations, AssignmentsProcessed, Described, Goto, IInv, Typed, TxType
    <3> QED BY <1>5, <3>1, <3>2, <3>3, <3>4, <3>5, <3>6 DEF Next, Pass
  <2>3. registered' = registered /\ roles' = roles /\ scopes' = scopes
    BY <2>1 DEF permissions
  <2> QED BY <2>2, <2>3 DEF NothingLeftover, Described
<1> QED BY <1>1, <1>2, <1>3, <1>4, <1>5

LEMMA EnabledStep ==
  ASSUME IInv, Counted, Generated, BuiltInKept, WantedEnabled, Next
  PROVE  WantedEnabled'
<1>1. CASE Register \/ Update
  <2>1. /\ tx'.edition = tx.edition
        /\ roles' = DescribeUpdate(roles, tx.edition)
        /\ scopes' = DescribeUpdate(scopes, tx.edition)
        /\ roles \in PermissionsType /\ scopes \in PermissionsType
    BY <1>1
    DEF Register, Update, WritePermissions, DescribeRoles, DescribeScopes, IInv, Typed,
        TxType
  <2>2. ASSUME NEW existing \in PermissionsType, NEW n \in Name
        PROVE  DescribeUpdate(existing, tx.edition)[n].on <=> n \in Wanted(tx.edition)
    BY DEF DescribeUpdate, Absent
  <2>3. Wanted(tx.edition)' = Wanted(tx.edition)
    BY <2>1 DEF Wanted, Listed
  <2> QED BY <2>1, <2>2, <2>3 DEF WantedEnabled
<1>2. CASE RemoveDisabledPermissions
  BY <1>2 DEF RemoveDisabledPermissions, Goto, WantedEnabled, Described
<1>3. CASE ~Register /\ ~Update /\ ~RemoveDisabledPermissions
  <2>1. UNCHANGED permissions /\ Kept
    BY <1>3, OtherSteps
  <2> QED BY <2>1 DEF Kept, permissions, WantedEnabled, Wanted, Listed
<1> QED BY <1>1, <1>2, <1>3

LEMMA LookupRightStep ==
  ASSUME IInv, Counted, LookedUpRight, Next
  PROVE  LookedUpRight'
<1> SUFFICES ASSUME Described', tx'.marks = marks',
                    NEW b \in Listed(tx.edition)', b \notin tx'.todo, peers'[b].there
             PROVE  tx'.valid[b] = ClientID(b)'
  BY DEF LookedUpRight
<1>0. b \in Managed /\ b \in Peer /\ peers \in [Peer -> [born : Nat, there : BOOLEAN]]
  BY DEF Listed, Peer, IInv, Typed
<1>1. ASSUME Described, marks' = marks, tx'.marks = tx.marks, tx'.edition = tx.edition,
             tx'.todo = tx.todo, tx'.valid = tx.valid, peers'[b] = peers[b]
      PROVE  tx'.valid[b] = ClientID(b)'
  <2>1. b \in Listed(tx.edition) \ tx.todo
    BY <1>1 DEF Listed
  <2> QED BY <1>1, <2>1 DEF LookedUpRight, ClientID
<1>2. CASE EditSpec
  <2>1. Described /\ tx' = tx /\ peers' = peers /\ marks' = marks
    BY <1>2 DEF EditSpec, Described
  <2> QED BY <1>1, <2>1
<1>3. ASSUME NEW c \in Managed, RegisterPeer(c) PROVE FALSE
  <2>1. tx' = tx /\ marks' = marks + 1 /\ tx.marks <= marks /\ marks \in Nat /\ tx.marks \in Nat
    BY <1>3 DEF RegisterPeer, Counted, IInv, Typed, TxType
  <2> QED BY <2>1
<1>4. ASSUME NEW c \in Peer, DeletePeer(c) PROVE tx'.valid[b] = ClientID(b)'
  <2>1. /\ Described /\ tx' = tx /\ marks' = marks
        /\ peers' = [peers EXCEPT ![c].there = FALSE]
    BY <1>4 DEF DeletePeer, Described, resource
  <2>2. c # b /\ peers'[b] = peers[b]
    BY <1>0, <2>1
  <2> QED BY <1>1, <2>1, <2>2
<1>5. CASE Prepare \/ RemoveDisabledPermissions \/ Created \/ UpdateStatus
           \/ UpdateAnnotations
  BY <1>5
  DEF Prepare, RemoveDisabledPermissions, Created, UpdateStatus, UpdateAnnotations,
      Goto, Described
<1>6. CASE Register \/ Update
  <2>1. tx'.edition = tx.edition /\ tx'.todo = Listed(tx.edition)
    BY <1>6 DEF Register, Update, WritePermissions, IInv, Typed, TxType
  <2> QED BY <2>1 DEF Listed
<1>7. CASE FindVanished \/ Abort
  <2>1. tx'.edition = tx.edition /\ tx'.todo = Listed(tx.edition)
    BY <1>7 DEF FindVanished, Abort, Fail, Goto, Described, IInv, Typed, TxType
  <2> QED BY <2>1 DEF Listed
<1>8. ASSUME NEW c \in Managed, MapDesiredPreAuthorizedApp(c)
      PROVE  tx'.valid[b] = ClientID(b)'
  <2>1. /\ Described /\ peers' = peers /\ marks' = marks
        /\ tx'.edition = tx.edition /\ tx'.marks = tx.marks
        /\ tx'.todo = tx.todo \ {c}
        /\ tx'.valid = [tx.valid EXCEPT ![c] = ClientID(c)]
        /\ tx.valid \in [Managed -> Nat]
    BY <1>8 DEF MapDesiredPreAuthorizedApp, Described, IInv, Typed, TxType, resource
  <2>2. CASE c = b
    BY <1>0, <2>1, <2>2 DEF ClientID
  <2>3. CASE c # b
    <3>1. /\ b \in Listed(tx.edition) \ tx.todo
          /\ tx'.valid[b] = tx.valid[b] /\ ClientID(b)' = ClientID(b)
      BY <1>0, <2>1, <2>3 DEF Listed, ClientID
    <3> QED BY <2>1, <3>1 DEF LookedUpRight
  <2> QED BY <2>2, <2>3
<1>9. CASE PatchPreAuthorizedApplications \/ ListAssignments
  <2>1. /\ Described /\ peers' = peers /\ marks' = marks /\ tx'.marks = tx.marks
        /\ tx'.edition = tx.edition /\ tx'.todo = tx.todo /\ tx'.valid = tx.valid
    BY <1>9
    DEF PatchPreAuthorizedApplications, ListAssignments, Described, IInv, Typed, TxType,
        resource
  <2> QED BY <1>1, <2>1
<1>10. ASSUME NEW a \in tx.assign, Assign(a) PROVE tx'.valid[b] = ClientID(b)'
  <2>1. /\ Described /\ peers' = peers /\ marks' = marks /\ tx'.marks = tx.marks
        /\ tx'.edition = tx.edition /\ tx'.todo = tx.todo /\ tx'.valid = tx.valid
    BY <1>10 DEF Assign, Described, IInv, Typed, TxType, resource
  <2> QED BY <1>1, <2>1
<1>11. ASSUME NEW a \in tx.revoke, Revoke(a) PROVE tx'.valid[b] = ClientID(b)'
  <2>1. /\ Described /\ peers' = peers /\ marks' = marks /\ tx'.marks = tx.marks
        /\ tx'.edition = tx.edition /\ tx'.todo = tx.todo /\ tx'.valid = tx.valid
    BY <1>11 DEF Revoke, Described, IInv, Typed, TxType, resource
  <2> QED BY <1>1, <2>1
<1> QED
  BY <1>2, <1>3, <1>4, <1>5, <1>6, <1>7, <1>8, <1>9, <1>10, <1>11 DEF Next, Pass

(* Between the listing and the end of processing, a step that does not     *)
(* start over keeps the plan.                                              *)
LEMMA PlanSteps ==
  ASSUME IInv, Next, pc' \in {"list", "assign"}
  PROVE  \/ PatchPreAuthorizedApplications
         \/ /\ pc \in {"list", "assign"}
            /\ preauth' = preauth
            /\ tx'.edition = tx.edition /\ tx'.valid = tx.valid
            /\ tx'.roles = tx.roles /\ tx'.scopes = tx.scopes
            /\ pc = "list" /\ pc' = "assign" => ListAssignments
<1>1. CASE EditSpec \/ (\E b \in Managed : RegisterPeer(b)) \/ (\E b \in Peer : DeletePeer(b))
  BY <1>1 DEF EditSpec, RegisterPeer, DeletePeer, access
<1>2. CASE ListAssignments
  BY <1>2 DEF ListAssignments, access, Goto, IInv, Typed, TxType
<1>3. ASSUME NEW a \in tx.assign, Assign(a)
      PROVE  /\ pc = "assign" /\ preauth' = preauth
             /\ tx'.edition = tx.edition /\ tx'.valid = tx.valid
             /\ tx'.roles = tx.roles /\ tx'.scopes = tx.scopes
  BY <1>3 DEF Assign, IInv, Typed, TxType
<1>4. ASSUME NEW a \in tx.revoke, Revoke(a)
      PROVE  /\ pc = "assign" /\ preauth' = preauth
             /\ tx'.edition = tx.edition /\ tx'.valid = tx.valid
             /\ tx'.roles = tx.roles /\ tx'.scopes = tx.scopes
  BY <1>4 DEF Revoke, IInv, Typed, TxType
<1>5. \/ EditSpec \/ (\E b \in Managed : RegisterPeer(b)) \/ (\E b \in Peer : DeletePeer(b))
      \/ PatchPreAuthorizedApplications \/ ListAssignments
      \/ (\E a \in tx.assign : Assign(a)) \/ (\E a \in tx.revoke : Revoke(a))
  BY DEF Next, Pass, Abort, Prepare, Register, Update, WritePermissions, Goto, Fail,
         MapDesiredPreAuthorizedApp, FindVanished, RemoveDisabledPermissions, Created,
         UpdateStatus, UpdateAnnotations
<1> QED BY <1>1, <1>2, <1>3, <1>4, <1>5

LEMMA WrittenStep ==
  ASSUME IInv, GrantsWritten, Next
  PROVE  GrantsWritten'
<1> SUFFICES ASSUME pc' \in {"list", "assign"}, NEW b \in Valid'
             PROVE  ToPreAuthorizedApp(b)' \in preauth'
  BY DEF GrantsWritten
<1>1. ASSUME tx'.edition = tx.edition, tx'.valid = tx.valid,
             tx'.roles = tx.roles, tx'.scopes = tx.scopes
      PROVE  b \in Valid /\ ToPreAuthorizedApp(b)' = ToPreAuthorizedApp(b)
  BY <1>1 DEF Valid, ToPreAuthorizedApp, PermissionOf, Extracted, WantedScopes
<1>2. CASE PatchPreAuthorizedApplications
  <2>1. tx' = tx /\ preauth' = KeepUnmanaged \cup {ToPreAuthorizedApp(c) : c \in Valid}
    BY <1>2 DEF PatchPreAuthorizedApplications
  <2> QED BY <1>1, <2>1
<1>3. CASE ~PatchPreAuthorizedApplications
  BY <1>1, <1>3, PlanSteps DEF GrantsWritten
<1> QED BY <1>2, <1>3

LEMMA UnderWayStep ==
  ASSUME IInv, JInv, AssignmentsUnderWay, Next
  PROVE  AssignmentsUnderWay'
<1> SUFFICES ASSUME pc' = "assign", NEW a \in DesiredAssignments', IsThere(a)'
             PROVE  a \in assignments' \cup tx'.assign
  BY DEF AssignmentsUnderWay
<1>1. /\ pc \in {"list", "assign"} /\ Described
      /\ DesiredAssignments' = DesiredAssignments
      /\ pc = "list" => ListAssignments
  BY PlanSteps, SamePlan DEF PatchPreAuthorizedApplications, Goto, Described
<1>2. /\ a \in DesiredAssignments
      /\ a.peer \in Valid /\ a.peer \in Managed /\ a.peer \in Peer
      /\ a.id = tx.valid[a.peer] /\ a.id # 0 /\ a.id \in Nat
      /\ a.id <= peers[a.peer].born
  <2>1. a.peer \in Valid /\ a.id = tx.valid[a.peer]
    BY <1>1, Desired DEF JInv
  <2> QED BY <1>1, <2>1 DEF Valid, Peer, JInv, Named, IInv, Typed, TxType
<1>3. peers \in [Peer -> [born : Nat, there : BOOLEAN]] /\ peers[a.peer].born \in Nat
  BY <1>2 DEF IInv, Typed
<1>4. CASE ListAssignments
  <2>1. /\ tx'.assign = DesiredAssignments \ Existing
        /\ assignments' = assignments
    BY <1>4 DEF ListAssignments, access, IInv, Typed, TxType
  <2> QED BY <1>2, <2>1 DEF Existing
<1>5. CASE pc = "assign" /\ ~ListAssignments
  <2>1. IsThere(a) => a \in assignments \cup tx.assign
    BY <1>2, <1>5 DEF AssignmentsUnderWay
  <2>2. ASSUME NEW c \in Managed, RegisterPeer(c) PROVE a \in assignments' \cup tx'.assign
    <3>1. /\ tx' = tx /\ assignments' = assignments
          /\ peers' = [peers EXCEPT ![c] = [born |-> peers[c].born + 1, there |-> TRUE]]
      BY <2>2 DEF RegisterPeer, access
    <3>2. c # a.peer
      <4> SUFFICES ASSUME c = a.peer PROVE FALSE
        OBVIOUS
      <4>1. ClientID(a.peer)' = peers[a.peer].born + 1
        BY <1>2, <1>3, <3>1 DEF ClientID
      <4>2. a.id = ClientID(a.peer)'
        BY DEF IsThere
      <4> QED BY <1>2, <1>3, <4>1, <4>2
    <3>3. IsThere(a)
      BY <1>2, <1>3, <3>1, <3>2 DEF IsThere, ClientID
    <3> QED BY <2>1, <3>1, <3>3
  <2>3. ASSUME NEW c \in Peer, DeletePeer(c) PROVE a \in assignments' \cup tx'.assign
    <3>1. /\ tx' = tx
          /\ assignments' = {x \in assignments : x.peer # c}
          /\ peers' = [peers EXCEPT ![c].there = FALSE]
      BY <2>3 DEF DeletePeer
    <3>2. c # a.peer
      <4> SUFFICES ASSUME c = a.peer PROVE FALSE
        OBVIOUS
      <4>1. ClientID(a.peer)' = 0
        BY <1>2, <1>3, <3>1 DEF ClientID
      <4> QED BY <1>2, <4>1 DEF IsThere
    <3>3. IsThere(a)
      BY <1>2, <1>3, <3>1, <3>2 DEF IsThere, ClientID
    <3> QED BY <2>1, <3>1, <3>2, <3>3
  <2>4. ASSUME NEW x \in tx.assign, Assign(x) PROVE a \in assignments' \cup tx'.assign
    <3>1. /\ peers' = peers
          /\ assignments' = assignments \cup {x} /\ tx'.assign = tx.assign \ {x}
      BY <2>4 DEF Assign, IInv, Typed, TxType
    <3> QED BY <2>1, <3>1 DEF IsThere, ClientID
  <2>5. ASSUME NEW x \in tx.revoke, Revoke(x) PROVE a \in assignments' \cup tx'.assign
    <3>1. /\ peers' = peers
          /\ assignments' = assignments \ {x} /\ tx'.assign = tx.assign
      BY <2>5 DEF Revoke, IInv, Typed, TxType
    <3>2. x # a
      BY <1>2, <1>5 DEF JInv, Planned
    <3> QED BY <2>1, <3>1, <3>2 DEF IsThere, ClientID
  <2>6. CASE EditSpec
    <3>1. tx' = tx /\ peers' = peers /\ assignments' = assignments
      BY <2>6 DEF EditSpec, access
    <3> QED BY <2>1, <3>1 DEF IsThere, ClientID
  <2>7. \/ EditSpec \/ (\E b \in Managed : RegisterPeer(b)) \/ (\E b \in Peer : DeletePeer(b))
        \/ (\E x \in tx.assign : Assign(x)) \/ (\E x \in tx.revoke : Revoke(x))
    BY <1>5 DEF Next, Pass, Abort, Prepare, Register, Update, WritePermissions, Goto, Fail,
           MapDesiredPreAuthorizedApp, PatchPreAuthorizedApplications, FindVanished,
           RemoveDisabledPermissions, Created, UpdateStatus, UpdateAnnotations
  <2> QED BY <2>2, <2>3, <2>4, <2>5, <2>6, <2>7
<1> QED BY <1>1, <1>4, <1>5

----------------------------------------------------------------------------
(* The end of a pass. *)

LEMMA AccomplishedAtEnd ==
  ASSUME ConstantsAssumption, IInv, JInv, KInv,
         RemoveDisabledPermissions \/ Created, tx.marks = marks
  PROVE  ExactFor(tx.edition)'
<1>1. /\ pc = "assign" /\ Described /\ tx.assign = {} /\ tx.revoke = {} /\ tx.todo = {}
      /\ tx' = tx /\ peers' = peers /\ preauth' = preauth /\ assignments' = assignments
  BY DEF RemoveDisabledPermissions, Created, AssignmentsProcessed, access, Described,
         JInv, Named
<1>2. /\ tx.roles = roles /\ tx.scopes = scopes
      /\ roles \in PermissionsType /\ scopes \in PermissionsType
  BY <1>1 DEF IInv, DescribedRead, Typed
<1>3. ASSUME NEW n \in Name
      PROVE  /\ roles[n].on <=> n \in Wanted(tx.edition)
             /\ scopes[n].on <=> n \in Wanted(tx.edition)
             /\ roles[n].on => roles[n].gen # 0
             /\ scopes[n].on => scopes[n].gen # 0
             /\ roles'[n].on <=> roles[n].on
             /\ scopes'[n].on <=> scopes[n].on
             /\ roles[n].on => roles'[n] = roles[n]
             /\ scopes[n].on => scopes'[n] = scopes[n]
             /\ roles'[n].gen # 0 => roles'[n].on
             /\ scopes'[n].gen # 0 => scopes'[n].on
  <2>1. /\ roles[n].on <=> n \in Wanted(tx.edition)
        /\ scopes[n].on <=> n \in Wanted(tx.edition)
        /\ roles[n].on => roles[n].gen # 0
        /\ scopes[n].on => scopes[n].gen # 0
    BY <1>1 DEF KInv, WantedEnabled, JInv, Generated, Sound
  <2>2. CASE RemoveDisabledPermissions
    <3>1. roles' = RemoveDisabled(roles) /\ scopes' = RemoveDisabled(scopes)
      BY <1>2, <2>2 DEF RemoveDisabledPermissions
    <3>2. /\ roles'[n] = IF roles[n].on THEN roles[n] ELSE Absent
          /\ scopes'[n] = IF scopes[n].on THEN scopes[n] ELSE Absent
      BY <3>1 DEF RemoveDisabled
    <3>3. Absent.gen = 0 /\ ~Absent.on
      BY DEF Absent
    <3> QED BY <2>1, <3>2, <3>3
  <2>3. CASE Created
    <3>1. /\ roles' = roles /\ scopes' = scopes /\ ~tx.exists
      BY <2>3 DEF Created, permissions
    <3>2. /\ roles[n].gen # 0 => roles[n].on
          /\ scopes[n].gen # 0 => scopes[n].on
      BY <1>1, <3>1 DEF KInv, NothingLeftover
    <3> QED BY <2>1, <3>1, <3>2
  <2> QED BY <2>1, <2>2, <2>3
<1>4. Wanted(tx.edition)' = Wanted(tx.edition) /\ Listed(tx.edition)' = Listed(tx.edition)
  BY <1>1 DEF Wanted, Listed
<1>5. tx.edition \in 1..Len(Rules)
  BY <1>1 DEF JInv, Counted
<1>6. ASSUME NEW b \in Managed, peers[b].there, b \in Listed(tx.edition)
      PROVE  b \in Valid /\ tx.valid[b] = ClientID(b)
  <2>1. tx.valid[b] = ClientID(b)
    BY <1>1, <1>6 DEF KInv, LookedUpRight
  <2>2. ClientID(b) # 0
    BY <1>6 DEF ClientID, Peer, JInv, Counted
  <2> QED BY <2>1, <2>2 DEF Valid
<1>7. ASSUME NEW b \in Managed, peers[b].there, NEW n \in Name
      PROVE  HasRole(b, n)' <=> b \in Listed(tx.edition) /\ n \in WantedRoles(tx.edition, b)
  <2> DEFINE held == [peer |-> b, id |-> ClientID(b), role |-> <<n, roles[n].gen>>]
  <2>1. HasRole(b, n)' <=> roles[n].on /\ held \in assignments
    BY <1>1, <1>3 DEF HasRole, ClientID
  <2>2. held.peer = b /\ held.role[1] = n /\ held.id = ClientID(b)
    OBVIOUS
  <2>3. ASSUME held \in assignments
        PROVE  b \in Listed(tx.edition) /\ n \in WantedRoles(tx.edition, b)
    <3> HIDE DEF held
    <3>1. GivesRole(tx.edition, held)
      BY <1>1, <2>2, <2>3 DEF JInv, Authorized, OfManaged
    <3> QED BY <2>2, <3>1 DEF GivesRole
  <2>4. ASSUME b \in Listed(tx.edition), n \in WantedRoles(tx.edition, b)
        PROVE  roles[n].on /\ held \in assignments
    <3>1. n \in Wanted(tx.edition)
      BY <1>5, <2>4, WantedNames
    <3>2. roles[n].on /\ Extracted(n).on /\ Extracted(n).gen = roles[n].gen
      BY <1>1, <1>3, <3>1, ExtractedAsRegistered DEF JInv
    <3>3. held \in DesiredAssignments
      <4>1. held = [peer |-> b, id |-> tx.valid[b], role |-> PermissionOf(n)]
        BY <1>6, <1>7, <2>4, <3>2 DEF PermissionOf
      <4> HIDE DEF held
      <4> QED BY <1>6, <1>7, <2>4, <3>2, <4>1 DEF DesiredAssignments, EnabledRoles
    <3> HIDE DEF held
    <3> QED BY <1>1, <2>2, <3>2, <3>3 DEF KInv, AssignmentsUnderWay, IsThere
  <2> QED BY <2>1, <2>3, <2>4
<1>8. ASSUME NEW b \in Managed, peers[b].there, NEW n \in Name
      PROVE  HasScope(b, n)' <=> b \in Listed(tx.edition) /\ n \in WantedScopes(tx.edition, b)
  <2>1. ASSUME HasScope(b, n)'
        PROVE  b \in Listed(tx.edition) /\ n \in WantedScopes(tx.edition, b)
    <3>1. PICK g \in preauth : g.peer = b /\ <<n, scopes'[n].gen>> \in g.scopes
      BY <1>1, <2>1 DEF HasScope
    <3>2. GivesScopes(tx.edition, g)
      BY <1>1, <3>1 DEF JInv, Authorized, OfManaged
    <3>3. <<n, scopes'[n].gen>>[1] = n
      OBVIOUS
    <3> QED BY <3>1, <3>2, <3>3 DEF GivesScopes
  <2>2. ASSUME b \in Listed(tx.edition), n \in WantedScopes(tx.edition, b)
        PROVE  HasScope(b, n)'
    <3>1. n \in Wanted(tx.edition)
      BY <1>5, <2>2, WantedNames
    <3>2. /\ scopes[n].on /\ scopes'[n].on /\ scopes'[n].gen = scopes[n].gen
          /\ Extracted(n).gen # 0 /\ Extracted(n).gen = scopes[n].gen
      BY <1>1, <1>3, <3>1, ExtractedAsRegistered DEF JInv
    <3>3. b \in Valid /\ tx.valid[b] = ClientID(b) /\ ClientID(b)' = ClientID(b)
      BY <1>1, <1>6, <1>8, <2>2 DEF ClientID
    <3>4. ToPreAuthorizedApp(b) \in preauth'
      BY <1>1, <3>3 DEF KInv, GrantsWritten
    <3>5. /\ ToPreAuthorizedApp(b).peer = b
          /\ ToPreAuthorizedApp(b).id = ClientID(b)
          /\ <<n, scopes'[n].gen>> \in ToPreAuthorizedApp(b).scopes
      BY <2>2, <3>2, <3>3 DEF ToPreAuthorizedApp, PermissionOf
    <3> QED BY <3>2, <3>3, <3>4, <3>5 DEF HasScope
  <2> QED BY <2>1, <2>2
<1> QED
  BY <1>1, <1>3, <1>4, <1>7, <1>8 DEF ExactFor, WantedRoles, WantedScopes

(* A peer that is deleted takes nothing away from the others.              *)
LEMMA SameAccess ==
  ASSUME IInv,
         \/ peers' = peers /\ UNCHANGED <<permissions, access>>
         \/ \E b \in Peer : DeletePeer(b)
  PROVE  /\ roles' = roles /\ scopes' = scopes
         /\ \A b \in Managed, n \in Name :
              peers'[b].there => /\ peers[b].there
                                 /\ HasRole(b, n)' <=> HasRole(b, n)
                                 /\ HasScope(b, n)' <=> HasScope(b, n)
<1>1. roles' = roles /\ scopes' = scopes /\ preauth' = preauth
  BY DEF DeletePeer, permissions, access
<1>2. ASSUME NEW b \in Managed, peers'[b].there
      PROVE  /\ peers[b].there /\ ClientID(b)' = ClientID(b)
             /\ \A a : a.peer = b => (a \in assignments' <=> a \in assignments)
  <2>1. CASE peers' = peers /\ UNCHANGED <<permissions, access>>
    BY <1>2, <2>1 DEF ClientID, access
  <2>2. ASSUME NEW c \in Peer, DeletePeer(c)
        PROVE  /\ peers[b].there /\ ClientID(b)' = ClientID(b)
               /\ \A a : a.peer = b => (a \in assignments' <=> a \in assignments)
    <3>1. /\ peers' = [peers EXCEPT ![c].there = FALSE]
          /\ assignments' = {a \in assignments : a.peer # c}
          /\ peers \in [Peer -> [born : Nat, there : BOOLEAN]] /\ b \in Peer
      BY <2>2 DEF DeletePeer, IInv, Typed, Peer
    <3>2. c # b
      BY <1>2, <3>1
    <3>3. peers'[b] = peers[b]
      BY <3>1, <3>2
    <3> QED BY <1>2, <3>1, <3>2, <3>3 DEF ClientID
  <2> QED BY <2>1, <2>2
<1>3. ASSUME NEW b \in Managed, peers'[b].there, NEW n \in Name
      PROVE  /\ HasRole(b, n)' <=> HasRole(b, n)
             /\ HasScope(b, n)' <=> HasScope(b, n)
  <2>1. /\ ClientID(b)' = ClientID(b)
        /\ \A a : a.peer = b => (a \in assignments' <=> a \in assignments)
    BY <1>2, <1>3
  <2>2. HasRole(b, n)' <=> HasRole(b, n)
    <3> DEFINE held == [peer |-> b, id |-> ClientID(b), role |-> <<n, roles[n].gen>>]
    <3>1. held.peer = b
      OBVIOUS
    <3>2. HasRole(b, n) <=> roles[n].on /\ held \in assignments
      BY DEF HasRole
    <3>3. HasRole(b, n)' <=> roles[n].on /\ held \in assignments'
      BY <1>1, <2>1 DEF HasRole
    <3> HIDE DEF held
    <3> QED BY <2>1, <3>1, <3>2, <3>3
  <2>3. HasScope(b, n)' <=> HasScope(b, n)
    BY <1>1, <2>1 DEF HasScope
  <2> QED BY <2>2, <2>3
<1> QED BY <1>1, <1>2, <1>3

(* How a pass comes to its end, and what may happen there.                 *)
LEMMA EndSteps ==
  ASSUME IInv, Next, pc' \in {"complete", "annotations"}
  PROVE  \/ RemoveDisabledPermissions \/ Created
         \/ /\ pc \in {"complete", "annotations"} /\ tx' = tx /\ heard' = heard
            /\ \/ \E b \in Managed : RegisterPeer(b)
               \/ marks' = marks /\ \E b \in Peer : DeletePeer(b)
               \/ marks' = marks /\ peers' = peers /\ UNCHANGED <<permissions, access>>
            /\ \/ UpdateStatus
               \/ pc' = pc /\ status' = status
<1>1. \/ EditSpec
      \/ \E b \in Managed : RegisterPeer(b)
      \/ \E b \in Peer : DeletePeer(b)
      \/ RemoveDisabledPermissions \/ Created \/ UpdateStatus
  BY DEF Next, Pass, Abort, Prepare, Register, Update, WritePermissions, Goto, Fail,
         MapDesiredPreAuthorizedApp, PatchPreAuthorizedApplications, ListAssignments,
         Assign, Revoke, FindVanished, UpdateAnnotations
<1>2. CASE EditSpec \/ UpdateStatus
  BY <1>2 DEF EditSpec, UpdateStatus, Goto, permissions, access
<1>3. ASSUME NEW b \in Managed, RegisterPeer(b)
      PROVE  /\ pc \in {"complete", "annotations"} /\ tx' = tx /\ heard' = heard
             /\ pc' = pc /\ status' = status
  BY <1>3 DEF RegisterPeer
<1>4. ASSUME NEW b \in Peer, DeletePeer(b)
      PROVE  /\ pc \in {"complete", "annotations"} /\ tx' = tx /\ heard' = heard
             /\ marks' = marks /\ pc' = pc /\ status' = status
  BY <1>4 DEF DeletePeer, resource
<1> QED BY <1>1, <1>2, <1>3, <1>4

LEMMA AccomplishedStep ==
  ASSUME ConstantsAssumption, IInv, JInv, KInv, Next
  PROVE  Accomplished'
<1>1. ASSUME pc' \in {"complete", "annotations"}, tx'.marks = marks'
      PROVE  ExactFor(tx.edition)'
  <2>1. CASE RemoveDisabledPermissions \/ Created
    <3>1. tx' = tx /\ marks' = marks
      BY <2>1 DEF RemoveDisabledPermissions, Created, resource
    <3> QED BY <1>1, <2>1, <3>1, AccomplishedAtEnd
  <2>2. CASE ~RemoveDisabledPermissions /\ ~Created
    <3>1. pc \in {"complete", "annotations"} /\ tx' = tx
      BY <1>1, <2>2, EndSteps
    <3>2. ~\E b \in Managed : RegisterPeer(b)
      <4>1. ASSUME NEW b \in Managed, RegisterPeer(b) PROVE FALSE
        <5>1. marks' = marks + 1 /\ tx.marks <= marks /\ marks \in Nat /\ tx.marks \in Nat
          BY <4>1 DEF RegisterPeer, JInv, Counted, IInv, Typed, TxType
        <5> QED BY <1>1, <3>1, <5>1
      <4> QED BY <4>1
    <3>3. /\ marks' = marks
          /\ \/ \E b \in Peer : DeletePeer(b)
             \/ peers' = peers /\ UNCHANGED <<permissions, access>>
      BY <1>1, <2>2, <3>2, EndSteps
    <3>4. ExactFor(tx.edition)
      BY <1>1, <3>1, <3>3 DEF KInv, Accomplished
    <3>5. /\ roles' = roles /\ scopes' = scopes
          /\ \A b \in Managed, n \in Name :
               peers'[b].there => /\ peers[b].there
                                  /\ HasRole(b, n)' <=> HasRole(b, n)
                                  /\ HasScope(b, n)' <=> HasScope(b, n)
      BY <3>3, SameAccess
    <3> QED BY <3>1, <3>4, <3>5 DEF ExactFor, Listed, Wanted, WantedRoles, WantedScopes
  <2> QED BY <2>1, <2>2
<1>2. ASSUME pc' = "annotations" PROVE status' = tx'.edition
  <2>1. ~RemoveDisabledPermissions /\ ~Created
    BY <1>2 DEF RemoveDisabledPermissions, Created, Goto
  <2>2. CASE UpdateStatus
    BY <2>2 DEF UpdateStatus
  <2>3. CASE ~UpdateStatus
    <3>1. pc' = pc /\ status' = status /\ tx' = tx
      BY <1>2, <2>1, <2>3, EndSteps
    <3> QED BY <1>2, <3>1 DEF KInv, Accomplished
  <2> QED BY <2>2, <2>3
<1> QED BY <1>1, <1>2 DEF Accomplished

LEMMA DueStep ==
  ASSUME IInv, JInv, KInv, Next
  PROVE  DueWhileRunning'
<1>0. /\ edition \in Nat /\ status \in Nat /\ status <= edition
      /\ heard \in Nat /\ marks \in Nat /\ tx.marks \in Nat
      /\ heard <= marks /\ tx.marks <= marks
      /\ pc # "idle" => heard <= tx.marks
  BY DEF JInv, Counted, KInv, DueWhileRunning, IInv, Typed, TxType
<1>1. ASSUME UNCHANGED resource,
             \/ peers' = peers /\ UNCHANGED <<permissions, access>>
             \/ \E b \in Peer : DeletePeer(b),
             ExactFor(edition)
      PROVE  ExactFor(edition)'
  <2>1. /\ roles' = roles /\ scopes' = scopes
        /\ \A b \in Managed, n \in Name :
             peers'[b].there => /\ peers[b].there
                                /\ HasRole(b, n)' <=> HasRole(b, n)
                                /\ HasScope(b, n)' <=> HasScope(b, n)
    BY <1>1, SameAccess
  <2> QED BY <1>1, <2>1 DEF ExactFor, Listed, Wanted, WantedRoles, WantedScopes, resource
<1>2. ASSUME pc \in {"complete", "annotations"}, peers' = peers,
             UNCHANGED <<permissions, access>>, edition' = edition,
             tx.edition = edition, tx.marks = marks
      PROVE  ExactFor(edition)'
  <2>1. ExactFor(tx.edition)
    BY <1>2 DEF KInv, Accomplished
  <2>2. /\ roles' = roles /\ scopes' = scopes
        /\ \A b \in Managed, n \in Name :
             peers'[b].there => /\ peers[b].there
                                /\ HasRole(b, n)' <=> HasRole(b, n)
                                /\ HasScope(b, n)' <=> HasScope(b, n)
    BY <1>2, SameAccess
  <2> QED BY <1>2, <2>1, <2>2 DEF ExactFor, Listed, Wanted, WantedRoles, WantedScopes
<1>3. CASE EditSpec
  <2>1. /\ edition' = edition + 1 /\ UNCHANGED <<status, heard, marks, pc, tx>>
    BY <1>3 DEF EditSpec
  <2> QED BY <1>0, <2>1 DEF DueWhileRunning, Due
<1>4. ASSUME NEW b \in Managed, RegisterPeer(b) PROVE DueWhileRunning'
  <2>1. /\ marks' = marks + 1 /\ UNCHANGED <<edition, status, heard, pc, tx>>
    BY <1>4 DEF RegisterPeer
  <2> QED BY <1>0, <2>1 DEF DueWhileRunning, Due
<1>5. ASSUME NEW b \in Peer, DeletePeer(b) PROVE DueWhileRunning'
  <2>1. UNCHANGED <<resource, pc, tx>>
    BY <1>5 DEF DeletePeer
  <2> QED BY <1>0, <1>1, <1>5, <2>1 DEF KInv, DueWhileRunning, Due, resource
<1>6. CASE Prepare
  <2>1. UNCHANGED resource /\ Due /\ tx'.marks = marks
    BY <1>0, <1>6, BuiltInType DEF Prepare, Due, TxType
  <2> QED BY <1>0, <2>1 DEF DueWhileRunning, Due, resource
<1>7. CASE UpdateStatus
  <2>1. /\ pc = "complete" /\ pc' = "annotations" /\ status' = tx.edition
        /\ UNCHANGED <<edition, marks, heard, peers, permissions, access, tx>>
    BY <1>7 DEF UpdateStatus, Goto
  <2>2. ASSUME ~Due' PROVE tx.edition = edition /\ tx.marks = marks
    BY <1>0, <2>1, <2>2 DEF Due
  <2> QED BY <1>0, <1>2, <2>1, <2>2 DEF DueWhileRunning
<1>8. CASE UpdateAnnotations
  <2>1. /\ pc = "annotations" /\ pc' = "idle" /\ heard' = tx.marks
        /\ UNCHANGED <<edition, status, marks, peers, permissions, access>>
    BY <1>8 DEF UpdateAnnotations, Goto
  <2>2. ASSUME ~Due' PROVE tx.edition = edition /\ tx.marks = marks
    BY <2>1, <2>2 DEF Due, KInv, Accomplished
  <2> QED BY <1>2, <2>1, <2>2 DEF DueWhileRunning
<1>9. CASE Step /\ ~Prepare /\ ~UpdateStatus /\ ~UpdateAnnotations
  <2>1. Working
    BY <1>9, PassSteps
  <2>2. status' = status /\ heard' = heard
    BY <1>9 DEF Step, Pass, Abort, Register, Update, MapDesiredPreAuthorizedApp,
       PatchPreAuthorizedApplications, ListAssignments, Assign, Revoke, FindVanished,
       RemoveDisabledPermissions, Created, resource
  <2>3. \/ pc # "annotations" /\ pc' # "annotations"
        \/ pc' = "idle" /\ peers' = peers /\ UNCHANGED <<permissions, access>>
    BY <1>9 DEF Step, Pass, Abort, Register, Update, WritePermissions,
       MapDesiredPreAuthorizedApp, PatchPreAuthorizedApplications, ListAssignments,
       Assign, Revoke, FindVanished, RemoveDisabledPermissions, Created,
       AssignmentsProcessed, Fail, Goto
  <2>4. UNCHANGED resource
    BY <2>1, <2>2 DEF Working, resource
  <2>5. pc' # "idle" => heard' <= tx'.marks
    BY <1>0, <2>1, <2>2 DEF Working
  <2>6. CASE pc # "annotations"
    <3>1. Due /\ Due'
      BY <2>1, <2>4, <2>6 DEF Working, KInv, DueWhileRunning, Due, resource
    <3> QED BY <2>5, <3>1 DEF DueWhileRunning
  <2>7. CASE pc' = "idle" /\ peers' = peers /\ UNCHANGED <<permissions, access>>
    <3>1. Due' <=> Due
      BY <2>4 DEF Due, resource
    <3> QED BY <1>1, <2>4, <2>7, <3>1 DEF KInv, DueWhileRunning
  <2> QED BY <2>3, <2>6, <2>7
<1> QED BY <1>3, <1>4, <1>5, <1>6, <1>7, <1>8, <1>9 DEF Next, Step

LEMMA InitKInv == Init => KInv
<1> SUFFICES ASSUME Init PROVE KInv
  OBVIOUS
<1>1. pc = "idle" /\ status = 0 /\ edition = 1 /\ roles = BuiltIn /\ registered \in BOOLEAN
  BY DEF Init
<1>2. ~registered => scopes = BuiltIn
  BY DEF Init, BuiltIn
<1> QED
  BY <1>1, <1>2
  DEF KInv, NothingLeftover, WantedEnabled, LookedUpRight, GrantsWritten,
      AssignmentsUnderWay, Accomplished, DueWhileRunning, Due, Described

LEMMA KInvStep ==
  ASSUME ConstantsAssumption, IInv, JInv, KInv, Next PROVE KInv'
  BY LeftoverStep, EnabledStep, LookupRightStep, WrittenStep, UnderWayStep,
     AccomplishedStep, DueStep
  DEF KInv, JInv

(* KInv is inductive relative to the other two. *)
LEMMA KInvInductive ==
  ASSUME IInv, JInv, KInv, [Next]_vars PROVE KInv'
<1>1. CASE Next
  BY <1>1, KInvStep, ConstantsAssumption
<1>2. CASE UNCHANGED vars
  <2>0. /\ UNCHANGED <<edition, status, marks, heard, peers, registered, roles, scopes>>
        /\ UNCHANGED <<preauth, assignments, pc, tx>>
    BY <1>2 DEF vars, resource, permissions, access
  <2>1. NothingLeftover' /\ WantedEnabled' /\ LookedUpRight'
    BY <2>0
    DEF KInv, NothingLeftover, WantedEnabled, LookedUpRight, Described, ClientID, Wanted, Listed
  <2>2. DesiredAssignments' = DesiredAssignments /\ Valid' = Valid
    BY <2>0, SamePlan DEF Valid
  <2>3. \A b : ToPreAuthorizedApp(b)' = ToPreAuthorizedApp(b)
    BY <2>0 DEF ToPreAuthorizedApp, PermissionOf, Extracted, WantedScopes
  <2>4. GrantsWritten' /\ AssignmentsUnderWay'
    BY <2>0, <2>2, <2>3 DEF KInv, GrantsWritten, AssignmentsUnderWay, IsThere, ClientID
  <2>5. /\ ExactFor(tx.edition)' <=> ExactFor(tx.edition)
        /\ ExactFor(edition)' <=> ExactFor(edition)
    BY <2>0 DEF ExactFor, HasRole, HasScope, ClientID, Listed, Wanted, WantedRoles, WantedScopes
  <2>6. Accomplished' /\ DueWhileRunning'
    BY <2>0, <2>5 DEF KInv, Accomplished, DueWhileRunning, Due
  <2> QED BY <2>1, <2>4, <2>6 DEF KInv
<1> QED BY <1>1, <1>2

(* When the status has the hash of the spec and no mark is left, peers     *)
(* have exactly what the spec gives them, though no step of a pass checks  *)
(* that: a failed pass leaves one of the two behind, and so does whatever  *)
(* happens to peers after they were looked up (Complete in                 *)
(* azureadapplication_controller.go, needed in process.go).                *)
THEOREM StatusIsTrue == Spec => []SynchronizedExact
<1>1. KInv => SynchronizedExact
  BY DEF KInv, DueWhileRunning, Due, ExactFor, SynchronizedExact, Exact
<1>2. Spec => []KInv
  BY AccessInvariant, InitKInv, KInvInductive, PTL DEF Spec
<1> QED BY <1>1, <1>2, PTL
=============================================================================
