---------------------------- MODULE AccessProofs ----------------------------
(***************************************************************************)
(* Proofs about module Access: that roles and scopes of one name share an  *)
(* identifier, and that Entra ID has no reason to refuse a PATCH.          *)
(***************************************************************************)
EXTENDS Access, TLAPS

PermissionsType == [Name -> [gen : Nat, on : BOOLEAN]]
AssignmentType == [peer : Peer, id : Nat, role : Name \X Nat]
TxType == [edition : Nat, marks : Nat, exists : BOOLEAN,
           roles : PermissionsType, scopes : PermissionsType,
           valid : [Managed -> Nat], todo : SUBSET Managed,
           assign : SUBSET AssignmentType, revoke : SUBSET AssignmentType]

(* Types, without the bounds. *)
Typed ==
  /\ roles \in PermissionsType
  /\ scopes \in PermissionsType
  /\ born \in Nat
  /\ peers \in [Peer -> [born : Nat, there : BOOLEAN]]
  /\ edition \in Nat
  /\ marks \in Nat
  /\ registered \in BOOLEAN
  /\ assignments \subseteq AssignmentType
  /\ tx \in TxType

Same(r, s) == \A n \in Name : r[n].gen # 0 /\ s[n].gen # 0 => r[n].gen = s[n].gen

(* What is in Entra ID, and what the pass has described, agree.            *)
Identified == Same(roles, scopes) /\ Same(tx.roles, tx.scopes)

Described == pc \in {"resolve", "list", "assign"}

(* From the first PATCH to the last one the pass knows the permissions,    *)
(* and those that its edition wants are the enabled ones.                  *)
DescribedRead ==
  Described => /\ tx.roles = roles
               /\ tx.scopes = scopes
               /\ \A n \in Name : scopes[n].gen # 0 /\ n \in Wanted(tx.edition)
                                  => scopes[n].on

(* Only what is listed is looked up, and not before the first PATCH.       *)
ListedRead ==
  /\ pc \in {"register", "update"} => tx.valid = NoTx.valid
  /\ Described => /\ tx.todo \subseteq Listed(tx.edition)
                  /\ \A b \in Managed : tx.valid[b] # 0 => b \in Listed(tx.edition)

(* Once the list of grants is written, no disabled scope is in it.         *)
DisabledNotGranted ==
  Granted = {} /\ pc \in {"list", "assign"} =>
    \A g \in preauth, n \in Name :
      <<n, scopes[n].gen>> \in g.scopes /\ scopes[n].gen # 0 => scopes[n].on

(* What somebody else has granted, if it is but the built-in scope, is     *)
(* always enabled.                                                         *)
OthersBuiltIn ==
  /\ Granted = {} => \A g \in preauth : g.peer \in Unmanaged
                                       => g.scopes \subseteq {<<Default, 1>>}
  /\ scopes[Default].on
  /\ tx.scopes[Default].on

IInv ==
  /\ Typed
  /\ Identified
  /\ DescribedRead
  /\ ListedRead
  /\ DisabledNotGranted
  /\ OthersBuiltIn

----------------------------------------------------------------------------
LEMMA BuiltInType ==
  /\ Absent \in [gen : Nat, on : BOOLEAN]
  /\ BuiltIn \in PermissionsType
  /\ Default \in Name
  /\ BuiltIn[Default].on
  /\ Same(BuiltIn, BuiltIn)
  /\ NoTx \in TxType
  /\ NoTx.roles = BuiltIn
  /\ NoTx.scopes = BuiltIn
<1>1. /\ Default \in Name
      /\ Absent \in [gen : Nat, on : BOOLEAN]
  BY DEF Name, Absent
<1>2. BuiltIn \in PermissionsType /\ BuiltIn[Default].on
  BY <1>1 DEF BuiltIn, PermissionsType
<1>3. NoTx \in TxType /\ NoTx.roles = BuiltIn /\ NoTx.scopes = BuiltIn
  BY <1>2 DEF NoTx, TxType
<1> QED BY <1>1, <1>2, <1>3 DEF Same

LEMMA DefaultWanted == \A e : Default \in Wanted(e)
  BY DEF Wanted

LEMMA InitIInv == Init => IInv
<1> SUFFICES ASSUME Init PROVE IInv
  OBVIOUS
<1>1. PICK there \in SUBSET Managed :
        peers = [b \in Peer |-> [born |-> 1, there |-> b \in there \cup Unmanaged]]
  BY DEF Init
<1>2. PICK adopted \in BOOLEAN, theirs \in SUBSET Permission :
        LET others == IF adopted THEN Unmanaged ELSE {}
        IN  /\ registered = adopted
            /\ scopes = [n \in Name |-> IF n \in theirs \cup {Default}
                                        THEN [gen |-> 1, on |-> TRUE] ELSE Absent]
            /\ preauth = {[peer |-> u, id |-> 1,
                           scopes |-> {<<n, 1>> : n \in Granted \cup {Default}}] :
                            u \in others}
            /\ assignments = {[peer |-> u, id |-> 1, role |-> <<Default, 1>>] :
                                 u \in others}
  BY DEF Init
<1>3. peers \in [Peer -> [born : Nat, there : BOOLEAN]]
  BY <1>1
<1>4. scopes \in PermissionsType /\ scopes[Default].on
  BY <1>2, BuiltInType DEF PermissionsType
<1>5. assignments \subseteq AssignmentType
  BY <1>2, BuiltInType DEF AssignmentType, Peer
<1>6. Typed
  BY <1>2, <1>3, <1>4, <1>5, BuiltInType DEF Init, Typed
<1>7. Same(roles, scopes)
  BY <1>2, BuiltInType DEF Init, Same, BuiltIn, Absent
<1>8. \A g \in preauth : g.scopes = {<<n, 1>> : n \in Granted \cup {Default}}
  BY <1>2
<1>9. Granted = {} => \A g \in preauth : g.scopes \subseteq {<<Default, 1>>}
  BY <1>8
<1> QED
  BY <1>4, <1>6, <1>7, <1>9, BuiltInType
  DEF Init, IInv, Identified, DescribedRead, ListedRead, DisabledNotGranted,
      OthersBuiltIn, Described

----------------------------------------------------------------------------
(* What DescribeUpdate and RemoveDisabled make of permissions. *)

LEMMA IdentifierType == ASSUME Typed, NEW n \in Name PROVE Identifier(n) \in Nat
  BY DEF Typed, PermissionsType, Identifier

LEMMA DescribeType ==
  ASSUME Typed, NEW existing \in PermissionsType, NEW e
  PROVE  /\ DescribeUpdate(existing, e) \in PermissionsType
         /\ \A n \in Name : /\ existing[n].gen # 0
                               => DescribeUpdate(existing, e)[n].gen = existing[n].gen
                            /\ n \in Wanted(e) => DescribeUpdate(existing, e)[n].on
<1>1. \A n \in Name : existing[n] \in [gen : Nat, on : BOOLEAN]
  BY DEF PermissionsType
<1> QED
  BY <1>1, IdentifierType, BuiltInType DEF DescribeUpdate, PermissionsType

LEMMA DescribeSame ==
  ASSUME Typed, Same(roles, scopes), NEW e
  PROVE  Same(DescribeUpdate(roles, e), DescribeUpdate(scopes, e))
<1> SUFFICES ASSUME NEW n \in Name,
                    DescribeUpdate(roles, e)[n].gen # 0,
                    DescribeUpdate(scopes, e)[n].gen # 0
             PROVE  DescribeUpdate(roles, e)[n].gen = DescribeUpdate(scopes, e)[n].gen
  BY DEF Same
<1>1. CASE roles[n].gen # 0 /\ scopes[n].gen # 0
  BY <1>1, DescribeType DEF Typed, Same
<1>2. CASE roles[n].gen # 0 /\ scopes[n].gen = 0
  BY <1>2 DEF DescribeUpdate, Identifier, Absent
<1>3. CASE roles[n].gen = 0 /\ scopes[n].gen # 0
  BY <1>3 DEF DescribeUpdate, Identifier, Absent
<1>4. CASE roles[n].gen = 0 /\ scopes[n].gen = 0
  BY <1>4 DEF DescribeUpdate, Absent
<1> QED BY <1>1, <1>2, <1>3, <1>4

LEMMA RemoveDisabledType ==
  ASSUME NEW p \in PermissionsType
  PROVE  /\ RemoveDisabled(p) \in PermissionsType
         /\ \A n \in Name : RemoveDisabled(p)[n] = p[n] \/ RemoveDisabled(p)[n].gen = 0
         /\ \A n \in Name : p[n].on => RemoveDisabled(p)[n] = p[n]
  BY BuiltInType DEF RemoveDisabled, PermissionsType, Absent

----------------------------------------------------------------------------
(* The steps. *)

LEMMA PrepareStep == ASSUME IInv, Prepare PROVE IInv'
<1>1. /\ tx' \in TxType
      /\ tx'.roles = BuiltIn /\ tx'.scopes = BuiltIn /\ tx'.valid = NoTx.valid
  BY BuiltInType DEF Prepare, IInv, Typed, TxType
<1>2. pc' \in {"update", "register"}
  BY DEF Prepare, Goto
<1> QED
  BY <1>1, <1>2, BuiltInType
  DEF Prepare, IInv, Typed, Identified, DescribedRead, ListedRead, Same,
      DisabledNotGranted, OthersBuiltIn, Described, resource, permissions, access

LEMMA WriteStep ==
  ASSUME IInv, WritePermissions, pc \in {"register", "update"},
         registered' \in BOOLEAN,
         UNCHANGED <<resource, peers, access>>
  PROVE  IInv'
<1>1. /\ roles' \in PermissionsType
      /\ scopes' \in PermissionsType
      /\ Same(roles', scopes')
      /\ \A n \in Name : n \in Wanted(tx.edition) => scopes'[n].on
  BY DescribeType, DescribeSame
  DEF WritePermissions, DescribeRoles, DescribeScopes, IInv, Typed, Identified
<1>2. /\ tx' \in TxType
      /\ tx'.roles = roles' /\ tx'.scopes = scopes'
      /\ tx'.edition = tx.edition
      /\ tx'.valid = tx.valid
      /\ tx'.todo = Listed(tx.edition)
  BY <1>1 DEF WritePermissions, IInv, Typed, TxType, Listed
<1>3. born' \in Nat
  BY DEF WritePermissions, IInv, Typed
<1>4. pc' = "resolve"
  BY DEF WritePermissions, Goto
<1>5. \A b \in Managed : tx.valid[b] = 0
  BY DEF NoTx, IInv, ListedRead
<1> QED
  BY <1>1, <1>2, <1>3, <1>4, <1>5, DefaultWanted, BuiltInType
  DEF IInv, Typed, Identified, DescribedRead, ListedRead, Same, Wanted, Listed,
      DisabledNotGranted, OthersBuiltIn, Described, resource, access

LEMMA RegisterStep == ASSUME IInv, Register PROVE IInv'
  BY WriteStep DEF Register

LEMMA UpdateStep == ASSUME IInv, Update PROVE IInv'
<1>1. registered' \in BOOLEAN
  BY DEF Update, IInv, Typed
<1> QED BY <1>1, WriteStep DEF Update

LEMMA ClientIDType == ASSUME Typed, NEW b \in Peer PROVE ClientID(b) \in Nat
  BY DEF Typed, ClientID

LEMMA MapStep ==
  ASSUME IInv, NEW b \in Managed, MapDesiredPreAuthorizedApp(b) PROVE IInv'
<1>1. ClientID(b) \in Nat
  BY ClientIDType DEF Peer, IInv
<1>2. /\ tx' \in TxType
      /\ tx'.roles = tx.roles /\ tx'.scopes = tx.scopes
      /\ tx'.edition = tx.edition
      /\ tx'.todo = tx.todo \ {b}
      /\ tx'.valid = [tx.valid EXCEPT ![b] = ClientID(b)]
  BY <1>1 DEF MapDesiredPreAuthorizedApp, IInv, Typed, TxType
<1>3. \A c \in Managed : c # b => tx'.valid[c] = tx.valid[c]
  BY <1>2 DEF IInv, Typed, TxType
<1>4. b \in Listed(tx.edition) /\ pc = "resolve"
  BY DEF MapDesiredPreAuthorizedApp, IInv, ListedRead, Described
<1>5. ListedRead'
  BY <1>2, <1>3, <1>4
  DEF MapDesiredPreAuthorizedApp, IInv, ListedRead, Described, Listed
<1> QED
  BY <1>2, <1>4, <1>5
  DEF MapDesiredPreAuthorizedApp, IInv, Typed, Identified, DescribedRead, Same,
      DisabledNotGranted, OthersBuiltIn, Described, resource, permissions,
      access, Wanted, Listed

(* A peer that is granted a scope was listed, so that the scope is wanted. *)
LEMMA GrantedWanted ==
  ASSUME IInv, pc = "resolve", NEW b \in Valid, NEW p \in ToPreAuthorizedApp(b).scopes
  PROVE  p[1] \in Wanted(tx.edition)
<1>1. b \in Listed(tx.edition)
  BY DEF IInv, ListedRead, Described, Valid
<1>2. PICK n \in WantedScopes(tx.edition, b) : p = PermissionOf(n)
  BY DEF ToPreAuthorizedApp
<1> QED BY <1>1, <1>2 DEF PermissionOf, WantedScopes, Wanted

LEMMA PatchStep ==
  ASSUME ConstantsAssumption, IInv, PatchPreAuthorizedApplications PROVE IInv'
<1>1. pc = "resolve" /\ pc' = "list"
  BY DEF PatchPreAuthorizedApplications, Goto
<1>2. ASSUME Granted = {}, NEW g \in preauth'
      PROVE  \/ g.peer \in Unmanaged /\ g.scopes \subseteq {<<Default, 1>>}
             \/ g.peer \notin Unmanaged
                /\ \A p \in g.scopes : p[1] \in Wanted(tx.edition)
  <2>1. CASE g \in KeepUnmanaged
    BY <1>2, <2>1 DEF KeepUnmanaged, IInv, OthersBuiltIn
  <2>2. CASE \E b \in Valid : g = ToPreAuthorizedApp(b)
    <3>1. PICK b \in Valid : g = ToPreAuthorizedApp(b)
      BY <2>2
    <3>2. g.peer \notin Unmanaged
      BY <3>1 DEF ConstantsAssumption, Valid, ToPreAuthorizedApp
    <3>3. \A p \in g.scopes : p[1] \in Wanted(tx.edition)
      BY <1>1, <3>1, GrantedWanted
    <3> QED BY <3>2, <3>3
  <2> QED BY <2>1, <2>2 DEF PatchPreAuthorizedApplications
<1>3. DisabledNotGranted'
  <2> SUFFICES ASSUME Granted = {}, NEW g \in preauth', NEW n \in Name,
                      <<n, scopes[n].gen>> \in g.scopes, scopes[n].gen # 0
               PROVE  scopes[n].on
    BY DEF PatchPreAuthorizedApplications, permissions, DisabledNotGranted
  <2>1. CASE g.scopes \subseteq {<<Default, 1>>}
    BY <2>1 DEF IInv, OthersBuiltIn
  <2>2. CASE \A p \in g.scopes : p[1] \in Wanted(tx.edition)
    <3>1. n \in Wanted(tx.edition)
      BY <2>2
    <3> QED BY <1>1, <3>1 DEF IInv, DescribedRead, Described
  <2> QED BY <1>2, <2>1, <2>2
<1>4. OthersBuiltIn'
  BY <1>2 DEF PatchPreAuthorizedApplications, IInv, OthersBuiltIn, permissions
<1> QED
  BY <1>1, <1>3, <1>4
  DEF PatchPreAuthorizedApplications, IInv, Typed, Identified, DescribedRead,
      ListedRead, Same, Described, resource, permissions, Wanted, Listed

(* Steps that only touch assignments, and what is left to do with them.    *)
LEMMA AssignmentsStep ==
  ASSUME IInv, pc \in {"list", "assign"}, pc' = "assign",
         assignments' \subseteq AssignmentType,
         NEW a \in SUBSET AssignmentType, NEW r \in SUBSET AssignmentType,
         tx' = [tx EXCEPT !.assign = a, !.revoke = r],
         UNCHANGED <<resource, peers, permissions, preauth>>
  PROVE  IInv'
<1>1. /\ tx' \in TxType
      /\ tx'.roles = tx.roles /\ tx'.scopes = tx.scopes
      /\ tx'.edition = tx.edition
      /\ tx'.todo = tx.todo
      /\ tx'.valid = tx.valid
  BY DEF IInv, Typed, TxType
<1> QED
  BY <1>1
  DEF IInv, Typed, Identified, DescribedRead, ListedRead, Same, OthersBuiltIn,
      DisabledNotGranted, Described, resource, permissions, Wanted, Listed

LEMMA ListStep == ASSUME IInv, ListAssignments PROVE IInv'
<1>1. DesiredAssignments \subseteq AssignmentType
  <2> SUFFICES ASSUME NEW b \in Valid, NEW n \in EnabledRoles
               PROVE  [peer |-> b, id |-> tx.valid[b], role |-> PermissionOf(n)]
                        \in AssignmentType
    BY DEF DesiredAssignments
  <2>1. n \in Name /\ Extracted(n).gen \in Nat
    BY DEF EnabledRoles, Extracted, IInv, Typed, TxType, PermissionsType
  <2>2. b \in Peer /\ tx.valid[b] \in Nat
    BY DEF Valid, Peer, IInv, Typed, TxType
  <2> QED BY <2>1, <2>2 DEF PermissionOf, AssignmentType
<1>2. Existing \subseteq AssignmentType
  BY DEF Existing, IInv, Typed
<1>3. /\ DesiredAssignments \ Existing \in SUBSET AssignmentType
      /\ Existing \ DesiredAssignments \in SUBSET AssignmentType
  BY <1>1, <1>2
<1>4. /\ tx' = [tx EXCEPT !.assign = DesiredAssignments \ Existing,
                          !.revoke = Existing \ DesiredAssignments]
      /\ pc = "list" /\ pc' = "assign"
      /\ UNCHANGED <<resource, peers, permissions, preauth, assignments>>
  BY DEF ListAssignments, Goto, access
<1>5. assignments' \subseteq AssignmentType
  BY <1>4 DEF IInv, Typed
<1> QED BY <1>3, <1>4, <1>5, AssignmentsStep

LEMMA AssignStep ==
  ASSUME IInv, NEW a \in tx.assign, Assign(a) PROVE IInv'
<1>1. /\ a \in AssignmentType
      /\ tx.assign \ {a} \in SUBSET AssignmentType
      /\ tx.revoke \in SUBSET AssignmentType
      /\ tx' = [tx EXCEPT !.assign = tx.assign \ {a}, !.revoke = tx.revoke]
  BY DEF Assign, IInv, Typed, TxType
<1>2. assignments' \subseteq AssignmentType
  BY <1>1 DEF Assign, IInv, Typed
<1> QED BY <1>1, <1>2, AssignmentsStep DEF Assign

LEMMA RevokeStep ==
  ASSUME IInv, NEW a \in tx.revoke, Revoke(a) PROVE IInv'
<1>1. /\ tx.assign \in SUBSET AssignmentType
      /\ tx.revoke \ {a} \in SUBSET AssignmentType
      /\ tx' = [tx EXCEPT !.assign = tx.assign, !.revoke = tx.revoke \ {a}]
  BY DEF Revoke, IInv, Typed, TxType
<1>2. assignments' \subseteq AssignmentType
  BY DEF Revoke, IInv, Typed
<1> QED BY <1>1, <1>2, AssignmentsStep DEF Revoke

LEMMA RemoveStep == ASSUME IInv, RemoveDisabledPermissions PROVE IInv'
<1>1. tx.roles \in PermissionsType /\ tx.scopes \in PermissionsType
  BY DEF IInv, Typed, TxType
<1>2. /\ roles' \in PermissionsType
      /\ scopes' \in PermissionsType
      /\ \A n \in Name : roles'[n] = tx.roles[n] \/ roles'[n].gen = 0
      /\ \A n \in Name : scopes'[n] = tx.scopes[n] \/ scopes'[n].gen = 0
      /\ scopes'[Default].on
  BY <1>1, RemoveDisabledType, BuiltInType
  DEF RemoveDisabledPermissions, IInv, OthersBuiltIn
<1>3. Same(roles', scopes')
  BY <1>2 DEF Same, IInv, Identified
<1>4. pc' = "complete"
  BY DEF RemoveDisabledPermissions, Goto
<1> QED
  BY <1>2, <1>3, <1>4
  DEF RemoveDisabledPermissions, IInv, Typed, Identified, DescribedRead,
      ListedRead, Same, DisabledNotGranted, OthersBuiltIn, Described, resource,
      access

(* Steps after which the pass is over, or has nothing to do with Entra ID. *)
LEMMA OverStep ==
  ASSUME IInv, pc' \in {"complete", "annotations", "idle"}, tx' \in {tx, NoTx},
         edition' = edition, marks' = marks,
         UNCHANGED <<peers, permissions, access>>
  PROVE  IInv'
<1>1. /\ tx' \in TxType
      /\ Same(tx'.roles, tx'.scopes)
      /\ tx'.scopes[Default].on
  BY BuiltInType DEF IInv, Typed, Identified, OthersBuiltIn
<1> QED
  BY <1>1
  DEF IInv, Typed, Identified, DescribedRead, ListedRead, Same,
      DisabledNotGranted, OthersBuiltIn, Described, permissions, access

LEMMA FailStep ==
  ASSUME IInv, Fail, UNCHANGED <<resource, peers, permissions, access>>
  PROVE  IInv'
<1>1. CASE tx' = NoTx /\ Goto("idle")
  BY <1>1, OverStep DEF Goto, resource
<1>2. CASE /\ pc \in {"resolve", "list", "assign"}
           /\ tx' = [tx EXCEPT !.valid = NoTx.valid, !.todo = Listed(tx.edition),
                               !.assign = {}, !.revoke = {}]
           /\ Goto("resolve")
  <2>1. /\ tx' \in TxType
        /\ tx'.roles = tx.roles /\ tx'.scopes = tx.scopes
        /\ tx'.edition = tx.edition
        /\ tx'.todo = Listed(tx.edition)
        /\ tx'.valid = NoTx.valid
    BY <1>2, BuiltInType DEF IInv, Typed, TxType, Listed
  <2>2. \A b \in Managed : NoTx.valid[b] = 0
    BY DEF NoTx
  <2> QED
    BY <1>2, <2>1, <2>2
    DEF IInv, Typed, Identified, DescribedRead, ListedRead, Same, Goto,
        DisabledNotGranted, OthersBuiltIn, Described, resource, permissions,
        access, Wanted, Listed
<1> QED BY <1>1, <1>2 DEF Fail

(* Users and peers. *)
LEMMA EnvironmentStep ==
  ASSUME IInv, EditSpec \/ (\E b \in Managed : RegisterPeer(b))
                        \/ (\E b \in Peer : DeletePeer(b))
  PROVE  IInv'
<1>1. /\ UNCHANGED <<permissions, preauth, pc, tx>>
      /\ edition' \in Nat /\ marks' \in Nat
      /\ assignments' \subseteq AssignmentType
  BY DEF EditSpec, RegisterPeer, DeletePeer, IInv, Typed, resource, access
<1>2. peers' \in [Peer -> [born : Nat, there : BOOLEAN]]
  <2>1. CASE EditSpec
    BY <2>1 DEF EditSpec, IInv, Typed
  <2>2. ASSUME NEW b \in Managed, RegisterPeer(b)
        PROVE  peers' \in [Peer -> [born : Nat, there : BOOLEAN]]
    BY <2>2 DEF RegisterPeer, Peer, IInv, Typed
  <2>3. ASSUME NEW b \in Peer, DeletePeer(b)
        PROVE  peers' \in [Peer -> [born : Nat, there : BOOLEAN]]
    BY <2>3 DEF DeletePeer, IInv, Typed
  <2> QED BY <2>1, <2>2, <2>3
<1> QED
  BY <1>1, <1>2
  DEF IInv, Typed, Identified, DescribedRead, ListedRead, Same, Wanted, Listed,
      DisabledNotGranted, OthersBuiltIn, Described, permissions

LEMMA IInvInductive ==
  ASSUME ConstantsAssumption, IInv, [Next]_vars PROVE IInv'
<1>1. CASE Prepare
  BY <1>1, PrepareStep
<1>2. CASE Register
  BY <1>2, RegisterStep
<1>3. CASE Update
  BY <1>3, UpdateStep
<1>4. CASE \E b \in Managed : MapDesiredPreAuthorizedApp(b)
  BY <1>4, MapStep
<1>5. CASE PatchPreAuthorizedApplications
  BY <1>5, PatchStep
<1>6. CASE ListAssignments
  BY <1>6, ListStep
<1>7. CASE \E a \in tx.assign : Assign(a)
  BY <1>7, AssignStep
<1>8. CASE \E a \in tx.revoke : Revoke(a)
  BY <1>8, RevokeStep
<1>9. CASE RemoveDisabledPermissions
  BY <1>9, RemoveStep
<1>10. CASE Created \/ UpdateStatus \/ UpdateAnnotations
  BY <1>10, OverStep
  DEF Created, UpdateStatus, UpdateAnnotations, Goto, resource
<1>11. CASE FindVanished \/ Abort
  BY <1>11, FailStep DEF FindVanished, Abort
<1>12. CASE EditSpec \/ (\E b \in Managed : RegisterPeer(b))
                    \/ (\E b \in Peer : DeletePeer(b))
  BY <1>12, EnvironmentStep
<1>13. CASE UNCHANGED vars
  BY <1>13
  DEF vars, IInv, Typed, Identified, DescribedRead, ListedRead, Same, Wanted,
      Listed, DisabledNotGranted, OthersBuiltIn, Described, resource,
      permissions, access
<1> QED
  BY <1>1, <1>2, <1>3, <1>4, <1>5, <1>6, <1>7, <1>8, <1>9, <1>10, <1>11, <1>12,
     <1>13
  DEF Next, Pass

(* What Entra ID holds and what a pass describes stay in step, for any     *)
(* permissions, peers, editions and failures (Update in client.go).        *)
THEOREM InvariantHolds == Spec => []IInv
<1>1. Init => IInv
  BY InitIInv
<1>2. IInv /\ [Next]_vars => IInv'
  BY IInvInductive, ConstantsAssumption
<1> QED BY <1>1, <1>2, PTL DEF Spec

(* A role and a scope of the same name have the same identifier            *)
(* (permissions.go, GenerateDesiredPermissionSetPreserveExisting).         *)
THEOREM IdentifiersShared == Spec => []SameIdentifier
<1>1. IInv => SameIdentifier
  BY DEF IInv, Identified, Same, SameIdentifier
<1> QED BY <1>1, InvariantHolds, PTL

(* The step of PatchesAccepted. *)
Accepted ==
  \A n \in Name :
    /\ roles[n].gen # 0 /\ roles'[n].gen # roles[n].gen => ~roles[n].on
    /\ scopes[n].gen # 0 /\ scopes'[n].gen # scopes[n].gen
       => /\ ~scopes[n].on
          /\ \A g \in preauth : <<n, scopes[n].gen>> \notin g.scopes

LEMMA WriteAccepted == ASSUME IInv, WritePermissions PROVE Accepted
<1>1. /\ \A n \in Name : roles[n].gen # 0 => roles'[n].gen = roles[n].gen
      /\ \A n \in Name : scopes[n].gen # 0 => scopes'[n].gen = scopes[n].gen
  BY DescribeType
  DEF WritePermissions, DescribeRoles, DescribeScopes, IInv, Typed
<1> QED BY <1>1 DEF Accepted

LEMMA RemoveAccepted ==
  ASSUME Granted = {}, IInv, RemoveDisabledPermissions
  PROVE  Accepted
<1>1. pc = "assign" /\ tx.roles = roles /\ tx.scopes = scopes
  BY DEF RemoveDisabledPermissions, AssignmentsProcessed, IInv, DescribedRead,
         Described
<1>2. /\ \A n \in Name : roles[n].on => roles'[n] = roles[n]
      /\ \A n \in Name : scopes[n].on => scopes'[n] = scopes[n]
  BY <1>1, RemoveDisabledType DEF RemoveDisabledPermissions, IInv, Typed
<1>3. ASSUME NEW n \in Name, NEW g \in preauth, scopes[n].gen # 0, ~scopes[n].on
      PROVE  <<n, scopes[n].gen>> \notin g.scopes
  BY <1>1, <1>3 DEF IInv, DisabledNotGranted
<1> QED BY <1>2, <1>3 DEF Accepted

(* No step deletes a permission that is enabled, or a scope that somebody  *)
(* is granted, and none changes an identifier (application.go,             *)
(* RemoveDisabledPermissions): as long as somebody else has granted        *)
(* nothing but the built-in scope, and for any editions and failures.      *)
THEOREM NothingRefused == ASSUME Granted = {} PROVE Spec => PatchesAccepted
<1>1. IInv /\ [Next]_vars => [Accepted]_vars
  <2> SUFFICES ASSUME IInv, Next PROVE Accepted
    BY DEF vars
  <2>1. CASE Register \/ Update
    BY <2>1, WriteAccepted DEF Register, Update
  <2>2. CASE RemoveDisabledPermissions
    BY <2>2, RemoveAccepted
  <2>3. CASE UNCHANGED permissions
    BY <2>3 DEF permissions, Accepted
  <2>4. Register \/ Update \/ RemoveDisabledPermissions \/ UNCHANGED permissions
    BY DEF Next, Pass, EditSpec, RegisterPeer, DeletePeer, Abort, Prepare,
           MapDesiredPreAuthorizedApp, PatchPreAuthorizedApplications,
           ListAssignments, Assign, Revoke, FindVanished, Created,
           UpdateStatus, UpdateAnnotations
  <2> QED BY <2>1, <2>2, <2>3, <2>4
<1> QED BY <1>1, InvariantHolds, PTL DEF Spec, PatchesAccepted, Accepted
=============================================================================
