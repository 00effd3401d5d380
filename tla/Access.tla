-------------------------------- MODULE Access --------------------------------
(***************************************************************************)
(* The permissions of one application in Entra ID, and who has them.       *)
(*                                                                         *)
(* A spec lists peers, other applications, each with the scopes and the    *)
(* roles it gets.  Every permission that is named is registered under one  *)
(* identifier as a scope and as a role.  Peers are granted scopes through  *)
(* the list of pre-authorized applications, and roles through assignments. *)
(* Update (pkg/azure/client) disables what is no longer wanted, processes  *)
(* grants and assignments, and deletes what is disabled only after that:   *)
(* Entra ID refuses to delete an enabled permission, or a scope that is    *)
(* granted to a pre-authorized application.                                *)
(*                                                                         *)
(* A permission is told by its name and its generation, which stands for   *)
(* the identifier; generation 0 is a permission that is not there.  The    *)
(* two built-in permissions, and the application's own place among its     *)
(* peers, behave alike: they are always wanted, and Default is both.       *)
(***************************************************************************)
EXTENDS Naturals, Sequences, FiniteSets

CONSTANTS
  Permission,   \* names of permissions
  Default,      \* the built-in one: all listed peers get it
  Managed,      \* peers that azurerator manages, here or in another cluster
  Unmanaged,    \* peers that somebody else has given access
  Rules,        \* the editions of the spec, all different, one after another
  Granted,      \* what somebody else may have granted the unmanaged peers
  MaxChanges,   \* bound on peers deleted or created
  MaxFaults     \* bound on failed calls, timeouts and restarts

Peer == Managed \cup Unmanaged
Name == Permission \cup {Default}
Rule == [listed : BOOLEAN, scopes : SUBSET Permission,
         roles : SUBSET Permission]

ASSUME ConstantsAssumption ==
  /\ Default \notin Permission
  /\ Managed \cap Unmanaged = {}
  /\ Rules \in Seq([Managed -> Rule]) /\ Rules # <<>>
  /\ Granted \subseteq Permission
  /\ MaxChanges \in Nat
  /\ MaxFaults \in Nat

VARIABLES
  edition,      \* the edition of the spec
  status,       \* the edition of the last completed pass
  marks,        \* resynchronizations asked for so far, see module Resync
  heard,        \* how many of them a completed pass has heard
  peers,        \* registrations of a peer so far, and whether it is there
  registered,   \* the application is in Entra ID
  roles,        \* its roles
  scopes,       \* its scopes
  born,         \* the latest generation of permissions
  preauth,      \* its list of pre-authorized applications
  assignments,  \* the assignments of its roles
  pc,           \* the next step of the running pass
  tx,           \* what the pass knows
  changes,      \* changes so far
  faults        \* faults so far

resource == <<edition, status, marks, heard>>
permissions == <<registered, roles, scopes, born>>
access == <<preauth, assignments>>
vars == <<resource, peers, permissions, access, pc, tx, changes, faults>>

Absent == [gen |-> 0, on |-> FALSE]
BuiltIn == [n \in Name |-> IF n = Default THEN [gen |-> 1, on |-> TRUE]
                           ELSE Absent]

ClientID(b) == IF peers[b].there THEN peers[b].born ELSE 0

NoTx == [edition |-> 0, marks |-> 0, exists |-> FALSE,
         roles |-> BuiltIn, scopes |-> BuiltIn,
         valid |-> [b \in Managed |-> 0], todo |-> {},
         assign |-> {}, revoke |-> {}]

(* The application is not there yet, or azurerator takes over one that has *)
(* scopes without roles and has given unmanaged peers access.              *)
Init ==
  /\ edition = 1
  /\ status = 0
  /\ marks = 0
  /\ heard = 0
  /\ \E there \in SUBSET Managed :
       peers = [b \in Peer |-> [born |-> 1, there |-> b \in there \cup Unmanaged]]
  /\ roles = BuiltIn
  /\ \E adopted \in BOOLEAN, theirs \in SUBSET Permission :
       LET others == IF adopted THEN Unmanaged ELSE {}
       IN  /\ Granted \subseteq theirs \/ ~adopted
           /\ adopted \/ theirs = {}
           /\ registered = adopted
           /\ scopes = [n \in Name |-> IF n \in theirs \cup {Default}
                                       THEN [gen |-> 1, on |-> TRUE] ELSE Absent]
           /\ preauth = {[peer |-> u, id |-> 1,
                          scopes |-> {<<n, 1>> : n \in Granted \cup {Default}}] :
                           u \in others}
           /\ assignments = {[peer |-> u, id |-> 1, role |-> <<Default, 1>>] :
                                u \in others}
  /\ born = 1
  /\ pc = "idle"
  /\ tx = NoTx
  /\ changes = 0
  /\ faults = 0

----------------------------------------------------------------------------
(* Users, and the peers' own operators. *)

EditSpec ==
  /\ edition < Len(Rules)
  /\ edition' = edition + 1
  /\ UNCHANGED <<status, marks, heard, peers, permissions, access, pc, tx,
                 changes, faults>>

(* An event marks the resource of this application. *)
RegisterPeer(b) ==
  /\ ~peers[b].there
  /\ changes < MaxChanges
  /\ changes' = changes + 1
  /\ peers' = [peers EXCEPT ![b] = [born |-> @.born + 1, there |-> TRUE]]
  /\ marks' = marks + 1
  /\ UNCHANGED <<edition, status, heard, permissions, access, pc, tx, faults>>

(* Entra ID removes the assignments of the peer, but not its grants.       *)
DeletePeer(b) ==
  /\ peers[b].there
  /\ changes < MaxChanges
  /\ changes' = changes + 1
  /\ peers' = [peers EXCEPT ![b].there = FALSE]
  /\ assignments' = {a \in assignments : a.peer # b}
  /\ UNCHANGED <<resource, permissions, preauth, pc, tx, faults>>

----------------------------------------------------------------------------
(* What a spec wants. *)

Listed(e) == {b \in Managed : Rules[e][b].listed}

Wanted(e) ==
  {Default} \cup UNION {Rules[e][b].scopes \cup Rules[e][b].roles :
                          b \in Listed(e)}

WantedScopes(e, b) == {Default} \cup Rules[e][b].scopes
WantedRoles(e, b) == {Default} \cup Rules[e][b].roles

----------------------------------------------------------------------------
(* Permissions: a scope and a role of the same name share an identifier.   *)

(* Mutant: the identifiers of existing permissions are not looked up.      *)
NewIdentifier(n) == IF n = Default THEN 1 ELSE born + 1

Identifier(n) ==
  IF scopes[n].gen # 0 THEN scopes[n].gen
  ELSE IF roles[n].gen # 0 THEN roles[n].gen
  ELSE IF n = Default THEN 1 ELSE born + 1

(* Mutant: what is not wanted is left out at once. *)
DescribeWanted(existing, e) ==
  [n \in Name |->
     IF n \notin Wanted(e) THEN Absent
     ELSE IF existing[n].gen # 0 THEN [gen |-> existing[n].gen, on |-> TRUE]
     ELSE [gen |-> Identifier(n), on |-> TRUE]]

(* What is there stays, enabled if it is wanted; what is not is created.   *)
DescribeUpdate(existing, e) ==
  [n \in Name |->
     IF existing[n].gen # 0 THEN [gen |-> existing[n].gen,
                                  on |-> n \in Wanted(e)]
     ELSE IF n \in Wanted(e) THEN [gen |-> Identifier(n), on |-> TRUE]
     ELSE Absent]

DescribeRoles == DescribeUpdate(roles, tx.edition)
DescribeScopes == DescribeUpdate(scopes, tx.edition)

RemoveDisabled(described) ==
  [n \in Name |-> IF described[n].on THEN described[n] ELSE Absent]

(* Scopes first, then the roles whose names are not among them. *)
Extracted(n) == IF tx.scopes[n].gen # 0 THEN tx.scopes[n] ELSE tx.roles[n]

PermissionOf(n) == <<n, Extracted(n).gen>>

Goto(step) == pc' = step

Prepare ==
  /\ pc = "idle"
  /\ status # edition \/ heard < marks
  /\ tx' = [NoTx EXCEPT !.edition = edition, !.marks = marks,
                        !.exists = registered]
  /\ Goto(IF registered THEN "update" ELSE "register")
  /\ UNCHANGED <<resource, peers, permissions, access, changes, faults>>

(* The PATCH, or the POST, of all roles and scopes.                        *)
WritePermissions ==
  /\ roles' = DescribeRoles
  /\ scopes' = DescribeScopes
  /\ born' = IF \E n \in Name : scopes[n].gen # scopes'[n].gen THEN born + 1
             ELSE born
  /\ tx' = [tx EXCEPT !.roles = roles', !.scopes = scopes',
                      !.todo = Listed(tx.edition)]
  /\ Goto("resolve")

Register ==
  /\ pc = "register"
  /\ registered' = TRUE
  /\ WritePermissions
  /\ UNCHANGED <<resource, peers, access, changes, faults>>

Update ==
  /\ pc = "update"
  /\ WritePermissions
  /\ UNCHANGED <<resource, peers, registered, access, changes, faults>>

----------------------------------------------------------------------------
(* Pre-authorized applications. *)

(* The listed peers are looked up one after another. *)
MapDesiredPreAuthorizedApp(b) ==
  /\ pc = "resolve"
  /\ b \in tx.todo
  /\ tx' = [tx EXCEPT !.valid[b] = ClientID(b), !.todo = @ \ {b}]
  /\ UNCHANGED <<resource, peers, permissions, access, pc, changes, faults>>

(* Mutant: the peers that were not found are kept. *)
AllListed == Listed(tx.edition)

Valid == {b \in Managed : tx.valid[b] # 0}

ToPreAuthorizedApp(b) ==
  [peer |-> b, id |-> tx.valid[b],
   scopes |-> {PermissionOf(n) : n \in {m \in WantedScopes(tx.edition, b) :
                                         Extracted(m).gen # 0}}]

(* Mutant: the list is replaced by the peers that the spec lists. *)
KeepNone == {}

(* The grants of unmanaged applications are kept, if these still exist.    *)
(* Only the passes of this resource write the list, so that reading it and *)
(* writing it back are one step.                                           *)
KeepUnmanaged ==
  {g \in preauth : g.peer \in Unmanaged /\ g.id = ClientID(g.peer)}

(* Mutant: grants are only added. *)
AddPreAuthorizedApplications ==
  /\ pc = "resolve"
  /\ tx.todo = {}
  /\ preauth' = preauth \cup {ToPreAuthorizedApp(b) : b \in Valid}
  /\ Goto("list")
  /\ UNCHANGED <<resource, peers, permissions, assignments, tx, changes,
                 faults>>

PatchPreAuthorizedApplications ==
  /\ pc = "resolve"
  /\ tx.todo = {}
  /\ preauth' = KeepUnmanaged \cup {ToPreAuthorizedApp(b) : b \in Valid}
  /\ Goto("list")
  /\ UNCHANGED <<resource, peers, permissions, assignments, tx, changes,
                 faults>>

----------------------------------------------------------------------------
(* Assignments. *)

EnabledRoles == {n \in Name : Extracted(n).on}

(* All listed peers get the default role, the others are filtered by role. *)
DesiredAssignments ==
  UNION {{[peer |-> b, id |-> tx.valid[b], role |-> PermissionOf(n)] :
            n \in EnabledRoles \cap WantedRoles(tx.edition, b)} : b \in Valid}

Existing == {a \in assignments : a.peer \in Managed}

(* Mutant: everything that exists is revoked after the assignments.        *)
ReplaceAssignments ==
  /\ pc = "list"
  /\ tx' = [tx EXCEPT !.assign = DesiredAssignments \ Existing,
                      !.revoke = Existing]
  /\ Goto("assign")
  /\ UNCHANGED <<resource, peers, permissions, access, changes, faults>>

(* What exists is listed once; all that follows goes by the list. *)
ListAssignments ==
  /\ pc = "list"
  /\ tx' = [tx EXCEPT !.assign = DesiredAssignments \ Existing,
                      !.revoke = Existing \ DesiredAssignments]
  /\ Goto("assign")
  /\ UNCHANGED <<resource, peers, permissions, access, changes, faults>>

IsThere(a) == a.id = ClientID(a.peer)

Assign(a) ==
  /\ pc = "assign"
  /\ a \in tx.assign
  /\ IsThere(a)
  /\ assignments' = assignments \cup {a}
  /\ tx' = [tx EXCEPT !.assign = @ \ {a}]
  /\ UNCHANGED <<resource, peers, permissions, preauth, pc, changes, faults>>

(* Role by role, in any order, the enabled ones before all others.  For a  *)
(* role, what is missing is assigned before the rest is revoked.           *)
MayRevoke(a) ==
  IF a.role \in {PermissionOf(n) : n \in EnabledRoles}
  THEN \A other \in tx.assign : other.role # a.role
  ELSE tx.assign = {}

Revoke(a) ==
  /\ pc = "assign"
  /\ a \in tx.revoke
  /\ MayRevoke(a)
  /\ a \in assignments
  /\ assignments' = assignments \ {a}
  /\ tx' = [tx EXCEPT !.revoke = @ \ {a}]
  /\ UNCHANGED <<resource, peers, permissions, preauth, pc, changes, faults>>

AssignmentsProcessed == pc = "assign" /\ tx.assign = {} /\ tx.revoke = {}

----------------------------------------------------------------------------
(* The end of a pass. *)

(* The second PATCH of an update, with what the first one has described.   *)
RemoveDisabledPermissions ==
  /\ AssignmentsProcessed
  /\ tx.exists
  /\ roles' = RemoveDisabled(tx.roles)
  /\ scopes' = RemoveDisabled(tx.scopes)
  /\ Goto("complete")
  /\ UNCHANGED <<resource, peers, registered, born, access, tx, changes, faults>>

Created ==
  /\ AssignmentsProcessed
  /\ ~tx.exists
  /\ Goto("complete")
  /\ UNCHANGED <<resource, peers, permissions, access, tx, changes, faults>>

UpdateStatus ==
  /\ pc = "complete"
  /\ status' = tx.edition
  /\ Goto("annotations")
  /\ UNCHANGED <<edition, marks, heard, peers, permissions, access, tx, changes,
                 faults>>

(* Mutant: a mark that the pass has not read is removed with the others.   *)
RemoveAllMarks ==
  /\ pc = "annotations"
  /\ heard' = marks
  /\ tx' = NoTx
  /\ Goto("idle")
  /\ UNCHANGED <<edition, status, marks, peers, permissions, access, changes,
                 faults>>

UpdateAnnotations ==
  /\ pc = "annotations"
  /\ heard' = tx.marks
  /\ tx' = NoTx
  /\ Goto("idle")
  /\ UNCHANGED <<edition, status, marks, peers, permissions, access, changes,
                 faults>>

(* A call fails.  While an application is being created, processing is     *)
(* repeated from its start, as long as time allows; otherwise the pass     *)
(* ends, and the resource is queued again.                                 *)
Fail ==
  \/ /\ ~tx.exists
     /\ pc \in {"resolve", "list", "assign"}
     /\ tx' = [tx EXCEPT !.valid = NoTx.valid, !.todo = Listed(tx.edition),
                         !.assign = {}, !.revoke = {}]
     /\ Goto("resolve")
  \/ /\ tx' = NoTx
     /\ Goto("idle")

Abort ==
  /\ pc # "idle"
  /\ faults < MaxFaults
  /\ faults' = faults + 1
  /\ Fail
  /\ UNCHANGED <<resource, peers, permissions, access, changes>>

(* The peer, and its assignments, have vanished since they were looked up. *)
FindVanished ==
  /\ pc = "assign"
  /\ \/ \E a \in tx.assign : ~IsThere(a)
     \/ \E a \in tx.revoke : MayRevoke(a) /\ a \notin assignments
  /\ Fail
  /\ UNCHANGED <<resource, peers, permissions, access, changes, faults>>

----------------------------------------------------------------------------
Pass ==
  \/ Prepare
  \/ Register
  \/ Update
  \/ \E b \in Managed : MapDesiredPreAuthorizedApp(b)
  \/ PatchPreAuthorizedApplications
  \/ ListAssignments
  \/ \E a \in tx.assign : Assign(a)
  \/ \E a \in tx.revoke : Revoke(a)
  \/ FindVanished
  \/ RemoveDisabledPermissions
  \/ Created
  \/ UpdateStatus
  \/ UpdateAnnotations

Next ==
  \/ EditSpec
  \/ \E b \in Managed : RegisterPeer(b)
  \/ \E b \in Peer : DeletePeer(b)
  \/ Pass
  \/ Abort

Spec == Init /\ [][Next]_vars

(* The work queue: a pass goes on, and what has failed is queued again.    *)
FairSpec == Spec /\ WF_vars(Pass)

----------------------------------------------------------------------------
(* Properties. *)

Permissions == [Name -> [gen : 0..born, on : BOOLEAN]]
PeerID == {<<b, i>> : b \in Peer, i \in 1..(MaxChanges + 1)}
PermissionID == Name \X (1..born)

(* The values the variables range over.  No peer is known by an empty      *)
(* identifier (mapDesiredPreAuthorizedApps sorts those out), and whatever  *)
(* is granted has an identifier.                                           *)
TypeOK ==
  /\ edition \in 1..Len(Rules)
  /\ status \in 0..edition
  /\ heard \in 0..marks
  /\ marks \in 0..MaxChanges
  /\ peers \in [Peer -> [born : 1..(MaxChanges + 1), there : BOOLEAN]]
  /\ registered \in BOOLEAN
  /\ roles \in Permissions
  /\ scopes \in Permissions
  /\ born \in 1..(Len(Rules) + 1)
  /\ \A g \in preauth : <<g.peer, g.id>> \in PeerID /\ g.scopes \subseteq PermissionID
  /\ \A a \in assignments : <<a.peer, a.id>> \in PeerID /\ a.role \in PermissionID
  /\ pc \in {"idle", "register", "update", "resolve", "list", "assign",
            "complete", "annotations"}
  /\ tx.edition \in 0..edition /\ tx.marks \in 0..marks
  /\ tx.todo \subseteq Managed
  /\ changes \in 0..MaxChanges
  /\ faults \in 0..MaxFaults

(* A role and a scope of the same name have the same identifier, or Entra  *)
(* ID refuses them (permissions.go, ExtractPermissions), also where one of *)
(* the two was there first.                                                *)
SameIdentifier ==
  \A n \in Name : roles[n].gen # 0 /\ scopes[n].gen # 0
                  => roles[n].gen = scopes[n].gen

(* Entra ID deletes only what is disabled, and no scope that somebody is   *)
(* granted (application.go, RemoveDisabledPermissions): the two PATCHes of *)
(* an update, and the grants between them, come in an order that it takes, *)
(* wherever an earlier update has ended.                                   *)
PatchesAccepted ==
  [][\A n \in Name :
       /\ roles[n].gen # 0 /\ roles'[n].gen # roles[n].gen => ~roles[n].on
       /\ scopes[n].gen # 0 /\ scopes'[n].gen # scopes[n].gen
          => /\ ~scopes[n].on
             /\ \A g \in preauth : <<n, scopes[n].gen>> \notin g.scopes]_vars

(* The editions that the state in Entra ID may come from. *)
Recent == {e \in 1..edition : e >= status}

HasRole(b, n) ==
  /\ roles[n].on
  /\ [peer |-> b, id |-> ClientID(b), role |-> <<n, roles[n].gen>>] \in assignments

HasScope(b, n) ==
  /\ scopes[n].on
  /\ \E g \in preauth : /\ g.peer = b
                        /\ g.id = ClientID(b)
                        /\ <<n, scopes[n].gen>> \in g.scopes

(* Access is never interrupted: whoever has a role or a scope keeps it,    *)
(* under the same identifier, through all the steps and failures of later  *)
(* passes, if no edition since the last completed pass takes it away.      *)
AccessKept ==
  [][\A b \in Managed, n \in Name :
       /\ peers'[b] = peers[b]
       /\ \A e \in Recent \cup Recent' : b \in Listed(e)
       => /\ HasRole(b, n) /\ (\A e \in Recent \cup Recent' : n \in WantedRoles(e, b))
             => HasRole(b, n)'
          /\ HasScope(b, n) /\ (\A e \in Recent \cup Recent' : n \in WantedScopes(e, b))
             => HasScope(b, n)']_vars

(* What somebody else has granted stays (preauthorizedapp.go: "we want to  *)
(* keep existing pre-authorized applications, but only those that aren't   *)
(* managed by us"), though the list is always written as a whole, and      *)
(* built-in permissions are there for it.                                  *)
OthersKept ==
  [][\A u \in Unmanaged :
       peers'[u].there
       => /\ HasRole(u, Default) => HasRole(u, Default)'
          /\ HasScope(u, Default) => HasScope(u, Default)']_vars

(* No peer has access that no edition since the last completed pass gives: *)
(* not after failures, and not for a permission that was deleted and made  *)
(* again.                                                                  *)
GrantsAuthorized ==
  /\ \A a \in assignments :
       a.peer \in Managed
       => \E e \in Recent : a.peer \in Listed(e) /\ a.role[1] \in WantedRoles(e, a.peer)
  /\ \A g \in preauth, n \in Name :
       g.peer \in Managed /\ scopes[n].on /\ <<n, scopes[n].gen>> \in g.scopes
       => \E e \in Recent : g.peer \in Listed(e) /\ n \in WantedScopes(e, g.peer)

(* In the end every peer that is there has what the spec gives it, and     *)
(* nothing else, and no disabled permission is left behind.                *)
Exact ==
  /\ \A b \in {p \in Managed : peers[p].there}, n \in Name :
       /\ HasRole(b, n) <=> b \in Listed(edition) /\ n \in WantedRoles(edition, b)
       /\ HasScope(b, n) <=> b \in Listed(edition) /\ n \in WantedScopes(edition, b)
  /\ \A n \in Name : /\ roles[n].on <=> n \in Wanted(edition)
                     /\ scopes[n].on <=> n \in Wanted(edition)
                     /\ roles[n].gen # 0 => roles[n].on
                     /\ scopes[n].gen # 0 => scopes[n].on

EventuallyExact == <>[]Exact

(* The status is true: when its hash is that of the spec and no mark is    *)
(* left, so that no pass will come (process.go), nobody is left with more  *)
(* or less than the spec gives, whichever passes failed, and whatever      *)
(* became of peers after they were looked up.                              *)
SynchronizedExact ==
  pc = "idle" /\ status = edition /\ heard = marks => Exact
==============================================================================
