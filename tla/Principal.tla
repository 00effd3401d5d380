------------------------------- MODULE Principal -------------------------------
(***************************************************************************)
(* The registration of one application and its service principal: which    *)
(* groups of users may sign in, and what else pkg/azure/client attaches.   *)
(*                                                                         *)
(* A principal that requires assignments lets in only those it is assigned *)
(* to; any other lets in everybody.  Register and Update write the         *)
(* application; process then adds the grant and the owners, replaces the   *)
(* claims-mapping policy, assigns the groups of the spec, and sets the     *)
(* requirement, as far as the operator's settings ask for these.  Settings *)
(* change with a restart, groups are deleted by others at any time, and    *)
(* the operator remembers for a day the groups that it has looked up.      *)
(***************************************************************************)
EXTENDS Naturals, Sequences, FiniteSets

CONSTANTS
  Group,        \* groups of users
  AllUsers,     \* all-users-group-id: the groups with everybody
  User,         \* users whom somebody else has assigned directly
  Specs,        \* the editions of the spec, all different, one after another
  Settings,     \* the settings of the operator, one after another
  Url,          \* redirect URIs
  Foreign,      \* policies that somebody else may have assigned
  MaxChanges,   \* bound on groups deleted and synchronizations asked for
  MaxFaults     \* bound on failed calls, timeouts and restarts

Feature == {"policies", "groups", "required"}
Claim == {"unset", "ApplicationGroup", "All"}
SpecType == [groups : SUBSET Group, allowAllUsers : BOOLEAN, claim : Claim,
             urls : SUBSET Url, spa : BOOLEAN]
SettingType == [features : SUBSET Feature, policy : Nat, claim : Claim \ {"unset"}]

ASSUME ConstantsAssumption ==
  /\ AllUsers \subseteq Group
  /\ Group \cap User = {}
  /\ Specs \in Seq(SpecType) /\ Specs # <<>>
  /\ Settings \in Seq(SettingType) /\ Settings # <<>>
  /\ Foreign \subseteq Nat
  /\ MaxChanges \in Nat
  /\ MaxFaults \in Nat

VARIABLES
  edition,      \* the edition of the spec
  status,       \* the edition of the last completed pass
  marks,        \* synchronizations that users asked for so far
  heard,        \* how many of them a completed pass has heard
  setting,      \* the settings of the operator
  under,        \* those of the last completed pass
  groups,       \* the groups that exist
  registered,   \* the application is in Entra ID
  claim,        \* its groupMembershipClaims
  mapped,       \* it accepts mapped claims
  redirects,    \* its redirect URIs, each on a platform
  attributes,   \* its identifier URIs and optional claims
  ownRole,      \* it has a role of its own that users and groups may hold
  principal,    \* its service principal exists
  required,     \* and requires assignments (appRoleAssignmentRequired)
  ties,         \* its permission grant and the operator's ownerships
  policies,     \* its claims-mapping policies
  assignments,  \* whom it is assigned to, and under which role
  cached,       \* the operator's cache of groups
  pc,           \* the next step of the running pass
  tx,           \* what the pass knows
  changes,      \* changes so far
  faults        \* faults so far

resource == <<edition, status, marks, heard>>
operator == <<setting, under>>
application == <<registered, claim, mapped, redirects, attributes, ownRole>>
serviceprincipal == <<principal, required, ties, policies>>
bounds == <<changes, faults>>
vars == <<resource, operator, groups, application, serviceprincipal,
          assignments, cached, pc, tx, bounds>>

Tie == {"grant", "owner", "spowner"}
Platform == {"web", "spa"}
DefaultUris == {"clientId", "name"}
OptionalClaims == {"idtyp", "sid"}
Attribute == DefaultUris \cup OptionalClaims \cup {"other"}

NoTx == [edition |-> 0, marks |-> 0, exists |-> FALSE, todo |-> {},
         found |-> {}, policies |-> {}, assign |-> {}, revoke |-> {}]

Role == {"default", "own"}

(* The application is not there yet, or azurerator takes over one that     *)
(* somebody else has made, has opened to everybody or not, and has given   *)
(* a policy, roles and assignments.  Under a role of its own these outlive *)
(* the role.                                                               *)
Init ==
  /\ edition = 1 /\ status = 0
  /\ marks = 0 /\ heard = 0
  /\ setting = 1 /\ under = 0
  /\ groups = Group
  /\ mapped = FALSE
  /\ ties = {}
  /\ \/ /\ registered = FALSE /\ principal = FALSE /\ required = FALSE
        /\ claim = "unset"
        /\ redirects = {} /\ attributes = {} /\ ownRole = FALSE
        /\ policies = {}
        /\ assignments = {}
     \/ /\ registered = TRUE /\ principal = TRUE /\ required \in BOOLEAN
        /\ claim \in {"unset", "All"}
        /\ redirects = {"web"} \X Url /\ attributes = {"other"}
        /\ ownRole \in BOOLEAN
        /\ policies = {} \/ \E p \in Foreign : policies = {p}
        /\ \E them \in {{}, Group}, role \in Role :
             assignments = {<<u, IF ownRole THEN "own" ELSE "default">> : u \in User}
                             \cup {<<g, role>> : g \in them}
  /\ cached = {}
  /\ pc = "idle"
  /\ tx = NoTx
  /\ changes = 0
  /\ faults = 0

----------------------------------------------------------------------------
(* Users, administrators and time. *)

EditSpec ==
  /\ edition < Len(Specs)
  /\ edition' = edition + 1
  /\ UNCHANGED <<status, marks, heard, operator, groups, application,
                 serviceprincipal, assignments, cached, pc, tx, bounds>>

Change ==
  /\ changes < MaxChanges
  /\ changes' = changes + 1
  /\ UNCHANGED <<edition, status, heard, operator, application,
                 serviceprincipal, cached, pc, tx, faults>>

(* The annotation azure.nais.io/resync. *)
AskForSynchronization ==
  /\ Change
  /\ marks' = marks + 1
  /\ UNCHANGED <<groups, assignments>>

(* Entra ID removes the assignments of a group that is deleted.            *)
DeleteGroup(g) ==
  /\ Change
  /\ g \in groups \ AllUsers
  /\ groups' = groups \ {g}
  /\ assignments' = {a \in assignments : a[1] # g}
  /\ UNCHANGED marks

(* Mutant: what is in the cache stays there. *)
NeverExpire(g) == FALSE /\ UNCHANGED vars

(* Entries expire after 24 hours. *)
ExpireGroup(g) ==
  /\ g \in cached
  /\ cached' = cached \ {g}
  /\ UNCHANGED <<resource, operator, groups, application, serviceprincipal,
                 assignments, pc, tx, bounds>>

(* A new configuration comes with a restart, which forgets pass and cache. *)
Reconfigure ==
  /\ setting < Len(Settings)
  /\ setting' = setting + 1
  /\ cached' = {}
  /\ pc' = "idle"
  /\ tx' = NoTx
  /\ UNCHANGED <<resource, under, groups, application, serviceprincipal,
                 assignments, bounds>>

----------------------------------------------------------------------------
(* What settings and spec want. *)

Enabled(f) == f \in Settings[setting].features

WantedGroups(e, s) ==
  Specs[e].groups \cup
    (IF "required" \in Settings[s].features /\ Specs[e].allowAllUsers
     THEN AllUsers ELSE {})

Goto(step) == pc' = step

(* The parts of process that come after the ownerships, if enabled. *)
AfterPolicies == IF Enabled("groups") THEN "lookup"
                 ELSE IF Enabled("required") THEN "require" ELSE "complete"
AfterOwners == IF Enabled("policies") THEN "claims" ELSE AfterPolicies
AfterGroups == IF Enabled("required") THEN "require" ELSE "complete"

----------------------------------------------------------------------------
(* The application and its service principal. *)

Prepare ==
  /\ pc = "idle"
  /\ status # edition \/ heard < marks
  /\ tx' = [NoTx EXCEPT !.edition = edition, !.marks = marks]
  /\ Goto("exists")
  /\ UNCHANGED <<resource, operator, groups, application, serviceprincipal,
                 assignments, cached, bounds>>

(* Mutant: a new principal is open until the pass sets the requirement. *)
RegisterOpenPrincipal ==
  /\ principal' = TRUE
  /\ required' = FALSE
  /\ UNCHANGED <<ties, policies>>

RegisterServicePrincipal ==
  /\ principal' = TRUE
  /\ required' = Enabled("required")
  /\ UNCHANGED <<ties, policies>>

(* A service principal that is missing is registered on the way. *)
Exists ==
  /\ pc = "exists"
  /\ tx' = [tx EXCEPT !.exists = registered]
  /\ IF registered /\ ~principal THEN RegisterServicePrincipal
     ELSE UNCHANGED serviceprincipal
  /\ Goto(IF registered THEN "update" ELSE "register")
  /\ UNCHANGED <<resource, operator, groups, application, assignments, cached,
                 bounds>>

Default(c, otherwise) == IF c = "unset" THEN otherwise ELSE c

(* All redirect URIs are on one platform. *)
RedirectUris(e) ==
  {IF Specs[e].spa THEN "spa" ELSE "web"} \X Specs[e].urls

Register ==
  /\ pc = "register"
  /\ registered' = TRUE
  /\ claim' = Default(Specs[tx.edition].claim, Settings[setting].claim)
  /\ redirects' = RedirectUris(tx.edition)
  /\ attributes' = OptionalClaims
  /\ Goto("principal")
  /\ UNCHANGED <<resource, operator, groups, mapped, ownRole, serviceprincipal,
                 assignments, cached, tx, bounds>>

RegisterPrincipal ==
  /\ pc = "principal"
  /\ RegisterServicePrincipal
  /\ Goto("identifiers")
  /\ UNCHANGED <<resource, operator, groups, application, assignments, cached,
                 tx, bounds>>

(* The client ID is known only now. *)
SetIdentifierUris ==
  /\ pc = "identifiers"
  /\ attributes' = OptionalClaims \cup DefaultUris
  /\ Goto("grant")
  /\ UNCHANGED <<resource, operator, groups, registered, claim, mapped,
                 redirects, ownRole, serviceprincipal, assignments, cached, tx,
                 bounds>>

(* What the spec leaves open stays as it is, if it is set. *)
Update ==
  /\ pc = "update"
  /\ claim' = Default(Specs[tx.edition].claim,
                      Default(claim, Settings[setting].claim))
  /\ attributes' = attributes \cup DefaultUris \cup OptionalClaims
  /\ Goto("redirects")
  /\ UNCHANGED <<resource, operator, groups, registered, mapped, redirects,
                 ownRole, serviceprincipal, assignments, cached, tx, bounds>>

(* One PATCH that fills a platform and empties the other. *)
UpdateRedirectUris ==
  /\ pc = "redirects"
  /\ redirects' = RedirectUris(tx.edition)
  /\ Goto("grant")
  /\ UNCHANGED <<resource, operator, groups, registered, claim, mapped,
                 attributes, ownRole, serviceprincipal, assignments, cached, tx,
                 bounds>>

(* The permission grant, then the ownerships of application and principal. *)
AddIfMissing(tie, next) ==
  /\ pc = tie
  /\ ties' = ties \cup {tie}
  /\ Goto(next)
  /\ UNCHANGED <<resource, operator, groups, application, principal, required,
                 policies, assignments, cached, tx, bounds>>

AddGrantAndOwners ==
  \/ AddIfMissing("grant", "owner")
  \/ AddIfMissing("owner", "spowner")
  \/ AddIfMissing("spowner", AfterOwners)

----------------------------------------------------------------------------
(* The claims-mapping policy. *)

PrincipalStep == UNCHANGED <<resource, operator, groups, application,
                             principal, required, ties, bounds>>

EnableAcceptMappedClaims ==
  /\ pc = "claims"
  /\ mapped' = TRUE
  /\ Goto("policies")
  /\ UNCHANGED <<resource, operator, groups, registered, claim, redirects,
                 attributes, ownRole, serviceprincipal, assignments, cached, tx,
                 bounds>>

GetAssignedPolicies ==
  /\ pc = "policies"
  /\ tx' = [tx EXCEPT !.policies = policies]
  /\ Goto("policy")
  /\ UNCHANGED <<policies, assignments, cached>> /\ PrincipalStep

Desired == Settings[setting].policy

RemovePolicy(p) ==
  /\ pc = "policy"
  /\ p \in tx.policies \ {Desired}
  /\ policies' = policies \ {p}
  /\ tx' = [tx EXCEPT !.policies = @ \ {p}]
  /\ UNCHANGED <<assignments, cached, pc>> /\ PrincipalStep

(* The loop stops at the desired one; what comes behind it stays. *)
KeepPolicy ==
  /\ pc = "policy"
  /\ Desired \in tx.policies
  /\ tx' = [tx EXCEPT !.policies = {}]
  /\ Goto(AfterPolicies)
  /\ UNCHANGED <<policies, assignments, cached>> /\ PrincipalStep

(* Mutant: the desired policy is assigned before the others are removed. *)
AssignPolicyFirst ==
  /\ pc = "policy"
  /\ Desired \notin tx.policies
  /\ policies' = policies \cup {Desired}
  /\ Goto(AfterPolicies)
  /\ UNCHANGED <<assignments, cached, tx>> /\ PrincipalStep

AssignPolicy ==
  /\ pc = "policy"
  /\ tx.policies = {}
  /\ policies' = policies \cup {Desired}
  /\ Goto(AfterPolicies)
  /\ UNCHANGED <<assignments, cached, tx>> /\ PrincipalStep

----------------------------------------------------------------------------
(* Groups. *)

GetGroups ==
  /\ pc = "lookup"
  /\ tx' = [tx EXCEPT !.todo = WantedGroups(tx.edition, setting), !.found = {}]
  /\ Goto("group")
  /\ UNCHANGED <<policies, assignments, cached>> /\ PrincipalStep

(* A group that the cache does not have and that does not exist is skipped *)
(* with a warning; what is found is remembered.                            *)
GetById(g) ==
  /\ pc = "group"
  /\ g \in tx.todo
  /\ \/ /\ g \in cached \cup groups
        /\ tx' = [tx EXCEPT !.todo = @ \ {g}, !.found = @ \cup {g}]
        /\ cached' = cached \cup {g}
     \/ /\ g \notin cached \cup groups
        /\ tx' = [tx EXCEPT !.todo = @ \ {g}]
        /\ UNCHANGED cached
  /\ UNCHANGED <<policies, assignments, pc>> /\ PrincipalStep

(* Only the assignments of groups are looked at. *)
Existing == {a \in assignments : a[1] \in Group}

DesiredAssignments == {<<g, "default">> : g \in tx.found}

(* Mutant: assignments under other roles stay. *)
ListDefaultAssignments ==
  /\ pc = "group"
  /\ tx.todo = {}
  /\ tx' = [tx EXCEPT !.assign = DesiredAssignments \ Existing,
                      !.revoke = {a \in Existing \ DesiredAssignments :
                                    a[2] = "default"}]
  /\ Goto("assign")
  /\ UNCHANGED <<policies, assignments, cached>> /\ PrincipalStep

ListAssignments ==
  /\ pc = "group"
  /\ tx.todo = {}
  /\ tx' = [tx EXCEPT !.assign = DesiredAssignments \ Existing,
                      !.revoke = Existing \ DesiredAssignments]
  /\ Goto("assign")
  /\ UNCHANGED <<policies, assignments, cached>> /\ PrincipalStep

(* group.go: the default role cannot be used while the application has one *)
(* of its own that users may hold.                                         *)
Assign(a) ==
  /\ pc = "assign"
  /\ ~ownRole
  /\ a \in tx.assign
  /\ a[1] \in groups
  /\ assignments' = assignments \cup {a}
  /\ tx' = [tx EXCEPT !.assign = @ \ {a}]
  /\ UNCHANGED <<policies, cached, pc>> /\ PrincipalStep

(* Mutant: what is not wanted goes first. *)
RevokeFirst(a) == TRUE

(* What is missing comes first, then the default role, then other roles.   *)
MayRevoke(a) ==
  /\ tx.assign = {}
  /\ a[2] = "default" \/ \A b \in tx.revoke : b[2] # "default"

Revoke(a) ==
  /\ pc = "assign"
  /\ a \in tx.revoke
  /\ MayRevoke(a)
  /\ a \in assignments
  /\ assignments' = assignments \ {a}
  /\ tx' = [tx EXCEPT !.revoke = @ \ {a}]
  /\ UNCHANGED <<policies, cached, pc>> /\ PrincipalStep

GroupsProcessed ==
  /\ pc = "assign"
  /\ tx.assign = {} /\ tx.revoke = {}
  /\ Goto(AfterGroups)
  /\ UNCHANGED <<policies, assignments, cached, tx>> /\ PrincipalStep

----------------------------------------------------------------------------
(* The end of a pass. *)

SetAppRoleAssignmentRequired ==
  /\ pc = "require"
  /\ required' = TRUE
  /\ Goto("complete")
  /\ UNCHANGED <<resource, operator, groups, application, principal, ties,
                 policies, assignments, cached, tx, bounds>>

(* Roles that the update has disabled are deleted from an application that *)
(* was there before; assignments under them stay.                          *)
RemoveDisabledPermissions ==
  /\ pc = "complete"
  /\ ownRole
  /\ tx.exists
  /\ ownRole' = FALSE
  /\ UNCHANGED <<resource, operator, groups, registered, claim, mapped, redirects,
                 attributes, serviceprincipal, assignments, cached, pc, tx,
                 bounds>>

(* Mutant: the hash is taken of the newest spec. *)
UpdateStatusNewest ==
  /\ pc = "complete"
  /\ ~ownRole
  /\ status' = edition
  /\ under' = setting
  /\ Goto("annotations")
  /\ UNCHANGED <<edition, marks, heard, setting, groups, application,
                 serviceprincipal, assignments, cached, tx, bounds>>

UpdateStatus ==
  /\ pc = "complete"
  /\ ~ownRole
  /\ status' = tx.edition
  /\ under' = setting
  /\ Goto("annotations")
  /\ UNCHANGED <<edition, marks, heard, setting, groups, application,
                 serviceprincipal, assignments, cached, tx, bounds>>

UpdateAnnotations ==
  /\ pc = "annotations"
  /\ heard' = tx.marks
  /\ Goto("idle")
  /\ tx' = NoTx
  /\ UNCHANGED <<edition, status, marks, operator, groups, application,
                 serviceprincipal, assignments, cached, bounds>>

(* A call fails.  While an application is being created, process is        *)
(* repeated from its start as long as time allows; otherwise the pass      *)
(* ends, and the resource is queued again.                                 *)
Fail ==
  \/ /\ ~tx.exists
     /\ pc \notin {"exists", "register", "principal", "identifiers", "complete",
                    "annotations"}
     /\ tx' = [NoTx EXCEPT !.edition = tx.edition, !.marks = tx.marks]
     /\ Goto("grant")
  \/ /\ tx' = NoTx
     /\ Goto("idle")

Abort ==
  /\ pc # "idle"
  /\ faults < MaxFaults
  /\ faults' = faults + 1
  /\ Fail
  /\ UNCHANGED <<resource, operator, groups, application, serviceprincipal,
                 assignments, cached, changes>>

(* The default role cannot be used, or the group has been deleted since it *)
(* was looked up, a day ago at most, or listed among those assigned.       *)
Refused ==
  /\ pc = "assign"
  /\ \/ ownRole /\ tx.assign # {}
     \/ \E a \in tx.assign : a[1] \notin groups
     \/ \E a \in tx.revoke : MayRevoke(a) /\ a \notin assignments
  /\ Fail
  /\ UNCHANGED <<resource, operator, groups, application, serviceprincipal,
                 assignments, cached, bounds>>

----------------------------------------------------------------------------
Pass ==
  \/ Prepare
  \/ Exists
  \/ Register
  \/ RegisterPrincipal
  \/ SetIdentifierUris
  \/ Update
  \/ UpdateRedirectUris
  \/ AddGrantAndOwners
  \/ EnableAcceptMappedClaims
  \/ GetAssignedPolicies
  \/ \E p \in tx.policies : RemovePolicy(p)
  \/ KeepPolicy
  \/ AssignPolicy
  \/ GetGroups
  \/ \E g \in tx.todo : GetById(g)
  \/ ListAssignments
  \/ \E a \in tx.assign : Assign(a)
  \/ \E a \in tx.revoke : Revoke(a)
  \/ GroupsProcessed
  \/ Refused
  \/ SetAppRoleAssignmentRequired
  \/ RemoveDisabledPermissions
  \/ UpdateStatus
  \/ UpdateAnnotations

Next ==
  \/ EditSpec
  \/ AskForSynchronization
  \/ Reconfigure
  \/ \E g \in Group : DeleteGroup(g) \/ ExpireGroup(g)
  \/ Pass
  \/ Abort

Spec == Init /\ [][Next]_vars

(* The work queue: a pass goes on, and what has failed is queued again.    *)
(* The expiry of the cache is a clock.                                     *)
FairSpec ==
  /\ Spec
  /\ WF_vars(Pass)
  /\ \A g \in Group : WF_vars(ExpireGroup(g))

----------------------------------------------------------------------------
(* Properties. *)

Assignment == (Group \cup User) \X Role

Step == Tie \cup {"idle", "exists", "register", "principal", "identifiers",
                  "update", "redirects", "claims", "policies", "policy",
                  "lookup", "group", "assign", "require", "complete",
                  "annotations"}

TxType == [edition : Nat, marks : Nat, exists : BOOLEAN, todo : SUBSET Group,
           found : SUBSET Group, policies : SUBSET Nat,
           assign : SUBSET Assignment, revoke : SUBSET Assignment]

(* The values the variables range over; an assigned group exists, a pass   *)
(* works on an edition that is not older than the status, and leaves no    *)
(* role of the application's own.                                          *)
TypeOK ==
  /\ edition \in 1..Len(Specs) /\ status \in 0..edition
  /\ marks \in 0..changes /\ heard \in 0..marks
  /\ setting \in 1..Len(Settings) /\ under \in 0..setting
  /\ groups \subseteq Group
  /\ registered \in BOOLEAN /\ claim \in Claim /\ mapped \in BOOLEAN
  /\ redirects \subseteq Platform \X Url
  /\ attributes \subseteq Attribute
  /\ ownRole \in BOOLEAN /\ (ownRole => status = 0)
  /\ principal \in BOOLEAN /\ required \in BOOLEAN
  /\ ties \subseteq Tie
  /\ policies \subseteq Nat
  /\ assignments \subseteq Assignment
  /\ \A a \in assignments : a[1] \in groups \cup User
  /\ cached \subseteq Group
  /\ pc \in Step
  /\ tx \in TxType
  /\ tx.edition <= edition /\ tx.marks <= marks
  /\ pc # "idle" => tx.edition # 0 /\ tx.edition >= status
  /\ changes \in 0..MaxChanges /\ faults \in 0..MaxFaults

(* What the state in Entra ID may come from. *)
RecentEditions == {e \in 1..edition : e >= status}
RecentSettings == {s \in 1..setting : s >= under}
AssigningGroups == \A s \in RecentSettings : "groups" \in Settings[s].features

(* A group that an edition has dropped, that somebody else has assigned,   *)
(* or that is only there for all users, is not assigned once a pass has    *)
(* completed without it (group.go, processFor), whatever failed before.    *)
GroupsAuthorized ==
  status # 0 /\ AssigningGroups =>
    \A a \in assignments :
      a[1] \in Group =>
        /\ a[2] = "default"
        /\ \E e \in RecentEditions, s \in RecentSettings :
             a[1] \in WantedGroups(e, s)

(* Who may sign in. *)
MaySignIn(p) ==
  /\ principal
  /\ p \in groups \cup User
  /\ required => \E a \in assignments : a[1] = p

(* Nobody is locked out on the way: a group that every recent edition and  *)
(* setting lets in, and a user whom somebody else has assigned, may sign   *)
(* in at all times, also when an open principal is closed (process: groups *)
(* come before SetAppRoleAssignmentRequired).                              *)
SignInKept ==
  [][AssigningGroups /\ AssigningGroups' =>
       /\ \A g \in groups \cap groups' :
            /\ MaySignIn(g)
            /\ \A e \in RecentEditions \cup RecentEditions',
                  s \in RecentSettings \cup RecentSettings' :
                 g \in WantedGroups(e, s)
            => MaySignIn(g)'
       /\ \A a \in assignments : a[1] \in User => a \in assignments']_vars

(* With the requirement on, no principal is ever open that was not open    *)
(* before, between its registration and the last call of process.          *)
NeverOpened ==
  [][principal' /\ ~required' /\ Enabled("required") =>
       principal /\ ~required]_vars

(* policies.go: "a ServicePrincipal can only have one assignedPolicy", and *)
(* client.go: acceptMappedClaims "is required for the claims mapping       *)
(* policies to work": Entra ID refuses neither, wherever a pass has ended. *)
PoliciesAccepted ==
  [][/\ Cardinality(policies') <= 1
     /\ policies' \subseteq policies \/ mapped]_vars

(* What spec and settings ask for.  Groups that do not exist are skipped.  *)
Exact ==
  /\ registered /\ principal /\ ties = Tie
  /\ \/ claim = Specs[edition].claim
     \/ Specs[edition].claim = "unset" /\ claim # "unset"
  /\ redirects = RedirectUris(edition)
  /\ DefaultUris \cup OptionalClaims \subseteq attributes
  /\ Enabled("policies") => policies = {Desired} /\ mapped
  /\ Enabled("groups") =>
       Existing = {<<g, "default">> : g \in groups \cap WantedGroups(edition, setting)}
  /\ Enabled("required") => required

(* A wanted group that exists needs the default role, which cannot be used *)
(* (the TODO in group.go): every pass fails there.                         *)
Blocked ==
  /\ ownRole /\ Enabled("groups")
  /\ \E g \in groups \cap WantedGroups(edition, setting) :
       <<g, "default">> \notin assignments

(* Unless it stays blocked, every edition is carried out in the end, under *)
(* the settings of the pass that does, though a policy was removed and     *)
(* none assigned, though deleted groups are still in the cache and their   *)
(* assignment fails, and though a role of the application's own goes.      *)
EventuallyExact ==
  <>[](Blocked \/ (status = edition /\ (under = setting => Exact)))

(* The status is true: when its hash is that of the spec, nobody has asked *)
(* for a pass, and the settings have not changed (process.go), everything  *)
(* is as spec and settings want it, also when passes failed half-way,      *)
(* groups were deleted, or the operator was restarted.                     *)
SynchronizedExact ==
  pc = "idle" /\ status = edition /\ heard = marks /\ under = setting => Exact
================================================================================
