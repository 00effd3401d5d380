# A TLA+ model of azurerator

azurerator is a Kubernetes operator. For every `AzureAdApplication` resource it
registers an application in Entra ID (Azure AD), keeps it in line with the
resource's spec, gives it credentials, and writes these to the Secret that the
resource names, so that the application's pods can mount it. This directory
holds TLA+ models of it, the TLC runs that check them, and proofs.

## The system

| Part | Source | State it keeps | What it does |
| --- | --- | --- | --- |
| Controller | `controllers/azureadapplication` | the resource's status and annotations | `Reconcile`: one pass over one resource, from `Prepare` to `Complete` |
| Transaction options | `pkg/transaction/options`, `pkg/customresources` | none | decide from status, annotations, age and Secrets what the pass does |
| Secrets reconciler | `pkg/reconciler/secrets`, `pkg/secrets` | the managed Secrets | list with the pods, read the latest set and the key ids in use, write, delete unused |
| Credentials client | `pkg/azure/client/{credentials,keycredential,passwordcredential}` | passwords and certificates in Entra ID | add, rotate, validate, delete expired or unused, purge |
| Azure reconciler | `pkg/reconciler/azure` | none | create, update or leave the application; produce events; orphans |
| Azure client | `pkg/azure/client` | the application, its service principal, roles, policies, groups, owners | the Graph calls of create, update and delete |
| Finalizer | `pkg/reconciler/finalizer` | the resource's finalizer | delete the application, or purge its credentials, with the resource |
| Synchronizer | `pkg/synchronizer` | the `azure.nais.io/resync` annotation | marks the resources that pre-authorize an application that was created or updated |
| Sweeper | `pkg/synchronizer` | a cache of lookups | periodically marks what the events missed |
| Permissions | `pkg/azure/permissions`, `approle`, `permissionscope` | roles and scopes in Entra ID | create, keep, disable, then delete |
| Pre-authorized apps | `preauthorizedapp`, `approleassignment`, `serviceprincipal` | assignments | resolve, assign, revoke |
| Groups and policies | `group`, `serviceprincipal`, `owners`, `oauth2permissiongrant` | a cache of groups; assignments, the claims-mapping policy, the assignment requirement and owners in Entra ID | look groups up, assign and revoke them, replace the policy, set the requirement |

The parts interact through three shared states: the resource in the cluster
(spec, status, annotations, finalizers), the Secrets and pods, and Entra ID.
Nothing locks them: one worker takes a resource from the work queue and makes
calls to both sides, each of which may fail, while users edit, pods start and
stop, and events of other resources add annotations.

**What is hard.** Every decision of a pass rests on what it read at its start.
Between two of its calls anything may have changed, and any call may be its
last: the context times out, the operator stops, a status update conflicts. The
next pass starts over from what is left, without a log. Revocation is the
dangerous operation: what it should spare is known from a listing of pods and
Secrets, from the latest set of credentials, and from a rule about the newest
key, and each of these may be out of date or incomplete.

What makes each part correct:

* credentials: nothing a pod is offered or the next pass relies on is revoked;
  what nobody needs is; a request for rotation is answered once;
* resource and status: the status is true; every change is carried out in the
  end;
* deletion: nothing is left in Entra ID; a resource is not stuck;
* events: a changed client ID reaches everyone who pre-authorizes it;
* permissions: identifiers are stable, nothing enabled or granted is deleted;
* access: whoever is listed keeps it without interruption, nobody else has it;
* sign-in: so with groups; no principal is opened on the way, nobody locked out.

## Modules

| Module | Models | Checked by | Proofs |
| --- | --- | --- | --- |
| `Credentials` | one resource, its Secrets, pods and credentials, through any number of passes | `MCCredentials` | `CredentialsProofs`, `RotationProofs` |
| `Resync` | several resources, the events between them and the sweeper | `MCResync` | `ResyncProofs` |
| `Custody` | what a resource and its application are to each other: the abstract specification of `Lifecycle` | `ImplementsCustody` in `MCLifecycle` | in the module |
| `Lifecycle` | one resource from creation to deletion, one operator for each tenant | `MCLifecycle` | `LifecycleProofs` |
| `Access` | the permissions of one application, and which other applications have them | `MCAccess` | `AccessProofs`, `AuthorizationProofs` |
| `Principal` | the rest of the application and its service principal: groups, policy, requirement, claims, URIs | `MCPrincipal` | `PrincipalProofs` |

The five modules look at the same `Reconcile` from five sides. Each keeps the
calls of a pass in the order of the code, and takes together what its
properties cannot tell apart: `Credentials` takes creation and update as one
step (`ProcessAzure`), `Resync` takes everything but client IDs away,
`Lifecycle` only asks what kinds of credentials there are and whose they are, `Access`
and `Principal` spell out the calls of `Create`, `Update` and `process` that the
others take together, the one what concerns other applications, the other what
concerns users and groups. Every
read or write of the cluster or of Entra ID is an action, the work between two
of them is part of the action before or after. `tx` is `transaction.Transaction`:
what the pass has read and decided. `pc` names the next call. `Abort` gives a
pass up at any `pc`: it stands for a failed call, the context timeout
(`azureadapplication_controller.go:84`), a conflict and a restart, all of which
forget `tx` and keep everything else.

### Credentials

| In the model | In the code |
| --- | --- |
| `spec`, `status`, `rotate`, `aged` | `Spec`, `Status.Synchronization*`, the annotation `azure.nais.io/rotate`, `SynchronizationSecretRotationTime` against `secret-rotation.max-age` |
| `passwords`, `keys` | `passwordCredentials`, `keyCredentials` of the application |
| `secrets[s]` | the managed Secret, with the key prefix it was written with, its current and its next set |
| `pods` | a pod labelled `app=<name>`, the Secret it mounts, the credential its process has read |
| `Prepare` | `Prepare` of the controller: `transaction/secrets`, `LatestCredentials`, the used key ids, the options |
| `DeleteExpiredCredentials`, `ValidateCredentials` | the calls of the same names in `pkg/azure/client/credentials.go` |
| `DeleteUnusedSecret` | `DeleteUnused` of the secrets reconciler, one Secret at a time |
| `DeleteUnusedCredentials` | `DeleteUnused` of the credentials client, with the flag `secret-rotation.cleanup` |
| `AddCurrentPassword`, `AddNextPassword`, `RotatePasswords`, `PatchKeys` | `Add` and `Rotate`: passwords are calls of their own, certificates one PATCH of the whole list |
| `Spared` | `filterRevokedKeys`, `revocationCandidates` |
| `CreateOrUpdateSecret`, `UpdateStatus`, `UpdateAnnotations` | `createOrUpdate`, and the two halves of `Complete` |

A password and a certificate that are created together are one number.
Secret names and prefixes are numbers in order of use. Assumed of users and
cluster: a name or a prefix is never used a second time; a pod starts with the
name of the spec, or with that of a pod that is still there (a replica of an
older rollout). A resynchronization annotation has the effect of a changed
spec. An error in removing a password is swallowed by the code
(`passwordcredential.go:164`); here the password stays, and it counts as a fault.

### Resync

`App` are the resources of this cluster, `Remote` the apps of others; a client
ID is the count of registrations. `resync` is the annotation as the queue that
`pkg/annotations` makes of it, with its rule against a repeated last entry.
`Pass(a)` is a pass of `a`; passes of different resources interleave freely
(`max-concurrent-reconciles` is 10 by default). `goroutines` are the calls of
`produceEvent`, `ListResources` and `MarkForResync` the two loops of
`Synchronize`, `EventFails` its retry and its end after five minutes; `FindDeleted`
is the candidate that is gone when its turn comes, which ends the loop with an
error. A resource of `Replaceable` may be deleted, the application with it
(`DeleteResource`), and later created anew (`CreateResource`), while events that
list it or speak of it are under way; `present` are the resources that are there. `Sweep` is
`sweeper.go` with its `resolveCache`. A pass that only time sets off, without a
change for Entra ID, sends no event and is left out.

### Lifecycle

`queue[t]` is the work queue of the operator of tenant `t`: "now" holds the
resource, "later" has it as a timer (`RequeueAfter`), and events that arrive
during a pass are kept, as controller-runtime does. Status updates are filtered
by the event predicate, so only changes of spec, annotations, finalizer and
deletion put the resource back into the queue. `NotAddressedTo` is the tenant
option; `ProcessOrphaned`, `RegisterFinalizer`, `Finalize`, `RemoveFinalizer`
and the passage from `create` to `annotations` follow `Reconcile`. The purge of
a preserved application is two calls, `PurgePasswords` and `PurgeCertificates`. Of
the passwords any may stay: `remove` logs a refusal and reports success
(`passwordcredential.go:164`). Such passwords are "refused" in `creds`, which counts as
a fault; a later pass may remove them, or find them still there. Annotations can be
changed on a resource that is being deleted, while the finalizer decides on the
copy that its pass has read (`finalizer.go:69`).
`Vanish` is the API server's removal of the resource, with its Secret, which
the resource owns. `entra[t]` tells which of the calls of `Create` and `Update`
an application has behind it. Owners, grants, pre-authorized apps, policies and
groups are one call, `ProcessApplication`; `Access` and `Principal` have a closer
look at it.

`wish` has no counterpart in the code: it remembers what the user last said
with the annotation `azure.nais.io/preserve`, so that properties can compare it
with what the operator does. It is "either" in two cases, in which both outcomes are
taken for right until a later pass has read the annotation: a new resource takes the
name of one whose application was to stay, or the user changes the annotation when a
pass has already read the deleted resource without the change. The second case is
more than a matter of words, see the table under *Disagreements*.

`Custody` says what all this is for, in eleven actions without a pass: a
resource is held before it has an application, only its end ends the
application, and it is not let go while something is left that should not be.
Passwords whose removal was refused are all that may be left of the credentials.
`ImplementsCustody` is its instance in `Lifecycle`:

| In `Custody` | In `Lifecycle` |
| --- | --- |
| `resource` | "none" without a resource, "free" without finalizer, "ending" once it is deleted, "held" otherwise |
| `keep` | the user has asked in time for the application to be preserved: `wish = "keep"` |
| `application`, `credentials` | what is in Entra ID, in any tenant |
| `Hold`, `Release` | `RegisterFinalizer`, `RemoveFinalizer` |
| `Register`, `Equip` | `RegisterApplication`, `AddCredentials` |
| `Unregister`; `Purge` | `Finalize` of an application; `PurgePasswords` and `PurgeCertificates` |
| `Lose`, `Create`, `Delete`, `DeleteFree`, `AskToKeep` | what others do |
| a step of none | reading, validating, updating, Secrets, status, annotations, the queue, `Abort` |

### Access

| In the model | In the code |
| --- | --- |
| `Rules[edition]` | `spec.preAuthorizedApplications`: the peers listed, with their scopes and roles |
| `roles`, `scopes` | `appRoles` and `api.oauth2PermissionScopes` of the application; the generation stands for the UUID |
| `preauth`, `assignments` | `api.preAuthorizedApplications`, and `appRoleAssignedTo` of the service principal |
| `peers` | other applications, managed by azurerator or not, and how often each was registered |
| `marks`, `heard` | resynchronizations that events ask for; that none is lost is what `Resync` is about |
| `Register`, `Update` | the POST, or the first PATCH, with `DescribeUpdate` of roles and of scopes |
| `MapDesiredPreAuthorizedApp`, `PatchPreAuthorizedApplications` | `preauthorizedapp.go`, with the grants of unmanaged applications kept |
| `ListAssignments`, `Assign`, `Revoke` | `processFor` in `approleassignments.go`, one call at a time |
| `RemoveDisabledPermissions` | the last PATCH of `Update` |
| `Fail` | an error: in `Create` the call of `process` is repeated (`doRetry`), otherwise the resource is queued again |

The two built-in permissions, a scope and a role, are one, `Default`, and the
application itself, which is always among its own peers, is not a peer of its
own: both are always wanted. Roles are processed in Go's map order; in the
model the assignments of different enabled roles may even alternate. Entra ID's
refusals are not guards of the model: that it has nothing to refuse is
`PatchesAccepted`. Of Entra ID it is assumed that a deleted application loses its
assignments and keeps its place in lists of pre-authorized applications, as the
comments in `preauthorizedapp.go` and `approleassignments.go` say.

### Principal

| In the model | In the code |
| --- | --- |
| `Specs[edition]` | `spec.claims.groups`, `allowAllUsers`, `groupMembershipClaims`, `replyUrls`, `singlePageApplication` |
| `Settings[setting]` | the flags `groups-assignment`, `app-role-assignment-required`, `claims-mapping-policies` and the default claim; `AllUsers` is `all-users-group-id` |
| `ownRole` | among `appRoles` there is one that azurerator has not made, with "User" among its `allowedMemberTypes` |
| `claim`, `redirects`, `attributes`, `mapped` | `groupMembershipClaims`, the redirect URIs of both platforms, identifier URIs with optional claims, `acceptMappedClaims` |
| `required`, `ties`, `policies`, `assignments` | `appRoleAssignmentRequired`; the permission grant and the two ownerships; the claims-mapping policies; `appRoleAssignedTo`, under the default role or one of the application's own |
| `groups`, `cached` | the groups in Entra ID, and `groupCache` |
| `Register` ... `SetIdentifierUris`, `Update`, `UpdateRedirectUris` | the calls of `Create` and `Update` before `process` |
| `AddGrantAndOwners` to `SetAppRoleAssignmentRequired` | `process`, in its order; `AfterOwners`, `AfterPolicies` and `AfterGroups` are its `if`s |
| `GetById` | `getById` in `group.go`, with the cache and with groups that do not exist |
| `RemovePolicy`, `KeepPolicy`, `AssignPolicy` | the loop in `policies.go` |
| `RemoveDisabledPermissions` | the last PATCH of `Update`, which removes such a role |
| `Refused` | an assignment that Entra ID refuses, and the end of the pass |
| `Fail` | as in `Access` |

A setting changes with a restart, which forgets the running pass and the cache.
Somebody else may have made the application before azurerator takes it over,
opened its principal to everybody, assigned users and groups, under roles of
its own, and given it a policy. `under` has no counterpart in the code: it
remembers the settings of the last completed pass, since a change of settings
sets off no pass of its own. A group that is wanted and does not exist is
skipped; the all-users groups always exist. Of Entra ID it is assumed that a
deleted group loses its assignments, and that an assignment of a group that is
gone, or the removal of one that is gone, is refused. While the application has a
role of its own that users may hold, the default role cannot be assigned, as the comment in
`group.go:54` says; assignments that are there stay, and they outlive their role
(`application.go:233`). A pass that has nothing to assign then comes to its end and removes the
role. Any other pass is `Refused`, and so is its retry, since the role goes only at the end: `Blocked`.

## Runs

`Disturbances` names the kinds of things users and
time do in a run; every one of them counts towards one bound.

| Run | Bounds | Distinct states | Shows |
| --- | --- | --- | --- |
| `credentials_safety` | 2 pods, 3 names, 1 foreign credential, all disturbances, 2 of them, 1 fault | 520,000 | `TypeOK`, `MountedCredentialsKept`, `LoadedSecretsKept`, `LatestSetKept`, `StatusNamesSecret`, `RotationAnswered` |
| `credentials_rollout` | 2 pods, 3 names, changes of name and spec, 3 of them, no faults | 29,000 | `ZeroDowntime`, `SecretsAdvance` |
| `credentials_live` | 1 pod, 2 names, all disturbances, 2 of them, 1 fault | 184,000 | `EventuallyDelivered`, `LeftoversRevoked` |
| `resync_events` | 2 apps that list each other and themselves, no sweep, 2 edits, no faults | 401,000 | `TypeOK`, `MarksHeard`, `EventuallyAssigned`, `EventuallyQuiet` |
| `resync_sweep` | a lists b and the remote r, the sweeper, 1 replacement of a or r, 1 fault | 495,000 | `UnassignedFound`, `RemoteFollowed` |
| `lifecycle_safety` | 1 tenant, 2 creations, 3 disturbances out of edit, revert, preserve, lose, 2 faults | 310,000 | `TypeOK`, `NothingLeft`, `OnlyRefusedLeft`, `PreservedKept`, `ImplementsCustody` |
| `lifecycle_live` | 2 tenants, one of which wants the tenant to be named, 2 disturbances out of tenant, preserve, unpreserve, 1 fault, orphans are cleaned up | 539,000 | `EventuallyConfigured`, `EventuallyGone`, `OrphansCleanedUp` |
| `access` | 2 permissions, 2 managed peers, 1 unmanaged, 3 editions, 2 registrations or deletions of peers, 1 fault | 349,000 | `TypeOK`, `SameIdentifier`, `PatchesAccepted`, `AccessKept`, `OthersKept`, `GrantsAuthorized`, `SynchronizedExact`, `EventuallyExact` |
| `principal` | 2 groups and an all-users group, 1 user, 2 editions, 2 settings, 1 deleted group or asked-for synchronization, 1 fault | 446,000 | `TypeOK`, `GroupsAuthorized`, `SignInKept`, `NeverOpened`, `PoliciesAccepted`, `SynchronizedExact`, `EventuallyExact` |

Why these bounds: two pods are enough for one to be on an old Secret while
another starts with the new one, and a third Secret name for the set of the
first to be two generations old, which is where the rule about the newest key
no longer helps. One fault leaves a half-done pass, and the passes after it are
not bounded. A foreign credential exercises the guard against revoking what
azurerator did not make. In `Resync` two apps produce every order of
registration, resolution, event and mark; a third only adds independent copies
of the pair, except in the goroutine's list, which handles its apps one by one.
In `Lifecycle` the second creation meets what the first left behind, and two
faults let a retry fail, too. In `Access` the three editions of `MCAccess` keep,
drop, swap and bring back permissions, so that one of them is deleted and made
again under a new identifier, and two changes replace a peer. In `Principal` the
second edition drops a group, the all-users groups and the redirect URI, and
leaves the claim open, and the second settings introduce the requirement and
replace the policy, so that a principal that is open, has a foreign policy or
foreign assignments has to be brought there without locking anybody out. In half
of the initial states of a foreign application it has a role of its own, too, with groups under that role, under the default
one or without any; the one change takes a group away that may be cached. With `App <- Trio`,
`Desired <- ToThird` (`MCResync`), `Remote = {}`, `Replaceable = {"a"}`, no sweeper and no faults, TLC finds `EventuallyAssigned` true
where one of two candidates of an event is deleted before its turn (27,600
states); the listed runs have one candidate each. The proofs below remove the bounds of the safety
properties they cover.

`lifecycle_*`, `resync_*`, `access` and `principal` do not check for deadlock: an operator with an
empty work queue, no timer and no user is at rest, and may be for ever.
`Credentials` has no such state, since every pass is followed by another one
and `Prepare` is always possible.

### Fairness

* `WF(Reconcile)`, `WF(Pass(a))` and, in `Access` and `Principal`, `WF(Pass)`: every pass ends in `RequeueAfter`, `Requeue`
  or an error, so controller-runtime hands the resource out again, and a worker
  that runs makes its next call. Failed calls are `Abort`, which is not fair and
  is bounded: liveness is claimed for when failures stop.
* `WF(RequeueAfter(t))`: timers of the work queue run out.
* `WF(Synchronize(g))`: a goroutine that is alive runs; `EventFails` and
  `Restart` may end it.
* `WF(Sweep)`, `WF(ExpireEntry(b))`: the ticker of the sweeper and the expiry of
  its cache are clocks.
* `WF(ExpireGroup(g))`: so is the expiry of the cache of groups.
* `WF(b \notin registered /\ RegisterRemote(b))`: another cluster's operator
  registers its apps in the end. Without this nothing could be claimed of
  remote apps that are waited for; their replacement is not fair.

Nothing is assumed of users, pods, deletions or failures.

### Disagreements

Three runs end in a violation, each of a sentence the repository says about itself.

* `credentials_next_revoked`: the documentation promises that sets of credentials
  in Secrets that pods use are not revoked (`docs/lifecycle.md:288`). The code
  collects the *current* key ids only. After two changes of the secret name the
  next credential of a mounted Secret is revoked. The current one never is:
  that is `MountedCredentialsKept`, which holds.
* `credentials_rotate_in_place`: rotation by annotation rewrites the Secret that
  pods already read. The end of that pass removes the annotation, which is
  an event, and the pass it sets off revokes the previous current credential
  while running processes hold it, contrary to "zero-downtime"
  (`docs/lifecycle.md:53`). Rotation by a new name is without downtime: that is
  `credentials_rollout`.
* `resync_lost`: a mark that equals the last entry of the annotation is dropped,
  also when a running pass has read that entry and looked the app up before
  it changed. `Complete` then removes the entry. The app keeps an old client
  ID, and the sweeper skips apps of its own cluster (`sweeper.go:38`).

More was seen with these modules, and can be reproduced by changing
constants of the configurations named, or the property as the first column says, and checking
that property alone:

| Change | Violated | Why |
| --- | --- | --- |
| `MCCredentialsRollout` with `MaxFaults = 1` | `ZeroDowntime`, `SecretsAdvance` | the first status update fails after the Secret was written: the retry has no latest set, adds new credentials and rewrites the Secret (`azureadapplication_controller.go:281`) |
| `MCCredentialsSafety` with `MountedCredentialsKept` stated without `Readable` | it | a change of `secretKeyPrefix` makes mounted Secrets unreadable (`secrets.go:54`), and their current credential is no longer known to be in use |
| `MCLifecycleSafety`, `Tenant <- Two`, `RequiresTenant <- OnlySecond`, `Disturbances = {"tenant"}` | `NothingLeft` | the tenant is checked before the finalizer (`azureadapplication_controller.go:101`): the operator of the new tenant finalizes a resource that moved, while that of the old one may still be registering it; without `CleanupOrphans` the application it has already stays in any case (`docs/lifecycle.md:314`) |
| `MCLifecycleSafety`, `Tenant <- Two`, `Disturbances = {}` | `NothingLeft` | where no operator wants `spec.tenant`, a resource without one belongs to both operators, which share its finalizer |
| `MCLifecycleSafety`, `Disturbances = {"preserve", "unpreserve"}` | `NothingLeft` | an annotation that the user removes during a pass is written back by it (`azureadapplication_controller.go:351`) |
| `MCLifecycleSafety` with `OnlyRefusedLeft` stated as `~exists => creds = {}` in every tenant | it | the removal of a password fails, the error is ignored (`passwordcredential.go:164`), and the finalizer goes: a preserved application keeps a working password, although `Purge` "removes all credentials" (`pkg/azure/client/credentials.go:104`) |
| `MCLifecycleSafety` with `PreservedKept` stated with `~preserve` for `wish # "keep"` | it | a pass has read the deleted resource, the user adds the annotation, and the finalizer deletes the application on its older copy (`finalizer.go:69`), although the annotation prevents that (`docs/lifecycle.md:318`) |
| `MCLifecycleSafety`, `Tenant <- Two`, `CleanupOrphans = TRUE`, `Disturbances = {"tenant", "preserve"}` | `PreservedKept` | `ProcessOrphaned` does not ask for the annotation (`pkg/reconciler/azure/azure.go`) |
| `MCLifecycleLive` with `Disturbances = {"lose"}` | `EventuallyConfigured` | an application that somebody deleted is created again, the creation fails halfway, and the next pass finds an application and an unchanged hash (`azure.go:54`) |
| `MCLifecycleLive`, `Tenant <- One`, `RequiresTenant = {}`, `Disturbances = {"edit", "revert"}` | `EventuallyConfigured` | an update fails halfway, the user restores the previous spec, and its hash equals that of the last completed pass, so the half-applied update stays (`process.go:17`). For this reason `MoveToTenant` comes with a new revision, and the editions of `Access` are all different |
| `MCAccess` with `Granted = {"read"}` | `PatchesAccepted` | an unmanaged pre-authorized application has a scope that is no longer wanted: its grant is preserved (`preauthorizedapp.go:192`), and `RemoveDisabledPermissions` asks for the deletion that its comment says Entra ID refuses (`application.go:232`), in every pass from then on |
| `MCLifecycleLive`, `RequiresTenant <- Two`, `Disturbances = {"tenant"}` | `EventuallyGone` | a resource whose tenant was removed belongs to no operator, and none removes its finalizer |
| `MCPrincipal` with `EventuallyExact` stated without `Blocked` | it | an application that azurerator takes over has a role of its own that users may hold, so the default role cannot be assigned to groups; every pass fails there, and the call that would remove the role comes later (`group.go:54`, `client.go:245`). The comment calls for a role that is created for this case; there is none yet |

`Principal` shows four places where documentation and code differ, none of which
is a run:

* `docs/lifecycle.md:231` says that the groups feature enables `AppRoleAssignmentRequired`;
  only the flag of that name does (`client.go:306`).
* `docs/lifecycle.md:240` says that `allowAllUsers` assigns the all-users group; without
  the requirement it is not assigned (`group.go:75`).
* The description of the flag `all-users-group-id` (`config.go:179`) says that the group is
  assigned unless `allowAllUsers` is false; the code wants it to be true (`group.go:81`).
* `docs/lifecycle.md:255` says that the flag sets `AppRoleAssignmentRequired`; switching
  it off never takes the requirement back, and since the all-users groups are wanted only
  with the flag, they are revoked from a principal that still asks for assignments.
  The settings of the run therefore only add features.

## Proofs

Every safety property that a passing run checks is proved, under a hypothesis
where the table above shows that it fails otherwise. TLC alone vouches for
liveness, which is out of the prover's reach: `EventuallyDelivered`, `LeftoversRevoked`,
`EventuallyAssigned`, `EventuallyQuiet`, `UnassignedFound`, `RemoteFollowed`,
`EventuallyConfigured`, `EventuallyGone`, `OrphansCleanedUp` and both `EventuallyExact`.
What a recursive definition computes for every input could not be proved either,
for want of induction over data; the modules here have no recursive definition.

All proofs assume `ConstantsAssumption`, the conjunction of types of the
constants. Unless a hypothesis of the theorem says so, they assume nothing about
the bounds: they hold for any number of pods, names, edits, faults, creations
and disturbances. Every inductive invariant was checked by TLC, on the run of its
module, before it was proved.

### CredentialsProofs

`TypeCorrect`, `MountedKept`, `LoadedKept`, `LatestKept` and `StatusTrue` prove
the five state invariants of `credentials_safety`. `TypeOK` is more than types: the status
never has a revision that the running pass has not read, nor the pass one that the spec
has not had, so a completed pass does not pass for the newest spec. `InvariantHolds` is the
inductive invariant behind them, `IInv`. None of the four safety properties is
inductive, because a revocation trusts what `Prepare` read:

* `Ordered`: names and prefixes are used in order; no Secret is ahead of the pass
  that writes it, and the status is not ahead of that pass.
* `LoadedMounts`, `LoadedSecretsKept`: the Secret of a running pod is there.
* `OfferedCredentialsKept`: the current credential is good in every Secret that is
  mounted, and in the one the spec names, which a pod may mount next.
* `LatestSetKept`, `StatusNamesSecret`: as in the run.
* `Successor`, `SuccessorRead`: a pass that wrote a new Secret and never updated
  the status has left a set that starts where the latest one ends. Its retry
  rotates from the same latest set, arrives at the same current credential, and
  so does not take it from the pods that have the new Secret already.
* `LatestRead`: the latest set of the transaction is still that of the Secret the
  status names, and both its credentials are good.
* `PodsRead`: until the pass writes its Secret, a readable mounted Secret either has
  its current credential among those the pass will spare, or is the one the pass
  is about to write. A Secret that the pass will delete is mounted by nobody.
* `InvalidMeansStale`: a pass for a new name that does not trust the latest set has
  a reason that lasts until the next status update: age, an end date, a prefix or
  a missing Secret. Without this a retry could replace a set that `Successor` relies
  on.
* `Progress`, `RegisteredFirst`: what is registered at each step.

The step lemmas classify every step: disturbances, moves of pods, `Prepare`, and
the steps of a pass by what they leave alone (`Disturbed`, `PodsMoved`, `Passed`).
`NotRevokedKept`, `MountedProtected` and `LatestProtected` are the core: whatever
is in the used or the latest set is spared by both kinds of revocation.

### RotationProofs

These are the action properties of `credentials_safety` and `credentials_rollout`, and
`ZeroDowntime`, on top of `IInv`.

* `RotationIsAnswered` (`RotationAnswered`), with any disturbances and faults. A pass that
  rotates carries a promise through its calls, which `Rotated` follows: two credentials of a set
  are never the same (`Proper`), and from the first new credential on, what the pass
  is going to write, and then has written, is another one than it read (`Replaced`).
* `SecretsDoAdvance` (`SecretsAdvance`) assumes `Calm`: no faults, and users who change
  names and specs and ask for rotations. `Steady` says what calm comes to: the status
  names the last Secret written, and a pass that writes to it again trusts its
  latest set, so it keeps that or moves on to its next credential. The run has no
  rotations; the theorem shows that they break `ZeroDowntime` only.
* `RolloutWithoutDowntime` (`ZeroDowntime`) assumes `Rollout`: nobody asks for rotations
  either. Then a Secret never gets another credential than its first one (`Unasked`), so a running
  process holds the current one of the Secret that it mounts, which `CredentialsProofs` shows
  to be kept.

Both hypotheses are needed: one fault at the first status update breaks both properties
(see the table above), and a rotation in place breaks `ZeroDowntime` (`credentials_rotate_in_place`).

### ResyncProofs

`TypeCorrect` and `MarksAreHeard` are `TypeOK` and `MarksHeard` of the run
`resync_events`, for any apps, wishes, faults and deletions. The invariant:

* `Typed`, `Complete`: types; a resource's status and its pass speak of exactly the apps it asks for.
* `Dated`: nobody knows a client ID, or has read a revision, that is yet to come; a resource that
  is created anew keeps counting.
* `SelfSpared`: an event never marks the app it is about.
* `ReadFirst`: while a pass runs, the annotation begins with what the pass has read of it. Marks
  are only ever appended behind, so that removing what was read removes nothing that was
  not. `AnnotationStep` says this of every step, and `MarksAreHeard` follows at the one that
  empties the annotation. What a mark that was *dropped* loses is another matter, and `resync_lost`.

### LifecycleProofs

`TypeCorrect` holds for any tenants. `DeletionComplete`, `CredentialsPurged` and `PreservedNotDeleted` are the
invariants `NothingLeft` and `OnlyRefusedLeft` and the action property `PreservedKept`. They are about any number of tenants and operators,
under `OneOperator`: there is a single tenant, or resources stay in their tenant and at
most one operator looks after those that do not name one. `DeletionComplete` and `PreservedNotDeleted`
are also without the disturbance "unpreserve", and the latter with orphans left alone; the table above shows how they
fail otherwise. Certificates are purged whatever the user does with the annotation, and passwords unless Entra ID refuses.

The invariant comes in two parts. `HInv` does not look at the user's wish:

* `Known`: an application that a pass has not found is not there when it finalizes, and only
  an application has credentials.
* `Held`: a resource whose finalizer the running pass has read cannot go away under it,
  if the pass is that of the operator that looks after the resource (`Holding`).
  This is what orders registration and deletion: `RegisterFinalizer` ends its
  pass, and only a pass that read the finalizer goes on to Entra ID. The operators of other tenants
  see the resource and the finalizer, too; `Answers` keeps them out.
* `Equipped`: credentials that are not "refused" (`Usable`), in any tenant, have a resource with a finalizer that is addressed to that
  tenant's operator. Before `RemoveFinalizer` they are gone already: after `PurgePasswords` there are certificates
  and refused passwords at most, after `PurgeCertificates` only the latter.

`WInv` does:

* `Owned`: an application that the user does not want to keep has such a resource, too.
* `Wished`: nobody wishes the application away whose annotation is in the resource or was read by a
  running pass.
* `Granted`: an application that is to be kept has the annotation, and a pass of the responsible operator that has
  read the deleted resource has read the annotation with it. An annotation that comes later
  turns the wish into "either" (`Overlooked`), and back into "keep" once a pass has read it and no
  other one is under way without it.

`NothingLeft` alone is not inductive: nothing in it keeps the resource while a
pass is between looking the application up and creating it.

`Implementation` is `ImplementsCustody`, under the assumptions of
`PreservedNotDeleted` and for a single tenant. The invariant above gives every step its counterpart: that
`RegisterApplication` comes from a resource that is held takes `Held`, that
`Finalize` deletes and the two purges happen as the user wishes takes `Wished` and
`Granted`, and that nothing is left at `RemoveFinalizer` takes `Owned`. One more part is
needed, `Custodial`: a pass that is about to register an application has looked and there
is none, so that `Register` of `Custody` applies and no second application hides in the first; and
the user does ask for what the running pass preserves. `AlwaysAnswered` in `Custody` shows what follows for every
implementation: credentials are always those of an application, and all but refused passwords have a
resource that answers for them. Its mapping takes the set of credentials as it is, so the refusals that the code ignores
are in `Custody`, too.

### AccessProofs

`IdentifiersShared` and `NothingRefused` are `SameIdentifier` and `PatchesAccepted` of
the run `access`, for any permissions, peers and editions; the second one is
for `Granted = {}`, since it fails otherwise. The invariant:

* `Identified`: roles and scopes of the same name share an identifier, in Entra ID
  and in what the pass has described.
* `DescribedRead`: from the first PATCH to the last one these two are the same, and
  what the pass's edition wants is enabled.
* `ListedRead`: a pass looks up, and so grants, only what its edition lists.
* `DisabledNotGranted`: once the list of grants is written, no disabled scope is in it.
  This is what the last PATCH relies on, and it takes `DescribedRead` and `ListedRead`
  to see it: a grant of this pass is for a wanted scope, which is enabled.
* `OthersBuiltIn`: the grants that are preserved are of the built-in scope, and that
  one is never disabled.

`PatchesAccepted` does not hold step by step on its own: a pass that starts over after a failure finds
grants of disabled scopes, and only its own second PATCH removes them.

### AuthorizationProofs

The other properties of the run `access`, for any permissions, peers, editions and grants of
others. `IInv` of `AccessProofs` does not say who is in a list, so `JInv` (`AccessInvariant`) goes with it:

* `Counted`, `Generated`, `BuiltInKept`, `Named`: the types of `TypeOK`, with the reason for each. Identifiers are made
  once for an edition (`Settled`), so those of an edition and its retries are the same; a
  grant or an assignment names what was made; an assignment does not outlive its peer. `TypeCorrect`
  follows.
* `Authorized`: what managed peers have comes from some edition since the last completed pass, and from
  the pass's own edition as soon as the pass has written it, except for what it is about to revoke.
  At the status update the recent editions are this one and newer ones, which is where
  `AccessIsAuthorized` (`GrantsAuthorized`) needs the second half.
* `LookedUp`: a peer that was looked up has no access under an identifier that the pass does not
  know. A peer can be deleted and registered again after the lookup, but it then has nothing yet.
* `Planned`: nothing that is desired is among what the pass revokes.

`NoInterruption` (`AccessKept`) is proved from `LookedUp` and `Planned`: what all recent editions
give to a peer is listed by the running one, its identifier is among those looked up, so the
replaced list has the grant and no revocation takes the assignment, and identifiers do not change under it. `NothingTakenFromOthers` (`OthersKept`)
takes `BuiltInKept`.

`StatusIsTrue` (`SynchronizedExact`) has an invariant of its own, `KInv`, since the others say that nothing
is there that should not be, and this one that everything is. Which conditions hold at which call is `WantedEnabled`,
`LookedUpRight`, `GrantsWritten`, `AssignmentsUnderWay`; all of what a pass did is right only if nothing has happened to a
peer since, that is, if there is no newer mark (`Accomplished`). `NothingLeftover` is for
`Create`, which does not remove disabled permissions: there are none. `DueWhileRunning` ties this to the status: a pass that is not
due does not run, and a pass that completes hears only of marks that it had read.

### PrincipalProofs

`TypeCorrect`, `NoOtherGroups`, `OnePolicy`, `NoOpenWindow`, `NobodyLockedOut` and `StatusIsTrue`
are `TypeOK`, `GroupsAuthorized`, `PoliciesAccepted`, `NeverOpened`, `SignInKept` and
`SynchronizedExact` of the run `principal`, for any groups, users, editions and
settings, also such as switch features off. `TypeOK` also says that
no pass completes while the application has a role of its own (`ownRole`), whether or not it is ever removed.

* `NoOtherGroups`: `GroupsAuthorized` is about editions and settings since the last completed pass,
  and it is a pass that completes which makes it hold for fewer of them. `InProgress` says what that
  pass relies on: the groups it looks for are wanted by its edition (`ByPass`); from its listing on, every
  assignment is either so or among those it will revoke; and at its end there are no others. What
  is wanted by the running pass is wanted by a recent edition under recent settings
  (`ByPassPermitted`), so nothing that it assigns on the way breaks the property either.
* `OnePolicy`: while a pass replaces policies, mapped claims are accepted and those in Entra ID
  are among those that it has listed and not yet removed (`PoliciesKnown`), so that there is none when it
  assigns one.
* `NoOpenWindow` holds of every step, without an invariant: only the registration of a
  principal writes `required` to anything but true, and with the feature on it writes true.
* `NobodyLockedOut`: a principal is registered once (`RegisteredOnce`), so none is replaced under those
  who use it. `NoneMissed` is about groups: one that is wanted and exists is looked up or found; when the pass
  plans, each one found is assigned or about to be, and not among what is revoked;
  and all are assigned when the requirement is set, which is the step that closes an open principal.
* `StatusIsTrue`: a pass that has come to its last two calls has left what its edition and the
  settings want (`ExactAtEnd`). `Written`, `Tied`, `PolicySet`, `GroupsSet` and `RequirementSet`
  say from which call on each part of it is right; a repeated `process` starts behind what `Create`
  wrote, and that stays. `PolicySet` takes `PoliciesKnown`: the loop that stops at the desired policy leaves
  it alone there. `GroupsSet` takes `InProgress` for what is not wanted and `NoneMissed` for what is; a group
  that is deleted later takes its assignment with it. `DueWhileRunning` is as in `Access`.

## What is not modelled

* **Errors that do not requeue.** A Secret owned by another resource
  (`azureadapplication_controller.go:254`) and a namespace that is being deleted
  (`:231`) end the pass for good; neither is in the models.
* **Entra ID's consistency.** Lookups are exact. The code retries calls after a
  registration because of replication; a registration whose answer is lost
  would be registered twice, and then `application.go:205` fails for ever.
* **A resource without annotations.** `updateAnnotations` copies into the map of
  the newest resource; the models take an absent map for an empty one.
* **Authentication, configuration, metrics, logging, the layout of Secrets, the
  Graph client library, fakes and fixtures**: no state that a property is about.
* **What a peer is.** Whether an application is managed does not change in `Access`; the
  cache of `IsManaged` (`application.go`), a listed peer that is not managed, and a
  service principal without an application are not in it. A missing
  application makes the listing of assignments fail (`approleassignments.go:97`).
* **Groups that come back.** A group that is created or restored sets off no pass;
  `Exact` speaks of groups that exist, and the run has no creation. An all-users group that does not
  exist makes every pass fail (`group.go:138`). Custom security attributes are a constant that
  every pass writes. Invalid and duplicate redirect URIs are dropped
  (`redirecturi.go:54`), and an empty policy ID means no policy.
* The parts in the plan.

## Plan

1. An abstract specification of the credential store, with sets that are offered,
   used, superseded and revoked, and `Credentials` shown to implement it, by TLC
   first and then by proof, as `Custody` is for `Lifecycle`.
2. `Implementation` for several tenants under `OneOperator`. The mapping would have to change: an
   application that was kept in one tenant may still be there when a resource of
   another tenant is held and released, and `Custody` has one application.
3. The cache of managed applications, and peers that change hands.
4. A composition of `Resync` and `Lifecycle`: a deletion as passes rather than as the one
   step `DeleteResource`, so that marks meet a resource that is half deleted.

The number of runs stays about what it is: further modules bring one or two
each, and related questions are asked in one run.
