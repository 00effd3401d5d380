------------------------------- MODULE Resync -------------------------------
(***************************************************************************)
(* How a client ID reaches the applications that pre-authorize it.         *)
(*                                                                         *)
(* Apps of this cluster have an AzureAdApplication resource, which lists   *)
(* other apps, of this cluster or another, as pre-authorized.  A pass over *)
(* the resource resolves these to client IDs and stores what it found in   *)
(* the status (pkg/azure/client/preauthorizedapp).  When a pass creates or *)
(* updates its own application, a goroutine marks the apps that should     *)
(* look again, in the annotation azure.nais.io/resync, a queue of names    *)
(* (pkg/synchronizer).  A sweeper looks for what the goroutines missed.    *)
(*                                                                         *)
(* A client ID is the number of times the app was registered; 0 is an app  *)
(* that Entra ID does not know.  The hash of a spec is a revision number.  *)
(***************************************************************************)
EXTENDS Naturals, Sequences, FiniteSets

CONSTANTS
  App,              \* apps with a resource in this cluster
  Remote,           \* apps of other clusters
  Desired,          \* Desired[a]: spec.preAuthorizedApplications of a
  Replaceable,      \* apps that may be deleted and created again
  Slot,             \* goroutines that may run at the same time
  Sweeping,         \* the periodic sweep runs
  MaxReplacements,  \* bound on apps deleted and created again
  MaxEdits,         \* bound on edits of specs
  MaxFaults         \* bound on failed calls and restarts

ASSUME ConstantsAssumption ==
  /\ App \cap Remote = {}
  /\ Desired \in [App -> SUBSET (App \cup Remote)]
  /\ Replaceable \subseteq App \cup Remote
  /\ "sweeper" \notin App
  /\ Sweeping \in BOOLEAN
  /\ MaxReplacements \in Nat
  /\ MaxEdits \in Nat
  /\ MaxFaults \in Nat

VARIABLES
  present,       \* the apps whose resource is in the cluster
  registered,    \* the apps Entra ID knows
  born,          \* how many times an app was registered
  rev,           \* the revision of a resource's spec
  resync,        \* the annotation azure.nais.io/resync; <<>> when absent
  status,        \* status.synchronizationHash and status.preAuthorizedApps
  pc,            \* the next step of the pass over a resource
  tx,            \* its transaction
  goroutines,    \* the running calls of produceEvent
  sweep,         \* the running sweep
  cache,         \* the sweeper's resolveCache
  replacements,  \* replacements so far
  edits,         \* edits so far
  faults         \* faults so far

entra == <<registered, born>>
resources == <<present, rev, resync, status>>
passes == <<pc, tx>>
sweeper == <<sweep, cache>>
bounds == <<replacements, edits, faults>>
vars == <<entra, resources, passes, goroutines, sweeper, bounds>>

ClientID(b) == IF b \in registered THEN born[b] ELSE 0

Unassigned(a) == [b \in Desired[a] |-> 0]
NoStatus(a) == [hash |-> 0, assigned |-> Unassigned(a)]
NoTx(a) == [rev |-> 0, resync |-> <<>>, assigned |-> Unassigned(a), todo |-> {}]

(* An event, whether its goroutine has listed the resources, and which of  *)
(* them it has still to mark.                                              *)
NoEvent == [app |-> "none", id |-> 0, listed |-> FALSE, todo |-> {}]

(* What a sweep has still to look up, and the app it is about to mark.     *)
NoSweep == [todo |-> {}, mark |-> {}]
Unknown == [known |-> FALSE, id |-> 0]

Init ==
  /\ present = App
  /\ registered = {}
  /\ born = [b \in App \cup Remote |-> 0]
  /\ rev = [a \in App |-> 1]
  /\ resync = [a \in App |-> <<>>]
  /\ status = [a \in App |-> NoStatus(a)]
  /\ pc = [a \in App |-> "idle"]
  /\ tx = [a \in App |-> NoTx(a)]
  /\ goroutines = [g \in Slot |-> NoEvent]
  /\ sweep = NoSweep
  /\ cache = [b \in App \cup Remote |-> Unknown]
  /\ replacements = 0
  /\ edits = 0
  /\ faults = 0

----------------------------------------------------------------------------
(* The environment. *)

(* A resource is deleted, and by its last pass the application with it.    *)
DeleteResource(a) ==
  /\ a \in Replaceable
  /\ replacements < MaxReplacements
  /\ replacements' = replacements + 1
  /\ a \in present \cap registered
  /\ pc[a] = "idle"
  /\ present' = present \ {a}
  /\ registered' = registered \ {a}
  /\ resync' = [resync EXCEPT ![a] = <<>>]
  /\ status' = [status EXCEPT ![a] = NoStatus(a)]
  /\ UNCHANGED <<born, rev, passes, goroutines, sweeper, edits, faults>>

CreateResource(a) ==
  /\ a \notin present
  /\ present' = present \cup {a}
  /\ UNCHANGED <<entra, rev, resync, status, passes, goroutines, sweeper, bounds>>

(* The operator of another cluster registers an app, or replaces it.       *)
RegisterRemote(b) ==
  /\ IF b \in registered THEN /\ b \in Replaceable
                              /\ replacements < MaxReplacements
                              /\ replacements' = replacements + 1
                         ELSE UNCHANGED replacements
  /\ registered' = registered \cup {b}
  /\ born' = [born EXCEPT ![b] = @ + 1]
  /\ UNCHANGED <<resources, passes, goroutines, sweeper, edits, faults>>

EditSpec(a) ==
  /\ edits < MaxEdits
  /\ edits' = edits + 1
  /\ a \in present
  /\ rev' = [rev EXCEPT ![a] = @ + 1]
  /\ UNCHANGED <<entra, present, resync, status, passes, goroutines, sweeper,
                 replacements, faults>>

----------------------------------------------------------------------------
(* The annotation, a comma-separated list. *)

LastEntry(q) == q[Len(q)]

AddToAnnotation(q, name) ==
  IF q # <<>> /\ LastEntry(q) = name THEN q ELSE Append(q, name)

RemoveFromAnnotation(q) == IF q = <<>> THEN <<>> ELSE Tail(q)

----------------------------------------------------------------------------
(* A pass over the resource of a. *)

Prepare(a) ==
  /\ pc[a] = "idle"
  /\ a \in present
  /\ status[a].hash # rev[a] \/ resync[a] # <<>> \/ a \notin registered
  /\ tx' = [tx EXCEPT ![a] = [NoTx(a) EXCEPT !.rev = rev[a],
                                             !.resync = resync[a]]]
  /\ pc' = [pc EXCEPT ![a] = "register"]
  /\ UNCHANGED <<entra, resources, goroutines, sweeper, bounds>>

(* Register, or Update, which leaves the client ID alone. *)
RegisterApp(a) ==
  /\ pc[a] = "register"
  /\ registered' = registered \cup {a}
  /\ born' = IF a \in registered THEN born
             ELSE [born EXCEPT ![a] = @ + 1]
  /\ tx' = [tx EXCEPT ![a].todo = Desired[a]]
  /\ pc' = [pc EXCEPT ![a] = "resolve"]
  /\ UNCHANGED <<resources, goroutines, sweeper, bounds>>

(* The desired apps are looked up one after another. *)
ResolvePreAuthorizedApp(a) ==
  /\ pc[a] = "resolve"
  /\ \E b \in tx[a].todo :
       tx' = [tx EXCEPT ![a].assigned[b] = ClientID(b), ![a].todo = @ \ {b}]
  /\ UNCHANGED <<entra, resources, pc, goroutines, sweeper, bounds>>

(* The goroutine starts before the status is written. *)
ProduceEvent(a) ==
  /\ pc[a] = "resolve"
  /\ tx[a].todo = {}
  /\ \E g \in Slot :
       /\ goroutines[g] = NoEvent
       /\ goroutines' = [goroutines EXCEPT ![g] =
            [app |-> a, id |-> ClientID(a), listed |-> FALSE, todo |-> {}]]
  /\ pc' = [pc EXCEPT ![a] = "status"]
  /\ UNCHANGED <<entra, resources, tx, sweeper, bounds>>

UpdateStatus(a) ==
  /\ pc[a] = "status"
  /\ status' = [status EXCEPT ![a] = [hash |-> tx[a].rev,
                                      assigned |-> tx[a].assigned]]
  /\ pc' = [pc EXCEPT ![a] = "annotations"]
  /\ UNCHANGED <<entra, present, rev, resync, tx, goroutines, sweeper, bounds>>

(* Mutant: the annotations that the pass has read are written back.        *)
WriteOwnAnnotations(a) ==
  /\ pc[a] = "annotations"
  /\ resync' = [resync EXCEPT ![a] = RemoveFromAnnotation(tx[a].resync)]
  /\ pc' = [pc EXCEPT ![a] = "idle"]
  /\ tx' = [tx EXCEPT ![a] = NoTx(a)]
  /\ UNCHANGED <<entra, present, rev, status, goroutines, sweeper, bounds>>

(* Mutant: the first entry is removed even if the pass has read none.      *)
RemoveUnread(a) ==
  /\ pc[a] = "annotations"
  /\ resync' = [resync EXCEPT ![a] = RemoveFromAnnotation(@)]
  /\ pc' = [pc EXCEPT ![a] = "idle"]
  /\ tx' = [tx EXCEPT ![a] = NoTx(a)]
  /\ UNCHANGED <<entra, present, rev, status, goroutines, sweeper, bounds>>

(* The first entry is removed from the annotation that was read and from   *)
(* the newest one, and what is left of the former overwrites the latter.   *)
UpdateAnnotations(a) ==
  /\ pc[a] = "annotations"
  /\ LET mine == RemoveFromAnnotation(tx[a].resync)
         newest == IF tx[a].resync = <<>> THEN resync[a]
                   ELSE RemoveFromAnnotation(resync[a])
     IN resync' = [resync EXCEPT ![a] = IF mine = <<>> THEN newest ELSE mine]
  /\ pc' = [pc EXCEPT ![a] = "idle"]
  /\ tx' = [tx EXCEPT ![a] = NoTx(a)]
  /\ UNCHANGED <<entra, present, rev, status, goroutines, sweeper, bounds>>

Fault ==
  /\ faults < MaxFaults
  /\ faults' = faults + 1
  /\ UNCHANGED <<entra, resources, replacements, edits>>

AbortPass(a) ==
  /\ Fault
  /\ pc[a] # "idle"
  /\ pc' = [pc EXCEPT ![a] = "idle"]
  /\ tx' = [tx EXCEPT ![a] = NoTx(a)]
  /\ UNCHANGED <<goroutines, sweeper>>

----------------------------------------------------------------------------
(* Synchronize, in a goroutine of produceEvent. *)

(* Mutant: an app that has the event's client ID is marked all the same.   *)
MarkAnyway(a, e) == a # e.app /\ e.app \in Desired[a]

(* Mutant: an app that lists itself is marked, too. *)
MarkSelf(a, e) == /\ e.app \in Desired[a]
                  /\ status[a].assigned[e.app] # e.id

NeedsResync(a, e) ==
  /\ a # e.app
  /\ e.app \in Desired[a]
  /\ status[a].assigned[e.app] # e.id

ListResources(g) ==
  /\ goroutines[g] # NoEvent
  /\ ~goroutines[g].listed
  /\ goroutines' = [goroutines EXCEPT
       ![g].listed = TRUE,
       ![g].todo = {a \in present : NeedsResync(a, goroutines[g])}]
  /\ UNCHANGED <<entra, resources, passes, sweeper, bounds>>

MarkForResync(g) ==
  /\ goroutines[g].listed
  /\ \E a \in goroutines[g].todo \cap present :
       /\ resync' = [resync EXCEPT
                       ![a] = AddToAnnotation(@, goroutines[g].app)]
       /\ goroutines' = [goroutines EXCEPT ![g].todo = @ \ {a}]
  /\ UNCHANGED <<entra, present, rev, status, passes, sweeper, bounds>>

(* A listed resource is gone: those behind it wait for the next attempt.   *)
FindDeleted(g) ==
  /\ goroutines[g].listed
  /\ goroutines[g].todo \ present # {}
  /\ goroutines' = [goroutines EXCEPT ![g].listed = FALSE, ![g].todo = {}]
  /\ UNCHANGED <<entra, resources, passes, sweeper, bounds>>

EventSynchronized(g) ==
  /\ goroutines[g].listed
  /\ goroutines[g].todo = {}
  /\ goroutines' = [goroutines EXCEPT ![g] = NoEvent]
  /\ UNCHANGED <<entra, resources, passes, sweeper, bounds>>

(* A call fails: Synchronize starts over, or gives up after five minutes.  *)
EventFails(g) ==
  /\ Fault
  /\ goroutines[g] # NoEvent
  /\ \/ goroutines' = [goroutines EXCEPT ![g].listed = FALSE, ![g].todo = {}]
     \/ goroutines' = [goroutines EXCEPT ![g] = NoEvent]
  /\ UNCHANGED <<passes, sweeper>>

Synchronize(g) ==
  \/ ListResources(g)
  \/ MarkForResync(g)
  \/ FindDeleted(g)
  \/ EventSynchronized(g)

(* The operator restarts: passes, goroutines, sweep and cache are gone.    *)
Restart ==
  /\ Fault
  /\ pc' = [a \in App |-> "idle"]
  /\ tx' = [a \in App |-> NoTx(a)]
  /\ goroutines' = [g \in Slot |-> NoEvent]
  /\ sweep' = NoSweep
  /\ cache' = [b \in App \cup Remote |-> Unknown]

----------------------------------------------------------------------------
(* The sweeper. *)

(* Mutant: apps of other clusters are left to the events, too.             *)
SweepUnassigned ==
  { [app |-> c[1], dep |-> c[2], id |-> 0] :
      c \in { p \in App \X (App \cup Remote) :
                /\ status[p[1]].hash # 0
                /\ resync[p[1]] = <<>>
                /\ p[2] \in Desired[p[1]]
                /\ status[p[1]].assigned[p[2]] = 0 } }

(* Mutant: only apps of other clusters are looked up. *)
SweepRemote ==
  { [app |-> c[1], dep |-> c[2], id |-> status[c[1]].assigned[c[2]]] :
      c \in { p \in App \X Remote : /\ status[p[1]].hash # 0
                                    /\ resync[p[1]] = <<>>
                                    /\ p[2] \in Desired[p[1]] } }

(* Unassigned apps, and the assigned ones of other clusters.               *)
ToLookUp ==
  { [app |-> c[1], dep |-> c[2], id |-> status[c[1]].assigned[c[2]]] :
      c \in { p \in App \X (App \cup Remote) :
                /\ status[p[1]].hash # 0
                /\ resync[p[1]] = <<>>
                /\ p[2] \in Desired[p[1]]
                /\ status[p[1]].assigned[p[2]] = 0 \/ p[2] \in Remote } }

(* A tick of the timer: the resources are listed. *)
StartSweep ==
  /\ Sweeping
  /\ sweep = NoSweep
  /\ ToLookUp # {}
  /\ sweep' = [NoSweep EXCEPT !.todo = ToLookUp]
  /\ UNCHANGED <<entra, resources, passes, goroutines, cache, bounds>>

Resolve(b) == IF cache[b].known THEN cache[b].id ELSE ClientID(b)

(* One lookup, or one answer of the cache.  The first that calls for it    *)
(* ends the search of this app and has it marked.                          *)
LookUp ==
  /\ sweep.mark = {}
  /\ \E l \in sweep.todo :
       /\ sweep' = IF Resolve(l.dep) \notin {0, l.id}
                   THEN [todo |-> {k \in sweep.todo : k.app # l.app},
                         mark |-> {l.app}]
                   ELSE [sweep EXCEPT !.todo = @ \ {l}]
       /\ cache' = [cache EXCEPT ![l.dep] = [known |-> TRUE,
                                             id |-> Resolve(l.dep)]]
  /\ UNCHANGED <<entra, resources, passes, goroutines, bounds>>

MarkSwept ==
  /\ \E a \in sweep.mark :
       resync' = [resync EXCEPT ![a] = IF @ = <<>> /\ a \in present
                                       THEN <<"sweeper">> ELSE @]
  /\ sweep' = [sweep EXCEPT !.mark = {}]
  /\ UNCHANGED <<entra, present, rev, status, passes, goroutines, cache, bounds>>

(* A lookup or an update fails; the sweep goes on with the next one.       *)
LookUpFails ==
  /\ Fault
  /\ \/ /\ sweep.mark # {}
        /\ sweep' = [sweep EXCEPT !.mark = {}]
     \/ /\ sweep.mark = {}
        /\ \E l \in sweep.todo : sweep' = [sweep EXCEPT !.todo = @ \ {l}]
  /\ UNCHANGED <<passes, goroutines, cache>>

(* An entry is kept for half the time between two sweeps. *)
ExpireEntry(b) ==
  /\ cache[b].known
  /\ cache' = [cache EXCEPT ![b] = Unknown]
  /\ UNCHANGED <<entra, resources, passes, goroutines, sweep, bounds>>

Sweep == StartSweep \/ LookUp \/ MarkSwept

----------------------------------------------------------------------------
Pass(a) ==
  \/ Prepare(a)
  \/ RegisterApp(a)
  \/ ResolvePreAuthorizedApp(a)
  \/ ProduceEvent(a)
  \/ UpdateStatus(a)
  \/ UpdateAnnotations(a)

Environment ==
  \/ \E a \in App : DeleteResource(a) \/ CreateResource(a) \/ EditSpec(a)
  \/ \E b \in Remote : RegisterRemote(b)

Faults ==
  \/ \E a \in App : AbortPass(a)
  \/ \E g \in Slot : EventFails(g)
  \/ LookUpFails
  \/ Restart

Next ==
  \/ Environment
  \/ Faults
  \/ \E a \in App : Pass(a)
  \/ \E g \in Slot : Synchronize(g)
  \/ Sweep
  \/ \E b \in App \cup Remote : ExpireEntry(b)

Spec == Init /\ [][Next]_vars

(* Passes are queued again until they succeed, goroutines run, the timer   *)
(* ticks, cached entries expire, and other clusters register their apps.   *)
FairSpec ==
  /\ Spec
  /\ \A a \in App : WF_vars(Pass(a))
  /\ \A g \in Slot : WF_vars(Synchronize(g))
  /\ WF_vars(Sweep)
  /\ \A b \in App \cup Remote : WF_vars(ExpireEntry(b))
  /\ \A b \in Remote : WF_vars(b \notin registered /\ RegisterRemote(b))

----------------------------------------------------------------------------
(* Properties. *)

TypeOK ==
  /\ present \subseteq App
  /\ registered \subseteq App \cup Remote
  /\ born \in [App \cup Remote -> Nat]
  /\ rev \in [App -> Nat \ {0}]
  /\ resync \in [App -> Seq(App \cup {"sweeper"})]
  /\ \A a \in App : /\ status[a].hash \in 0..rev[a]
                    /\ \A b \in Desired[a] :
                         /\ status[a].assigned[b] \in 0..born[b]
                         /\ tx[a].assigned[b] \in 0..born[b]
                    /\ tx[a].resync \in Seq(App \cup {"sweeper"})
  /\ pc \in [App -> {"idle", "register", "resolve", "status", "annotations"}]
  /\ \A g \in Slot : goroutines[g].todo \subseteq App \ {goroutines[g].app}
  /\ sweep.mark \subseteq App
  /\ \A b \in App \cup Remote : cache[b].id \in 0..born[b]

(* The annotation disappears only when nothing was added to it since the   *)
(* pass read it: a mark that comes in during a pass causes another pass    *)
(* (updateAnnotations, which works on a copy that is a pass old).          *)
MarksHeard ==
  [][\A a \in App :
       resync[a] # <<>> /\ resync'[a] = <<>> /\ pc[a] # "idle" =>
         resync[a] = tx[a].resync]_vars

(* Apps that pre-authorize each other learn of each other's client ID from *)
(* the events alone, in whatever order they are created.                   *)
EventuallyAssigned ==
  <>[](\A a \in present : \A b \in Desired[a] :
         status[a].assigned[b] = ClientID(b))

(* Mutual pre-authorization does not resynchronize for ever.               *)
EventuallyQuiet ==
  <>[](/\ \A a \in App : resync[a] = <<>> /\ pc[a] = "idle"
       /\ \A g \in Slot : goroutines[g] = NoEvent)

(* The sweeper catches an app that was created after it was looked up,     *)
(* even if the operator dies before the event is delivered.                *)
UnassignedFound ==
  <>[](\A a \in present : \A b \in Desired[a] :
         ClientID(b) # 0 => status[a].assigned[b] # 0)

(* The sweeper catches a new client ID of an app in another cluster.       *)
RemoteFollowed ==
  <>[](\A a \in present : \A b \in Desired[a] \cap Remote :
         status[a].assigned[b] = ClientID(b))

(* sweeper.go says of the apps in the same cluster: "client ID changes are *)
(* handled immediately by [Synchronizer]".                                 *)
SameClusterFollowed ==
  <>[](\A a \in present : \A b \in Desired[a] \cap App \cap registered :
         status[a].assigned[b] = ClientID(b))
=============================================================================
