---------------------------- MODULE ResyncProofs ----------------------------
(***************************************************************************)
(* Proofs about module Resync: that no client ID is known before it was    *)
(* given out, and that a mark which comes in during a pass is not lost.    *)
(***************************************************************************)
EXTENDS Resync, SequenceTheorems, TLAPS

AnyApp == App \cup Remote
Entry == App \cup {"sweeper"}
Assigned == UNION {[D -> Nat] : D \in SUBSET AnyApp}

StatusType == [hash : Nat, assigned : Assigned]
TxType == [rev : Nat, resync : Seq(Entry), assigned : Assigned,
           todo : SUBSET AnyApp]
EventType == [app : App, id : Nat, listed : BOOLEAN, todo : SUBSET App]
LookUpType == [app : App, dep : AnyApp, id : Nat]

(* Types, without the bounds. *)
Typed ==
  /\ present \subseteq App
  /\ registered \subseteq AnyApp
  /\ born \in [AnyApp -> Nat]
  /\ rev \in [App -> Nat \ {0}]
  /\ resync \in [App -> Seq(Entry)]
  /\ status \in [App -> StatusType]
  /\ pc \in [App -> {"idle", "register", "resolve", "status", "annotations"}]
  /\ tx \in [App -> TxType]
  /\ goroutines \in [Slot -> EventType \cup {NoEvent}]
  /\ sweep \in [todo : SUBSET LookUpType, mark : SUBSET App]
  /\ cache \in [AnyApp -> [known : BOOLEAN, id : Nat]]

(* The apps that a resource asks for are the ones its status speaks of.    *)
Complete ==
  \A a \in App : /\ status[a].assigned \in [Desired[a] -> Nat]
                 /\ tx[a].assigned \in [Desired[a] -> Nat]
                 /\ tx[a].todo \subseteq Desired[a]

(* Nobody knows a client ID, or has seen a revision, that is yet to come.  *)
Dated ==
  /\ \A a \in App : /\ status[a].hash <= rev[a]
                    /\ tx[a].rev <= rev[a]
                    /\ \A b \in Desired[a] : /\ status[a].assigned[b] <= born[b]
                                             /\ tx[a].assigned[b] <= born[b]
  /\ \A b \in AnyApp : cache[b].id <= born[b]

(* An event leaves its own app alone. *)
SelfSpared == \A g \in Slot : goroutines[g].app \notin goroutines[g].todo

Begins(p, q) == /\ Len(p) <= Len(q)
                /\ \A i \in 1..Len(p) : p[i] = q[i]

(* While a pass runs, the annotation only grows: it begins with what the   *)
(* pass has read of it.                                                    *)
ReadFirst == \A a \in App : pc[a] # "idle" => Begins(tx[a].resync, resync[a])

IInv ==
  /\ Typed
  /\ Complete
  /\ Dated
  /\ SelfSpared
  /\ ReadFirst

----------------------------------------------------------------------------
(* The operators on annotations and records. *)

LEMMA AnyAssignment ==
  ASSUME NEW a \in App, NEW f \in [Desired[a] -> Nat]
  PROVE  f \in Assigned
<1>1. Desired[a] \in SUBSET AnyApp
  BY ConstantsAssumption DEF AnyApp
<1> QED BY <1>1 DEF Assigned

LEMMA EmptyRecords ==
  /\ \A a \in App : /\ NoTx(a) \in TxType
                    /\ NoTx(a).assigned = Unassigned(a)
                    /\ NoTx(a).resync = <<>>
                    /\ NoTx(a).rev = 0
                    /\ NoTx(a).todo = {}
                    /\ NoStatus(a) \in StatusType
                    /\ NoStatus(a).assigned = Unassigned(a)
                    /\ NoStatus(a).hash = 0
                    /\ Unassigned(a) \in [Desired[a] -> Nat]
                    /\ \A b \in Desired[a] : Unassigned(a)[b] = 0
  /\ NoSweep \in [todo : SUBSET LookUpType, mark : SUBSET App]
  /\ Unknown \in [known : BOOLEAN, id : Nat]
  /\ Unknown.id = 0
<1>1. ASSUME NEW a \in App
      PROVE  /\ Unassigned(a) \in [Desired[a] -> Nat]
             /\ \A b \in Desired[a] : Unassigned(a)[b] = 0
  BY DEF Unassigned
<1>2. ASSUME NEW a \in App PROVE Unassigned(a) \in Assigned
  BY <1>1, AnyAssignment
<1>3. <<>> \in Seq(Entry)
  OBVIOUS
<1> QED
  BY <1>1, <1>2, <1>3 DEF NoTx, NoStatus, NoSweep, Unknown, TxType, StatusType

LEMMA AddedEntry ==
  ASSUME NEW q \in Seq(Entry), NEW name \in Entry
  PROVE  /\ AddToAnnotation(q, name) \in Seq(Entry)
         /\ AddToAnnotation(q, name) # <<>>
         /\ Begins(q, AddToAnnotation(q, name))
<1>1. CASE q # <<>> /\ LastEntry(q) = name
  BY <1>1 DEF AddToAnnotation, Begins
<1>2. CASE ~(q # <<>> /\ LastEntry(q) = name)
  BY <1>2, AppendProperties DEF AddToAnnotation, Begins
<1> QED BY <1>1, <1>2

LEMMA RemovedEntry ==
  ASSUME NEW q \in Seq(Entry)
  PROVE  RemoveFromAnnotation(q) \in Seq(Entry)
<1>1. CASE q = <<>>
  BY <1>1 DEF RemoveFromAnnotation
<1>2. CASE q # <<>>
  BY <1>2, HeadTailProperties DEF RemoveFromAnnotation
<1> QED BY <1>1, <1>2

LEMMA ClientIDType ==
  ASSUME Typed, NEW b \in AnyApp
  PROVE  ClientID(b) \in Nat /\ ClientID(b) <= born[b]
  BY DEF Typed, ClientID

LEMMA InitIInv == Init => IInv
<1> SUFFICES ASSUME Init PROVE IInv
  OBVIOUS
<1>1. Typed
  BY EmptyRecords DEF Init, Typed, AnyApp
<1>2. Complete
  BY EmptyRecords DEF Init, Complete
<1>3. Dated
  BY EmptyRecords, ConstantsAssumption DEF Init, Dated, AnyApp
<1>4. SelfSpared
  BY DEF Init, SelfSpared, NoEvent
<1>5. ReadFirst
  BY DEF Init, ReadFirst
<1> QED BY <1>1, <1>2, <1>3, <1>4, <1>5 DEF IInv

----------------------------------------------------------------------------
(* Types, and the apps that a status speaks of. *)

LEMMA TxEdited ==
  ASSUME NEW t \in TxType, NEW rest \in SUBSET AnyApp
  PROVE  /\ [t EXCEPT !.todo = rest] \in TxType
         /\ [t EXCEPT !.todo = rest].assigned = t.assigned
         /\ [t EXCEPT !.todo = rest].todo = rest
  BY DEF TxType

LEMMA TxResolved ==
  ASSUME NEW t \in TxType, NEW found \in Assigned, NEW rest \in SUBSET AnyApp
  PROVE  [t EXCEPT !.assigned = found, !.todo = rest] \in TxType
  BY DEF TxType

LEMMA PassTyped ==
  ASSUME Typed, Complete, NEW a \in App, Pass(a)
  PROVE  Typed' /\ Complete'
<1> USE DEF AnyApp
<1>1. CASE Prepare(a)
  BY <1>1, EmptyRecords DEF Prepare, entra, resources, sweeper, bounds, Typed, Complete, TxType, NoTx
<1>2. CASE RegisterApp(a)
  <2>1. /\ registered' = registered \cup {a}
        /\ born' = IF a \in registered THEN born ELSE [born EXCEPT ![a] = @ + 1]
        /\ tx' = [tx EXCEPT ![a].todo = Desired[a]]
        /\ pc' = [pc EXCEPT ![a] = "resolve"]
        /\ UNCHANGED <<resources, goroutines, sweeper, bounds>>
    BY <1>2 DEF RegisterApp
  <2>2. Desired[a] \in SUBSET AnyApp
    BY ConstantsAssumption
  <2> DEFINE t == [tx[a] EXCEPT !.todo = Desired[a]]
  <2>7. t \in TxType /\ t.assigned = tx[a].assigned /\ t.todo = Desired[a]
    BY <2>2, TxEdited DEF Typed
  <2>8. tx' = [tx EXCEPT ![a] = t]
    BY <2>1
  <2> HIDE DEF t
  <2>3. tx' \in [App -> TxType]
    BY <2>7, <2>8 DEF Typed
  <2>4. born' \in [AnyApp -> Nat]
    BY <2>1 DEF Typed
  <2>5. Typed'
    BY <2>1, <2>3, <2>4 DEF resources, sweeper, bounds, Typed
  <2>6. \A c \in App : /\ tx'[c].assigned = tx[c].assigned
                       /\ tx'[c].todo \in {tx[c].todo, Desired[c]}
    BY <2>7, <2>8 DEF Typed
  <2> QED
    BY <2>1, <2>5, <2>6 DEF resources, Complete
<1>3. CASE ResolvePreAuthorizedApp(a)
  <2>1. PICK b \in tx[a].todo :
          tx' = [tx EXCEPT ![a].assigned[b] = ClientID(b), ![a].todo = @ \ {b}]
    BY <1>3 DEF ResolvePreAuthorizedApp
  <2>2. UNCHANGED <<entra, resources, pc, goroutines, sweeper, bounds>>
    BY <1>3 DEF ResolvePreAuthorizedApp
  <2>3. b \in Desired[a] /\ ClientID(b) \in Nat
    BY <2>1, ConstantsAssumption, ClientIDType DEF Complete
  <2> DEFINE found == [tx[a].assigned EXCEPT ![b] = ClientID(b)]
             rest  == tx[a].todo \ {b}
             t     == [tx[a] EXCEPT !.assigned = found, !.todo = rest]
  <2>4. tx' = [tx EXCEPT ![a] = t]
    BY <2>1 DEF Typed, TxType
  <2>5. t.assigned = found /\ t.todo = rest
    BY DEF Typed, TxType
  <2>6. found \in [Desired[a] -> Nat]
    BY <2>3 DEF Complete
  <2>7. found \in Assigned /\ rest \in SUBSET AnyApp
    BY <2>6, AnyAssignment DEF Typed, TxType
  <2>8. t \in TxType
    <3> HIDE DEF found, rest
    <3> QED BY <2>7, TxResolved DEF Typed
  <2> HIDE DEF t
  <2>9. tx' \in [App -> TxType]
    BY <2>4, <2>8 DEF Typed
  <2>10. Typed'
    BY <2>2, <2>9 DEF entra, resources, sweeper, bounds, Typed
  <2>11. \A c \in App : tx'[c] = IF c = a THEN t ELSE tx[c]
    BY <2>4 DEF Typed
  <2> QED
    BY <2>2, <2>5, <2>6, <2>10, <2>11 DEF resources, Complete
<1>4. CASE ProduceEvent(a)
  <2>1. ClientID(a) \in Nat
    BY ClientIDType
  <2> QED
    BY <1>4, <2>1 DEF ProduceEvent, entra, resources, sweeper, bounds, Typed, Complete, EventType
<1>5. CASE UpdateStatus(a)
  BY <1>5 DEF UpdateStatus, entra, sweeper, bounds, Typed, Complete, TxType, StatusType
<1>6. CASE UpdateAnnotations(a)
  <2>1. /\ RemoveFromAnnotation(tx[a].resync) \in Seq(Entry)
        /\ RemoveFromAnnotation(resync[a]) \in Seq(Entry)
    BY RemovedEntry DEF Typed, TxType
  <2> QED
    BY <1>6, <2>1, EmptyRecords
    DEF UpdateAnnotations, entra, sweeper, bounds, Typed, Complete
<1> QED BY <1>1, <1>2, <1>3, <1>4, <1>5, <1>6 DEF Pass

LEMMA EnvironmentTyped ==
  ASSUME Typed, Complete, Environment
  PROVE  Typed' /\ Complete'
<1> USE DEF AnyApp
<1>1. ASSUME NEW a \in App, DeleteResource(a) PROVE Typed' /\ Complete'
  BY <1>1, EmptyRecords
  DEF DeleteResource, passes, sweeper, Typed, Complete
<1>2. ASSUME NEW a \in App, CreateResource(a) PROVE Typed' /\ Complete'
  BY <1>2 DEF CreateResource, entra, passes, sweeper, bounds, Typed, Complete
<1>3. ASSUME NEW a \in App, EditSpec(a) PROVE Typed' /\ Complete'
  BY <1>3 DEF EditSpec, entra, passes, sweeper, Typed, Complete
<1>4. ASSUME NEW b \in Remote, RegisterRemote(b) PROVE Typed' /\ Complete'
  BY <1>4 DEF RegisterRemote, resources, passes, sweeper, Typed, Complete
<1> QED BY <1>1, <1>2, <1>3, <1>4 DEF Environment

LEMMA EventsTyped ==
  ASSUME Typed, Complete, NEW g \in Slot, Synchronize(g)
  PROVE  Typed' /\ Complete'
<1>1. CASE ListResources(g)
  <2> DEFINE marked == {a \in present : NeedsResync(a, goroutines[g])}
             e      == [goroutines[g] EXCEPT !.listed = TRUE, !.todo = marked]
  <2>1. goroutines' = [goroutines EXCEPT ![g] = e]
    BY <1>1 DEF ListResources
  <2>2. marked \in SUBSET App
    BY DEF Typed
  <2>3. goroutines[g] \in EventType
    BY <1>1 DEF ListResources, Typed
  <2>4. e \in EventType
    <3> HIDE DEF marked
    <3> QED BY <2>2, <2>3 DEF EventType
  <2> HIDE DEF e
  <2>5. goroutines' \in [Slot -> EventType \cup {NoEvent}]
    BY <2>1, <2>4 DEF Typed
  <2> QED
    BY <1>1, <2>5
    DEF ListResources, entra, resources, passes, sweeper, bounds, Typed, Complete
<1>2. CASE MarkForResync(g)
  <2>1. PICK a \in goroutines[g].todo \cap present :
          /\ resync' = [resync EXCEPT
                          ![a] = AddToAnnotation(@, goroutines[g].app)]
          /\ goroutines' = [goroutines EXCEPT ![g].todo = @ \ {a}]
    BY <1>2 DEF MarkForResync
  <2>2. goroutines[g] \in EventType
    BY <1>2 DEF MarkForResync, Typed, NoEvent
  <2>3. AddToAnnotation(resync[a], goroutines[g].app) \in Seq(Entry)
    BY <2>2, AddedEntry DEF Typed, EventType, Entry
  <2>4. goroutines' \in [Slot -> EventType \cup {NoEvent}]
    BY <2>1, <2>2 DEF Typed, EventType
  <2> QED
    BY <1>2, <2>1, <2>3, <2>4
    DEF MarkForResync, entra, passes, sweeper, bounds, Typed, Complete
<1>3. CASE FindDeleted(g)
  <2>1. goroutines[g] \in EventType
    BY <1>3 DEF FindDeleted, Typed, NoEvent
  <2>2. goroutines' \in [Slot -> EventType \cup {NoEvent}]
    BY <1>3, <2>1 DEF FindDeleted, Typed, EventType
  <2> QED
    BY <1>3, <2>2
    DEF FindDeleted, entra, resources, passes, sweeper, bounds, Typed, Complete
<1>4. CASE EventSynchronized(g)
  BY <1>4
  DEF EventSynchronized, entra, resources, passes, sweeper, bounds, Typed, Complete
<1> QED BY <1>1, <1>2, <1>3, <1>4 DEF Synchronize

LEMMA FaultsTyped ==
  ASSUME Typed, Complete, Faults
  PROVE  Typed' /\ Complete'
<1>1. ASSUME NEW a \in App, AbortPass(a) PROVE Typed' /\ Complete'
  BY <1>1, EmptyRecords
  DEF AbortPass, Fault, entra, resources, sweeper, Typed, Complete
<1>2. ASSUME NEW g \in Slot, EventFails(g) PROVE Typed' /\ Complete'
  <2>1. goroutines[g] \in EventType
    BY <1>2 DEF EventFails, Typed
  <2>2. [goroutines[g] EXCEPT !.listed = FALSE, !.todo = {}] \in EventType
    BY <2>1 DEF EventType
  <2>3. goroutines' \in {[goroutines EXCEPT ![g] = e] : e \in EventType \cup {NoEvent}}
    <3>1. CASE goroutines' = [goroutines EXCEPT ![g].listed = FALSE, ![g].todo = {}]
      <4>1. goroutines' = [goroutines EXCEPT
                   ![g] = [goroutines[g] EXCEPT !.listed = FALSE, !.todo = {}]]
        BY <2>1, <3>1 DEF Typed, EventType
      <4> QED BY <2>2, <4>1
    <3> QED BY <1>2, <3>1 DEF EventFails
  <2>4. goroutines' \in [Slot -> EventType \cup {NoEvent}]
    BY <2>3 DEF Typed
  <2> QED
    BY <1>2, <2>4
    DEF EventFails, Fault, entra, resources, passes, sweeper, Typed, Complete
<1>3. CASE LookUpFails
  <2>1. sweep' \in [todo : SUBSET LookUpType, mark : SUBSET App]
    BY <1>3 DEF LookUpFails, Typed
  <2> QED
    BY <1>3, <2>1
    DEF LookUpFails, Fault, entra, resources, passes, Typed, Complete
<1>4. CASE Restart
  <2>1. /\ pc' \in [App -> {"idle", "register", "resolve", "status", "annotations"}]
        /\ tx' \in [App -> TxType]
        /\ \A a \in App : tx'[a] = NoTx(a)
        /\ goroutines' \in [Slot -> EventType \cup {NoEvent}]
        /\ cache' \in [AnyApp -> [known : BOOLEAN, id : Nat]]
    BY <1>4, EmptyRecords DEF Restart, AnyApp
  <2>2. Typed'
    BY <1>4, <2>1, EmptyRecords DEF Restart, Fault, entra, resources, Typed
  <2> QED
    BY <1>4, <2>1, <2>2, EmptyRecords DEF Restart, Fault, resources, Complete
<1> QED BY <1>1, <1>2, <1>3, <1>4 DEF Faults

LEMMA LookUpTypes ==
  ASSUME Typed, Complete
  PROVE  ToLookUp \subseteq LookUpType
<1> SUFFICES ASSUME NEW a \in App, NEW b \in AnyApp, b \in Desired[a]
             PROVE  [app |-> a, dep |-> b, id |-> status[a].assigned[b]] \in LookUpType
  BY DEF ToLookUp, AnyApp
<1> QED BY DEF Complete, LookUpType

LEMMA SweepTyped ==
  ASSUME Typed, Complete, Sweep
  PROVE  Typed' /\ Complete'
<1>1. CASE StartSweep
  BY <1>1, LookUpTypes
  DEF StartSweep, NoSweep, entra, resources, passes, bounds, Typed, Complete
<1>2. CASE LookUp
  <2>1. PICK l \in sweep.todo :
          /\ sweep' = IF Resolve(l.dep) \notin {0, l.id}
                      THEN [todo |-> {k \in sweep.todo : k.app # l.app},
                            mark |-> {l.app}]
                      ELSE [sweep EXCEPT !.todo = @ \ {l}]
          /\ cache' = [cache EXCEPT ![l.dep] = [known |-> TRUE,
                                                id |-> Resolve(l.dep)]]
    BY <1>2 DEF LookUp
  <2>2. l.app \in App /\ l.dep \in AnyApp
    BY <2>1 DEF Typed, LookUpType
  <2>3. Resolve(l.dep) \in Nat
    BY <2>2, ClientIDType DEF Resolve, Typed
  <2>4. sweep' \in [todo : SUBSET LookUpType, mark : SUBSET App]
    BY <2>1, <2>2 DEF Typed
  <2>5. cache' \in [AnyApp -> [known : BOOLEAN, id : Nat]]
    BY <2>1, <2>3 DEF Typed
  <2> QED
    BY <1>2, <2>4, <2>5
    DEF LookUp, entra, resources, passes, bounds, Typed, Complete
<1>3. CASE MarkSwept
  <2>1. PICK a \in sweep.mark :
          resync' = [resync EXCEPT ![a] = IF @ = <<>> /\ a \in present
                                          THEN <<"sweeper">> ELSE @]
    BY <1>3 DEF MarkSwept
  <2>2. <<"sweeper">> \in Seq(Entry)
    BY DEF Entry
  <2>3. resync' \in [App -> Seq(Entry)]
    BY <2>1, <2>2 DEF Typed
  <2> QED
    BY <1>3, <2>3
    DEF MarkSwept, entra, passes, bounds, Typed, Complete
<1> QED BY <1>1, <1>2, <1>3 DEF Sweep

LEMMA NextTyped ==
  ASSUME Typed, Complete, [Next]_vars
  PROVE  Typed' /\ Complete'
<1>1. ASSUME NEW b \in AnyApp, ExpireEntry(b) PROVE Typed' /\ Complete'
  BY <1>1, EmptyRecords
  DEF ExpireEntry, entra, resources, passes, bounds, Typed, Complete
<1>2. CASE UNCHANGED vars
  BY <1>2 DEF vars, entra, resources, passes, sweeper, bounds, Typed, Complete
<1> QED
  BY <1>1, <1>2, PassTyped, EnvironmentTyped, EventsTyped, FaultsTyped, SweepTyped
  DEF Next, AnyApp

----------------------------------------------------------------------------
(* Client IDs and revisions are given out in order. *)

LEMMA BornGrows ==
  ASSUME Typed, [Next]_vars
  PROVE  /\ \A b \in AnyApp : born[b] <= born'[b]
         /\ \A a \in App : rev[a] <= rev'[a]
<1>0. /\ \A b \in AnyApp : born[b] \in Nat
      /\ \A a \in App : rev[a] \in Nat
      /\ \A a \in App : a \in AnyApp
  BY DEF Typed, AnyApp
<1>1. CASE Environment
  <2>1. ASSUME NEW a \in App, DeleteResource(a) \/ CreateResource(a)
        PROVE  UNCHANGED <<born, rev>>
    BY <2>1 DEF DeleteResource, CreateResource, entra
  <2>2. ASSUME NEW a \in App, EditSpec(a)
        PROVE  UNCHANGED born /\ \A c \in App : rev[c] <= rev'[c]
    BY <1>0, <2>2 DEF EditSpec, entra, Typed
  <2>3. ASSUME NEW b \in Remote, RegisterRemote(b)
        PROVE  UNCHANGED rev /\ \A c \in AnyApp : born[c] <= born'[c]
    BY <1>0, <2>3 DEF RegisterRemote, resources, Typed
  <2> QED BY <1>0, <1>1, <2>1, <2>2, <2>3 DEF Environment
<1>2. ASSUME Faults PROVE UNCHANGED <<born, rev>>
  BY <1>2
  DEF Faults, AbortPass, EventFails, LookUpFails, Restart, Fault, entra, resources
<1>3. ASSUME NEW a \in App, Pass(a)
      PROVE  UNCHANGED rev /\ \A b \in AnyApp : born[b] <= born'[b]
  BY <1>0, <1>3
  DEF Pass, Prepare, RegisterApp, ResolvePreAuthorizedApp, ProduceEvent, UpdateStatus,
      UpdateAnnotations, entra, resources, Typed
<1>4. ASSUME NEW g \in Slot, Synchronize(g) PROVE UNCHANGED <<born, rev>>
  BY <1>4
  DEF Synchronize, ListResources, MarkForResync, FindDeleted, EventSynchronized, entra,
      resources
<1>5. CASE Sweep
  BY <1>0, <1>5 DEF Sweep, StartSweep, LookUp, MarkSwept, entra, resources
<1>6. ASSUME NEW b \in AnyApp, ExpireEntry(b) PROVE UNCHANGED <<born, rev>>
  BY <1>6 DEF ExpireEntry, entra, resources
<1>7. CASE UNCHANGED vars
  BY <1>0, <1>7 DEF vars, entra, resources
<1> QED BY <1>0, <1>1, <1>2, <1>3, <1>4, <1>5, <1>6, <1>7 DEF Next, AnyApp

(* Where a step takes what a status, a pass or the cache knows from.       *)
LEMMA NothingInvented ==
  ASSUME Typed, Complete, [Next]_vars
  PROVE  /\ \A a \in App :
              /\ status'[a] \in {status[a], NoStatus(a),
                                 [hash |-> tx[a].rev, assigned |-> tx[a].assigned]}
              /\ tx'[a].rev \in {tx[a].rev, rev[a], 0}
              /\ \A b \in Desired[a] :
                   tx'[a].assigned[b] \in {tx[a].assigned[b], ClientID(b), 0}
         /\ \A b \in AnyApp : cache'[b].id \in {cache[b].id, ClientID(b), 0}
<1> DEFINE Known ==
  /\ \A a \in App :
       /\ status'[a] \in {status[a], NoStatus(a),
                          [hash |-> tx[a].rev, assigned |-> tx[a].assigned]}
       /\ tx'[a].rev \in {tx[a].rev, rev[a], 0}
       /\ \A b \in Desired[a] :
            tx'[a].assigned[b] \in {tx[a].assigned[b], ClientID(b), 0}
  /\ \A b \in AnyApp : cache'[b].id \in {cache[b].id, ClientID(b), 0}
<1>1. CASE Environment
  BY <1>1
  DEF Environment, DeleteResource, CreateResource, EditSpec, RegisterRemote,
      resources, passes, sweeper, Typed
<1>2. CASE Faults
  <2>1. ASSUME NEW a \in App, AbortPass(a) PROVE Known
    BY <2>1, EmptyRecords DEF AbortPass, Fault, resources, sweeper, Typed
  <2>2. ASSUME NEW g \in Slot, EventFails(g) PROVE Known
    BY <2>2 DEF EventFails, Fault, resources, passes, sweeper
  <2>3. CASE LookUpFails
    BY <2>3 DEF LookUpFails, Fault, resources, passes
  <2>4. CASE Restart
    BY <2>4, EmptyRecords DEF Restart, Fault, resources, AnyApp
  <2> QED BY <1>2, <2>1, <2>2, <2>3, <2>4 DEF Faults
<1>3. ASSUME NEW a \in App, Pass(a) PROVE Known
  <2>1. CASE Prepare(a)
    <3> DEFINE t == [NoTx(a) EXCEPT !.rev = rev[a], !.resync = resync[a]]
    <3>1. t.rev = rev[a] /\ t.assigned = Unassigned(a)
      BY DEF NoTx
    <3>2. tx' = [tx EXCEPT ![a] = t]
      BY <2>1 DEF Prepare
    <3> HIDE DEF t
    <3>3. \A c \in App : tx'[c] = IF c = a THEN t ELSE tx[c]
      BY <3>2 DEF Typed
    <3> QED BY <2>1, <3>1, <3>3, EmptyRecords DEF Prepare, resources, sweeper
  <2>2. CASE RegisterApp(a)
    <3>1. \A c \in App : tx'[c].rev = tx[c].rev /\ tx'[c].assigned = tx[c].assigned
      BY <2>2 DEF RegisterApp, Typed, TxType
    <3> QED BY <2>2, <3>1 DEF RegisterApp, resources, sweeper
  <2>3. CASE ResolvePreAuthorizedApp(a)
    <3>1. PICK b \in tx[a].todo :
            tx' = [tx EXCEPT ![a].assigned[b] = ClientID(b), ![a].todo = @ \ {b}]
      BY <2>3 DEF ResolvePreAuthorizedApp
    <3>2. \A c \in App :
            /\ tx'[c].rev = tx[c].rev
            /\ tx'[c].assigned = IF c = a THEN [tx[a].assigned EXCEPT ![b] = ClientID(b)]
                                          ELSE tx[c].assigned
      BY <3>1 DEF Typed, TxType
    <3>3. \A c \in App : \A d \in Desired[c] :
            tx'[c].assigned[d] \in {tx[c].assigned[d], ClientID(d)}
      BY <3>2 DEF Complete
    <3> QED BY <2>3, <3>2, <3>3 DEF ResolvePreAuthorizedApp, resources, sweeper
  <2>4. CASE ProduceEvent(a)
    BY <2>4 DEF ProduceEvent, resources, sweeper
  <2>5. CASE UpdateStatus(a)
    BY <2>5 DEF UpdateStatus, sweeper, Typed
  <2>6. CASE UpdateAnnotations(a)
    BY <2>6, EmptyRecords DEF UpdateAnnotations, sweeper, Typed
  <2> QED BY <1>3, <2>1, <2>2, <2>3, <2>4, <2>5, <2>6 DEF Pass
<1>4. ASSUME NEW g \in Slot, Synchronize(g) PROVE UNCHANGED <<status, passes, sweeper>>
  BY <1>4
  DEF Synchronize, ListResources, MarkForResync, FindDeleted, EventSynchronized,
      resources
<1>5. CASE Sweep
  <2>1. CASE LookUp
    <3>1. PICK l \in sweep.todo :
            cache' = [cache EXCEPT ![l.dep] = [known |-> TRUE, id |-> Resolve(l.dep)]]
      BY <2>1 DEF LookUp
    <3>2. \A b \in AnyApp : cache'[b].id \in {cache[b].id, ClientID(b)}
      BY <3>1 DEF Typed, Resolve
    <3> QED BY <2>1, <3>2 DEF LookUp, resources, passes
  <2> QED BY <1>5, <2>1 DEF Sweep, StartSweep, MarkSwept, resources, passes
<1>6. ASSUME NEW b \in AnyApp, ExpireEntry(b) PROVE Known
  BY <1>6, EmptyRecords DEF ExpireEntry, resources, passes, Typed
<1>7. CASE UNCHANGED vars
  BY <1>7 DEF vars, resources, passes, sweeper
<1> QED
  BY <1>1, <1>2, <1>3, <1>4, <1>5, <1>6, <1>7 DEF Next, AnyApp, passes, sweeper

LEMMA NextDated ==
  ASSUME Typed, Complete, Dated, [Next]_vars
  PROVE  Dated'
<1>1. Typed' /\ Complete'
  BY NextTyped
<1>2. /\ \A a \in App : rev[a] \in Nat /\ rev'[a] \in Nat /\ rev[a] <= rev'[a]
      /\ \A b \in AnyApp : /\ born[b] \in Nat
                           /\ born'[b] \in Nat
                           /\ born[b] <= born'[b]
                           /\ ClientID(b) \in Nat
                           /\ ClientID(b) <= born[b]
  BY <1>1, BornGrows, ClientIDType DEF Typed
<1>3. ASSUME NEW a \in App
      PROVE  status'[a].hash <= rev'[a] /\ tx'[a].rev <= rev'[a]
  <2>1. /\ status'[a].hash \in {status[a].hash, 0, tx[a].rev}
        /\ tx'[a].rev \in {tx[a].rev, rev[a], 0}
    BY NothingInvented, EmptyRecords
  <2>2. status[a].hash \in Nat /\ tx[a].rev \in Nat
    BY DEF Typed, StatusType, TxType
  <2> QED BY <1>2, <2>1, <2>2 DEF Dated
<1>4. ASSUME NEW a \in App, NEW b \in Desired[a]
      PROVE  status'[a].assigned[b] <= born'[b] /\ tx'[a].assigned[b] <= born'[b]
  <2>1. b \in AnyApp
    BY ConstantsAssumption DEF AnyApp
  <2>2. /\ status'[a].assigned[b] \in {status[a].assigned[b], 0, tx[a].assigned[b]}
        /\ tx'[a].assigned[b] \in {tx[a].assigned[b], ClientID(b), 0}
    BY NothingInvented, EmptyRecords
  <2>3. status[a].assigned[b] \in Nat /\ tx[a].assigned[b] \in Nat
    BY DEF Complete
  <2>4. status[a].assigned[b] <= born[b] /\ tx[a].assigned[b] <= born[b]
    BY DEF Dated
  <2> QED BY <1>2, <2>1, <2>2, <2>3, <2>4
<1>5. ASSUME NEW b \in AnyApp PROVE cache'[b].id <= born'[b]
  <2>1. cache'[b].id \in {cache[b].id, ClientID(b), 0}
    BY NothingInvented
  <2>2. cache[b].id \in Nat /\ cache[b].id <= born[b]
    BY DEF Typed, Dated
  <2> QED BY <1>2, <2>1, <2>2
<1> QED BY <1>3, <1>4, <1>5 DEF Dated

----------------------------------------------------------------------------
(* Events, and the annotation during a pass. *)

LEMMA NextSelfSpared ==
  ASSUME Typed, SelfSpared, [Next]_vars
  PROVE  SelfSpared'
<1>1. ASSUME NEW h \in Slot, UNCHANGED goroutines
      PROVE  goroutines'[h].app \notin goroutines'[h].todo
  BY <1>1 DEF SelfSpared
<1>2. ASSUME NEW a \in App, Pass(a) PROVE SelfSpared'
  <2>1. CASE ProduceEvent(a)
    <3>1. PICK g \in Slot :
            goroutines' = [goroutines EXCEPT ![g] =
              [app |-> a, id |-> ClientID(a), listed |-> FALSE, todo |-> {}]]
      BY <2>1 DEF ProduceEvent
    <3> QED BY <3>1 DEF SelfSpared, Typed
  <2> QED
    BY <1>1, <1>2, <2>1
    DEF Pass, Prepare, RegisterApp, ResolvePreAuthorizedApp, UpdateStatus,
        UpdateAnnotations, SelfSpared
<1>3. ASSUME NEW g \in Slot, Synchronize(g) \/ EventFails(g) PROVE SelfSpared'
  <2>1. CASE ListResources(g)
    <3>1. \A h \in Slot : h # g => goroutines'[h] = goroutines[h]
      BY <2>1 DEF ListResources, Typed
    <3>2. /\ goroutines'[g].app = goroutines[g].app
          /\ goroutines'[g].todo = {a \in present : NeedsResync(a, goroutines[g])}
      BY <2>1 DEF ListResources, Typed, EventType
    <3> QED BY <3>1, <3>2 DEF NeedsResync, SelfSpared
  <2>2. CASE goroutines' = [goroutines EXCEPT ![g] = NoEvent]
    BY <2>2 DEF SelfSpared, Typed, NoEvent
  <2>3. CASE goroutines' = [goroutines EXCEPT ![g].listed = FALSE, ![g].todo = {}]
    BY <2>3 DEF SelfSpared, Typed
  <2>4. CASE MarkForResync(g)
    <3>1. PICK a : goroutines' = [goroutines EXCEPT ![g].todo = @ \ {a}]
      BY <2>4 DEF MarkForResync
    <3>2. \A h \in Slot : /\ goroutines'[h].app = goroutines[h].app
                         /\ goroutines'[h].todo \subseteq goroutines[h].todo
      BY <3>1 DEF Typed, EventType, NoEvent
    <3> QED BY <3>2 DEF SelfSpared
  <2> QED
    BY <1>3, <2>1, <2>2, <2>3, <2>4
    DEF Synchronize, FindDeleted, EventSynchronized, EventFails
<1>4. CASE Restart
  BY <1>4 DEF Restart, SelfSpared, NoEvent
<1>5. CASE Environment \/ Sweep \/ LookUpFails
  BY <1>1, <1>5
  DEF Environment, DeleteResource, CreateResource, EditSpec, RegisterRemote, Sweep,
      StartSweep, LookUp, MarkSwept, LookUpFails, SelfSpared
<1>6. CASE \/ \E a \in App : AbortPass(a)
           \/ \E b \in AnyApp : ExpireEntry(b)
           \/ UNCHANGED vars
  BY <1>1, <1>6 DEF AbortPass, ExpireEntry, vars, SelfSpared
<1> QED BY <1>2, <1>3, <1>4, <1>5, <1>6 DEF Next, Faults, AnyApp

(* What a step does to the annotation of a, and to what a pass read of it. *)
AnnotationStep(a) ==
  \/ pc'[a] = "idle"
  \/ tx'[a].resync = resync[a] /\ resync'[a] = resync[a]
  \/ /\ pc[a] # "idle"
     /\ tx'[a].resync = tx[a].resync
     /\ Begins(resync[a], resync'[a])

LEMMA SameAnnotation ==
  ASSUME Typed, NEW a \in App, resync'[a] = resync[a]
  PROVE  Begins(resync[a], resync'[a])
  BY DEF Typed, Begins

LEMMA AnnotationSteps ==
  ASSUME Typed, [Next]_vars, NEW a \in App
  PROVE  AnnotationStep(a)
<1>1. ASSUME UNCHANGED <<resync, pc>>, tx'[a].resync = tx[a].resync
      PROVE  AnnotationStep(a)
  BY <1>1, SameAnnotation DEF AnnotationStep
<1>2. ASSUME NEW c \in App, Pass(c) PROVE AnnotationStep(a)
  <2>1. CASE Prepare(c)
    <3> DEFINE t == [NoTx(c) EXCEPT !.rev = rev[c], !.resync = resync[c]]
    <3>1. t.resync = resync[c]
      BY DEF NoTx
    <3>2. tx' = [tx EXCEPT ![c] = t] /\ pc' = [pc EXCEPT ![c] = "register"]
      BY <2>1 DEF Prepare
    <3> HIDE DEF t
    <3>3. resync' = resync
      BY <2>1 DEF Prepare, resources
    <3>4. CASE a = c
      BY <3>1, <3>2, <3>3, <3>4 DEF Typed, AnnotationStep
    <3>5. CASE a # c
      BY <3>2, <3>3, <3>5, SameAnnotation DEF Typed, AnnotationStep
    <3> QED BY <3>4, <3>5
  <2>2. CASE RegisterApp(c) \/ ResolvePreAuthorizedApp(c)
    <3>1. tx'[a].resync = tx[a].resync
      <4>1. CASE RegisterApp(c)
        BY <4>1 DEF RegisterApp, Typed, TxType
      <4>2. CASE ResolvePreAuthorizedApp(c)
        <5>1. PICK b : tx' = [tx EXCEPT ![c].assigned[b] = ClientID(b), ![c].todo = @ \ {b}]
          BY <4>2 DEF ResolvePreAuthorizedApp
        <5> QED BY <5>1 DEF Typed, TxType
      <4> QED BY <2>2, <4>1, <4>2
    <3>2. resync' = resync /\ (pc'[a] = pc[a] \/ pc[a] = "register")
      BY <2>2 DEF RegisterApp, ResolvePreAuthorizedApp, resources, Typed
    <3> QED BY <3>1, <3>2, SameAnnotation DEF AnnotationStep
  <2>3. CASE ProduceEvent(c) \/ UpdateStatus(c)
    <3>1. UNCHANGED <<resync, tx>> /\ (pc'[a] = pc[a] \/ pc[a] \in {"resolve", "status"})
      BY <2>3 DEF ProduceEvent, UpdateStatus, resources, Typed
    <3> QED BY <3>1, SameAnnotation DEF AnnotationStep
  <2>4. CASE UpdateAnnotations(c)
    <3>1. pc' = [pc EXCEPT ![c] = "idle"] /\ (a # c => UNCHANGED <<resync[a], tx[a]>>)
      BY <2>4 DEF UpdateAnnotations, Typed
    <3> QED BY <3>1, SameAnnotation DEF Typed, AnnotationStep
  <2> QED BY <1>2, <2>1, <2>2, <2>3, <2>4 DEF Pass
<1>3. ASSUME NEW g \in Slot, MarkForResync(g) PROVE AnnotationStep(a)
  <2>1. PICK c \in goroutines[g].todo \cap present :
          resync' = [resync EXCEPT ![c] = AddToAnnotation(@, goroutines[g].app)]
    BY <1>3 DEF MarkForResync
  <2>2. goroutines[g].app \in Entry
    BY <1>3 DEF MarkForResync, Typed, NoEvent, EventType, Entry
  <2>3. resync'[a] \in {resync[a], AddToAnnotation(resync[a], goroutines[g].app)}
    BY <2>1 DEF Typed
  <2>4. Begins(resync[a], resync'[a])
    BY <2>2, <2>3, AddedEntry, SameAnnotation DEF Typed
  <2> QED BY <1>3, <2>4 DEF MarkForResync, passes, AnnotationStep
<1>4. CASE MarkSwept
  <2>1. resync'[a] = resync[a] \/ resync[a] = <<>>
    BY <1>4 DEF MarkSwept, Typed
  <2>2. resync'[a] \in {resync[a], <<"sweeper">>}
    BY <1>4 DEF MarkSwept, Typed
  <2>3. Begins(resync[a], resync'[a])
    BY <2>1, <2>2, SameAnnotation DEF Begins
  <2> QED BY <1>4, <2>3 DEF MarkSwept, passes, AnnotationStep
<1>5. CASE Environment
  <2>1. ASSUME NEW c \in App, DeleteResource(c) PROVE AnnotationStep(a)
    <3>1. UNCHANGED passes /\ (resync'[a] = resync[a] \/ pc[a] = "idle")
      BY <2>1 DEF DeleteResource, Typed
    <3> QED BY <3>1, SameAnnotation DEF passes, AnnotationStep
  <2> QED
    BY <1>1, <1>5, <2>1
    DEF Environment, CreateResource, EditSpec, RegisterRemote, resources, passes
<1>6. CASE Faults
  BY <1>1, <1>6, SameAnnotation
  DEF Faults, AbortPass, EventFails, LookUpFails, Restart, Fault, resources, passes,
      Typed, AnnotationStep
<1>7. ASSUME NEW g \in Slot, Synchronize(g) PROVE AnnotationStep(a)
  BY <1>1, <1>3, <1>7
  DEF Synchronize, ListResources, FindDeleted, EventSynchronized, resources, passes
<1>8. CASE Sweep
  BY <1>1, <1>4, <1>8 DEF Sweep, StartSweep, LookUp, resources, passes
<1>9. CASE (\E b \in AnyApp : ExpireEntry(b)) \/ UNCHANGED vars
  BY <1>1, <1>9 DEF ExpireEntry, vars, resources, passes
<1> QED BY <1>2, <1>5, <1>6, <1>7, <1>8, <1>9 DEF Next, AnyApp

LEMMA NextReadFirst ==
  ASSUME Typed, Complete, ReadFirst, [Next]_vars
  PROVE  ReadFirst'
<1> SUFFICES ASSUME NEW a \in App, pc'[a] # "idle"
             PROVE  Begins(tx'[a].resync, resync'[a])
  BY DEF ReadFirst
<1>1. AnnotationStep(a)
  BY AnnotationSteps
<1>2. CASE tx'[a].resync = resync[a] /\ resync'[a] = resync[a]
  BY <1>2, SameAnnotation
<1>3. CASE /\ pc[a] # "idle"
           /\ tx'[a].resync = tx[a].resync
           /\ Begins(resync[a], resync'[a])
  <2>1. /\ Len(tx[a].resync) \in Nat
        /\ Len(resync[a]) \in Nat
        /\ Begins(tx[a].resync, resync[a])
    BY <1>3 DEF Typed, TxType, ReadFirst
  <2>2. /\ Len(tx[a].resync) <= Len(resync[a])
        /\ \A i \in 1..Len(tx[a].resync) :
             i \in 1..Len(resync[a]) /\ tx[a].resync[i] = resync[a][i]
    BY <2>1 DEF Begins
  <2>3. Len(resync'[a]) \in Nat
    BY NextTyped DEF Typed
  <2> QED BY <1>3, <2>1, <2>2, <2>3 DEF Begins
<1> QED BY <1>1, <1>2, <1>3 DEF AnnotationStep

----------------------------------------------------------------------------
(* The theorems. *)

LEMMA NextIInv == IInv /\ [Next]_vars => IInv'
  BY NextTyped, NextDated, NextSelfSpared, NextReadFirst DEF IInv

LEMMA IInvTypeOK == IInv => TypeOK
<1> SUFFICES ASSUME IInv PROVE TypeOK
  OBVIOUS
<1> USE DEF IInv, AnyApp
<1>1. ASSUME NEW a \in App
      PROVE  /\ status[a].hash \in 0..rev[a]
             /\ tx[a].resync \in Seq(App \cup {"sweeper"})
  BY DEF Typed, Dated, StatusType, TxType, Entry
<1>2. ASSUME NEW a \in App, NEW b \in Desired[a]
      PROVE  /\ status[a].assigned[b] \in 0..born[b]
             /\ tx[a].assigned[b] \in 0..born[b]
  <2>1. born[b] \in Nat
    BY ConstantsAssumption DEF Typed
  <2> QED BY <2>1 DEF Complete, Dated
<1>3. ASSUME NEW g \in Slot
      PROVE  goroutines[g].todo \subseteq App \ {goroutines[g].app}
  <2>1. goroutines[g].todo \subseteq App
    <3>1. CASE goroutines[g] = NoEvent
      BY <3>1 DEF NoEvent
    <3>2. CASE goroutines[g] \in EventType
      BY <3>2 DEF EventType
    <3> QED BY <3>1, <3>2 DEF Typed
  <2> QED BY <2>1 DEF SelfSpared
<1>4. ASSUME NEW b \in App \cup Remote PROVE cache[b].id \in 0..born[b]
  BY DEF Typed, Dated
<1> QED BY <1>1, <1>2, <1>3, <1>4 DEF Typed, TypeOK, Entry

(* No status, pass or cache entry holds a client ID that Entra ID is yet   *)
(* to give out, and no pass a revision that is yet to be written.          *)
THEOREM TypeCorrect == Spec => []TypeOK
<1>1. Spec => []IInv
  BY InitIInv, NextIInv, PTL DEF Spec
<1> QED BY <1>1, IInvTypeOK, PTL

(* A step that leaves the annotation empty during a pass has removed the   *)
(* one mark that the pass has read, and no other.                          *)
LEMMA MarkRemoved ==
  ASSUME IInv, [Next]_vars, NEW a \in App,
         resync[a] # <<>>, resync'[a] = <<>>, pc[a] # "idle"
  PROVE  resync[a] = tx[a].resync
<1>1. /\ resync[a] \in Seq(Entry)
      /\ tx[a].resync \in Seq(Entry)
      /\ Begins(tx[a].resync, resync[a])
  BY DEF IInv, Typed, TxType, ReadFirst
<1>2. UpdateAnnotations(a)
  <2>1. AnnotationStep(a)
    BY AnnotationSteps DEF IInv
  <2>2. ~Begins(resync[a], resync'[a])
    BY <1>1 DEF Begins
  <2>3. pc'[a] = "idle" /\ resync'[a] # resync[a]
    BY <2>1, <2>2 DEF AnnotationStep
  <2>4. ASSUME NEW c \in App, Pass(c) PROVE c = a /\ UpdateAnnotations(c)
    BY <2>3, <2>4
    DEF Pass, Prepare, RegisterApp, ResolvePreAuthorizedApp, ProduceEvent, UpdateStatus,
        UpdateAnnotations, resources, IInv, Typed
  <2>5. ~(\E g \in Slot : Synchronize(g))
    BY <2>3
    DEF Synchronize, ListResources, MarkForResync, FindDeleted, EventSynchronized,
        resources, passes
  <2>6. ~Environment /\ ~Faults
    BY <2>3
    DEF Environment, DeleteResource, CreateResource, EditSpec, RegisterRemote, Faults,
        AbortPass, EventFails, LookUpFails, Restart, Fault, resources, passes, IInv, Typed
  <2>7. ~Sweep /\ ~(\E b \in AnyApp : ExpireEntry(b)) /\ ~UNCHANGED vars
    BY <2>3
    DEF Sweep, StartSweep, LookUp, MarkSwept, ExpireEntry, vars, resources, passes
  <2> QED BY <2>4, <2>5, <2>6, <2>7 DEF Next, AnyApp
<1> DEFINE mine == RemoveFromAnnotation(tx[a].resync)
<1>3. resync'[a] = IF mine # <<>> THEN mine
                   ELSE IF tx[a].resync = <<>> THEN resync[a]
                   ELSE RemoveFromAnnotation(resync[a])
  BY <1>2 DEF UpdateAnnotations, IInv, Typed
<1>4. tx[a].resync # <<>> /\ mine = <<>> /\ RemoveFromAnnotation(resync[a]) = <<>>
  BY <1>3 DEF RemoveFromAnnotation
<1>5. Tail(tx[a].resync) = <<>> /\ Tail(resync[a]) = <<>>
  BY <1>4 DEF RemoveFromAnnotation
<1>6. Len(tx[a].resync) = 1 /\ Len(resync[a]) = 1
  <2>1. ASSUME NEW q \in Seq(Entry), q # <<>>, Tail(q) = <<>> PROVE Len(q) = 1
    <3>1. Len(Tail(q)) = Len(q) - 1 /\ Len(q) \in Nat
      BY <2>1, HeadTailProperties
    <3> QED BY <2>1, <3>1
  <2> QED BY <1>1, <1>4, <1>5, <2>1
<1>7. tx[a].resync[1] = resync[a][1]
  BY <1>1, <1>6 DEF Begins
<1> QED BY <1>1, <1>6, <1>7, SeqEqual

(* A mark that comes in while a pass runs is never lost to the annotation  *)
(* update at its end: the annotation is emptied only of what it has read.  *)
THEOREM MarksAreHeard == Spec => MarksHeard
<1>1. Spec => []IInv
  BY InitIInv, NextIInv, PTL DEF Spec
<1>2. IInv /\ [Next]_vars
      => [\A a \in App :
            resync[a] # <<>> /\ resync'[a] = <<>> /\ pc[a] # "idle" =>
              resync[a] = tx[a].resync]_vars
  BY MarkRemoved
<1> QED BY <1>1, <1>2, PTL DEF Spec, MarksHeard
=============================================================================
