-------------------------------- MODULE Custody --------------------------------
(***************************************************************************)
(* What the operator promises about a resource and its application,        *)
(* without a word of passes, queues, retries or restarts.                  *)
(*                                                                         *)
(* A resource is held, by the finalizer, before it gets an application,    *)
(* and an application gets credentials only from a resource that is held.  *)
(* Only the end of the resource ends the application, and never that of a  *)
(* resource whose user asked in time for it to be kept.  The resource is   *)
(* let go when no credentials are left but passwords that could not be     *)
(* removed, and no application unless the user asked for that.  Module     *)
(* Lifecycle implements this for one tenant.                               *)
(***************************************************************************)
EXTENDS TLAPS

VARIABLES
  resource,     \* "none", "free", "held", or "ending": held and deleted
  keep,         \* its user has asked in time to preserve the application
  application,  \* the application is in Entra ID
  credentials   \* its certificates and passwords

vars == <<resource, keep, application, credentials>>

Held == resource \in {"held", "ending"}

(* "refused" are passwords that were to be removed and could not be. *)
Fresh == {"certificate", "password"}

Init ==
  /\ resource = "none"
  /\ keep = FALSE
  /\ application = FALSE
  /\ credentials = {}

(* What the user does to the resource. *)
Become(from, to) ==
  /\ resource = from
  /\ resource' = to
  /\ UNCHANGED <<application, credentials>>

Create == Become("none", "free") /\ keep' = FALSE
DeleteFree == Become("free", "none") /\ UNCHANGED keep
Delete == Become("held", "ending") /\ UNCHANGED keep

(* The user may ask at any time; whether it is in time is not said here.   *)
AskToKeep ==
  /\ resource # "none"
  /\ keep' = TRUE
  /\ UNCHANGED <<resource, application, credentials>>

(* What others do in Entra ID. *)
Lose ==
  /\ application
  /\ application' = FALSE
  /\ credentials' = {}
  /\ UNCHANGED <<resource, keep>>

(* What the operator does. *)
Hold == Become("free", "held") /\ UNCHANGED keep

Register ==
  /\ Held
  /\ ~application
  /\ application' = TRUE
  /\ UNCHANGED <<resource, keep, credentials>>

Equip ==
  /\ Held
  /\ application
  /\ \E gone \in SUBSET {"refused"}, made \in {{}, Fresh} :
       credentials' = (credentials \ gone) \cup made
  /\ UNCHANGED <<resource, keep, application>>

Unregister ==
  /\ resource = "ending"
  /\ ~keep
  /\ application' = FALSE
  /\ credentials' = {}
  /\ UNCHANGED <<resource, keep>>

(* Some passwords or all of them, or all certificates. *)
Purge ==
  /\ resource = "ending"
  /\ keep
  /\ \/ credentials' = credentials \ {"password", "refused"}
     \/ /\ credentials \cap {"password", "refused"} # {}
        /\ credentials' = (credentials \ {"password"}) \cup {"refused"}
     \/ credentials' = credentials \ {"certificate"}
  /\ UNCHANGED <<resource, keep, application>>

Release ==
  /\ Become("ending", "none")
  /\ credentials \subseteq {"refused"}
  /\ application => keep
  /\ UNCHANGED keep

Next ==
  \/ Create
  \/ DeleteFree
  \/ Delete
  \/ AskToKeep
  \/ Lose
  \/ Hold
  \/ Register
  \/ Equip
  \/ Unregister
  \/ Purge
  \/ Release

Spec == Init /\ [][Next]_vars

----------------------------------------------------------------------------
(* Credentials are always those of an application, and unless Entra ID     *)
(* refused to remove them, of one whose resource is held: what Lifecycle   *)
(* calls OnlyRefusedLeft, and more.                                        *)
Answered ==
  /\ credentials # {} => application
  /\ credentials \cap Fresh # {} => Held

(* Credentials never outlive the application, and those that could be      *)
(* removed never outlive the custody of it.                                *)
THEOREM AlwaysAnswered == Spec => []Answered
<1>1. Init => Answered
  BY DEF Init, Answered
<1>2. Answered /\ [Next]_vars => Answered'
  <2> SUFFICES ASSUME Answered, [Next]_vars PROVE Answered'
    OBVIOUS
  <2> USE DEF Answered, Held, Fresh, Become
  <2>1. CASE UNCHANGED vars
    BY <2>1 DEF vars
  <2>2. CASE Create \/ DeleteFree \/ Delete \/ AskToKeep \/ Hold
    BY <2>2 DEF Create, DeleteFree, Delete, AskToKeep, Hold
  <2>3. CASE Lose \/ Register \/ Equip \/ Unregister
    BY <2>3 DEF Lose, Register, Equip, Unregister
  <2>4. CASE Purge
    BY <2>4 DEF Purge
  <2>5. CASE Release
    BY <2>5 DEF Release
  <2> QED BY <2>1, <2>2, <2>3, <2>4, <2>5 DEF Next
<1> QED BY <1>1, <1>2, PTL DEF Spec
================================================================================
