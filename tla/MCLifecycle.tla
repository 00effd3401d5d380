---------------------------- MODULE MCLifecycle ----------------------------
(***************************************************************************)
(* Lifecycle for TLC: one tenant, or two of which the second one's         *)
(* operator wants spec.tenant to be set.                                   *)
(***************************************************************************)
EXTENDS Lifecycle

One == {"nav"}
Two == {"nav", "trygdeetaten"}
OnlySecond == {"trygdeetaten"}
=============================================================================
