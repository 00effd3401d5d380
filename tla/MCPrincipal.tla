------------------------------ MODULE MCPrincipal ------------------------------
EXTENDS Principal

EditionOf(wanted, all, emitted, redirected) ==
  [groups |-> wanted, allowAllUsers |-> all, claim |-> emitted,
   urls |-> redirected, spa |-> TRUE]

(* A group leaves, and the all-users groups and the redirect URI with it. *)
Editions == << EditionOf({"g", "h"}, TRUE, "All", {"url"}),
               EditionOf({"h"}, FALSE, "unset", {}) >>

SettingOf(features, policy) ==
  [features |-> features, policy |-> policy, claim |-> "ApplicationGroup"]

(* The requirement is introduced, and another policy. *)
Restrict == << SettingOf({"groups", "policies"}, 1), SettingOf(Feature, 2) >>
================================================================================
