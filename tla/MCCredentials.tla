--------------------------- MODULE MCCredentials ---------------------------
(***************************************************************************)
(* Credentials for TLC: pods are interchangeable, so the safety runs may   *)
(* take them as a symmetry set.                                            *)
(***************************************************************************)
EXTENDS Credentials, TLC

CONSTANTS p1, p2

TwoPods == {p1, p2}
OnePod == {p1}

PodSymmetry == Permutations(TwoPods)

All == {"name", "spec", "prefix", "rotate", "age", "lapse"}
NamesOnly == {"name"}
NamesAndSpecs == {"name", "spec"}
RotateOnly == {"rotate"}
============================================================================
