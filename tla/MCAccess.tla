------------------------------ MODULE MCAccess ------------------------------
(***************************************************************************)
(* Access for TLC: three editions that give, move and take away.           *)
(***************************************************************************)
EXTENDS Access

None == [listed |-> FALSE, scopes |-> {}, roles |-> {}]
Gets(s, r) == [listed |-> TRUE, scopes |-> s, roles |-> r]
By(a, b) == [p \in Managed |-> IF p = "a" THEN a ELSE b]

Two == {"a", "b"}
Editions == << By(Gets({"read"}, {"write"}), None),
               By(Gets({"write"}, {"write"}), Gets({}, {"write"})),
               By(None, Gets({"read"}, {})) >>
=============================================================================
