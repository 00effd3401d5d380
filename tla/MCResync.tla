------------------------------ MODULE MCResync ------------------------------
(***************************************************************************)
(* Resync for TLC: which apps there are and who pre-authorizes whom.       *)
(***************************************************************************)
EXTENDS Resync

Pair == {"a", "b"}
Mutual == [x \in Pair |-> Pair]
OneWay == [x \in Pair |-> IF x = "a" THEN {"b"} ELSE {}]

Other == {"r"}
Dependent == {"a", "r"}
Trio == {"a", "b", "c"}
ToThird == [x \in Trio |-> IF x = "c" THEN {} ELSE {"c"}]

ToBoth == [x \in Pair |-> IF x = "a" THEN {"b"} \cup Other ELSE {}]
=============================================================================
