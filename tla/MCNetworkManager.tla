-------------------------- MODULE MCNetworkManager --------------------------
(* Instances of NetworkManager for TLC. *)
EXTENDS NetworkManager

CONSTANTS n1, n2, n3

TwoNodes == {n1, n2}
ThreeNodes == {n1, n2, n3}

(* A host for each node, or one for all as in the README. *)
OwnHosts == [n \in Nodes |-> n]
OneHost == [n \in Nodes |-> "127.0.0.1"]

(* main.cpp: two nodes that know each other; a third knows the first. *)
EachOther == [n \in Nodes |-> IF n = n1 THEN <<n2>> ELSE <<n1>>]

(* Only the first knows the second. *)
OneWay == [n \in Nodes |-> IF n = n1 THEN <<n2>> ELSE <<>>]
=============================================================================
