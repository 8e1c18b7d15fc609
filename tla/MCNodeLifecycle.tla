-------------------------- MODULE MCNodeLifecycle --------------------------
(* Instances of NodeLifecycle for TLC. *)
EXTENDS NodeLifecycle

CONSTANTS n1, n2

TwoNodes == {n1, n2}
OwnHosts == [n \in Nodes |-> n]

(* main.cpp: two nodes that know each other, one with both loops. *)
EachOther == [n \in Nodes |-> IF n = n1 THEN <<n2>> ELSE <<n1>>]
DualAndTime == [n \in Nodes |-> IF n = n1 THEN "dual" ELSE "time"]
=============================================================================
