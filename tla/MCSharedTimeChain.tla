-------------------------- MODULE MCSharedTimeChain --------------------------
(* Instances of SharedTimeChain for TLC. *)
EXTENDS SharedTimeChain

CONSTANTS p1, p2, g, a1, a2, b1

TwoProcesses == {p1, p2}
FourBlocks == {g, a1, a2, b1}

(* One process produces twice, so that a block of the other can get between*)
(* two of its own.                                                         *)
TwoAndOne == [p \in Procs |-> IF p = p1 THEN {a1, a2} ELSE {b1}]
=============================================================================
