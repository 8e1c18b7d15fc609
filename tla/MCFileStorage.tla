--------------------------- MODULE MCFileStorage ---------------------------
(* Instances of FileStorage for TLC. *)
EXTENDS FileStorage

CONSTANTS p1, p2, b1, b2, b3

OneProcess == {p1}
TwoProcesses == {p1, p2}
TwoBlocks == {b1, b2}
ThreeBlocks == {b1, b2, b3}
=============================================================================
