------------------------ MODULE MCTimeChainConsensus ------------------------
(* Instances of TimeChainConsensus for TLC. *)
EXTENDS TimeChainConsensus, TLC

CONSTANTS k1, k2, f1, f2

OneStart == {k1}
TwoStarts == {k1, k2}
Others == {f1, f2}

PeerBlock(key, time) == [prev |-> ZeroHash, time |-> time, key |-> key]

(* One block the node's own clock reaches, one later than the genesis      *)
(* block, and one that nobody signed properly.                             *)
ThreePeerBlocks == {PeerBlock(f1, 2), PeerBlock(f1, 6), PeerBlock(f2, 7)}
OneUnsigned == {PeerBlock(f2, 7)}
=============================================================================
