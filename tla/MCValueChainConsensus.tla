----------------------- MODULE MCValueChainConsensus -----------------------
(* Instances of ValueChainConsensus for TLC. *)
EXTENDS ValueChainConsensus

CONSTANTS own1, peer1, t0, t1, g, h1, h2

OneOwnTx == {own1}
OnePeerTx == {peer1}
TwoTimeBlocks == {t0, t1}
Times == [t \in TimeBlocks |-> IF t = t0 THEN 1 ELSE 2]

Hash3 == {g, h1, h2}

Bag(txs) == [t \in Txs |-> IF t \in txs THEN 1 ELSE 0]

PeerBlock(hash, at, ref, txs) ==
    [hash |-> hash, prev |-> ZeroHash, time |-> at, ref |-> ref, txs |-> Bag(txs)]

Genesis == PeerBlock(g, 1, t0, {})

(* A block with the peer's transaction, and a bad one with both. *)
TwoPeerBlocks == {PeerBlock(h1, 2, t1, {peer1}), PeerBlock(h2, 1, t0, {own1, peer1})}
OneBadBlock == {PeerBlock(h2, 1, t0, {own1, peer1})}
=============================================================================
