CONSTANTS
    own1 = own1
    peer1 = peer1
    t0 = t0
    t1 = t1
    g = g
    h1 = h1
    h2 = h2
    OwnTxs <- OneOwnTx
    PeerTxs <- OnePeerTx
    GenesisBlock <- Genesis
    PeerBlocks <- TwoPeerBlocks
    PeerHashes <- Hash3
    BadBlocks <- OneBadBlock
    TimeBlocks <- TwoTimeBlocks
    GenesisTimeBlock = t0
    TimeOf <- Times
    ZeroHash = ZeroHash
    NoBlock = NoBlock
    MaxDeliveries = 1
    MaxTimeBlocks = 2
    MaxFaults = 0
SPECIFICATION Spec
INVARIANT IncludedOnce
