CONSTANTS
    p1 = p1
    p2 = p2
    g = g
    a1 = a1
    a2 = a2
    b1 = b1
    Procs <- TwoProcesses
    Blocks <- FourBlocks
    Genesis <- g
    OwnBlocks <- TwoAndOne
    ZeroHash = ZeroHash
    Unmade = Unmade
    NoBlock = NoBlock
    Torn = Torn
    MaxFaults = 1
SPECIFICATION SharedSpec
INVARIANTS SharedTypeOK LatestNamesExistingFile QuiescentReadable
INVARIANTS PredecessorsHaveFiles PredecessorUnlessBlind
PROPERTY GenesisStaysFirst
