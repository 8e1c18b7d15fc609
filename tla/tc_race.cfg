CONSTANTS
    k1 = k1
    k2 = k2
    f1 = f1
    f2 = f2
    Keys <- OneStart
    ForeignKeys <- Others
    GenesisKey = GenesisKey
    GenesisTime = 0
    PeerBlocks <- ThreePeerBlocks
    BadlySigned <- OneUnsigned
    ZeroHash = ZeroHash
    NoBlock = NoBlock
    NoKey = NoKey
    MaxTime = 3
    MaxFaults = 0
SPECIFICATION Spec
CHECK_DEADLOCK FALSE
PROPERTY LatestTimeNeverFalls
