CONSTANTS
    k1 = k1
    k2 = k2
    f1 = f1
    f2 = f2
    Keys <- TwoStarts
    ForeignKeys <- Others
    GenesisKey = GenesisKey
    GenesisTime = 5
    PeerBlocks <- ThreePeerBlocks
    BadlySigned <- OneUnsigned
    ZeroHash = ZeroHash
    NoBlock = NoBlock
    NoKey = NoKey
    MaxTime = 2
    MaxFaults = 1
SPECIFICATION Spec
CHECK_DEADLOCK FALSE
INVARIANTS TypeOK OwnBlocksLinked OwnTimeline
PROPERTIES ReceiptNeverRewinds OwnBlockExtendsLatest
