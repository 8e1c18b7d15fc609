CONSTANTS
    p1 = p1
    p2 = p2
    b1 = b1
    b2 = b2
    b3 = b3
    Procs <- TwoProcesses
    Blocks <- TwoBlocks
    NoBlock = NoBlock
    Torn = Torn
    MaxFaults = 0
SPECIFICATION Spec
INVARIANT ReadersFindLatest
