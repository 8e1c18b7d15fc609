CONSTANTS
    p1 = p1
    p2 = p2
    b1 = b1
    b2 = b2
    b3 = b3
    Procs <- OneProcess
    Blocks <- ThreeBlocks
    NoBlock = NoBlock
    Torn = Torn
    MaxFaults = 2
SPECIFICATION Spec
PROPERTY ImplementsBlockStore
