CONSTANTS
    n1 = n1
    n2 = n2
    n3 = n3
    Nodes <- ThreeNodes
    AddressOf <- OwnHosts
    Known <- EachOther
    NoConnection = NoConnection
    Attempts = 2
    MaxFaults = 2
SPECIFICATION Spec
CHECK_DEADLOCK FALSE
INVARIANTS TypeOK DialledSessionsHear BroadcastReachesPeers
