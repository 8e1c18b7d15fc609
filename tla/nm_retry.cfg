CONSTANTS
    n1 = n1
    n2 = n2
    n3 = n3
    Nodes <- TwoNodes
    AddressOf <- OwnHosts
    Known <- OneWay
    NoConnection = NoConnection
    Attempts = 5
    MaxFaults = 0
SPECIFICATION FairSpec
CHECK_DEADLOCK FALSE
PROPERTY KnownPeersConnected
