CONSTANTS
    n1 = n1
    n2 = n2
    Nodes <- TwoNodes
    AddressOf <- OwnHosts
    Known <- EachOther
    RoleOf <- DualAndTime
    NoConnection = NoConnection
    Attempts = 2
    MaxFaults = 1
SPECIFICATION LifeFairSpec
CHECK_DEADLOCK FALSE
INVARIANTS LifeTypeOK DialledSessionsHear BroadcastReachesPeers
INVARIANTS AcceptStaysArmed HandlersFindComponents ShutdownOrder
PROPERTIES MutualPeersMeet QuitEnds
