CONSTANTS
    n1 = n1
    n2 = n2
    n3 = n3
    HashSize = 4
    KeySize = 4
    SignatureSize = 8
    Refused = Refused
    Nodes <- TwoNodes
    Role <- Dual
    PublicKey <- Keys
    Transactions <- TwoTransactions
    TimeBlocks <- ATimeBlock
    ValueBlocks <- AValueBlock
    MaxSent = 2
SPECIFICATION Spec
CHECK_DEADLOCK FALSE
INVARIANT BlocksArrive
