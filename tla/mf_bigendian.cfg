CONSTANTS
    s1 = s1
    s2 = s2
    Sessions <- TwoSessions
    Messages <- EdgeMessages
    Base = 3
    HeaderSize = 2
    LittleEndian = FALSE
    ReadSize = 3
    MaxSent = 2
    MaxCloses = 1
SPECIFICATION FairSpec
CHECK_DEADLOCK FALSE
INVARIANTS ProcessedInOrder OverrunNeedsHugeMessage
PROPERTY EveryMessageProcessed
