CONSTANTS
    s1 = s1
    s2 = s2
    Sessions <- OneSession
    Messages <- ThreeMessages
    Base = 3
    HeaderSize = 2
    LittleEndian = FALSE
    ReadSize = 3
    MaxSent = 4
    MaxCloses = 0
SPECIFICATION FairSpec
CHECK_DEADLOCK FALSE
INVARIANTS TypeOK ProcessedInOrder
PROPERTY EveryMessageProcessed
