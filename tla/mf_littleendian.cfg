CONSTANTS
    s1 = s1
    s2 = s2
    Sessions <- OneSession
    Messages <- ShortMessages
    Base = 3
    HeaderSize = 2
    LittleEndian = TRUE
    ReadSize = 3
    MaxSent = 2
    MaxCloses = 0
SPECIFICATION FairSpec
CHECK_DEADLOCK FALSE
PROPERTY HostOrderDelivers
