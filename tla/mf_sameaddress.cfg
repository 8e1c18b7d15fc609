CONSTANTS
    s1 = s1
    s2 = s2
    Sessions <- TwoSessions
    Messages <- ShortMessages
    Base = 3
    HeaderSize = 2
    LittleEndian = FALSE
    ReadSize = 3
    MaxSent = 2
    MaxCloses = 0
SPECIFICATION Spec
CHECK_DEADLOCK FALSE
INVARIANT CompleteMessages
