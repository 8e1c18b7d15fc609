CONSTANT MaxMessages = 2
SPECIFICATION FairSpec
CHECK_DEADLOCK FALSE
PROPERTY EverythingSent
