CONSTANT MaxMessages = 6
SPECIFICATION FairSpec
CHECK_DEADLOCK FALSE
INVARIANTS TypeOK StartedInOrder FifoWithoutOverlap
PROPERTIES SentWithoutOverlap ImplementsQueueWithoutOverlap
