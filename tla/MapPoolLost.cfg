CONSTANTS
    Mappers = {m1}
    NumFiles = 3
    QueueSize = 5
    SpuriousWakeups = FALSE
SPECIFICATION MapSpec
INVARIANT AllFilesMapped
CHECK_DEADLOCK FALSE
