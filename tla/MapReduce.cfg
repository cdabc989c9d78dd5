CONSTANTS
    Mappers = {m1, m2}
    NumFiles = 2
    QueueSize = 4
    SpuriousWakeups = TRUE
    RSpuriousWakeups = TRUE
    Reducers = {r1, r2}
    NumKeys = 4
    Threads <- MCThreads
    Builds <- MCBuilds
    RQueueSize = 6
    Content <- MCContent
SPECIFICATION Spec
INVARIANTS QueueIsRest FilesTakenOnce PartitionerReady ListsMatchFiles CountsMatchFiles WalkPushesEachKeyOnce
PROPERTY MR_RunReturns
CHECK_DEADLOCK FALSE
