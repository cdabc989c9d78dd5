CONSTANTS
    NPROC = 4
    Dirs = {0, 1, 2, 3, 4}
    MaxPages = 2
    Programs <- MCPrograms
SPECIFICATION Spec
INVARIANTS NoMissedExit ParentsAlive MemoryOwned SizesAgree WaitersHaveChildren
CHECK_DEADLOCK FALSE
VIEW View
