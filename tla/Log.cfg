CONSTANTS
    Proc = {p1, p2, p3}
    Block = {b1, b2, b3}
    Value = {v1, v2}
    Zero = v1
    MAXOPBLOCKS = 2
    LOGSIZE = 4
    nlog = 4
    OpBlocks = 1
    NONE = NONE
SYMMETRY Symmetry
SPECIFICATION Spec
INVARIANTS LogFits QuiescentDurable SleepersHaveWaker
PROPERTIES AtomicOperations
