CONSTANTS
    Proc = {p1, p2, p3}
    NFILE = 2
    NOFILE = 2
    PIPESIZE = 2
    Pipe = {i1}
    Byte = {0, 1}
    Messages <- MCMessages
    ReadSizes = {2}
    UWRAP = 4
    NoPipe = none
SYMMETRY Symmetry
SPECIFICATION Spec
INVARIANTS NoUseAfterFree EndsOpen SleepersJustified
PROPERTIES PipesAreQueues
CHECK_DEADLOCK FALSE
