CONSTANTS
    Proc = {p1, p2}
    Name = {"a", "b"}
    NINODES = 3
    MaxCalls = 4
    Paths <- MCPaths
    NoProc = none
SYMMETRY Symmetry
SPECIFICATION Spec
INVARIANTS RefsCounted LinksCounted NoDangling UnusedIsFree
CHECK_DEADLOCK FALSE
