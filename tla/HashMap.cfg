CONSTANTS
    Keys <- MCKeys
    Values = {1, 2}
    HashOf <- MCHashOf
    InitCapacity = 3
    MaxCapacity = 12
    Absent = Absent
SPECIFICATION Spec
INVARIANTS SlotsRight
PROPERTY ImplementsMap
