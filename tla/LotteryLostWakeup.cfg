CONSTANTS
    NPROC = 3
    IntMax = 31
    Tickets = {2}
    Naps = {0, 2}
    FirstTick = 3
    TickValues = 5
    MaxTicks = 4
    MaxBoost = 3
    MayKill = TRUE
SPECIFICATION Spec
PROPERTY WakeupWakesAll
CHECK_DEADLOCK FALSE
