CONSTANTS
    NPROC = 3
    IntMax = 31
    Tickets = {14}
    Naps = {0, 2}
    FirstTick = 4
    TickValues = 5
    MaxTicks = 2
    MaxBoost = 2
    MayKill = TRUE
SPECIFICATION Spec
INVARIANTS DrawIsFair NoOversleep
PROPERTY WakeupWakesLive
CHECK_DEADLOCK FALSE
