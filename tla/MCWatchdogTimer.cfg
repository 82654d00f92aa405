SPECIFICATION Spec
CONSTANTS
    Stale = 3
    Confirm = 4
    StartupGuard = 4
    Timeout = 16
    BeatGap = 2
    PollGap = 1
    WriteGap = 2
    MinAwake = 4
    MaxNap = 8
    Horizon = 20
INVARIANTS
    HealthyCoreKept
    WatchKept
    LossNoticed
CHECK_DEADLOCK FALSE
