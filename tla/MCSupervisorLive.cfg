SPECIFICATION FairFromFirst
CONSTANTS
    Sup = {s1}
    Manual = {}
    MaxCore = 2
    Version = {v1, v2}
    MaxChange = 1
    Faults = {"crash", "slowStart", "slowWatchdog"}
    Xray = Xray
    None = None
INVARIANT
    ServesOnItsOwn
PROPERTIES
    StartEnds
    StopHonoured
    GuardedOrphanEnds
    ChangeNoticed
CHECK_DEADLOCK FALSE
