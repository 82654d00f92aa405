SPECIFICATION Spec
CONSTANTS
    Sup = {s1, s2}
    Manual = {s2}
    MaxCore = 2
    Version = {v1, v2}
    MaxChange = 1
    Faults = {"coreExit", "snapshot", "prepare", "rotate", "kill", "cancelWrite", "spawn", "checks", "deadline", "v2rayN"}
    Xray = Xray
    None = None
SYMMETRY Versions
CONSTRAINT OneLaunch
INVARIANTS
    GuardedWhileServing
    OneCore
    
    
    AccessPublished
    BlameIsFair

    
CHECK_DEADLOCK FALSE
