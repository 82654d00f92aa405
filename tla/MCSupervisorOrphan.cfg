SPECIFICATION FairSpec
CONSTANTS
    Sup = {s1}
    Manual = {}
    MaxCore = 1
    Version = {v1}
    MaxChange = 0
    Faults = {"crash"}
    Xray = Xray
    None = None
PROPERTIES
    OrphanEnds
CHECK_DEADLOCK FALSE
