SPECIFICATION FairSpec
CONSTANTS
    MaxId = 2
    Tun = {1}
    MaxBytes = 1
    MaxQueue = 2
    MaxSequence = 3
    HistoryLimit = 1
    PerSource = 1
    MayFail = TRUE
INVARIANTS
    RatesOfInterval
    CaptureComplete
PROPERTIES
    OutageShown
