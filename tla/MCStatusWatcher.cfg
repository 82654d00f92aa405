SPECIFICATION FairSpec
CONSTANTS
    MaxVersion = 4
    MaxRun = 2
    MaxRetries = 6
    None = None
PROPERTIES
    
    CatchesUp
    StaleShown
