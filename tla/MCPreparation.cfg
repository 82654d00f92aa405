SPECIFICATION FairSpec
CONSTANTS
    Profile = {"a", "b"}
    Server <- Servers
    Site <- NoSites
    Fake <- Fakes
    Picked = None
    MaxChange = 2
    MaxStart = 2
    Faults = {"source", "route", "asset", "disk", "busy", "reject", "core", "crash"}
    MaxFailure = 1
    None = None
INVARIANTS
    RunsPrepared
    CleanAfterService
PROPERTIES
    ChangeFollowed
CHECK_DEADLOCK FALSE
