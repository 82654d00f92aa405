SPECIFICATION FairScripts
CONSTANTS
    Sup = {s1}
    Caller = {window, terminal}
    Window = window
    Action = {"Start", "Stop", "Restart", "Update"}
    Faults = {"crash", "coreExit", "raise", "follow", "deadline", "declined", "route", "kill"}
    None = None
PROPERTIES
    StopMeansDown
    StopSticks
    ControlsComeBack
CHECK_DEADLOCK FALSE
