SPECIFICATION Spec
CONSTANTS
    Window = {w1, w2}
    Route = {r1, r2}
    Rules = {a}
    Version = {v1, v2}
    MaxUpdate = 3
    Keep = 2
    Faults = {"backup", "commit", "trim", "crash"}
    None = None
SYMMETRY Symmetric
INVARIANTS
    NoConflict
    Restorable
PROPERTIES
    RestKept
    ActiveUpdated
