\* Two clients with handles on one file; Open, Create and Delete run alone.
SPECIFICATION Spec
CONSTANTS
    Clients = {c1, c2}
    States = {s1}
    None = None
    BlockSize = 2
    MaxSize = 3
    Threshold = 2
    MaxGen = 3
    MaxWrites = 3
    MaxFaults = 1
    MaxCrashes = 1
    Spans <- MCSpans
    Calls = {"write", "truncate", "sync", "delete", "create"}
    Overlaps = {}
    PurgeFaults = FALSE
    GhostFaults = FALSE
    WritesAfterCrash = FALSE
INVARIANT ViewExact
INVARIANT StoreExact
PROPERTY StopPlausible
PROPERTY GenerationMonotone
SYMMETRY Symmetry
CHECK_DEADLOCK FALSE
