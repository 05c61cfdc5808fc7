\* A log that fills up with no checkpoint in it.
SPECIFICATION MCSpec
CONSTANTS
    Devices = {"own"}
    MaxLBA = 2
    Quantum = 1
    PackCap = 1
    Chunks = 1
    CoalesceN = 2
    MaxRec = 4
    MaxChecks = 0
    MaxCrash = 1
    Ops = {"put", "close"}
    CrashAt <- Idle
    PowerLoss = FALSE
INVARIANTS
    Reopens
