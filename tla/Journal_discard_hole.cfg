\* A batch that fails after a truncation: next goes back to a stale qLBA.
SPECIFICATION MCSpec
CONSTANTS
    Devices = {"own"}
    MaxLBA = 6
    Quantum = 2
    PackCap = 1
    Chunks = 1
    CoalesceN = 3
    MaxRec = 5
    MaxChecks = 1
    MaxCrash = 1
    Ops = {"put", "checkpoint", "batch", "batchfail"}
    CrashAt <- Idle
    PowerLoss = FALSE
INVARIANTS
    NoRupture
