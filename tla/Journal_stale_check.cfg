\* A checkpoint whose append truncates the log keeps a stale position.
SPECIFICATION MCSpec
CONSTANTS
    Devices = {"own"}
    MaxLBA = 6
    Quantum = 2
    PackCap = 1
    Chunks = 1
    CoalesceN = 4
    MaxRec = 6
    MaxChecks = 3
    MaxCrash = 1
    Ops = {"now", "put", "checkpoint", "full"}
    CrashAt <- Idle
    PowerLoss = FALSE
INVARIANTS
    Durable
