\* A power loss inside a truncation, whose writes share one barrier.
SPECIFICATION MCSpec
CONSTANTS
    Devices = {"own"}
    MaxLBA = 6
    Quantum = 4
    PackCap = 2
    Chunks = 1
    CoalesceN = 4
    MaxRec = 6
    MaxChecks = 1
    MaxCrash = 1
    Ops = {"now", "checkpoint"}
    CrashAt <- Anywhere
    PowerLoss = TRUE
INVARIANTS
    Durable
