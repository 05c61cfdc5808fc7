\* A Rollback throws away acknowledged writes of the open pack.
SPECIFICATION MCSpec
CONSTANTS
    Devices = {"own"}
    MaxLBA = 6
    Quantum = 4
    PackCap = 2
    Chunks = 1
    CoalesceN = 3
    MaxRec = 3
    MaxChecks = 0
    MaxCrash = 1
    Ops = {"put", "tx", "rollback", "sync"}
    CrashAt <- Idle
    PowerLoss = FALSE
INVARIANTS
    Durable
