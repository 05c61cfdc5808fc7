\* A transaction that meets a full heap goes on after the rebuild.
SPECIFICATION MCSpec
CONSTANTS
    Devices = {"own"}
    MaxLBA = 6
    Quantum = 4
    PackCap = 4
    Chunks = 1
    CoalesceN = 4
    MaxRec = 4
    MaxChecks = 1
    MaxCrash = 1
    Ops = {"tx", "full"}
    CrashAt <- Idle
    PowerLoss = FALSE
INVARIANTS
    TxWhole
