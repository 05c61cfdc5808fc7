\* The Commit of a transaction that wrote nothing leaves the group open.
SPECIFICATION MCSpec
CONSTANTS
    Devices = {"own"}
    MaxLBA = 6
    Quantum = 4
    PackCap = 4
    Chunks = 1
    CoalesceN = 2
    MaxRec = 3
    MaxChecks = 0
    MaxCrash = 1
    Ops = {"put", "emptytx"}
    CrashAt <- Idle
    PowerLoss = FALSE
INVARIANTS
    LossBound
