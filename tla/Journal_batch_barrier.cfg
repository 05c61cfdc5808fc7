\* A batch after a Put: EndPack finds an outer pack and does not flush.
SPECIFICATION MCSpec
CONSTANTS
    Devices = {"own"}
    MaxLBA = 6
    Quantum = 4
    PackCap = 4
    Chunks = 1
    CoalesceN = 4
    MaxRec = 3
    MaxChecks = 0
    MaxCrash = 1
    Ops = {"put", "batch"}
    CrashAt <- Idle
    PowerLoss = FALSE
INVARIANTS
    BatchDurable
