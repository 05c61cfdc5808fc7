\* A kill while a truncation zeroes the blocks it gave up.
SPECIFICATION MCSpec
CONSTANTS
    Devices = {"own"}
    MaxLBA = 6
    Quantum = 4
    PackCap = 4
    Chunks = 1
    CoalesceN = 4
    MaxRec = 3
    MaxChecks = 2
    MaxCrash = 1
    Ops = {"now", "checkpoint"}
    CrashAt <- Anywhere
    PowerLoss = FALSE
INVARIANTS
    NoRupture
