\* Three devices: group commit and power losses, a log that fills up, kills inside truncations.
SPECIFICATION MCSpec
CONSTANTS
    MaxLBA = 7
    Quantum = 2
    PackCap = 2
    Chunks = 2
    CoalesceN = 3
    MaxRec = 5
    MaxChecks = 1
    MaxCrash = 1
    Ops = {"put", "big", "now", "sync", "window", "checkpoint"}
    CrashAt <- BetweenCalls
    PowerLoss = TRUE
    Devices = {"own", "small", "cut"}
INVARIANT DurableKept
INVARIANT LossIsTail
INVARIANT TxReplayedWhole
INVARIANT PackPlaced
PROPERTY CutKept
