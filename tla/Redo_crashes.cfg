SPECIFICATION Spec
CONSTANTS
    k1 = k1
    k2 = k2
    NoKey = NoKey
    Reopens = FALSE
    Keys <- TwoKeys
    MaxRecords = 4
    MaxLog = 4
    MaxCrashes = 2
    Workloads <- SafeMixes
SYMMETRY AnyKey
CHECK_DEADLOCK FALSE
INVARIANT RedoExact
INVARIANT RedoPlausible
