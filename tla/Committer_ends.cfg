\* Every call, Close and Rollback included, with a flush that may fail; every
\* transaction ends.
SPECIFICATION FairSpec
CONSTANTS
    Shards = {1, 2}
    NoShard = 0
    Windows = {}
    Default = 1
    CoalesceN = 2
    MaxFaults = 1
    Ops = {"put", "tx", "rollback", "close"}
PROPERTIES
    WindowHonoured
    StopEnds
