\* A Rollback zeroes the counter of the writes acknowledged before it.
SPECIFICATION Spec
CONSTANTS
    Shards = {1, 2}
    NoShard = 0
    Windows = {}
    Default = 1
    CoalesceN = 2
    MaxFaults = 0
    Ops = {"put", "tx", "rollback"}
INVARIANT
    NeverForgotten
