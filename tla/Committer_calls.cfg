\* Every call that flushes or registers a shard, with flushes that fail.
SPECIFICATION Spec
CONSTANTS
    Shards = {1, 2}
    NoShard = 0
    Windows = {1, 3}
    Default = 2
    CoalesceN = 3
    MaxFaults = 1
    Ops = {"put", "windowed", "now", "replicated", "tx", "sync", "close"}
INVARIANTS
    NeverForgotten
    NoOversleep
