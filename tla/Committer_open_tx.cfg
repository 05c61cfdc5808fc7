\* A transaction that stays open on one shard while another shard owes durability.
SPECIFICATION OpenTxSpec
CONSTANTS
    Shards = {1, 2}
    NoShard = 0
    Windows = {}
    Default = 1
    CoalesceN = 2
    MaxFaults = 0
    Ops = {"put", "tx"}
PROPERTY
    WindowElsewhere
