CONSTANTS
    Keys <- MCKeys
    Vals = {1, 2}
    NPages = 22
    PageCap = 13
    SlotLen = 1
    LeafOver = 0
    InnerOver = 2
    ValLen <- MCValLen
    Reserve = 3
    MaskBits = 3
    AncMax = 32
    Shards <- MCShards
    OpKeys = {3, 45}
    OpVals = {1, 2}
    Watermark = 20
    MaxCalls = 2
    MaxBatch = 2
    TxFills = FALSE
    TxRewrites = FALSE
    CursorPages = 4
    CursorMoves = {"first", "last", "seek", "next"}
SPECIFICATION Spec
INVARIANT Aligned
INVARIANT ReadExact
INVARIANT ChainExact
INVARIANT CursorExact
CHECK_DEADLOCK FALSE
