\* Every operation of the module, with full heaps, failing allocations and faults.
SPECIFICATION FairSpec
CONSTANTS
    Readers = {r1}
    Bufs = {b1, b2, b3, b4}
    NoBuf = NoBuf
    Pages = {0}
    Header = 0
    MaxHold = 1
    MaxStamp = 3
    Ops = {"put", "tx", "mut", "repack", "compact", "close", "fault"}
    FullOps = {"put", "tx"}
    MmapFails = TRUE
INVARIANTS
    TypeOK
    RefsExact
    MappedWhileOpen
PROPERTY
    PublishTerminates
