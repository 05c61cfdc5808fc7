\* Every prepared write path, with heap-full rebuilds and failing mmap, against two readers.
SPECIFICATION Spec
CONSTANTS
    Readers = {r1, r2}
    Bufs = {b1, b2, b3, b4, b5}
    NoBuf = NoBuf
    Pages = {0, 1}
    Header = 0
    MaxHold = 1
    MaxStamp = 4
    Ops = {"put", "tx", "fault"}
    FullOps = {"put"}
    MmapFails = TRUE
SYMMETRY Symmetry
INVARIANT SnapshotStable
INVARIANT HoldCeiling
INVARIANT NoTrace
INVARIANT BuffersAccounted
PROPERTY SnapshotSpec
