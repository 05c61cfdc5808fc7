\* Mut publishes without preparePublish: the ceiling of retained heaps.
SPECIFICATION Spec
CONSTANTS
    Readers = {r1, r2}
    Bufs = {b1, b2, b3, b4, b5}
    NoBuf = NoBuf
    Pages = {0}
    Header = 0
    MaxHold = 1
    MaxStamp = 6
    Ops = {"mut"}
    FullOps = {}
    MmapFails = FALSE
SYMMETRY Symmetry
INVARIANT
    HoldCeiling
