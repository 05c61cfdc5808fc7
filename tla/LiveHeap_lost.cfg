\* A publication that finds no work buffer, then views across the publications after it.
SPECIFICATION Spec
CONSTANTS
    Readers = {r1, r2}
    Bufs = {b1, b2, b3, b4}
    NoBuf = NoBuf
    Pages = {0}
    Header = 0
    MaxHold = 2
    MaxStamp = 6
    Ops = {"mut", "repack"}
    FullOps = {}
    MmapFails = TRUE
SYMMETRY Symmetry
INVARIANT
    ReadsMapped
