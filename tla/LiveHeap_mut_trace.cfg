\* Mut refused by publish(): what its callback wrote stays in the work buffer.
SPECIFICATION Spec
CONSTANTS
    Readers = {r1, r2}
    Bufs = {b1, b2, b3, b4, b5}
    NoBuf = NoBuf
    Pages = {0, 1}
    Header = 0
    MaxHold = 1
    MaxStamp = 6
    Ops = {"mut", "put"}
    FullOps = {}
    MmapFails = FALSE
SYMMETRY Symmetry
INVARIANT
    NoTrace
