\* A transaction that meets a full heap and rolls back.
SPECIFICATION Spec
CONSTANTS
    Readers = {r1, r2}
    Bufs = {b1, b2, b3, b4, b5}
    NoBuf = NoBuf
    Pages = {0, 1}
    Header = 0
    MaxHold = 1
    MaxStamp = 4
    Ops = {"tx"}
    FullOps = {"tx"}
    MmapFails = FALSE
SYMMETRY Symmetry
INVARIANT
    NoTrace
