\* Compact against an open view: compactLocked packs the published buffer in place.
SPECIFICATION Spec
CONSTANTS
    Readers = {r1, r2}
    Bufs = {b1, b2, b3, b4, b5}
    NoBuf = NoBuf
    Pages = {0}
    Header = 0
    MaxHold = 1
    MaxStamp = 4
    Ops = {"put", "compact"}
    FullOps = {}
    MmapFails = FALSE
SYMMETRY Symmetry
INVARIANT
    SnapshotStable
