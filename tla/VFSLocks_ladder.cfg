\* Every order of calls of four connections.
SPECIFICATION FairSpec
CONSTANTS
    Conns = {1, 2, 3, 4}
    MaxWrites = 2
INVARIANTS
    TypeOK
    ReadStable
PROPERTY
    PendingEnds
CHECK_DEADLOCK TRUE
