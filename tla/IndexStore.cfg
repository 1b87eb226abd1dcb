\* An index under bottom-up deletion, rebuilds, crashes and late failures; xids
\* handed out again.
SPECIFICATION IndexSpec
CONSTANTS
    b1 = b1
    b2 = b2
    Backends = {b1, b2}
    MaxXid = 3
    MaxRowid = 2
    MaxCid = 0
    MaxBatch = 1
    FailureWindow = TRUE
    XidReuse = TRUE
    Vacuums = FALSE
    Truncates = FALSE
SYMMETRY Symmetry
INVARIANT IndexFindsAll
