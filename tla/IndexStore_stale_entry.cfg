\* Entries outlive the rows they were made for.
SPECIFICATION IndexSpec
CONSTANTS
    b1 = b1
    b2 = b2
    Backends = {b1, b2}
    MaxXid = 2
    MaxRowid = 2
    MaxCid = 0
    MaxBatch = 1
    FailureWindow = FALSE
    XidReuse = FALSE
    Vacuums = TRUE
    Truncates = FALSE
SYMMETRY Symmetry
INVARIANT IndexExact
