\* Several commands, crashes and late aborts at every step; no VACUUM and no TRUNCATE.
SPECIFICATION Spec
CONSTANTS
    b1 = b1
    b2 = b2
    Backends = {b1, b2}
    MaxXid = 2
    MaxRowid = 3
    MaxCid = 1
    MaxBatch = 2
    FailureWindow = TRUE
    XidReuse = FALSE
    Vacuums = FALSE
    Truncates = FALSE
SYMMETRY Symmetry
INVARIANTS TypeOK ReadsAsOfSnapshot SqliteNeverBehind
PROPERTY ImplementsTable
