\* VACUUM after a failure in the commit window.
SPECIFICATION Spec
CONSTANTS
    b1 = b1
    b2 = b2
    Backends = {b1, b2}
    MaxXid = 2
    MaxRowid = 2
    MaxCid = 0
    MaxBatch = 1
    FailureWindow = TRUE
    XidReuse = FALSE
    Vacuums = TRUE
    Truncates = FALSE
SYMMETRY Symmetry
PROPERTY VacuumRemovesCommitted
