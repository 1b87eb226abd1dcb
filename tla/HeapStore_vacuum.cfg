\* VACUUM and TRUNCATE against readers, writers and crashes outside the commit window.
SPECIFICATION Spec
CONSTANTS
    b1 = b1
    b2 = b2
    Backends = {b1, b2}
    MaxXid = 3
    MaxRowid = 3
    MaxCid = 0
    MaxBatch = 2
    FailureWindow = FALSE
    XidReuse = FALSE
    Vacuums = TRUE
    Truncates = TRUE
SYMMETRY Symmetry
INVARIANTS ReadsAsOfSnapshot WatermarkSound
PROPERTIES ImplementsTable VacuumRemovesCommitted
