\* A crash in the commit window loses the xid of the transaction that failed.
SPECIFICATION Spec
CONSTANTS
    b1 = b1
    b2 = b2
    Backends = {b1, b2}
    MaxXid = 2
    MaxRowid = 2
    MaxCid = 0
    MaxBatch = 1
    FailureWindow = TRUE
    XidReuse = TRUE
    Vacuums = FALSE
    Truncates = FALSE
SYMMETRY Symmetry
PROPERTY SelfHeals
