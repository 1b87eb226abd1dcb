\* Me against two transactions with subtransactions.
SPECIFICATION Spec
CONSTANTS
    me = me
    p1 = p1
    p2 = p2
    Procs = {me, p1, p2}
    Me = me
    MaxXid = 4
    MaxRows = 1
SYMMETRY Symmetry
INVARIANTS  DirtySound KindsAgree
