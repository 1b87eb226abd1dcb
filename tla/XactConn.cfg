\* Relations touched first and failing to open at any depth; COMMITs that fail;
\* SQLite rolling back by itself.
SPECIFICATION Spec
CONSTANTS
    r1 = r1
    r2 = r2
    Rels = {r1, r2}
    MaxId = 3
    MaxDepth = 2
    FirstOpenFails = FALSE
    LaterOpenFails = TRUE
    CommitFails = TRUE
    SubxactTouch = TRUE
    SubxactDrop = FALSE
SYMMETRY Symmetry
INVARIANTS CommittedAreStored UndoneLeavesNoTrace NoneLeftOpen UnlinksOnlyDropped
