\* Two backends and two relations: pinned views, subtransactions, locks taken in
\* any order.
SPECIFICATION Spec
CONSTANTS
    b1 = b1
    b2 = b2
    r1 = r1
    r2 = r2
    Backends = {b1, b2}
    Rels = {r1, r2}
    ReadRels = {r1}
    None = None
    Lookups = {"rowid"}
    MaxTx = 2
INVARIANTS TypeOK CommittedStay PlannedFresh
PROPERTY WaitEnds
