\* A statement left active keeps an old view.
SPECIFICATION Spec
CONSTANTS
    b1 = b1
    b2 = b2
    r1 = r1
    r2 = r2
    Backends = {b1, b2}
    Rels = {r1}
    ReadRels = {r1}
    None = None
    Lookups = {"rowid"}
    MaxTx = 3
PROPERTY FreshReads
