CONSTANTS
    s1 = s1
    s2 = s2
    t1 = t1
    t2 = t2
    k1 = k1
    k2 = k2
    Sessions = {s1, s2}
    Tenants = {t1, t2}
    Keys = {k1, k2}
    Commits <- AllCommit
    None = None
    MaxBatch = 2
    MaxRows = 4
SPECIFICATION Spec
SYMMETRY Symmetry
INVARIANTS
    TypeOK
    AcknowledgedIsStored
    CopiesBounded
CHECK_DEADLOCK FALSE
