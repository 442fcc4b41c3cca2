CONSTANTS
    s1 = s1
    t1 = t1
    k1 = k1
    k2 = k2
    Sessions = {s1}
    Tenants = {t1}
    Keys = {k1, k2}
    Commits <- AllCommit
    None = None
    MaxBatch = 2
    MaxRows = 2
SPECIFICATION FairSpec
PROPERTY PendingIsProcessed
CHECK_DEADLOCK FALSE
