SPECIFICATION Spec
CONSTANTS
    None = None
    Sessions = {s1, s2}
    Emails = {e1}
    Passwords = {p1, p2}
    GivenSlugs = {1}
    EmailEnabled = TRUE
    Statuses = {0, 200, 201, 401}
    OtpMinutes = 0
    MaxCode = 2
    MaxSlug = 2
    MaxClock = 1
SYMMETRY Symmetry
INVARIANTS TypeOK SlugsWithoutGaps FailureMeansExhausted
PROPERTIES AtomicUnlessOvertaken TenantsKeepUsers SuccessMeansMailed
CHECK_DEADLOCK FALSE
