SPECIFICATION Spec
CONSTANTS
    None = None
    Sessions = {s1, s2}
    Trips = {t1}
    Packs = {p1}
    Drivers = {d1, d2}
    Vehicles = {v1}
    Holders <- OneParty
    ExpiryDays = 0
    MaxDay = 1
    Commits <- AllOps
SYMMETRY Symmetry
INVARIANTS TypeOK ClearedWasFlagged
PROPERTIES AtomicUnlessOvertaken OnlyAssignMovesParties
CHECK_DEADLOCK FALSE
