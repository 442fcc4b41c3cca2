SPECIFICATION Spec
CONSTANTS
    None = None
    Sessions = {s1, s2}
    Trips = {t1}
    Docs = {d1, d2}
    Routes <- OneRoute
    DocTypes <- InvoiceOnly
    Names = {n1}
    Contents = {c1, c2}
    Reviewers = {r1}
    Commits <- AllOps
    MaxClock = 1
SYMMETRY Symmetry
INVARIANTS TypeOK RowsHaveObjects ChecklistTruthful
PROPERTIES BytesSettle VerdictsWholeUnlessOvertaken LinkFollowsReviewers
CHECK_DEADLOCK FALSE
