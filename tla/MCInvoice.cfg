SPECIFICATION Spec
CONSTANTS
    None = None
    Sessions = {s1, s2}
    Invoices = {i1}
    Totals = {5, 12}
    MaxLog = 9
    Commits <- AllOps
SYMMETRY Symmetry
INVARIANTS TypeOK LogEndsAtStatus MoneyIsLogged SplitExcess
PROPERTIES AtomicUnlessOvertaken FrozenAmounts
CHECK_DEADLOCK FALSE
