SPECIFICATION Spec
CONSTANTS
    None = None
    Empty = Empty
    Sessions = {s1, s2}
    Details = {address}
    Required = {address}
    Looks = {footer}
    Values = {v1}
    Bodies <- OneField
    Files = {f1}
    MaxClock = 1
SYMMETRY Symmetry
INVARIANTS TypeOK LogoIsStored
PROPERTIES ChangesAreAskedOrReverted ColumnsNeverReverted OnboardedKeepsDetails
CHECK_DEADLOCK FALSE
