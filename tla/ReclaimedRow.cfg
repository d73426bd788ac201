CONSTANTS
    c1 = c1
    c2 = c2
    Coordinators = {c1}
    Operation = "disable"
    MaxCrashes = 0
    MaxLate = 0
    MaxRetries = 1
    Reclaims = TRUE
SPECIFICATION Spec
INVARIANTS
    RowStaysLoadable
CHECK_DEADLOCK FALSE
