CONSTANTS
    c1 = c1
    c2 = c2
    Coordinators = {c1, c2}
    Operation = "disable"
    MaxCrashes = 0
    MaxLate = 1
    MaxRetries = 1
    Reclaims = FALSE
SYMMETRY Symmetry
SPECIFICATION Spec
INVARIANTS
    LedgerLeadsSnapshot
    ClosedAsReached
    OneExecutor
