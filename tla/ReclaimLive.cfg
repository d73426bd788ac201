CONSTANTS
    c1 = c1
    c2 = c2
    Coordinators = {c1}
    Operation = "disable"
    MaxCrashes = 0
    MaxLate = 0
    MaxRetries = 0
    Reclaims = TRUE
SPECIFICATION Spec
PROPERTIES
    ReclaimSparesLiveLease
CHECK_DEADLOCK FALSE
