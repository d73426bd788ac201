CONSTANTS
    c1 = c1
    c2 = c2
    Coordinators = {c1}
    Operation = "uninstall"
    MaxCrashes = 2
    MaxLate = 1
    MaxRetries = 1
    Reclaims = TRUE
SPECIFICATION FairSpec
PROPERTIES
    KeepsContract
    OperationCloses
CHECK_DEADLOCK FALSE
