CONSTANTS
    c1 = c1
    c2 = c2
    Coordinators = {c1}
    Operation = "disable"
    MaxCrashes = 2
    MaxLate = 0
    MaxRetries = 0
    Reclaims = FALSE
SPECIFICATION FairSpec
PROPERTIES
    RevalidationEnds
