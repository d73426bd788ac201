CONSTANTS
    Modes = {"install", "upgrade", "disable"}
    MaxFaults = 6
    Coordinators = {"c1"}
    Operation = "uninstall"
    MaxCrashes = 1
    MaxLate = 1
    MaxRetries = 2
    Reclaims = FALSE
    Leases = {l1, l2}
    Reaper = reaper
    LeaseTTL = 4
    MaxStart = 2
    MaxLive = 1
    MaxLeaseFaults = 2
SPECIFICATION AspectsSpec
INVARIANTS
    SnapshotStaysValid
    SuccessMeansEveryGate
    RowStaysLoadable
    MarkerDecides
    TargetOpensOnlyCommitted
    ActivationReopensRestored
    KilledBeforeExpiry
PROPERTIES
    PublicationCompletes
    EndTogether
