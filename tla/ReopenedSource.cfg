CONSTANTS
    Modes = {"disable"}
    MaxFaults = 3
SPECIFICATION PublicationSpec
INVARIANTS
    SourceOpensOnlyRestored
CHECK_DEADLOCK FALSE
