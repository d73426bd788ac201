CONSTANTS
    Calls = {c1, c2, c3}
    Waiters = {w1}
    Callers = {c1, c2, c3}
    Gates = {g1, g2}
    NoGate = NoGate
    MaxConcurrent = 1
    FailureThreshold = 2
    Plugins = {p1, p2}
    Subjects = {p1}
    Versions = {v1, v2}
    Old = v1
    Genesis <- AllOld
    None = None
    MaxEvents = 3
SPECIFICATION PartsSpec
INVARIANTS
    TypesOK
    DrainedIsQuiet
    NoLostWakeup
    ForcedReachesEveryCall
    ClosedStaysClosed
    RevokedStaysShut
    AppliedWasWhole
PROPERTIES
    WaitReturns
    OnlyQueuedEnterOpen
    FirstFailedProbeReopens
    NodeCatchesUp
