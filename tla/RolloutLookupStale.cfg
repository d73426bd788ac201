\* The doc comment of ActivePlan: it returns the open plan, if any.
CONSTANTS
    Plans = {1, 2}
    Nodes = {1, 2}
    Callers = {c1}
    Messages = {TRUE}
    CanaryPercent = 10
    MaxRevision <- MCRevisions
SPECIFICATION Spec
INVARIANTS
    LookupFindsOpenPlan
CHECK_DEADLOCK FALSE
