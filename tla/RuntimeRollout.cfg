\* Two plans of the extension: the second one is created while calls about
\* the first are still under way.
CONSTANTS
    Plans = {1, 2}
    Nodes = {1, 2}
    Callers = {c1, c2}
    Messages = {TRUE}
    CanaryPercent = 10
    MaxRevision <- MCRevisions
SPECIFICATION Spec
SYMMETRY Symmetry
INVARIANTS
    ReportsSurvive
    OneOpenPlan
PROPERTIES
    PromotedOnlyHealthy
    TerminalStaysTerminal
CHECK_DEADLOCK FALSE
