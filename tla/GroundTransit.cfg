SPECIFICATION Spec
CONSTANTS
    p = p
    q = q
    Procs = {p, q}
    Facts <- Reports
    MaxTime = 2
    Window = 2
    Freshness = 0
    MaxStarts = 3
    MaxEvents = 1
SYMMETRY Symmetry
INVARIANTS OnePresentation LastingDelayToldOnce
PROPERTIES WithdrawnJobIsSilent ReportsLeaveProgress
CHECK_DEADLOCK FALSE
