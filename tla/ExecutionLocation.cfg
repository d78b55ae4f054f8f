SPECIFICATION Spec
CONSTANTS
    p = p
    q = q
    Procs = {p, q}
    Where <- Line
    Places = {2, 6, 8, 9}
    Radius = 4
    Hysteresis = 1
    MinSamples = 2
    Airports = {1}
    MaxStarts = 3
    MaxWorld = 2
SYMMETRY Symmetry
INVARIANTS FactsAreEvents SingleCaller
PROPERTIES ObservedInOrder PermissionHolds LocationFollowsOrder CorrectionStands
CHECK_DEADLOCK FALSE
