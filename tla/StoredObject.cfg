SPECIFICATION FairSpec
CONSTANTS
    Objects = {o1}
    Deleters = {d1}
    Reconcilers = {w1, w2}
    Quota = 1
    MaxFaults = 2
CHECK_DEADLOCK FALSE
INVARIANTS ReadyIsReadable GoneIsGone
PROPERTIES EventuallyClean
