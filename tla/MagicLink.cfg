SPECIFICATION FairSpec
CONSTANTS
    Deliveries = {d1}
    Workers = {w1, w2}
    Sessions = {s1, s2}
    MaxGen = 3
    MaxAttempts = 3
    MaxRequests = 1
    MaxFaults = 2
    MaxChanges = 2
CHECK_DEADLOCK FALSE
INVARIANTS OneSessionPerDelivery DisabledIsSignedOut
PROPERTIES EventuallyProcessed
