SPECIFICATION Spec
CONSTANTS
    p1 = p1
    p2 = p2
    Visits = 2
    Offers <- MCOffers
    MaxVersion = 5
    MaxSnapshots = 1
    MaxEdits = 1
INVARIANTS NoTraceOfUndone UndoAvailable
PROPERTIES UndoRestores
CHECK_DEADLOCK FALSE
