SPECIFICATION Spec
CONSTANTS
    Clients = {c1}
    Hubs = {h1, h2}
    Interchange = interchange
    Offers <- MCOffers
    Skew = 1
    MaxVersion = 7
    MaxTime = 1
    MaxReports = 2
    MaxWorld = 1
SYMMETRY Symmetry
INVARIANTS PreviewStands ExecutionSurvives
PROPERTIES ConfirmedIsCurrent UndoReopensPlanning
CHECK_DEADLOCK FALSE
