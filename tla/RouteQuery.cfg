SPECIFICATION Spec
CONSTANTS
    Instants = {0, 1, 2}
    Durations = {1, 2}
    Lookback = 2
    MaxFacts = 3
    Requests <- Queries
INVARIANTS WindowsAreExact FloorHolds RankingIsDeterministic
CHECK_DEADLOCK FALSE
