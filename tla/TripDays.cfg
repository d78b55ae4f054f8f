SPECIFICATION Spec
CONSTANTS
    t1 = t1
    t2 = t2
    Trips = {t1, t2}
    MaxDate = 3
    MaxNodes = 4
    MaxChanges = 3
    Given <- Plans
INVARIANTS OwnsItsRange TransportJoinsNeighbours OccupiedDaysAreEmpty
PROPERTIES FactsKeepTheirDay CalendarSpec
CHECK_DEADLOCK FALSE
