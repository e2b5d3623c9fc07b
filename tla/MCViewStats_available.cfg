SPECIFICATION Spec
CONSTANTS
    Visits <- Everybody
    MaxVisits = 3
    MaxRows = 2
INVARIANTS StatisticsAreAvailable
CHECK_DEADLOCK FALSE
