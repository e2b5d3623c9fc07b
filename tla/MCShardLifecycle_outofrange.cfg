SPECIFICATION Spec
CONSTANTS
    Replicas = {r1}
    Slots = {k1, k2}
    Capacity = 1
    ThresholdForNewUsers = 1
    ThresholdForNewUrls = 2
    RangeSize = 10
    ZooKeeperFaults = FALSE
    InsertFaults = TRUE
    MaxId = 12
    MaxSessions = 1
SYMMETRY Symmetry
INVARIANT IdsStayInRange
CHECK_DEADLOCK FALSE
