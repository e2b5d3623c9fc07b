SPECIFICATION FairSpec
CONSTANTS
    Replicas = {r1}
    Slots = {k1, k2}
    Capacity = 1
    ThresholdForNewUsers = 1
    ThresholdForNewUrls = 2
    RangeSize = 10
    ZooKeeperFaults = FALSE
    InsertFaults = FALSE
    MaxId = 12
    MaxSessions = 1
INVARIANT IdsStayInRange
PROPERTY WantedTypeIsApplied
CHECK_DEADLOCK FALSE
