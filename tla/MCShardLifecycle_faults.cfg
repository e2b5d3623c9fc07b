SPECIFICATION FairSpec
CONSTANTS
    Replicas = {r1}
    Slots = {k1, k2}
    Capacity = 1
    ThresholdForNewUsers = 2
    ThresholdForNewUrls = 3
    RangeSize = 9
    ZooKeeperFaults = TRUE
    InsertFaults = TRUE
    MaxId = 3
    MaxSessions = 2
INVARIANTS TypeOK ReadyReplicaIsPublished OfferedIsAccepted
PROPERTIES WedgedForGood NeverBackToReadWrite OldNodesGo
CHECK_DEADLOCK FALSE
