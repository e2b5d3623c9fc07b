SPECIFICATION FairSpec
CONSTANTS
    Replicas = {r1}
    Slots = {k1, k2}
    Capacity = 1
    Destinations = {d1, d2}
    Pages = {p1}
    Ttl = 1
    Faults = TRUE
    UserDeletion = TRUE
    MaxUpdates = 1
PROPERTIES GoneForGood EventuallyCurrent
