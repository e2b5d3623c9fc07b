SPECIFICATION Spec
CONSTANTS
    Replicas = {r1}
    Slots = {k1}
    Capacity = 3
    Destinations = {d1, d2}
    Pages = {p1, p2}
    Ttl = 2
    Faults = FALSE
    UserDeletion = FALSE
    MaxUpdates = 2
SYMMETRY Symmetry
INVARIANTS TypeOK OutdatedIsBeingRemoved
