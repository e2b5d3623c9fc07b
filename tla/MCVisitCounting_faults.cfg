SPECIFICATION Spec
CONSTANTS
    Redirects = {v1, v2}
    Frontends = {f1}
    Replicas = {r1, r2}
    Capacity = 1
    MaxAttempts = 3
    Faults = TRUE
    Deletion = TRUE
SYMMETRY Symmetry
INVARIANTS TypeOK VisitsNeverExceedViews OneRowPerReplicaAndHour
CHECK_DEADLOCK FALSE
