SPECIFICATION FairSpec
CONSTANTS
    Spellings = {lower, mixed}
    Host = lower
    Admins = {a1, a2}
    Checks = {c1, c2}
    Capacity = 1
    Faults = TRUE
    MaxChanges = 2
INVARIANTS TypeOK BannedIsRejected
PROPERTY StaleBansEnd
