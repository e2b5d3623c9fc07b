SPECIFICATION Spec
CONSTANTS
    Spellings = {lower, mixed}
    Host = lower
    Admins = {a1}
    Checks = {c1}
    Capacity = 1
    Faults = FALSE
    MaxChanges = 1
INVARIANT BlacklistedIsRejected
