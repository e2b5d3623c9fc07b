SPECIFICATION Spec
CONSTANTS
    Shards = {s1, s2}
    MaxChanges = 2
INVARIANTS TypeOK BehindIsBeingRenewed
PROPERTIES ImplementsDirectory ViewCatchesUp
