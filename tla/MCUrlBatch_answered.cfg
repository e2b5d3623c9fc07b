SPECIFICATION Spec
CONSTANTS
    Links = {l1, l2, l3}
    Spellings = 2
INVARIANT BatchIsAnswered
CHECK_DEADLOCK FALSE
