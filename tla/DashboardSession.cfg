CONSTANTS
    Conversations = {c1, c2}
    Prompts = {m1, m2}
    MaxSends = 3
    None = None
SPECIFICATION Spec
SYMMETRY MCSymmetry
CHECK_DEADLOCK FALSE
INVARIANTS
    TypeOK
    RetryRepeats
    RecordsStand
