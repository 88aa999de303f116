SPECIFICATION Spec
SYMMETRY Symmetry
CONSTANTS
    Payments = {p1, p2, p3}
    Amounts = {small, large}
    LargeAmounts = {large}
    VelocityLimit = 2
    VelocityWindow = 1
    DuplicateLimit = 1
    DuplicateWindow = 1
    Lag = 1
    MaxTime = 2
    None = None
INVARIANT FlaggedForCause
PROPERTY RecordedAreSeen
CHECK_DEADLOCK FALSE
