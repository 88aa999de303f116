SPECIFICATION FairSpec
CONSTANTS
    Payments = {p1}
    Jobs = {j1, j2}
    MaxAttempts = 2
    None = None
INVARIANTS TypeOK RefundFollowsDebit
PROPERTIES StatusBackedByLedger WorkEnds
