SPECIFICATION Spec
SYMMETRY Symmetry
VIEW Observed
CONSTANTS
    Requests = {r1, r2, r3}
    ApiKeys = {k1}
    Limit = 1
    Window = 2
    Buffer = 1
    Lag = 1
    MaxTime = 3
    None = None
INVARIANTS TypeOK LimitPerWindow RefusedOnlyOverLimit CountersExpire UnavailableIsNotExecuted
CHECK_DEADLOCK FALSE
