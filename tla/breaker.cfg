SPECIFICATION FairSpec
CONSTANTS
    Calls = {c1, c2, c3}
    Moods = {"healthy", "refusing", "down"}
    FailureThreshold = 2
    SuccessThreshold = 2
    RecoveryTimeout = 2
    MaxFailures = 4
INVARIANTS TypeOK ClosedBelowThreshold
PROPERTIES FailsFast Recovers
