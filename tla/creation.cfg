SPECIFICATION FairSpec
CONSTANTS
    Keys = {k1}
    Ids = {i1, i2}
    Callers = {c1, c2}
    Updaters = {u1, u2}
    NewStatuses = {"COMPLETED"}
    None = None
INVARIANTS TypeOK SameKeySamePayment AnnouncedOnce CacheNeverAhead EventsTellHistory
PROPERTIES RequestsEnd ImplementsRegistry
