SPECIFICATION Spec
CONSTANTS
    Requests = {r1, r2}
    Wallets = {w1, w2}
    Keys = {k1}
    Amounts = {0, 1}
    PoolMax = 2
    MaxVersion = 2
    None = None
SYMMETRY Symmetry
INVARIANTS TypeOK SnapshotStable Reconciled
PROPERTIES AppendOnly OnlyOpeningsLost ImplementsAtomicLedger
