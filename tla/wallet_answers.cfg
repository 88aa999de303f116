SPECIFICATION FairSpec
CONSTANTS
    Requests = {r1, r2, r3}
    Wallets = {w1}
    Keys = {k1}
    Amounts = {1}
    PoolMax = 2
    MaxVersion = 0
    None = None
INVARIANT NoDeadlock
PROPERTY EveryRequestAnswered
