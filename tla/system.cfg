SPECIFICATION Spec
VIEW Observed
SYMMETRY Symmetry
CONSTANTS
    Payments = {p1}
    Jobs = {j1, j2}
    MaxAttempts = 2
    None = None
    Wallets = {w1, w2}
    Calls = {c1, c2}
    Balances = {1}
    Price = 1
INVARIANTS TypeOK MoneyConserved
PROPERTY ImplementsProcessor
