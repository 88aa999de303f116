SPECIFICATION RSpec
CONSTANTS
    Requests = {r1, r2}
    Wallets = {w1}
    Keys = {k1}
    Amounts = {0, 1}
    PoolMax = 2
    MaxVersion = 2
    None = None
SYMMETRY Symmetry
INVARIANT UndisturbedIsBalanced
