SPECIFICATION RSpec
CONSTANTS
    Payments = {p1}
    Jobs = {j1, j2}
    MaxAttempts = 3
    None = None
INVARIANT DebitedFailuresReported
