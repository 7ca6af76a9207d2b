CONSTANTS
    AccountId = {1, 2}
    Tenant = {alpha}
    alpha = alpha
    beta = beta
    TxId = {x1, x2, x3, x4}
    NoRow = NoRow
    Amounts = {1, 2}
    Spellings = {{}}
    Openings = {}
    FeeFixed <- NoFee
    FeeRate <- NoFee
    MaxColumn = 4
    Seed <- HoldSeed
SYMMETRY Requests
SPECIFICATION LedgerSpec
INVARIANT HoldFinalizedOnce
CHECK_DEADLOCK FALSE
