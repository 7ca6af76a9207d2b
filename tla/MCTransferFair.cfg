CONSTANTS
    AccountId = {1, 2, 3}
    Tenant = {alpha}
    alpha = alpha
    beta = beta
    TxId = {x1, x2, x3}
    NoRow = NoRow
    NoCall = NoCall
    Amounts = {1}
    Spellings = {{}}
    Openings = {}
    FeeFixed <- NoFee
    FeeRate <- NoFee
    MaxColumn = 3
    Seed <- ThreeWallets
SPECIFICATION FairSpec
INVARIANTS AvailableNonNegative NoDeadlock
PROPERTY EveryCallEnds
CHECK_DEADLOCK FALSE
