CONSTANTS
    AccountId = {1, 2, 3, 4}
    Tenant = {alpha, beta}
    alpha = alpha
    beta = beta
    TxId = {x1, x2}
    NoRow = NoRow
    NoCall = NoCall
    Amounts = {1}
    Spellings = {{}}
    Openings = {1}
    FeeFixed <- FlatFee
    FeeRate <- NoFee
    MaxColumn = 3
    Seed <- TwoWallets
SYMMETRY Calls
SPECIFICATION Spec
INVARIANT TypeOK
PROPERTIES Serializable WritesUnderLock
CHECK_DEADLOCK FALSE
