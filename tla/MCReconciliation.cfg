CONSTANTS
    AccountId = {1, 2, 3, 4, 5}
    Tenant = {alpha, beta}
    alpha = alpha
    beta = beta
    TxId = {x1, x2, x3}
    NoRow = NoRow
    Amounts = {1, 2}
    Spellings = {{}, {"receiver"}}
    Openings = {0, 2}
    FeeFixed <- FlatFee
    FeeRate <- RateFee
    MaxColumn = 4
    Seed <- FeeSeed
SYMMETRY Requests
SPECIFICATION Spec
INVARIANTS LedgerTypeOK LedgerExplainsTotals EventsExplainAccounts MoneyConserved NoFalseOrphan MismatchesExplained
PROPERTY TenantIsolation
CHECK_DEADLOCK FALSE
