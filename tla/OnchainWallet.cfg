CONSTANTS
    Accounts = {"a0", "a1"}
    Primary = "a0"
    Legacy = {}
    InitCoins <- TwoCoins
    Deposit = 4
    Amounts = {5}
    FundAmount = 4
    Reserve = 3
    IncludeUntrusted = FALSE
    DUST_LIMIT_SATS = 2
    Incremental = 1
    SendRate = 1
    BumpRates = {2}
    UrgentRate = 3
    MaxTxs = 3
    MaxManual = 1
    MaxFaults = 1
SPECIFICATION Spec
CHECK_DEADLOCK FALSE
INVARIANTS
    SentIsStored
    ReserveKept
    PaidOnce
    NoSharedChange
