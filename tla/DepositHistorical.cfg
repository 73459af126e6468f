SPECIFICATION Spec
CONSTANTS
    d1 = d1
    d2 = d2
    d3 = d3
    t1 = t1
    t3 = t3
    NoDeposit = NoDeposit
    Deposits = {d3}
    TxOf <- MCTxOf
    Amount <- MCAmount
    Historical = {d3}
    Jobs = {j1}
    MaxAttempts = 1
    MaxTakeovers = 0
    MaxCrashes = 0
    MaxInexact = 0
INVARIANT
    HistoricalNeedsRelease
