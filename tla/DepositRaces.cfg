SPECIFICATION Spec
CONSTANTS
    d1 = d1
    d2 = d2
    d3 = d3
    t1 = t1
    t3 = t3
    NoDeposit = NoDeposit
    Deposits = {d1, d2, d3}
    TxOf <- MCTxOf
    Amount <- MCAmount
    Historical = {d3}
    Jobs = {j1, j2}
    MaxAttempts = 2
    MaxTakeovers = 1
    MaxCrashes = 1
    MaxInexact = 1
SYMMETRY JobSymmetry
INVARIANTS
    TypeOK
    CreditedExactlyOnce
    CreditIsBacked
PROPERTY
    FinalStaysFinal
    RefinesCredit
