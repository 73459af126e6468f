SPECIFICATION Spec
CONSTANTS
    w1 = w1
    w2 = w2
    NoCid = NoCid
    OtherCid = OtherCid
    Withdrawals = {w1, w2}
    Jobs = {j1}
    Total <- MCTotal
    Fee <- MCFee
    OpeningBalance = 5
    Conversions = {2}
    MaxAttempts = 1
    MaxTakeovers = 0
    MaxInexact = 0
    MaxCrashes = 0
INVARIANTS
    LedgerBalanced
    MoneyConserved
    SettledWasPaid
PROPERTY
    RefinesFunds
