SPECIFICATION Spec
CONSTANTS
    w1 = w1
    w2 = w2
    NoCid = NoCid
    OtherCid = OtherCid
    Withdrawals = {w1}
    Jobs = {j1}
    Total <- MCTotal
    Fee <- MCFee
    OpeningBalance = 3
    Conversions = {}
    MaxAttempts = 2
    MaxTakeovers = 0
    MaxInexact = 0
    MaxCrashes = 0
INVARIANT
    TimeoutBecomesException
