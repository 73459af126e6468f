SPECIFICATION Spec
CONSTANTS
    usd = usd
    hkd = hkd
    usdt = usdt
    USD = USD
    HKD = HKD
    USDT = USDT
    None = None
    Currencies = {USD, HKD, USDT}
    Accounts = {usd, hkd, usdt}
    CurrencyOf <- MCCurrencyOf
    Opening <- MCOpening
    CreditForms <- FormTargets
    Ops = {o1, o2}
    Receipts = {r1}
    Amounts = {1}
    Fees = {0, 1}
    QuoteAmounts = {0, 1}
    Window = 1
    MaxTime = 2
    MaxVersion = 2
INVARIANT
    FeeAsConfirmed
PROPERTIES
    ExpiredQuoteIsDead
    SubmittedIsImmutable
CHECK_DEADLOCK FALSE
