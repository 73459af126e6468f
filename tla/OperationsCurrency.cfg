SPECIFICATION Spec
CONSTANTS
    usd = usd
    hkd = hkd
    usdt = usdt
    USD = USD
    HKD = HKD
    USDT = USDT
    None = None
    Currencies = {USD, HKD, USDT}
    Accounts = {usd, hkd, usdt}
    CurrencyOf <- MCCurrencyOf
    Opening <- MCOpening
    CreditForms <- AnyTargets
    Ops = {o1}
    Receipts = {r1}
    Amounts = {1}
    Fees = {0}
    QuoteAmounts = {1}
    Window = 1
    MaxTime = 0
    MaxVersion = 1
INVARIANT
    WalletMirrorsAccount
CHECK_DEADLOCK FALSE
