SPECIFICATION Spec
CONSTANTS
    usd = usd
    hkd = hkd
    usdt = usdt
    USD = USD
    HKD = HKD
    USDT = USDT
    None = None
    Currencies = {USD, HKD, USDT}
    Accounts = {usd, hkd, usdt}
    CurrencyOf <- MCCurrencyOf
    Opening <- MCOpening
    CreditForms <- FormTargets
    Ops = {o1, o2, o3}
    Receipts = {r1}
    Amounts = {1}
    Fees = {0, 1}
    QuoteAmounts = {0, 2}
    Window = 1
    MaxTime = 1
    MaxVersion = 1
INVARIANTS
    TypeOK
    FrozenIsHeld
    BooksMatch
    WalletMirrorsAccount
    ReceiptCreditedOnce
    ReservationsCanEnd
SYMMETRY OpSymmetry
CHECK_DEADLOCK FALSE
