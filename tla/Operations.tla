----------------------------- MODULE Operations -----------------------------
(***************************************************************************)
(* The Core's operation workflow and its ledger                            *)
(* (server/src/operations/operations.service.ts): deposits, payouts, FX    *)
(* and adjustments that an operator submits and an administrator approves  *)
(* or rejects, customer payouts, and OTC quotes that the customer confirms *)
(* within a few seconds.                                                   *)
(*                                                                         *)
(* Every method is one serializable transaction, hence one action; the     *)
(* reads that createOperation makes before its transaction are repeated by *)
(* the guards of its updates.  All accounts belong to one customer, since  *)
(* every check compares rows of the one customer the request names.  An    *)
(* operation is named by its idempotency key: a repeated request finds the *)
(* row and returns it, so for all but quotes it changes nothing.  Market   *)
(* rate, fee policy and rounding are left out: what a conversion pays is   *)
(* chosen when it is created, zero included, which is what rounding to     *)
(* eight decimals makes of a very small amount.                            *)
(***************************************************************************)
EXTENDS Integers, Sums

CONSTANTS
    Ops,            \* operations, named by idempotency key
    Currencies,     \* the supported currencies
    USDT,           \* the currency whose account a CryptoWallet mirrors
    Accounts,       \* the customer's accounts
    CurrencyOf,     \* Account.currency
    Opening,        \* the balance of each account at the start
    None,           \* an absent account or receipt
    Receipts,       \* remittance references of one inbound channel
    CreditForms,    \* <<currency, target>> pairs operators submit as credits
    Amounts,        \* amounts of a request
    Fees,           \* fees of a request or of the payout fee rule
    QuoteAmounts,   \* what a conversion may pay
    Window,         \* QUOTE_CONFIRM_WINDOW_MS
    MaxTime,        \* bound: clock
    MaxVersion      \* bound: versions of the payout fee rule

ASSUME OperationsAssumption ==
    /\ USDT \in Currencies
    /\ CurrencyOf \in [Accounts -> Currencies]
    /\ Opening \in [Accounts -> Nat]
    /\ None \notin Accounts /\ None \notin Receipts /\ None \notin Currencies
    /\ CreditForms \subseteq (Currencies \ {USDT}) \X Accounts
    /\ Amounts \subseteq Nat \ {0}
    /\ Fees \subseteq Nat /\ Fees # {}
    /\ QuoteAmounts \subseteq Nat
    /\ Window \in Nat \ {0}
    /\ MaxTime \in Nat
    /\ MaxVersion \in Nat \ {0}

VARIABLES
    op,        \* Operation rows
    account,   \* Account balances
    wallet,    \* CryptoWallet, the mirror of the USDT account
    journal,   \* JournalLine rows of each operation
    feeRule,   \* WithdrawalFeeRule of the payout path
    shown,     \* the fee rule the customer's page shows
    clock      \* Date.now()

feeVars == <<feeRule, shown>>
vars == <<op, account, wallet, journal, feeRule, shown, clock>>

-----------------------------------------------------------------------------
Types == {"DEPOSIT", "CREDIT", "DEBIT", "PAYOUT", "FX", "OTC"}

Terminal == {"COMPLETED", "REJECTED", "CANCELLED"}
Statuses == {"ABSENT", "DRAFT", "SUBMITTED", "PROCESSING"} \cup Terminal

Absent ==
    [type |-> "DEPOSIT", status |-> "ABSENT", currency |-> None, amount |-> 0,
     fee |-> 0, source |-> None, target |-> None, quote |-> 0,
     receipt |-> None, expires |-> 0, confirmed |-> None]

Operation ==
    [type : Types, status : Statuses, currency : Currencies \cup {None},
     amount : Nat, fee : Nat, source : Accounts \cup {None},
     target : Accounts \cup {None}, quote : Nat,
     receipt : Receipts \cup {None}, expires : Nat,
     confirmed : Nat \cup {None}]

Fiat == {a \in Accounts : CurrencyOf[a] # USDT}
Crypto == Accounts \ Fiat

\* What a request puts aside on its source account.
Reserve(o) == op[o].amount + op[o].fee

UsesReservation(o) == op[o].type \in {"PAYOUT", "FX", "OTC", "DEBIT"}

-----------------------------------------------------------------------------
(* Balances: account and mirror. *)

Freeze(balance, n) ==
    [balance EXCEPT !.available = @ - n, !.frozen = @ + n]

Unfreeze(balance, n) ==
    [balance EXCEPT !.available = @ + n, !.frozen = @ - n]

Consume(balance, n) == [balance EXCEPT !.frozen = @ - n]

Credit(balance, n) == [balance EXCEPT !.available = @ + n]

-----------------------------------------------------------------------------
(* Journal entries. *)

Line(suffix, book, side, currency, n) ==
    [suffix |-> suffix, book |-> book, side |-> side, currency |-> currency,
     amount |-> n]

Clearing(c) == <<"PLATFORM_CLEARING", c>>
FeeRevenue(c) == <<"FEE_REVENUE", c>>
Customer(a) == <<"CUSTOMER", a>>

\* The principal entry of an operation that brings money in.
InLines(o) ==
    LET p == op[o] IN
    {Line("principal", Clearing(p.currency), "DEBIT", p.currency, p.amount),
     Line("principal", Customer(p.target), "CREDIT", p.currency, p.amount)}

\* The principal entry of an operation that takes money out.
OutLines(o) ==
    LET p == op[o] IN
    {Line("principal", Customer(p.source), "DEBIT", p.currency, p.amount),
     Line("principal", Clearing(p.currency), "CREDIT", p.currency, p.amount)}

\* Mutant: the target clearing leg is posted at the source amount.
MutConversionLines(o) ==
    LET p == op[o]
        c == CurrencyOf[p.target] IN
    OutLines(o) \cup
    {Line("principal", Clearing(c), "DEBIT", c, p.amount),
     Line("principal", Customer(p.target), "CREDIT", c, p.quote)}

ConversionLines(o) ==
    LET p == op[o]
        c == CurrencyOf[p.target] IN
    OutLines(o) \cup
    {Line("principal", Clearing(c), "DEBIT", c, p.quote),
     Line("principal", Customer(p.target), "CREDIT", c, p.quote)}

\* Mutant: a fee is taken from the customer and never posted.
MutFeeLines(o) == {}

FeeLines(o) ==
    LET p == op[o] IN
    IF p.fee = 0 THEN {}
    ELSE {Line("fee", Customer(p.source), "DEBIT", p.currency, p.fee),
          Line("fee", FeeRevenue(p.currency), "CREDIT", p.currency, p.fee)}

Lines(o) ==
    CASE op[o].type \in {"DEPOSIT", "CREDIT"} -> InLines(o)
      [] op[o].type \in {"FX", "OTC"} -> ConversionLines(o) \cup FeeLines(o)
      [] op[o].type = "PAYOUT" -> OutLines(o) \cup FeeLines(o)
      [] op[o].type = "DEBIT" -> OutLines(o)

\* A line of amount zero violates journal_line_amount_positive and undoes the
\* whole transaction.
Post(o) ==
    /\ \A l \in Lines(o) : l.amount > 0
    /\ journal' = [journal EXCEPT ![o] = Lines(o)]

SetStatus(o, s) == op' = [op EXCEPT ![o] = [@ EXCEPT !.status = s]]

-----------------------------------------------------------------------------
Init ==
    /\ op = [o \in Ops |-> Absent]
    /\ account = [a \in Accounts |-> [available |-> Opening[a], frozen |-> 0]]
    /\ wallet = [a \in Crypto |-> [available |-> Opening[a], frozen |-> 0]]
    /\ journal = [o \in Ops |-> {}]
    /\ \E f \in Fees :
         feeRule = [amount |-> f, version |-> 1, active |-> TRUE]
    /\ shown = feeRule
    /\ clock = 0

\* Mutant: the check counts frozen money as spendable.
MutCanFreeze(a, n) == account[a].available + account[a].frozen >= n

\* freeze(): the update finds the account only if its balance covers n.
CanFreeze(a, n) == account[a].available >= n

\* unfreeze() and consumeFrozen(): only if that much is frozen.
IsFrozen(a, n) == account[a].frozen >= n

Insert(o, row) ==
    /\ op[o].status = "ABSENT"
    /\ op' = [op EXCEPT ![o] = row]

\* Mutant: no lookup of the remittance reference.
MutReceiptIsNew(r) == TRUE

\* A receipt some operation already names is returned if the request repeats
\* that operation, and refused otherwise.
ReceiptIsNew(r) == \A o \in Ops : op[o].receipt # r

SubmitDeposit(o, a, n, r) ==
    /\ ReceiptIsNew(r)
    /\ Insert(o, [Absent EXCEPT !.type = "DEPOSIT", !.status = "SUBMITTED",
                    !.currency = CurrencyOf[a], !.amount = n, !.target = a,
                    !.receipt = r])
    /\ UNCHANGED <<account, wallet, journal, feeVars, clock>>

\* validateShape compares the target of a credit with the customer only, not
\* with the currency.
SubmitCredit(o, form, n) ==
    /\ Insert(o, [Absent EXCEPT !.type = "CREDIT", !.status = "SUBMITTED",
                    !.currency = form[1], !.amount = n, !.target = form[2]])
    /\ UNCHANGED <<account, wallet, journal, feeVars, clock>>

\* Mutant: the fee is left out of the reservation.
MutSubmitReserved(o, row) ==
    /\ CanFreeze(row.source, row.amount)
    /\ Insert(o, row)
    /\ account' = [account EXCEPT ![row.source] = Freeze(@, row.amount)]
    /\ UNCHANGED <<wallet, journal, feeVars, clock>>

SubmitReserved(o, row) ==
    /\ CanFreeze(row.source, row.amount + row.fee)
    /\ Insert(o, row)
    /\ account' = [account EXCEPT ![row.source] =
                     Freeze(@, row.amount + row.fee)]
    /\ UNCHANGED <<wallet, journal, feeVars, clock>>

SubmitDebit(o, a, n, f) ==
    SubmitReserved(o, [Absent EXCEPT !.type = "DEBIT", !.status = "SUBMITTED",
                         !.currency = CurrencyOf[a], !.amount = n, !.fee = f,
                         !.source = a])

SubmitFx(o, a, b, n, f, q) ==
    /\ CurrencyOf[a] # CurrencyOf[b]
    /\ SubmitReserved(o, [Absent EXCEPT !.type = "FX", !.status = "SUBMITTED",
                            !.currency = CurrencyOf[a], !.amount = n,
                            !.fee = f, !.source = a, !.target = b,
                            !.quote = q])

PayoutRow(a, n) ==
    [Absent EXCEPT !.type = "PAYOUT", !.status = "SUBMITTED",
       !.currency = CurrencyOf[a], !.amount = n, !.fee = feeRule.amount,
       !.source = a]

\* An operator's payout: the fee is the active rule's, whatever the request
\* asked for.
SubmitPayout(o, a, n) ==
    /\ feeRule.active
    /\ SubmitReserved(o, PayoutRow(a, n))

\* Mutant: the fee the customer confirmed is not compared.
MutSubmitCustomerPayout(o, a, n) ==
    /\ feeRule.active
    /\ SubmitReserved(o, [PayoutRow(a, n) EXCEPT !.confirmed = shown.amount])

\* A customer's payout carries the amount and the version of the rule that
\* the customer confirmed.
SubmitCustomerPayout(o, a, n) ==
    /\ feeRule.active
    /\ feeRule.version = shown.version
    /\ feeRule.amount = shown.amount
    /\ SubmitReserved(o, [PayoutRow(a, n) EXCEPT !.confirmed = shown.amount])

-----------------------------------------------------------------------------
(* OTC quotes. *)

\* Creating a quote first cancels the customer's drafts past the window.
CancelExpired ==
    [o \in Ops |-> IF op[o].status = "DRAFT" /\ op[o].expires < clock
                   THEN [op[o] EXCEPT !.status = "CANCELLED"]
                   ELSE op[o]]

CreateQuote(o, a, b, n, q) ==
    /\ op[o].status = "ABSENT"
    /\ CurrencyOf[a] # CurrencyOf[b]
    /\ USDT \in {CurrencyOf[a], CurrencyOf[b]}
    /\ op' = [CancelExpired EXCEPT ![o] =
                [Absent EXCEPT !.type = "OTC", !.status = "DRAFT",
                   !.currency = CurrencyOf[a], !.amount = n, !.source = a,
                   !.target = b, !.quote = q, !.expires = clock + Window]]
    /\ UNCHANGED <<account, wallet, journal, feeVars, clock>>

\* Mutant: a repeated quote request renews the quote.
MutRepeatQuote(o) ==
    /\ op[o].status = "DRAFT"
    /\ op' = [op EXCEPT ![o].expires = clock + Window]
    /\ UNCHANGED <<account, wallet, journal, feeVars, clock>>

\* A repeated quote request returns the row, after the same cancellation.
RepeatQuote(o) ==
    /\ op[o].status # "ABSENT"
    /\ op[o].type = "OTC"
    /\ op' = CancelExpired
    /\ UNCHANGED <<account, wallet, journal, feeVars, clock>>

ConfirmExpired(o) ==
    /\ op[o].status = "DRAFT"
    /\ op[o].expires <= clock
    /\ SetStatus(o, "CANCELLED")
    /\ UNCHANGED <<account, wallet, journal, feeVars, clock>>

\* Balances after a conversion whose funds are frozen.
Converted(balances, o, held) ==
    [a \in DOMAIN balances |->
       IF a = op[o].source THEN Consume(held[a], Reserve(o))
       ELSE IF a = op[o].target THEN Credit(balances[a], op[o].quote)
       ELSE balances[a]]

\* Mutant: the mirror is not credited when USDT is bought.
MutConfirmQuote(o) ==
    /\ op[o].status = "DRAFT"
    /\ op[o].expires > clock
    /\ CanFreeze(op[o].source, Reserve(o))
    /\ op[o].source \in Crypto =>
         wallet[op[o].source].available >= Reserve(o)
    /\ Post(o)
    /\ account' = Converted(account, o,
                    [a \in Accounts |-> Freeze(account[a], Reserve(o))])
    /\ wallet' = [a \in Crypto |-> IF a = op[o].source
                    THEN Consume(Freeze(wallet[a], Reserve(o)), Reserve(o))
                    ELSE wallet[a]]
    /\ SetStatus(o, "COMPLETED")
    /\ UNCHANGED <<feeVars, clock>>

\* freeze, postConversion and completion in one transaction.
ConfirmQuote(o) ==
    /\ op[o].status = "DRAFT"
    /\ op[o].expires > clock
    /\ CanFreeze(op[o].source, Reserve(o))
    /\ op[o].source \in Crypto =>
         wallet[op[o].source].available >= Reserve(o)
    /\ Post(o)
    /\ account' = Converted(account, o,
                    [a \in Accounts |-> Freeze(account[a], Reserve(o))])
    /\ wallet' = Converted(wallet, o,
                    [a \in Crypto |-> Freeze(wallet[a], Reserve(o))])
    /\ SetStatus(o, "COMPLETED")
    /\ UNCHANGED <<feeVars, clock>>

-----------------------------------------------------------------------------
(* The checker. *)

ApproveCredit(o) ==
    /\ op[o].status = "SUBMITTED"
    /\ op[o].type \in {"DEPOSIT", "CREDIT"}
    /\ account' = [account EXCEPT ![op[o].target] = Credit(@, op[o].amount)]
    /\ Post(o)
    /\ SetStatus(o, "COMPLETED")
    /\ UNCHANGED <<wallet, feeVars, clock>>

ApproveFx(o) ==
    /\ op[o].status = "SUBMITTED"
    /\ op[o].type = "FX"
    /\ IsFrozen(op[o].source, Reserve(o))
    /\ account' = Converted(account, o, account)
    /\ Post(o)
    /\ SetStatus(o, "COMPLETED")
    /\ UNCHANGED <<wallet, feeVars, clock>>

\* A debit adjustment consumes its amount; the fee frozen with it stays.
ApproveDebit(o) ==
    /\ op[o].status = "SUBMITTED"
    /\ op[o].type = "DEBIT"
    /\ IsFrozen(op[o].source, op[o].amount)
    /\ account' = [account EXCEPT ![op[o].source] = Consume(@, op[o].amount)]
    /\ Post(o)
    /\ SetStatus(o, "COMPLETED")
    /\ UNCHANGED <<wallet, feeVars, clock>>

ApprovePayout(o) ==
    /\ op[o].status = "SUBMITTED"
    /\ op[o].type = "PAYOUT"
    /\ SetStatus(o, "PROCESSING")
    /\ UNCHANGED <<account, wallet, journal, feeVars, clock>>

\* Mutant: a rejection gives back the amount and keeps the fee frozen.
MutReject(o) ==
    /\ op[o].status = "SUBMITTED"
    /\ UsesReservation(o) => IsFrozen(op[o].source, Reserve(o))
    /\ account' = IF UsesReservation(o)
                  THEN [account EXCEPT ![op[o].source] =
                          Unfreeze(@, op[o].amount)]
                  ELSE account
    /\ SetStatus(o, "REJECTED")
    /\ UNCHANGED <<wallet, journal, feeVars, clock>>

Reject(o) ==
    /\ op[o].status = "SUBMITTED"
    /\ UsesReservation(o) => IsFrozen(op[o].source, Reserve(o))
    /\ account' = IF UsesReservation(o)
                  THEN [account EXCEPT ![op[o].source] =
                          Unfreeze(@, Reserve(o))]
                  ELSE account
    /\ SetStatus(o, "REJECTED")
    /\ UNCHANGED <<wallet, journal, feeVars, clock>>

\* Mutant: the fee is resolved again when the payout is executed.
MutExecute(o) ==
    /\ op[o].type = "PAYOUT"
    /\ op[o].status = "PROCESSING"
    /\ op' = [op EXCEPT ![o].status = "COMPLETED", ![o].fee = feeRule.amount]
    /\ account' = [account EXCEPT ![op[o].source] = Consume(@, Reserve(o))]
    /\ Post(o)
    /\ UNCHANGED <<wallet, feeVars, clock>>

\* An operator records that the bank paid.
Execute(o) ==
    /\ op[o].type = "PAYOUT"
    /\ op[o].status = "PROCESSING"
    /\ IsFrozen(op[o].source, Reserve(o))
    /\ account' = [account EXCEPT ![op[o].source] = Consume(@, Reserve(o))]
    /\ Post(o)
    /\ SetStatus(o, "COMPLETED")
    /\ UNCHANGED <<wallet, feeVars, clock>>

-----------------------------------------------------------------------------
UpdateFeeRule(f, active) ==
    /\ feeRule.version < MaxVersion
    /\ feeRule' = [amount |-> f, version |-> feeRule.version + 1,
                   active |-> active]
    /\ UNCHANGED <<op, account, wallet, journal, shown, clock>>

\* The customer loads the payout page.
ShowFee ==
    /\ shown # feeRule
    /\ feeRule.active
    /\ shown' = feeRule
    /\ UNCHANGED <<op, account, wallet, journal, feeRule, clock>>

Tick ==
    /\ clock < MaxTime
    /\ clock' = clock + 1
    /\ UNCHANGED <<op, account, wallet, journal, feeVars>>

Next ==
    \/ \E o \in Ops :
         \/ \E a \in Fiat, n \in Amounts, r \in Receipts :
              SubmitDeposit(o, a, n, r)
         \/ \E form \in CreditForms, n \in Amounts : SubmitCredit(o, form, n)
         \/ \E a \in Fiat, n \in Amounts, f \in Fees : SubmitDebit(o, a, n, f)
         \/ \E a, b \in Fiat, n \in Amounts, f \in Fees, q \in QuoteAmounts :
              SubmitFx(o, a, b, n, f, q)
         \/ \E a \in Fiat, n \in Amounts : SubmitPayout(o, a, n)
         \/ \E a \in Fiat, n \in Amounts : SubmitCustomerPayout(o, a, n)
         \/ \E a, b \in Accounts, n \in Amounts, q \in QuoteAmounts :
              CreateQuote(o, a, b, n, q)
         \/ RepeatQuote(o)
         \/ ConfirmExpired(o)
         \/ ConfirmQuote(o)
         \/ ApproveCredit(o)
         \/ ApproveFx(o)
         \/ ApproveDebit(o)
         \/ ApprovePayout(o)
         \/ Reject(o)
         \/ Execute(o)
    \/ \E f \in Fees, active \in BOOLEAN : UpdateFeeRule(f, active)
    \/ ShowFee
    \/ Tick

Spec == Init /\ [][Next]_vars

-----------------------------------------------------------------------------
(* Properties. *)

Balance == [available : Nat, frozen : Nat]

LineType ==
    [suffix : {"principal", "fee"},
     book : ({"PLATFORM_CLEARING", "FEE_REVENUE"} \X Currencies)
              \cup ({"CUSTOMER"} \X Accounts),
     side : {"DEBIT", "CREDIT"}, currency : Currencies, amount : Nat]

\* Rows keep their types; in particular no interleaving of submissions,
\* approvals and conversions takes a balance below zero, which the guarded
\* updates of freeze, unfreeze and consumeFrozen have to ensure.
TypeOK ==
    /\ op \in [Ops -> Operation]
    /\ account \in [Accounts -> Balance]
    /\ wallet \in [Crypto -> Balance]
    /\ journal \in [Ops -> SUBSET LineType]
    /\ {feeRule, shown} \subseteq
         [amount : Fees, version : Nat, active : BOOLEAN]
    /\ clock \in Nat

Open(o) == op[o].status \in {"SUBMITTED", "PROCESSING"}

\* What operation o still keeps frozen.
Held(o) ==
    CASE Open(o) /\ UsesReservation(o) -> Reserve(o)
      [] op[o].status = "COMPLETED" /\ op[o].type = "DEBIT" -> op[o].fee
      [] OTHER -> 0

\* The frozen balance of an account is exactly what its open operations
\* reserved, plus the fees of completed debit adjustments, which
\* postApprovedOperation leaves frozen.  A quote, expired or not, holds
\* nothing, and a fee change after submission changes nothing.
FrozenIsHeld ==
    \A a \in Accounts :
      account[a].frozen =
        SumOver([o \in Ops |-> Held(o)], {o \in Ops : op[o].source = a})

Posted == UNION {{o} \X journal[o] : o \in Ops}

SumLines(S) == SumOver([l \in S |-> l[2].amount], S)

\* Every entry balances in every currency.
EntriesBalance ==
    \A o \in Ops, s \in {"principal", "fee"}, c \in Currencies :
      LET entry == {l \in {o} \X journal[o] :
                      l[2].suffix = s /\ l[2].currency = c} IN
      SumLines({l \in entry : l[2].side = "DEBIT"}) =
        SumLines({l \in entry : l[2].side = "CREDIT"})

\* The journal is the final accounting authority.  The materialized balance of
\* an account is what its lines say; entries balance, so journal() never throws
\* unbalanced_journal after balances were updated; and exactly the completed
\* operations have entries.
BooksMatch ==
    /\ EntriesBalance
    /\ \A o \in Ops : journal[o] # {} <=> op[o].status = "COMPLETED"
    /\ \A a \in Accounts :
         LET mine == {l \in Posted : l[2].book = Customer(a)} IN
         account[a].available + account[a].frozen
             + SumLines({l \in mine : l[2].side = "DEBIT"})
           = Opening[a] + SumLines({l \in mine : l[2].side = "CREDIT"})

\* The CryptoWallet mirrors the USDT account, through quotes confirmed in
\* either direction.
WalletMirrorsAccount == \A a \in Crypto : wallet[a] = account[a]

\* One bank receipt is credited at most once, however often and however
\* differently it is entered.
ReceiptCreditedOnce ==
    \A o, p \in Ops :
      /\ op[o].receipt # None
      /\ op[o].receipt = op[p].receipt
      /\ {op[o].status, op[p].status} \cap {"SUBMITTED", "COMPLETED"} # {}
      => o = p

\* A customer's payout takes the fee that the customer confirmed, although the
\* rule may change between the page and the submission, and again before the
\* payout is executed.
FeeAsConfirmed ==
    \A o \in Ops : op[o].confirmed # None => op[o].fee = op[o].confirmed

\* No reservation is stuck: the checker can always reject what is submitted
\* and the operator can always execute what is processing, so neither ever
\* meets invalid_frozen_balance.
ReservationsCanEnd ==
    \A o \in Ops :
      /\ op[o].status = "SUBMITTED" => ENABLED Reject(o)
      /\ op[o].status = "PROCESSING" => ENABLED Execute(o)

\* A quote that its customer let expire is dead: no retry, repetition or late
\* confirmation completes it.
ExpiredQuoteIsDead ==
    \A o \in Ops :
      [](op[o].status = "DRAFT" /\ op[o].expires <= clock
           => [](op[o].status # "COMPLETED"))

\* What was submitted is what is posted: no step changes the amount, fee or
\* conversion result of an existing operation, nor anything of an operation
\* that ended (the terminal operation is immutable).
SubmittedIsImmutable ==
    [][\A o \in Ops :
         op[o].status # "ABSENT" =>
           /\ [op'[o] EXCEPT !.status = op[o].status] = op[o]
           /\ op[o].status \in Terminal => op'[o] = op[o]]_vars
=============================================================================
