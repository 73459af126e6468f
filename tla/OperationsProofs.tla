-------------------------- MODULE OperationsProofs --------------------------
(***************************************************************************)
(* Proofs about Operations for every set of accounts, operations, amounts  *)
(* and fees.  IInv, the inductive invariant, is TypeOK with Shape, which   *)
(* says which fields an operation of each type has and which statuses it   *)
(* can be in, and the uniqueness of receipts.  Two more invariants rest on *)
(* it: Reserved, for the sum of what the open operations hold of an        *)
(* account, and Journaled, for the sums of the lines of an account.        *)
(***************************************************************************)
EXTENDS Operations, SumsProofs, TLAPS

\* What createOperation and the transitions guarantee about a row: who pays,
\* who is paid, that only a quote is a draft, and that the fee of a customer
\* payout is the confirmed one.
RowShape(p) ==
    /\ p.status = "ABSENT" => p.receipt = None
    /\ p.confirmed # None => p.fee = p.confirmed
    /\ p.status # "ABSENT" =>
      /\ p.currency \in Currencies
      /\ p.type \in {"DEPOSIT", "CREDIT", "FX", "OTC"} => p.target \in Accounts
      /\ p.type \in {"DEBIT", "PAYOUT", "FX", "OTC"} => p.source \in Accounts
      /\ p.type \in {"FX", "OTC"} =>
           p.source # p.target /\ p.currency # CurrencyOf[p.target]
      /\ p.type \in {"DEBIT", "PAYOUT", "FX"} => p.source \notin Crypto
      /\ p.type \in {"DEPOSIT", "FX"} => p.target \notin Crypto
      /\ p.type = "CREDIT" => <<p.currency, p.target>> \in CreditForms
      /\ p.status = "DRAFT" => p.type = "OTC"
      /\ p.status = "SUBMITTED" => p.type # "OTC"

Shape == \A o \in Ops : RowShape(op[o])

\* A receipt is named by one operation, in whatever status.
ReceiptsUnique ==
    \A o, p \in Ops :
      op[o].receipt # None /\ op[o].receipt = op[p].receipt => o = p

IInv == TypeOK /\ Shape /\ ReceiptsUnique

\* What a step may do to a row: nothing, fill an absent one, or change the
\* status of one that has not ended.
RowStep(p, q) ==
    \/ q = p
    \/ /\ p.status = "ABSENT"
       /\ q \in Operation
       /\ RowShape(q)
    \/ /\ p.status \notin Terminal \cup {"ABSENT"}
       /\ \E s \in Statuses : q = [p EXCEPT !.status = s]
       /\ RowShape(q)

RowsStep ==
    /\ op' \in [Ops -> Operation]
    /\ \A o \in Ops : RowStep(op[o], op'[o])

\* No row changes the receipt it names.
ReceiptsKept == \A o \in Ops : op'[o].receipt = op[o].receipt

\* Operators submit credits for fiat accounts only, as the operator's form
\* does and the service does not check.
FormsMatch == \A form \in CreditForms : form[2] \notin Crypto

\* What every step guarantees.
StepOK ==
    /\ RowsStep
    /\ ReceiptsUnique'
    /\ account' \in [Accounts -> Balance]
    /\ wallet' \in [Crypto -> Balance]
    /\ journal' \in [Ops -> SUBSET LineType]
    /\ {feeRule', shown'} \subseteq
         [amount : Fees, version : Nat, active : BOOLEAN]
    /\ clock' \in Nat
    /\ FormsMatch /\ WalletMirrorsAccount => WalletMirrorsAccount'

-----------------------------------------------------------------------------
(* Balances. *)

\* Moving n between the parts of a balance that covers n keeps it a balance.
LEMMA BalanceOps ==
    ASSUME NEW b \in Balance, NEW n \in Nat
    PROVE  /\ b.available >= n => Freeze(b, n) \in Balance
           /\ b.frozen >= n => Unfreeze(b, n) \in Balance
           /\ b.frozen >= n => Consume(b, n) \in Balance
           /\ Credit(b, n) \in Balance
  <1>1. b.available + n \in Nat /\ b.frozen + n \in Nat
    BY DEF Balance
  <1>2. ASSUME b.available >= n PROVE Freeze(b, n) \in Balance
    <2>1. b.available - n \in Nat
      BY <1>2 DEF Balance
    <2> QED
      BY <1>1, <2>1 DEF Balance, Freeze
  <1>3. ASSUME b.frozen >= n
        PROVE  Unfreeze(b, n) \in Balance /\ Consume(b, n) \in Balance
    <2>1. b.frozen - n \in Nat
      BY <1>3 DEF Balance
    <2> QED
      BY <1>1, <2>1 DEF Balance, Unfreeze, Consume
  <1>4. Credit(b, n) \in Balance
    BY <1>1 DEF Balance, Credit
  <1> QED
    BY <1>2, <1>3, <1>4

\* Freezing and consuming at once, as the confirmation of a quote does.
LEMMA FreezeAndConsume ==
    ASSUME NEW b \in Balance, NEW n \in Nat, b.available >= n
    PROVE  Consume(Freeze(b, n), n) \in Balance
<1>1. Freeze(b, n) \in Balance /\ Freeze(b, n).frozen >= n
  <2>1. b.frozen \in Nat /\ Freeze(b, n).frozen = b.frozen + n
    BY DEF Balance, Freeze
  <2> QED
    BY <2>1, BalanceOps
<1> QED
  BY <1>1, BalanceOps

\* A change of one balance keeps the table of balances.
LEMMA UpdateBalance ==
    ASSUME NEW S, NEW t \in [S -> Balance], NEW a \in S, NEW b \in Balance
    PROVE  [t EXCEPT ![a] = b] \in [S -> Balance]
  OBVIOUS

-----------------------------------------------------------------------------
(* Rows. *)

\* The row of an operation that was never submitted.
LEMMA AbsentRow == Absent \in Operation /\ RowShape(Absent)
  BY OperationsAssumption
     DEF Absent, Operation, RowShape, Types, Statuses, Terminal

\* The account of a fiat amount is an account without mirror.
LEMMA FiatAccounts ==
    ASSUME NEW a \in Fiat
    PROVE  a \in Accounts /\ a \notin Crypto /\ CurrencyOf[a] \in Currencies
  BY OperationsAssumption DEF Fiat, Crypto

\* Inserting a good row.
LEMMA InsertStep ==
    ASSUME TypeOK, NEW o \in Ops, NEW row \in Operation, RowShape(row),
           Insert(o, row)
    PROVE  RowsStep
  BY DEF Insert, RowsStep, RowStep, TypeOK

\* A row without receipt leaves the receipts as they are.
LEMMA InsertKeepsReceipts ==
    ASSUME IInv, NEW o \in Ops, NEW row \in Operation, row.receipt = None,
           Insert(o, row)
    PROVE  ReceiptsKept
  BY DEF Insert, ReceiptsKept, IInv, TypeOK, Shape, RowShape

\* Giving a row that has not ended another status.
LEMMA StatusStep ==
    ASSUME TypeOK, NEW o \in Ops, NEW s \in Statuses,
           op[o].status \notin Terminal \cup {"ABSENT"},
           RowShape([op[o] EXCEPT !.status = s]), SetStatus(o, s)
    PROVE  RowsStep /\ ReceiptsKept
  <1>1. op[o] \in Operation
    BY DEF TypeOK
  <1>2. [op[o] EXCEPT !.status = s] \in Operation
    BY <1>1 DEF Operation
  <1>3. [op[o] EXCEPT !.status = s].receipt = op[o].receipt
    BY <1>1 DEF Operation
  <1>4. op' = [op EXCEPT ![o] = [op[o] EXCEPT !.status = s]]
    BY DEF SetStatus
  <1>5. op' \in [Ops -> Operation]
    BY <1>2, <1>4 DEF TypeOK
  <1>6. \A x \in Ops : RowStep(op[x], op'[x]) /\ op'[x].receipt = op[x].receipt
    BY <1>2, <1>3, <1>4 DEF RowStep, TypeOK
  <1> QED
    BY <1>5, <1>6 DEF RowsStep, ReceiptsKept

\* Ending a row keeps its shape.
LEMMA EndedShape ==
    ASSUME NEW p \in Operation, RowShape(p), p.status # "ABSENT",
           NEW s \in Terminal
    PROVE  RowShape([p EXCEPT !.status = s])
  <1>1. s \in Statuses /\ s \notin {"ABSENT", "DRAFT", "SUBMITTED"}
    BY DEF Statuses, Terminal
  <1> DEFINE q == [p EXCEPT !.status = s]
  <1>2. /\ q.status = s /\ q.receipt = p.receipt /\ q.confirmed = p.confirmed
        /\ q.fee = p.fee /\ q.currency = p.currency /\ q.type = p.type
        /\ q.source = p.source /\ q.target = p.target
    BY DEF Operation
  <1> HIDE DEF q
  <1>3. RowShape(q)
    BY <1>1, <1>2 DEF RowShape
  <1> QED
    BY <1>3 DEF q

\* An approved payout keeps its shape.
LEMMA ProcessingShape ==
    ASSUME NEW p \in Operation, RowShape(p), p.status = "SUBMITTED"
    PROVE  RowShape([p EXCEPT !.status = "PROCESSING"])
  <1> DEFINE q == [p EXCEPT !.status = "PROCESSING"]
  <1>2. /\ q.status = "PROCESSING" /\ q.receipt = p.receipt
        /\ q.confirmed = p.confirmed
        /\ q.fee = p.fee /\ q.currency = p.currency /\ q.type = p.type
        /\ q.source = p.source /\ q.target = p.target
    BY DEF Operation
  <1> HIDE DEF q
  <1>3. RowShape(q)
    BY <1>2 DEF RowShape
  <1> QED
    BY <1>3 DEF q

\* Cancelling expired drafts.
LEMMA CancelStep ==
    ASSUME TypeOK, Shape
    PROVE  /\ CancelExpired \in [Ops -> Operation]
           /\ \A o \in Ops : RowStep(op[o], CancelExpired[o])
           /\ \A o \in Ops : CancelExpired[o].receipt = op[o].receipt
  <1> DEFINE c(o) == [op[o] EXCEPT !.status = "CANCELLED"]
  <1>1. "CANCELLED" \in Statuses /\ "CANCELLED" \in Terminal
        /\ "DRAFT" \notin Terminal \cup {"ABSENT"}
    BY DEF Statuses, Terminal
  <1>2. ASSUME NEW o \in Ops, op[o].status = "DRAFT"
        PROVE  /\ c(o) \in Operation
               /\ RowStep(op[o], c(o))
               /\ c(o).receipt = op[o].receipt
    <2>1. op[o] \in Operation /\ RowShape(op[o])
      BY DEF TypeOK, Shape
    <2>2. c(o) \in Operation /\ c(o).receipt = op[o].receipt
      BY <1>1, <2>1 DEF Operation
    <2>3. RowShape(c(o))
      BY <1>1, <1>2, <2>1, EndedShape
    <2> QED
      BY <1>1, <1>2, <2>1, <2>2, <2>3 DEF RowStep
  <1>3. ASSUME NEW o \in Ops
        PROVE  CancelExpired[o] = op[o]
                 \/ (op[o].status = "DRAFT" /\ CancelExpired[o] = c(o))
    BY DEF CancelExpired
  <1> HIDE DEF c
  <1>4. ASSUME NEW o \in Ops
        PROVE  /\ CancelExpired[o] \in Operation
               /\ RowStep(op[o], CancelExpired[o])
               /\ CancelExpired[o].receipt = op[o].receipt
    <2>1. op[o] \in Operation
      BY DEF TypeOK
    <2> QED
      BY <1>2, <1>3, <2>1 DEF RowStep
  <1> QED
    BY <1>4 DEF CancelExpired

-----------------------------------------------------------------------------
(* The rows that createOperation inserts. *)

\* A deposit names its receipt and a fiat target.
LEMMA DepositRow ==
    ASSUME NEW a \in Fiat, NEW n \in Amounts, NEW r \in Receipts
    PROVE  LET row == [Absent EXCEPT !.type = "DEPOSIT",
                         !.status = "SUBMITTED", !.currency = CurrencyOf[a],
                         !.amount = n, !.target = a, !.receipt = r]
           IN  row \in Operation /\ RowShape(row) /\ row.receipt = r
  BY FiatAccounts, OperationsAssumption
     DEF Absent, Operation, RowShape, Types, Statuses, Terminal

\* A credit names one of the currency and target pairs operators submit.
LEMMA CreditRow ==
    ASSUME NEW form \in CreditForms, NEW n \in Amounts
    PROVE  LET row == [Absent EXCEPT !.type = "CREDIT",
                         !.status = "SUBMITTED", !.currency = form[1],
                         !.amount = n, !.target = form[2]]
           IN  row \in Operation /\ RowShape(row) /\ row.receipt = None
  <1>1. /\ form[1] \in Currencies
        /\ form[2] \in Accounts
        /\ <<form[1], form[2]>> = form
    BY OperationsAssumption
  <1> QED
    BY <1>1, OperationsAssumption
       DEF Absent, Operation, RowShape, Types, Statuses, Terminal

\* A debit names a fiat source.
LEMMA DebitRow ==
    ASSUME NEW a \in Fiat, NEW n \in Amounts, NEW f \in Fees
    PROVE  LET row == [Absent EXCEPT !.type = "DEBIT", !.status = "SUBMITTED",
                         !.currency = CurrencyOf[a], !.amount = n, !.fee = f,
                         !.source = a]
           IN  /\ row \in Operation /\ RowShape(row) /\ row.receipt = None
               /\ row.source = a
  BY FiatAccounts, OperationsAssumption
     DEF Absent, Operation, RowShape, Types, Statuses, Terminal

\* A payout row, with or without a confirmed fee.
LEMMA PayoutRows ==
    ASSUME TypeOK, NEW a \in Fiat, NEW n \in Amounts
    PROVE  /\ LET row == PayoutRow(a, n)
              IN  /\ row \in Operation /\ RowShape(row) /\ row.receipt = None
                  /\ row.source = a
           /\ LET row == [PayoutRow(a, n) EXCEPT !.confirmed = feeRule.amount]
              IN  /\ row \in Operation /\ RowShape(row) /\ row.receipt = None
                  /\ row.source = a
  <1>1. feeRule.amount \in Nat
    BY OperationsAssumption DEF TypeOK
  <1> QED
    BY <1>1, FiatAccounts, OperationsAssumption
       DEF PayoutRow, Absent, Operation, RowShape, Types, Statuses, Terminal

\* A reservation: the row is good and its account can cover it.
LEMMA ReservedStep ==
    ASSUME IInv, NEW o \in Ops, NEW row \in Operation, RowShape(row),
           row.receipt = None, row.source \in Accounts,
           row.source \notin Crypto, SubmitReserved(o, row)
    PROVE  /\ RowsStep /\ ReceiptsKept
           /\ account' \in [Accounts -> Balance]
           /\ \A a \in Crypto : account'[a] = account[a]
           /\ UNCHANGED <<wallet, journal, feeVars, clock>>
  <1>1. Insert(o, row) /\ UNCHANGED <<wallet, journal, feeVars, clock>>
    BY DEF SubmitReserved
  <1>2. RowsStep /\ ReceiptsKept
    BY <1>1, InsertStep, InsertKeepsReceipts DEF IInv
  <1>3. account \in [Accounts -> Balance] /\ account[row.source] \in Balance
    BY DEF IInv, TypeOK
  <1>4. row.amount + row.fee \in Nat
    BY DEF Operation
  <1>5. Freeze(account[row.source], row.amount + row.fee) \in Balance
    BY <1>3, <1>4, BalanceOps DEF SubmitReserved, CanFreeze
  <1>6. account' = [account EXCEPT ![row.source] =
                      Freeze(account[row.source], row.amount + row.fee)]
    BY DEF SubmitReserved
  <1>7. account' \in [Accounts -> Balance]
    BY <1>3, <1>5, <1>6
  <1>8. \A a \in Crypto : account'[a] = account[a]
    BY <1>3, <1>6 DEF Crypto
  <1> QED
    BY <1>1, <1>2, <1>7, <1>8

-----------------------------------------------------------------------------
(* Steps. *)

\* Receipts that no row changes stay unique.
LEMMA KeptReceiptsUnique ==
    ASSUME IInv, ReceiptsKept PROVE ReceiptsUnique'
  BY DEF IInv, ReceiptsKept, ReceiptsUnique

\* A step that leaves balances, journal, fee rule and clock alone.
LEMMA QuietStep ==
    ASSUME IInv, RowsStep, ReceiptsUnique',
           UNCHANGED <<account, wallet, journal, feeVars, clock>>
    PROVE  StepOK
  BY DEF IInv, TypeOK, StepOK, feeVars, WalletMirrorsAccount

\* A reservation is a good step.
LEMMA ReservedStepOK ==
    ASSUME IInv, NEW o \in Ops, NEW row \in Operation, RowShape(row),
           row.receipt = None, row.source \in Fiat, SubmitReserved(o, row)
    PROVE  StepOK
  <1>1. row.source \in Accounts /\ row.source \notin Crypto
    BY FiatAccounts
  <1>2. /\ RowsStep /\ ReceiptsKept
        /\ account' \in [Accounts -> Balance]
        /\ \A a \in Crypto : account'[a] = account[a]
        /\ UNCHANGED <<wallet, journal, feeVars, clock>>
    BY <1>1, ReservedStep
  <1>3. ReceiptsUnique'
    BY <1>2, KeptReceiptsUnique
  <1> QED
    BY <1>2, <1>3 DEF IInv, TypeOK, StepOK, feeVars, WalletMirrorsAccount

\* Submissions: deposits, credits, debits, exchanges and payouts.
LEMMA SubmissionStep ==
    ASSUME IInv, NEW o \in Ops,
           \/ \E a \in Fiat, n \in Amounts, r \in Receipts :
                SubmitDeposit(o, a, n, r)
           \/ \E form \in CreditForms, n \in Amounts : SubmitCredit(o, form, n)
           \/ \E a \in Fiat, n \in Amounts, f \in Fees :
                SubmitDebit(o, a, n, f)
           \/ \E a, b \in Fiat, n \in Amounts, f \in Fees,
                 q \in QuoteAmounts : SubmitFx(o, a, b, n, f, q)
           \/ \E a \in Fiat, n \in Amounts : SubmitPayout(o, a, n)
           \/ \E a \in Fiat, n \in Amounts : SubmitCustomerPayout(o, a, n)
    PROVE  StepOK
  <1>1. ASSUME NEW a \in Fiat, NEW n \in Amounts, NEW r \in Receipts,
               SubmitDeposit(o, a, n, r)
        PROVE  StepOK
    <2> DEFINE row == [Absent EXCEPT !.type = "DEPOSIT",
                         !.status = "SUBMITTED", !.currency = CurrencyOf[a],
                         !.amount = n, !.target = a, !.receipt = r]
    <2>1. row \in Operation /\ RowShape(row) /\ row.receipt = r
      BY DepositRow
    <2>2. /\ Insert(o, row) /\ ReceiptIsNew(r)
          /\ UNCHANGED <<account, wallet, journal, feeVars, clock>>
      BY <1>1 DEF SubmitDeposit
    <2> HIDE DEF row
    <2>3. RowsStep
      BY <2>1, <2>2, InsertStep DEF IInv
    <2>4. ReceiptsUnique'
      <3>1. op' = [op EXCEPT ![o] = row] /\ op \in [Ops -> Operation]
        BY <2>2 DEF Insert, IInv, TypeOK
      <3>2. \A x \in Ops : op'[x].receipt = IF x = o THEN r ELSE op[x].receipt
        BY <2>1, <3>1
      <3>3. \A x \in Ops : op[x].receipt # r
        BY <2>2 DEF ReceiptIsNew
      <3> QED
        BY <3>2, <3>3 DEF IInv, ReceiptsUnique
    <2> QED
      BY <2>2, <2>3, <2>4, QuietStep
  <1>2. ASSUME NEW form \in CreditForms, NEW n \in Amounts,
               SubmitCredit(o, form, n)
        PROVE  StepOK
    <2> DEFINE row == [Absent EXCEPT !.type = "CREDIT",
                         !.status = "SUBMITTED", !.currency = form[1],
                         !.amount = n, !.target = form[2]]
    <2>1. row \in Operation /\ RowShape(row) /\ row.receipt = None
      BY CreditRow
    <2>2. /\ Insert(o, row)
          /\ UNCHANGED <<account, wallet, journal, feeVars, clock>>
      BY <1>2 DEF SubmitCredit
    <2> HIDE DEF row
    <2>3. RowsStep /\ ReceiptsUnique'
      BY <2>1, <2>2, InsertStep, InsertKeepsReceipts, KeptReceiptsUnique
         DEF IInv
    <2> QED
      BY <2>2, <2>3, QuietStep
  <1>3. ASSUME NEW a \in Fiat, NEW n \in Amounts, NEW f \in Fees,
               SubmitDebit(o, a, n, f)
        PROVE  StepOK
    <2> DEFINE row == [Absent EXCEPT !.type = "DEBIT",
                         !.status = "SUBMITTED", !.currency = CurrencyOf[a],
                         !.amount = n, !.fee = f, !.source = a]
    <2>1. /\ row \in Operation /\ RowShape(row) /\ row.receipt = None
          /\ row.source = a
      BY DebitRow
    <2>2. SubmitReserved(o, row)
      BY <1>3 DEF SubmitDebit
    <2> HIDE DEF row
    <2> QED
      BY <2>1, <2>2, ReservedStepOK
  <1>4. ASSUME NEW a \in Fiat, NEW b \in Fiat, NEW n \in Amounts,
               NEW f \in Fees, NEW q \in QuoteAmounts,
               SubmitFx(o, a, b, n, f, q)
        PROVE  StepOK
    <2> DEFINE row == [Absent EXCEPT !.type = "FX", !.status = "SUBMITTED",
                         !.currency = CurrencyOf[a], !.amount = n,
                         !.fee = f, !.source = a, !.target = b,
                         !.quote = q]
    <2>0. a # b /\ CurrencyOf[a] # CurrencyOf[b]
      BY <1>4 DEF SubmitFx
    <2>1. SubmitReserved(o, row)
      BY <1>4 DEF SubmitFx
    <2>2. /\ row \in Operation /\ RowShape(row) /\ row.receipt = None
          /\ row.source = a
      BY <2>0, FiatAccounts, OperationsAssumption
         DEF Absent, Operation, RowShape, Types, Statuses, Terminal
    <2> HIDE DEF row
    <2> QED
      BY <2>1, <2>2, ReservedStepOK
  <1>5. ASSUME NEW a \in Fiat, NEW n \in Amounts, SubmitPayout(o, a, n)
        PROVE  StepOK
    BY <1>5, PayoutRows, ReservedStepOK DEF SubmitPayout, IInv
  <1>6. ASSUME NEW a \in Fiat, NEW n \in Amounts,
               SubmitCustomerPayout(o, a, n)
        PROVE  StepOK
    <2>1. SubmitReserved(o, [PayoutRow(a, n) EXCEPT
                                !.confirmed = feeRule.amount])
      BY <1>6 DEF SubmitCustomerPayout
    <2> QED
      BY <2>1, PayoutRows, ReservedStepOK DEF IInv
  <1> QED
    BY <1>1, <1>2, <1>3, <1>4, <1>5, <1>6

\* Creating, repeating and cancelling quotes moves no money.
LEMMA QuoteStep ==
    ASSUME IInv, NEW o \in Ops,
           \/ \E a, b \in Accounts, n \in Amounts, q \in QuoteAmounts :
                CreateQuote(o, a, b, n, q)
           \/ RepeatQuote(o)
           \/ ConfirmExpired(o)
    PROVE  StepOK
  <1>0. /\ CancelExpired \in [Ops -> Operation]
        /\ \A x \in Ops : RowStep(op[x], CancelExpired[x])
        /\ \A x \in Ops : CancelExpired[x].receipt = op[x].receipt
    BY CancelStep DEF IInv
  <1>1. ASSUME NEW a \in Accounts, NEW b \in Accounts, NEW n \in Amounts,
               NEW q \in QuoteAmounts, CreateQuote(o, a, b, n, q)
        PROVE  StepOK
    <2>0. PICK c \in Currencies : c = CurrencyOf[a] /\ c # CurrencyOf[b]
      BY <1>1, OperationsAssumption DEF CreateQuote
    <2> DEFINE row == [Absent EXCEPT !.type = "OTC", !.status = "DRAFT",
                         !.currency = c, !.amount = n,
                         !.source = a, !.target = b, !.quote = q,
                         !.expires = clock + Window]
    <2>1. row \in Operation /\ RowShape(row) /\ row.receipt = None
      <3>1. clock + Window \in Nat
        BY OperationsAssumption DEF IInv, TypeOK
      <3> QED
        BY <2>0, <3>1, OperationsAssumption
           DEF Absent, Operation, RowShape, Types, Statuses, Terminal
    <2>2. /\ op[o].status = "ABSENT"
          /\ op' = [CancelExpired EXCEPT ![o] = row]
          /\ UNCHANGED <<account, wallet, journal, feeVars, clock>>
      BY <1>1, <2>0 DEF CreateQuote
    <2> HIDE DEF row
    <2>3. RowStep(op[o], row)
      BY <2>1, <2>2 DEF RowStep
    <2>4. RowsStep
      BY <1>0, <2>1, <2>2, <2>3 DEF RowsStep
    <2>5. op[o].receipt = None
      BY <2>2 DEF IInv, Shape, RowShape
    <2>6. ReceiptsKept
      BY <1>0, <2>1, <2>2, <2>5 DEF ReceiptsKept
    <2> QED
      BY <2>2, <2>4, <2>6, KeptReceiptsUnique, QuietStep
  <1>2. CASE RepeatQuote(o)
    BY <1>0, <1>2, KeptReceiptsUnique, QuietStep
       DEF RepeatQuote, RowsStep, ReceiptsKept
  <1>3. CASE ConfirmExpired(o)
    <2>1. /\ op[o] \in Operation /\ RowShape(op[o])
          /\ "CANCELLED" \in Terminal /\ "CANCELLED" \in Statuses
          /\ "DRAFT" \notin Terminal \cup {"ABSENT"}
      BY DEF IInv, TypeOK, Shape, Terminal, Statuses
    <2>2. RowShape([op[o] EXCEPT !.status = "CANCELLED"])
      BY <1>3, <2>1, EndedShape DEF ConfirmExpired
    <2>3. RowsStep /\ ReceiptsKept
      BY <1>3, <2>1, <2>2, StatusStep DEF ConfirmExpired, IInv
    <2> QED
      BY <1>3, <2>3, KeptReceiptsUnique, QuietStep DEF ConfirmExpired
  <1> QED
    BY <1>1, <1>2, <1>3

\* What is posted are journal lines.
LEMMA LinesType ==
    ASSUME IInv, NEW o \in Ops, op[o].status # "ABSENT"
    PROVE  Lines(o) \in SUBSET LineType
  <1> DEFINE p == op[o]
  <1>1. /\ p \in Operation /\ RowShape(p)
        /\ p.amount \in Nat /\ p.fee \in Nat /\ p.quote \in Nat
        /\ p.type \in Types
    BY DEF IInv, TypeOK, Shape, Operation
  <1>2. p.currency \in Currencies
    BY <1>1 DEF RowShape
  <1>3. p.type \in {"DEPOSIT", "CREDIT", "FX", "OTC"} => p.target \in Accounts
    BY <1>1 DEF RowShape
  <1>4. p.type \in {"DEBIT", "PAYOUT", "FX", "OTC"} => p.source \in Accounts
    BY <1>1 DEF RowShape
  <1> HIDE DEF p
  <1>5. ASSUME NEW c \in Currencies, NEW n \in Nat,
               NEW side \in {"DEBIT", "CREDIT"},
               NEW suffix \in {"principal", "fee"}
        PROVE  /\ Line(suffix, Clearing(c), side, c, n) \in LineType
               /\ Line(suffix, FeeRevenue(c), side, c, n) \in LineType
               /\ \A a \in Accounts :
                    Line(suffix, Customer(a), side, c, n) \in LineType
    BY DEF Line, Clearing, FeeRevenue, Customer, LineType
  <1>6. p.target \in Accounts => InLines(o) \in SUBSET LineType
    BY <1>1, <1>2, <1>5 DEF InLines, p
  <1>7. p.source \in Accounts => OutLines(o) \in SUBSET LineType
    BY <1>1, <1>2, <1>5 DEF OutLines, p
  <1>8. p.source \in Accounts => FeeLines(o) \in SUBSET LineType
    BY <1>1, <1>2, <1>5 DEF FeeLines, p
  <1>9. p.source \in Accounts /\ p.target \in Accounts =>
          ConversionLines(o) \in SUBSET LineType
    <2>1. ASSUME p.target \in Accounts PROVE CurrencyOf[p.target] \in Currencies
      BY <2>1, OperationsAssumption
    <2> QED
      BY <1>1, <1>5, <1>7, <2>1 DEF ConversionLines, p
  <1> QED
    BY <1>1, <1>3, <1>4, <1>6, <1>7, <1>8, <1>9 DEF Lines, Types, p

\* Posting the lines of an operation keeps the journal's type.
LEMMA PostType ==
    ASSUME IInv, NEW o \in Ops, op[o].status # "ABSENT", Post(o)
    PROVE  journal' \in [Ops -> SUBSET LineType]
  <1>1. Lines(o) \in SUBSET LineType
    BY LinesType
  <1> QED
    BY <1>1 DEF Post, IInv, TypeOK

\* Ending an operation is a good step for its row.
LEMMA EndStep ==
    ASSUME IInv, NEW o \in Ops, NEW s \in Terminal,
           op[o].status \in {"DRAFT", "SUBMITTED", "PROCESSING"},
           SetStatus(o, s)
    PROVE  RowsStep /\ ReceiptsUnique'
  <1>1. /\ op[o] \in Operation /\ RowShape(op[o]) /\ s \in Statuses
        /\ op[o].status \notin Terminal \cup {"ABSENT"}
    BY DEF IInv, TypeOK, Shape, Terminal, Statuses
  <1>2. RowShape([op[o] EXCEPT !.status = s])
    BY <1>1, EndedShape
  <1> QED
    BY <1>1, <1>2, StatusStep, KeptReceiptsUnique DEF IInv

\* An operation that changes the balance of one account without mirror.
LEMMA OneAccountStep ==
    ASSUME IInv, RowsStep, ReceiptsUnique', NEW a \in Accounts,
           NEW b \in Balance, account' = [account EXCEPT ![a] = b],
           FormsMatch => a \notin Crypto,
           journal' \in [Ops -> SUBSET LineType],
           UNCHANGED <<wallet, feeVars, clock>>
    PROVE  StepOK
  <1>1. account' \in [Accounts -> Balance]
    BY DEF IInv, TypeOK
  <1>2. a \notin Crypto => \A c \in Crypto : account'[c] = account[c]
    BY DEF IInv, TypeOK, Crypto
  <1> QED
    BY <1>1, <1>2 DEF IInv, TypeOK, StepOK, feeVars, WalletMirrorsAccount

\* What an open operation holds is a number, and its accounts have balances.
LEMMA RowFacts ==
    ASSUME IInv, NEW o \in Ops, op[o].status # "ABSENT"
    PROVE  /\ op[o] \in Operation
           /\ op[o].amount \in Nat /\ op[o].quote \in Nat /\ Reserve(o) \in Nat
           /\ RowShape(op[o])
           /\ \A a \in Accounts : account[a] \in Balance
           /\ \A a \in Crypto : wallet[a] \in Balance
  BY DEF IInv, TypeOK, Shape, Operation, Reserve

\* The checker's decisions and the execution of a payout, for the operations
\* that touch one account.
LEMMA DecisionStep ==
    ASSUME IInv, NEW o \in Ops,
           \/ ApproveCredit(o)
           \/ ApproveDebit(o)
           \/ ApprovePayout(o)
           \/ Reject(o)
           \/ Execute(o)
    PROVE  StepOK
  <1> DEFINE p == op[o]
  <1>0. p.status # "ABSENT"
    BY DEF ApproveCredit, ApproveDebit, ApprovePayout, Reject, Execute
  <1>1. /\ p \in Operation /\ RowShape(p)
        /\ p.amount \in Nat /\ Reserve(o) \in Nat
        /\ \A a \in Accounts : account[a] \in Balance
    BY <1>0, RowFacts
  <1>2. "COMPLETED" \in Terminal /\ "REJECTED" \in Terminal
    BY DEF Terminal
  <1>3. CASE ApproveCredit(o)
    <2>1. /\ p.target \in Accounts
          /\ FormsMatch => p.target \notin Crypto
      <3>1. p.type = "CREDIT" => <<p.currency, p.target>> \in CreditForms
        BY <1>0, <1>1 DEF RowShape
      <3>2. p.type = "CREDIT" /\ FormsMatch => p.target \notin Crypto
        BY <3>1 DEF FormsMatch
      <3>3. p.type = "DEPOSIT" => p.target \notin Crypto
        BY <1>0, <1>1 DEF RowShape
      <3>4. p.type \in {"DEPOSIT", "CREDIT"}
        BY <1>3 DEF ApproveCredit
      <3>5. p.target \in Accounts
        BY <1>0, <1>1, <3>4 DEF RowShape
      <3> QED
        BY <3>2, <3>3, <3>4, <3>5
    <2>2. Credit(account[p.target], p.amount) \in Balance
      BY <1>1, <2>1, BalanceOps
    <2>3. /\ account' = [account EXCEPT ![p.target] =
                           Credit(account[p.target], p.amount)]
          /\ Post(o) /\ SetStatus(o, "COMPLETED") /\ p.status = "SUBMITTED"
          /\ UNCHANGED <<wallet, feeVars, clock>>
      BY <1>3 DEF ApproveCredit
    <2>4. RowsStep /\ ReceiptsUnique'
      BY <1>2, <2>3, EndStep
    <2>5. journal' \in [Ops -> SUBSET LineType]
      BY <1>0, <2>3, PostType
    <2> QED
      BY <2>1, <2>2, <2>3, <2>4, <2>5, OneAccountStep
  <1>4. CASE ApproveDebit(o)
    <2>1. p.source \in Accounts /\ p.source \notin Crypto
      BY <1>0, <1>1, <1>4 DEF RowShape, ApproveDebit
    <2>2. Consume(account[p.source], p.amount) \in Balance
      BY <1>1, <1>4, <2>1, BalanceOps DEF ApproveDebit, IsFrozen
    <2>3. /\ account' = [account EXCEPT ![p.source] =
                           Consume(account[p.source], p.amount)]
          /\ Post(o) /\ SetStatus(o, "COMPLETED") /\ p.status = "SUBMITTED"
          /\ UNCHANGED <<wallet, feeVars, clock>>
      BY <1>4 DEF ApproveDebit
    <2>4. RowsStep /\ ReceiptsUnique'
      BY <1>2, <2>3, EndStep
    <2>5. journal' \in [Ops -> SUBSET LineType]
      BY <1>0, <2>3, PostType
    <2> QED
      BY <2>1, <2>2, <2>3, <2>4, <2>5, OneAccountStep
  <1>5. CASE ApprovePayout(o)
    <2>1. /\ p.status = "SUBMITTED" /\ SetStatus(o, "PROCESSING")
          /\ UNCHANGED <<account, wallet, journal, feeVars, clock>>
      BY <1>5 DEF ApprovePayout
    <2>2. RowShape([op[o] EXCEPT !.status = "PROCESSING"])
      BY <1>1, <2>1, ProcessingShape
    <2>3. "PROCESSING" \in Statuses /\ p.status \notin Terminal \cup {"ABSENT"}
      BY <2>1 DEF Statuses, Terminal
    <2>4. RowsStep /\ ReceiptsUnique'
      BY <2>1, <2>2, <2>3, StatusStep, KeptReceiptsUnique DEF IInv
    <2> QED
      BY <2>1, <2>4, QuietStep
  <1>6. CASE Reject(o)
    <2>1. /\ p.status = "SUBMITTED" /\ SetStatus(o, "REJECTED")
          /\ UNCHANGED <<wallet, journal, feeVars, clock>>
      BY <1>6 DEF Reject
    <2>2. RowsStep /\ ReceiptsUnique'
      BY <1>2, <2>1, EndStep
    <2>3. CASE ~UsesReservation(o)
      <3>1. account' = account
        BY <1>6, <2>3 DEF Reject
      <3> QED
        BY <2>1, <2>2, <3>1, QuietStep
    <2>4. CASE UsesReservation(o)
      <3>1. p.source \in Accounts /\ p.source \notin Crypto
        BY <1>1, <2>1, <2>4 DEF RowShape, UsesReservation
      <3>2. Unfreeze(account[p.source], Reserve(o)) \in Balance
        BY <1>1, <1>6, <2>4, <3>1, BalanceOps DEF Reject, IsFrozen
      <3>3. account' = [account EXCEPT ![p.source] =
                          Unfreeze(account[p.source], Reserve(o))]
        BY <1>6, <2>4 DEF Reject
      <3>4. journal' \in [Ops -> SUBSET LineType]
        BY <2>1 DEF IInv, TypeOK
      <3> QED
        BY <2>1, <2>2, <3>1, <3>2, <3>3, <3>4, OneAccountStep
    <2> QED
      BY <2>3, <2>4
  <1>7. CASE Execute(o)
    <2>1. p.source \in Accounts /\ p.source \notin Crypto
      BY <1>0, <1>1, <1>7 DEF RowShape, Execute
    <2>2. Consume(account[p.source], Reserve(o)) \in Balance
      BY <1>1, <1>7, <2>1, BalanceOps DEF Execute, IsFrozen
    <2>3. /\ account' = [account EXCEPT ![p.source] =
                           Consume(account[p.source], Reserve(o))]
          /\ Post(o) /\ SetStatus(o, "COMPLETED") /\ p.status = "PROCESSING"
          /\ UNCHANGED <<wallet, feeVars, clock>>
      BY <1>7 DEF Execute
    <2>4. RowsStep /\ ReceiptsUnique'
      BY <1>2, <2>3, EndStep
    <2>5. journal' \in [Ops -> SUBSET LineType]
      BY <1>0, <2>3, PostType
    <2> QED
      BY <2>1, <2>2, <2>3, <2>4, <2>5, OneAccountStep
  <1> QED
    BY <1>3, <1>4, <1>5, <1>6, <1>7

\* A conversion out of frozen funds keeps a table of balances.
LEMMA ConvertedType ==
    ASSUME IInv, NEW o \in Ops, op[o].status # "ABSENT",
           NEW S, NEW t \in [S -> Balance], NEW held,
           op[o].source \in S =>
             Consume(held[op[o].source], Reserve(o)) \in Balance
    PROVE  Converted(t, o, held) \in [S -> Balance]
  <1>1. op[o].quote \in Nat
    BY RowFacts
  <1>2. ASSUME NEW a \in S PROVE Credit(t[a], op[o].quote) \in Balance
    <2>1. t[a] \in Balance
      OBVIOUS
    <2> QED
      BY <1>1, <2>1, BalanceOps
  <1>3. DOMAIN t = S
    OBVIOUS
  <1>4. ASSUME NEW a \in S
        PROVE  Converted(t, o, held)[a] \in Balance
    BY <1>2, <1>3 DEF Converted
  <1> QED
    BY <1>3, <1>4 DEF Converted

\* Conversions: the approval of an exchange and the confirmation of a quote.
LEMMA ConversionStep ==
    ASSUME IInv, NEW o \in Ops, ApproveFx(o) \/ ConfirmQuote(o)
    PROVE  StepOK
  <1> DEFINE p == op[o]
  <1>0. /\ p.status \in {"DRAFT", "SUBMITTED"} /\ p.status # "ABSENT"
        /\ Post(o) /\ SetStatus(o, "COMPLETED") /\ UNCHANGED <<feeVars, clock>>
    BY DEF ApproveFx, ConfirmQuote
  <1>1. /\ p \in Operation /\ RowShape(p) /\ Reserve(o) \in Nat
        /\ \A a \in Accounts : account[a] \in Balance
        /\ \A a \in Crypto : wallet[a] \in Balance
    BY <1>0, RowFacts
  <1>2. "COMPLETED" \in Terminal
    BY DEF Terminal
  <1>3. RowsStep /\ ReceiptsUnique'
    BY <1>0, <1>2, EndStep
  <1>4. journal' \in [Ops -> SUBSET LineType]
    BY <1>0, PostType
  <1>5. /\ account \in [Accounts -> Balance] /\ wallet \in [Crypto -> Balance]
        /\ DOMAIN account = Accounts /\ DOMAIN wallet = Crypto
        /\ Crypto \subseteq Accounts
    BY DEF IInv, TypeOK, Crypto
  <1>6. CASE ApproveFx(o)
    <2>1. /\ p.source \in Accounts /\ p.target \in Accounts
          /\ p.source \notin Crypto /\ p.target \notin Crypto
      BY <1>0, <1>1, <1>6 DEF RowShape, ApproveFx
    <2>2. Consume(account[p.source], Reserve(o)) \in Balance
      BY <1>1, <1>6, <2>1, BalanceOps DEF ApproveFx, IsFrozen
    <2>3. account' = Converted(account, o, account) /\ wallet' = wallet
      BY <1>6 DEF ApproveFx
    <2>4. account' \in [Accounts -> Balance]
      BY <1>0, <1>5, <2>2, <2>3, ConvertedType
    <2>5. \A a \in Crypto : account'[a] = account[a]
      BY <1>5, <2>1, <2>3 DEF Converted
    <2> QED
      BY <1>0, <1>3, <1>4, <1>5, <2>3, <2>4, <2>5
         DEF IInv, TypeOK, StepOK, feeVars, WalletMirrorsAccount
  <1>7. CASE ConfirmQuote(o)
    <2> DEFINE hA == [a \in Accounts |-> Freeze(account[a], Reserve(o))]
               hW == [a \in Crypto |-> Freeze(wallet[a], Reserve(o))]
    <2>1. p.type = "OTC" /\ p.source \in Accounts
      BY <1>0, <1>1, <1>7 DEF RowShape, ConfirmQuote
    <2>2. Consume(hA[p.source], Reserve(o)) \in Balance
      <3>1. account[p.source].available >= Reserve(o)
        BY <1>7 DEF ConfirmQuote, CanFreeze
      <3>2. hA[p.source] = Freeze(account[p.source], Reserve(o))
        BY <2>1
      <3> QED
        BY <1>1, <2>1, <3>1, <3>2, FreezeAndConsume
    <2>3. p.source \in Crypto => Consume(hW[p.source], Reserve(o)) \in Balance
      <3> SUFFICES ASSUME p.source \in Crypto
                   PROVE  Consume(hW[p.source], Reserve(o)) \in Balance
        OBVIOUS
      <3>1. wallet[p.source].available >= Reserve(o)
        BY <1>7 DEF ConfirmQuote
      <3>2. hW[p.source] = Freeze(wallet[p.source], Reserve(o))
        OBVIOUS
      <3> QED
        BY <1>1, <3>1, <3>2, FreezeAndConsume
    <2>4. account' = Converted(account, o, hA) /\ wallet' = Converted(wallet, o, hW)
      BY <1>7 DEF ConfirmQuote
    <2>5. ASSUME NEW a \in Crypto, wallet[a] = account[a]
          PROVE  wallet'[a] = account'[a]
      <3>1. a \in Accounts /\ hA[a] = hW[a]
        BY <1>5, <2>5
      <3> QED
        BY <1>5, <2>4, <2>5, <3>1 DEF Converted
    <2> HIDE DEF hA, hW
    <2>6. account' \in [Accounts -> Balance]
      BY <1>0, <1>5, <2>2, <2>4, ConvertedType
    <2>7. wallet' \in [Crypto -> Balance]
      BY <1>0, <1>5, <2>3, <2>4, ConvertedType
    <2> QED
      BY <1>0, <1>3, <1>4, <2>5, <2>6, <2>7
         DEF IInv, TypeOK, StepOK, feeVars, WalletMirrorsAccount
  <1> QED
    BY <1>6, <1>7

\* Fee rule, fee page and clock.
LEMMA FeeAndClockStep ==
    ASSUME IInv,
           \/ \E f \in Fees, active \in BOOLEAN : UpdateFeeRule(f, active)
           \/ ShowFee
           \/ Tick
           \/ UNCHANGED vars
    PROVE  StepOK
  <1>0. /\ UNCHANGED <<op, account, wallet, journal>>
    BY DEF UpdateFeeRule, ShowFee, Tick, vars
  <1>1. RowsStep /\ ReceiptsUnique'
    BY <1>0 DEF RowsStep, RowStep, IInv, TypeOK, ReceiptsUnique
  <1>2. {feeRule', shown'} \subseteq
          [amount : Fees, version : Nat, active : BOOLEAN]
    <2>1. ASSUME NEW f \in Fees, NEW active \in BOOLEAN,
                 UpdateFeeRule(f, active)
          PROVE  {feeRule', shown'} \subseteq
                   [amount : Fees, version : Nat, active : BOOLEAN]
      <3>1. feeRule.version + 1 \in Nat
        BY DEF IInv, TypeOK
      <3>2. feeRule' \in [amount : Fees, version : Nat, active : BOOLEAN]
        BY <2>1, <3>1 DEF UpdateFeeRule
      <3> QED
        BY <2>1, <3>2 DEF UpdateFeeRule, IInv, TypeOK
    <2>2. CASE ShowFee \/ Tick \/ UNCHANGED vars
      BY <2>2 DEF ShowFee, Tick, vars, feeVars, IInv, TypeOK
    <2> QED
      BY <2>1, <2>2
  <1>3. clock' \in Nat
    BY DEF UpdateFeeRule, ShowFee, Tick, vars, IInv, TypeOK
  <1> QED
    BY <1>0, <1>1, <1>2, <1>3 DEF IInv, TypeOK, StepOK, WalletMirrorsAccount

\* Every step keeps what StepOK says.
LEMMA EveryStep == ASSUME IInv, [Next]_vars PROVE StepOK
  BY SubmissionStep, QuoteStep, DecisionStep, ConversionStep, FeeAndClockStep
     DEF Next

\* Good steps keep the inductive invariant.
LEMMA StepKeepsInvariant == ASSUME IInv, StepOK PROVE IInv'
  <1>1. ASSUME NEW o \in Ops PROVE RowShape(op'[o])
    BY DEF StepOK, RowsStep, RowStep, IInv, Shape
  <1>2. Shape'
    BY <1>1 DEF Shape
  <1>3. TypeOK'
    BY DEF StepOK, RowsStep, TypeOK
  <1> QED
    BY <1>2, <1>3 DEF IInv, StepOK

\* The initial state satisfies the inductive invariant.
LEMMA InitInvariant == Init => IInv
  <1> SUFFICES ASSUME Init PROVE IInv
    OBVIOUS
  <1>1. \A o \in Ops : op[o] = Absent
    BY DEF Init
  <1>2. Shape /\ ReceiptsUnique /\ op \in [Ops -> Operation]
    <2>1. Absent.receipt = None
      BY DEF Absent
    <2>2. op \in [Ops -> Operation]
      BY AbsentRow DEF Init
    <2>3. Shape
      BY <1>1, AbsentRow DEF Shape
    <2>4. ReceiptsUnique
      BY <1>1, <2>1 DEF ReceiptsUnique
    <2> QED
      BY <2>2, <2>3, <2>4
  <1>3. ASSUME NEW a \in Accounts
        PROVE  [available |-> Opening[a], frozen |-> 0] \in Balance
    BY OperationsAssumption DEF Balance
  <1>4. account \in [Accounts -> Balance] /\ wallet \in [Crypto -> Balance]
    BY <1>3 DEF Init, Crypto
  <1>5. /\ journal \in [Ops -> SUBSET LineType]
        /\ {feeRule, shown} \subseteq
             [amount : Fees, version : Nat, active : BOOLEAN]
        /\ clock \in Nat
    <2>1. PICK f \in Fees :
                 feeRule = [amount |-> f, version |-> 1, active |-> TRUE]
      BY DEF Init
    <2>2. feeRule \in [amount : Fees, version : Nat, active : BOOLEAN]
      BY <2>1
    <2>3. journal \in [Ops -> SUBSET LineType] /\ clock \in Nat
      BY DEF Init
    <2>4. shown = feeRule
      BY DEF Init
    <2> QED
      BY <2>2, <2>3, <2>4
  <1> QED
    BY <1>2, <1>4, <1>5 DEF IInv, TypeOK

\* The inductive invariant holds in every reachable state.
THEOREM Invariant == Spec => []IInv
  <1>1. IInv /\ [Next]_vars => IInv'
    BY EveryStep, StepKeepsInvariant
  <1> QED
    BY <1>1, InitInvariant, PTL DEF Spec

-----------------------------------------------------------------------------
(* Results. *)

\* Types, and with them: no sequence of submissions, decisions, conversions
\* and retries takes an available or frozen balance of operations.service.ts
\* below zero.
THEOREM TypesHold == Spec => []TypeOK
  <1>1. IInv => TypeOK
    BY DEF IInv
  <1> QED
    BY <1>1, Invariant, PTL

\* The fee a customer confirmed is the fee of the payout, in every state.
THEOREM ConfirmedFeeIsCharged == Spec => []FeeAsConfirmed
  <1>1. IInv => FeeAsConfirmed
    BY DEF IInv, Shape, RowShape, FeeAsConfirmed
  <1> QED
    BY <1>1, Invariant, PTL

\* The remittance lookup of createOperation admits a bank receipt once.
THEOREM ReceiptsCreditOnce == Spec => []ReceiptCreditedOnce
  <1>1. IInv => ReceiptCreditedOnce
    BY DEF IInv, ReceiptsUnique, ReceiptCreditedOnce
  <1> QED
    BY <1>1, Invariant, PTL

\* No method of the service changes what was submitted, nor an operation that
\* ended, as the trigger guard_operation_transition demands.
THEOREM SubmissionsAreImmutable == Spec => SubmittedIsImmutable
  <1>1. ASSUME IInv, [Next]_vars, NEW o \in Ops, op[o].status # "ABSENT"
        PROVE  /\ [op'[o] EXCEPT !.status = op[o].status] = op[o]
               /\ op[o].status \in Terminal => op'[o] = op[o]
    <2>1. RowStep(op[o], op'[o]) /\ op[o] \in Operation
      BY <1>1, EveryStep DEF StepOK, RowsStep, IInv, TypeOK
    <2>2. CASE op'[o] = op[o]
      BY <2>1, <2>2 DEF Operation
    <2>3. CASE op[o].status \notin Terminal
               /\ \E s \in Statuses : op'[o] = [op[o] EXCEPT !.status = s]
      BY <2>1, <2>3 DEF Operation
    <2> QED
      BY <1>1, <2>1, <2>2, <2>3 DEF RowStep
  <1>2. IInv /\ [Next]_vars =>
          [\A o \in Ops :
             op[o].status # "ABSENT" =>
               /\ [op'[o] EXCEPT !.status = op[o].status] = op[o]
               /\ op[o].status \in Terminal => op'[o] = op[o]]_vars
    BY <1>1
  <1> QED
    BY <1>2, Invariant, PTL DEF Spec, SubmittedIsImmutable

\* If operators submit credits for fiat accounts only, the CryptoWallet is
\* the USDT account's mirror in every state.
THEOREM WalletStaysMirrored ==
    ASSUME FormsMatch
    PROVE  Spec => []WalletMirrorsAccount
  <1>1. Init => WalletMirrorsAccount
    BY DEF Init, WalletMirrorsAccount, Crypto
  <1>2. IInv /\ WalletMirrorsAccount /\ [Next]_vars => WalletMirrorsAccount'
    BY EveryStep DEF StepOK
  <1> QED
    BY <1>1, <1>2, Invariant, PTL DEF Spec
-----------------------------------------------------------------------------
(* Frozen balances as sums. *)

\* Held, as a function of the row.
RowHeld(p) ==
    IF p.status \in {"SUBMITTED", "PROCESSING"}
         /\ p.type \in {"PAYOUT", "FX", "OTC", "DEBIT"}
    THEN p.amount + p.fee
    ELSE IF p.status = "COMPLETED" /\ p.type = "DEBIT" THEN p.fee ELSE 0

OfSource(a) == {o \in Ops : op[o].source = a}

\* The sums run over finitely many operations, however many there may be.
Reserved ==
    /\ FrozenIsHeld
    /\ \A a \in Accounts : IsFiniteSet(OfSource(a))

\* All a step does to what is held: the row of o changes, and the frozen
\* balances with it.
HeldMoves(o) ==
    /\ \A x \in Ops \ {o} : /\ op'[x].source = op[x].source
                            /\ RowHeld(op'[x]) = RowHeld(op[x])
    /\ \A a \in Accounts :
         account'[a].frozen =
           account[a].frozen
             + (IF op'[o].source = a THEN RowHeld(op'[o]) ELSE 0)
             - (IF op[o].source = a THEN RowHeld(op[o]) ELSE 0)

LEMMA HeldIsRowHeld ==
    ASSUME NEW o \in Ops PROVE Held(o) = RowHeld(op[o])
  BY DEF Held, RowHeld, Open, UsesReservation, Reserve

LEMMA RowHeldType == ASSUME NEW p \in Operation PROVE RowHeld(p) \in Nat
  BY DEF RowHeld, Operation

\* A move keeps the sums.
LEMMA MoveKeepsSums ==
    ASSUME IInv, IInv', Reserved, NEW o \in Ops, HeldMoves(o)
    PROVE  Reserved'
  <1>1. PICK f, g : /\ f = [x \in Ops |-> RowHeld(op[x])]
                    /\ g = [x \in Ops |-> RowHeld(op'[x])]
    OBVIOUS
  <1>2. f = [x \in Ops |-> Held(x)] /\ g = [x \in Ops |-> Held(x)']
    BY <1>1, HeldIsRowHeld DEF Held, RowHeld, Open, UsesReservation, Reserve
  <1>3. /\ \A x \in Ops : op[x] \in Operation /\ op'[x] \in Operation
        /\ \A a \in Accounts : account[a].frozen \in Nat
    BY DEF IInv, TypeOK, Balance
  <1>4. \A x \in Ops : f[x] \in Int /\ g[x] \in Int
    BY <1>1, <1>3, RowHeldType
  <1>5. ASSUME NEW a \in Accounts
        PROVE  /\ IsFiniteSet(OfSource(a)')
               /\ account'[a].frozen = SumOver(g, OfSource(a)')
    <2>1. PICK S, T : S = OfSource(a) /\ T = OfSource(a)'
      OBVIOUS
    <2>2. /\ S \subseteq Ops /\ T \subseteq Ops /\ S \ {o} = T \ {o}
          /\ (o \in S <=> op[o].source = a) /\ (o \in T <=> op'[o].source = a)
      BY <2>1 DEF OfSource, HeldMoves
    <2>3. /\ \A y \in S : f[y] \in Int
          /\ \A y \in T : g[y] \in Int
          /\ \A y \in S \ {o} : f[y] = g[y]
      BY <1>1, <1>4, <2>2 DEF HeldMoves
    <2>4. IsFiniteSet(S) /\ account[a].frozen = SumOver(f, S)
      BY <1>2, <2>1 DEF Reserved, FrozenIsHeld, OfSource
    <2>5. /\ IsFiniteSet(T) /\ SumOver(f, S) \in Int /\ SumOver(g, T) \in Int
          /\ SumOver(g, T) - (IF o \in T THEN g[o] ELSE 0)
               = SumOver(f, S) - (IF o \in S THEN f[o] ELSE 0)
      <3>1. /\ IsFiniteSet(T) /\ SumOver(f, S) \in Int /\ SumOver(g, T) \in Int
            /\ Others(g, T, o) = Others(f, S, o)
        BY <2>2, <2>3, <2>4, SumChange
      <3> QED
        BY <3>1 DEF Others
    <2>6. f[o] \in Int /\ g[o] \in Int /\ f[o] = RowHeld(op[o]) /\ g[o] = RowHeld(op'[o])
      BY <1>1, <1>4
    <2>7. account'[a].frozen =
            account[a].frozen + (IF op'[o].source = a THEN g[o] ELSE 0)
              - (IF op[o].source = a THEN f[o] ELSE 0)
      BY <2>6 DEF HeldMoves
    <2> QED
      BY <2>1, <2>2, <2>4, <2>5, <2>6, <2>7
  <1> QED
    BY <1>2, <1>5 DEF Reserved, FrozenIsHeld, OfSource

\* A row that did not exist held nothing.
LEMMA InsertMoves ==
    ASSUME IInv, NEW o \in Ops, NEW row \in Operation, Insert(o, row),
           \A a \in Accounts :
             account'[a].frozen = account[a].frozen
               + (IF row.source = a THEN RowHeld(row) ELSE 0)
    PROVE  HeldMoves(o)
  <1>1. /\ op' = [op EXCEPT ![o] = row] /\ op \in [Ops -> Operation]
        /\ RowHeld(op[o]) = 0
    BY DEF Insert, IInv, TypeOK, RowHeld
  <1>2. /\ \A x \in Ops \ {o} : op'[x] = op[x]
        /\ op'[o] = row
    BY <1>1
  <1>3. \A a \in Accounts : account[a].frozen \in Nat
    BY DEF IInv, TypeOK, Balance
  <1>4. RowHeld(row) \in Nat
    BY RowHeldType
  <1> QED
    BY <1>1, <1>2, <1>3, <1>4 DEF HeldMoves

\* A change of status moves the difference of what the row holds.
LEMMA StatusMoves ==
    ASSUME IInv, NEW o \in Ops, NEW s \in Statuses, NEW d \in Int, SetStatus(o, s),
           RowHeld([op[o] EXCEPT !.status = s]) = RowHeld(op[o]) + d,
           \A a \in Accounts :
             account'[a].frozen = account[a].frozen + (IF op[o].source = a THEN d ELSE 0)
    PROVE  HeldMoves(o)
  <1>1. op[o] \in Operation /\ op \in [Ops -> Operation]
    BY DEF IInv, TypeOK
  <1>2. op' = [op EXCEPT ![o] = [op[o] EXCEPT !.status = s]]
    BY DEF SetStatus
  <1>3. /\ \A x \in Ops \ {o} : op'[x] = op[x]
        /\ op'[o] = [op[o] EXCEPT !.status = s]
    BY <1>1, <1>2
  <1>4. op'[o].source = op[o].source
    BY <1>1, <1>3 DEF Operation
  <1>5. RowHeld(op[o]) \in Nat
    BY <1>1, RowHeldType
  <1>6. \A a \in Accounts : account[a].frozen \in Nat
    BY DEF IInv, TypeOK, Balance
  <1> QED
    BY <1>3, <1>4, <1>5, <1>6 DEF HeldMoves

\* Submissions hold what they freeze.
LEMMA SubmissionMoves ==
    ASSUME IInv, NEW o \in Ops, NEW row \in Operation, SubmitReserved(o, row),
           row.source \in Accounts, row.status = "SUBMITTED",
           row.type \in {"PAYOUT", "FX", "OTC", "DEBIT"}
    PROVE  HeldMoves(o)
  <1>1. /\ Insert(o, row) /\ account \in [Accounts -> Balance]
        /\ account' = [account EXCEPT ![row.source] =
                         Freeze(account[row.source], row.amount + row.fee)]
    BY DEF SubmitReserved, IInv, TypeOK
  <1>2. RowHeld(row) = row.amount + row.fee
    BY DEF RowHeld
  <1>3. account[row.source] \in Balance /\ row.amount + row.fee \in Nat
    BY <1>1 DEF Operation
  <1>4. Freeze(account[row.source], row.amount + row.fee).frozen =
          account[row.source].frozen + (row.amount + row.fee)
    BY <1>3 DEF Freeze, Balance
  <1>5. ASSUME NEW a \in Accounts
        PROVE  account'[a].frozen = account[a].frozen
                 + (IF row.source = a THEN RowHeld(row) ELSE 0)
    <2>1. account[a].frozen \in Nat
      BY <1>1 DEF Balance
    <2> QED
      BY <1>1, <1>2, <1>4, <2>1
  <1> QED
    BY <1>1, <1>5, InsertMoves

\* Rows that cancellation of expired quotes leaves or cancels hold nothing.
LEMMA CancelHolds ==
    ASSUME IInv, NEW x \in Ops
    PROVE  /\ CancelExpired[x].source = op[x].source
           /\ RowHeld(CancelExpired[x]) = RowHeld(op[x])
  <1>1. op[x] \in Operation
    BY DEF IInv, TypeOK
  <1>2. CASE op[x].status = "DRAFT" /\ op[x].expires < clock
    <2>1. CancelExpired[x] = [op[x] EXCEPT !.status = "CANCELLED"]
      BY <1>2 DEF CancelExpired
    <2>2. CancelExpired[x].status = "CANCELLED" /\ CancelExpired[x].source = op[x].source
      BY <1>1, <2>1 DEF Operation
    <2> QED
      BY <1>2, <2>2 DEF RowHeld
  <1>3. CASE ~(op[x].status = "DRAFT" /\ op[x].expires < clock)
    BY <1>3 DEF CancelExpired
  <1> QED
    BY <1>2, <1>3

\* What a row holds after a change of status.
LEMMA HeldAfter ==
    ASSUME NEW p \in Operation, NEW s \in Statuses
    PROVE  /\ s \in {"REJECTED", "CANCELLED"} => RowHeld([p EXCEPT !.status = s]) = 0
           /\ s = "COMPLETED" /\ p.type # "DEBIT" => RowHeld([p EXCEPT !.status = s]) = 0
           /\ s = "COMPLETED" /\ p.type = "DEBIT" => RowHeld([p EXCEPT !.status = s]) = p.fee
           /\ s = "PROCESSING" /\ p.status = "SUBMITTED" =>
                RowHeld([p EXCEPT !.status = s]) = RowHeld(p)
  <1>1. PICK q : q = [p EXCEPT !.status = s]
    OBVIOUS
  <1>2. q.status = s /\ q.type = p.type /\ q.amount = p.amount /\ q.fee = p.fee
    BY <1>1 DEF Operation
  <1>3. /\ s \in {"REJECTED", "CANCELLED"} => RowHeld(q) = 0
        /\ s = "COMPLETED" /\ p.type # "DEBIT" => RowHeld(q) = 0
        /\ s = "COMPLETED" /\ p.type = "DEBIT" => RowHeld(q) = p.fee
        /\ s = "PROCESSING" /\ p.status = "SUBMITTED" => RowHeld(q) = RowHeld(p)
    BY <1>2 DEF RowHeld
  <1> QED
    BY <1>1, <1>3

\* Submissions.
LEMMA SubmissionHolds ==
    ASSUME IInv, NEW o \in Ops,
           \/ \E a \in Fiat, n \in Amounts, r \in Receipts :
                SubmitDeposit(o, a, n, r)
           \/ \E form \in CreditForms, n \in Amounts : SubmitCredit(o, form, n)
           \/ \E a \in Fiat, n \in Amounts, f \in Fees :
                SubmitDebit(o, a, n, f)
           \/ \E a, b \in Fiat, n \in Amounts, f \in Fees,
                 q \in QuoteAmounts : SubmitFx(o, a, b, n, f, q)
           \/ \E a \in Fiat, n \in Amounts : SubmitPayout(o, a, n)
           \/ \E a \in Fiat, n \in Amounts : SubmitCustomerPayout(o, a, n)
    PROVE  HeldMoves(o)
  <1>0. \A a \in Accounts : account[a].frozen \in Nat
    BY DEF IInv, TypeOK, Balance
  <1>1. ASSUME NEW a \in Fiat, NEW n \in Amounts, NEW r \in Receipts,
               SubmitDeposit(o, a, n, r)
        PROVE  HeldMoves(o)
    <2> DEFINE row == [Absent EXCEPT !.type = "DEPOSIT",
                         !.status = "SUBMITTED", !.currency = CurrencyOf[a],
                         !.amount = n, !.target = a, !.receipt = r]
    <2>1. row \in Operation
      BY DepositRow
    <2>2. Insert(o, row) /\ account' = account
      BY <1>1 DEF SubmitDeposit
    <2>3. RowHeld(row) = 0
      BY DEF RowHeld, Absent
    <2> HIDE DEF row
    <2> QED
      BY <1>0, <2>1, <2>2, <2>3, InsertMoves
  <1>2. ASSUME NEW form \in CreditForms, NEW n \in Amounts,
               SubmitCredit(o, form, n)
        PROVE  HeldMoves(o)
    <2> DEFINE row == [Absent EXCEPT !.type = "CREDIT",
                         !.status = "SUBMITTED", !.currency = form[1],
                         !.amount = n, !.target = form[2]]
    <2>1. row \in Operation
      BY CreditRow
    <2>2. Insert(o, row) /\ account' = account
      BY <1>2 DEF SubmitCredit
    <2>3. RowHeld(row) = 0
      BY DEF RowHeld, Absent
    <2> HIDE DEF row
    <2> QED
      BY <1>0, <2>1, <2>2, <2>3, InsertMoves
  <1>3. ASSUME NEW a \in Fiat, NEW n \in Amounts, NEW f \in Fees,
               SubmitDebit(o, a, n, f)
        PROVE  HeldMoves(o)
    <2> DEFINE row == [Absent EXCEPT !.type = "DEBIT",
                         !.status = "SUBMITTED", !.currency = CurrencyOf[a],
                         !.amount = n, !.fee = f, !.source = a]
    <2>1. row \in Operation /\ row.source = a
      BY DebitRow
    <2>2. SubmitReserved(o, row)
      BY <1>3 DEF SubmitDebit
    <2>3. row.status = "SUBMITTED" /\ row.type = "DEBIT"
      BY DEF Absent
    <2> HIDE DEF row
    <2> QED
      BY <2>1, <2>2, <2>3, FiatAccounts, SubmissionMoves
  <1>4. ASSUME NEW a \in Fiat, NEW b \in Fiat, NEW n \in Amounts,
               NEW f \in Fees, NEW q \in QuoteAmounts,
               SubmitFx(o, a, b, n, f, q)
        PROVE  HeldMoves(o)
    <2> DEFINE row == [Absent EXCEPT !.type = "FX", !.status = "SUBMITTED",
                         !.currency = CurrencyOf[a], !.amount = n,
                         !.fee = f, !.source = a, !.target = b,
                         !.quote = q]
    <2>1. SubmitReserved(o, row)
      BY <1>4 DEF SubmitFx
    <2>2. row \in Operation /\ row.source = a
      BY FiatAccounts, OperationsAssumption
         DEF Absent, Operation, Types, Statuses, Terminal
    <2>3. row.status = "SUBMITTED" /\ row.type = "FX"
      BY DEF Absent
    <2> HIDE DEF row
    <2> QED
      BY <2>1, <2>2, <2>3, FiatAccounts, SubmissionMoves
  <1>5. ASSUME NEW a \in Fiat, NEW n \in Amounts, NEW row,
               row = PayoutRow(a, n)
                 \/ row = [PayoutRow(a, n) EXCEPT !.confirmed = feeRule.amount],
               SubmitReserved(o, row)
        PROVE  HeldMoves(o)
    <2>1. row \in Operation /\ row.source = a
      BY <1>5, PayoutRows DEF IInv
    <2>2. row.status = "SUBMITTED" /\ row.type = "PAYOUT"
      BY <1>5 DEF PayoutRow, Absent
    <2>3. a \in Accounts
      BY FiatAccounts
    <2> QED
      BY <1>5, <2>1, <2>2, <2>3, SubmissionMoves
  <1>6. ASSUME NEW a \in Fiat, NEW n \in Amounts,
               SubmitPayout(o, a, n) \/ SubmitCustomerPayout(o, a, n)
        PROVE  HeldMoves(o)
    BY <1>5, <1>6 DEF SubmitPayout, SubmitCustomerPayout
  <1> QED
    BY <1>1, <1>2, <1>3, <1>4, <1>6

\* Quotes hold nothing.
LEMMA QuoteHolds ==
    ASSUME IInv, NEW o \in Ops,
           \/ \E a, b \in Accounts, n \in Amounts, q \in QuoteAmounts :
                CreateQuote(o, a, b, n, q)
           \/ RepeatQuote(o)
           \/ ConfirmExpired(o)
    PROVE  HeldMoves(o)
  <1>0. /\ \A a \in Accounts : account[a].frozen \in Nat
        /\ op \in [Ops -> Operation] /\ op[o] \in Operation
        /\ account' = account
    BY DEF IInv, TypeOK, Balance, CreateQuote, RepeatQuote, ConfirmExpired
  <1>1. ASSUME NEW a \in Accounts, NEW b \in Accounts, NEW n \in Amounts,
               NEW q \in QuoteAmounts, CreateQuote(o, a, b, n, q)
        PROVE  HeldMoves(o)
    <2>1. PICK row : row = [Absent EXCEPT !.type = "OTC", !.status = "DRAFT",
                              !.currency = CurrencyOf[a], !.amount = n,
                              !.source = a, !.target = b, !.quote = q,
                              !.expires = clock + Window]
      OBVIOUS
    <2>2. RowHeld(row) = 0
      BY <2>1 DEF RowHeld, Absent
    <2>3. op[o].status = "ABSENT" /\ op' = [CancelExpired EXCEPT ![o] = row]
      BY <1>1, <2>1 DEF CreateQuote
    <2>4. RowHeld(op[o]) = 0
      BY <2>3 DEF RowHeld
    <2>5. op'[o] = row /\ \A x \in Ops \ {o} : op'[x] = CancelExpired[x]
      BY <2>3 DEF CancelExpired
    <2> QED
      BY <1>0, <2>2, <2>4, <2>5, CancelHolds DEF HeldMoves
  <1>2. CASE RepeatQuote(o)
    <2>1. \A x \in Ops : op'[x] = CancelExpired[x]
      BY <1>2 DEF RepeatQuote
    <2>2. \A x \in Ops : op'[x].source = op[x].source /\ RowHeld(op'[x]) = RowHeld(op[x])
      BY <2>1, CancelHolds
    <2>3. RowHeld(op[o]) \in Nat
      BY <1>0, RowHeldType
    <2> QED
      BY <1>0, <2>2, <2>3 DEF HeldMoves
  <1>3. CASE ConfirmExpired(o)
    <2>1. RowHeld(op[o]) = 0 /\ SetStatus(o, "CANCELLED") /\ "CANCELLED" \in Statuses
      BY <1>3 DEF ConfirmExpired, RowHeld, Statuses, Terminal
    <2>2. RowHeld([op[o] EXCEPT !.status = "CANCELLED"]) = RowHeld(op[o]) + 0
      BY <1>0, <2>1, HeldAfter
    <2>3. \A a \in Accounts :
            account'[a].frozen = account[a].frozen + (IF op[o].source = a THEN 0 ELSE 0)
      BY <1>0
    <2> QED
      BY <2>1, <2>2, <2>3, StatusMoves
  <1> QED
    BY <1>1, <1>2, <1>3

\* What the four changes of a balance do to its parts.
LEMMA BalanceParts ==
    ASSUME NEW b \in Balance, NEW n \in Nat
    PROVE  /\ b.available \in Nat /\ b.frozen \in Nat
           /\ Freeze(b, n).available = b.available - n
           /\ Freeze(b, n).frozen = b.frozen + n
           /\ Unfreeze(b, n).available = b.available + n
           /\ Unfreeze(b, n).frozen = b.frozen - n
           /\ Consume(b, n).available = b.available
           /\ Consume(b, n).frozen = b.frozen - n
           /\ Credit(b, n).available = b.available + n
           /\ Credit(b, n).frozen = b.frozen
           /\ Consume(Freeze(b, n), n).available = b.available - n
           /\ Consume(Freeze(b, n), n).frozen = b.frozen
  BY DEF Balance, Freeze, Unfreeze, Consume, Credit

\* Decisions and executions give back or consume what the row held.
LEMMA DecisionHolds ==
    ASSUME IInv, NEW o \in Ops,
           \/ ApproveCredit(o)
           \/ ApproveDebit(o)
           \/ ApprovePayout(o)
           \/ Reject(o)
           \/ Execute(o)
    PROVE  HeldMoves(o)
  <1>0. op[o].status \in {"SUBMITTED", "PROCESSING"}
    BY DEF ApproveCredit, ApproveDebit, ApprovePayout, Reject, Execute
  <1>1. /\ op[o] \in Operation /\ RowShape(op[o])
        /\ op[o].amount \in Nat /\ op[o].fee \in Nat /\ Reserve(o) \in Nat
        /\ Reserve(o) = op[o].amount + op[o].fee
        /\ account \in [Accounts -> Balance]
        /\ \A a \in Accounts : account[a] \in Balance /\ account[a].frozen \in Nat
    <2>1. op[o].status # "ABSENT"
      BY <1>0
    <2> QED
      BY <2>1, RowFacts DEF Reserve, Operation, Balance, IInv, TypeOK
  <1>2. {"COMPLETED", "REJECTED", "PROCESSING"} \subseteq Statuses
    BY DEF Statuses, Terminal
  <1>3. UsesReservation(o) =>
          RowHeld(op[o]) = Reserve(o) /\ op[o].source \in Accounts
    BY <1>0, <1>1 DEF RowHeld, UsesReservation, RowShape
  <1>4. ~UsesReservation(o) => RowHeld(op[o]) = 0
    BY <1>0 DEF RowHeld, UsesReservation
  <1>5. CASE ApproveCredit(o)
    <2>1. /\ op[o].type \in {"DEPOSIT", "CREDIT"} /\ SetStatus(o, "COMPLETED")
          /\ account' = [account EXCEPT ![op[o].target] =
                           Credit(account[op[o].target], op[o].amount)]
      BY <1>5 DEF ApproveCredit
    <2>2. RowHeld([op[o] EXCEPT !.status = "COMPLETED"]) = RowHeld(op[o]) + 0
      BY <1>1, <1>2, <1>4, <2>1, HeldAfter DEF UsesReservation
    <2>3. op[o].target \in Accounts
      BY <1>0, <1>1, <2>1 DEF RowShape
    <2>4. Credit(account[op[o].target], op[o].amount).frozen = account[op[o].target].frozen
      BY <1>1, <2>3, BalanceParts
    <2>5. \A a \in Accounts :
            account'[a].frozen = account[a].frozen + (IF op[o].source = a THEN 0 ELSE 0)
      BY <1>1, <2>1, <2>3, <2>4
    <2> QED
      BY <1>2, <2>1, <2>2, <2>5, StatusMoves
  <1>6. CASE ApproveDebit(o)
    <2>1. /\ op[o].type = "DEBIT" /\ SetStatus(o, "COMPLETED")
          /\ account' = [account EXCEPT ![op[o].source] =
                           Consume(account[op[o].source], op[o].amount)]
      BY <1>6 DEF ApproveDebit
    <2>2. op[o].source \in Accounts /\ RowHeld(op[o]) = op[o].amount + op[o].fee
      BY <1>1, <1>3, <2>1 DEF UsesReservation
    <2>3. RowHeld([op[o] EXCEPT !.status = "COMPLETED"]) = op[o].fee
      BY <1>1, <1>2, <2>1, HeldAfter
    <2>4. /\ - op[o].amount \in Int
          /\ op[o].fee = op[o].amount + op[o].fee + (- op[o].amount)
      BY <1>1
    <2>5. Consume(account[op[o].source], op[o].amount).frozen =
            account[op[o].source].frozen - op[o].amount
      BY <1>1, <2>2, BalanceParts
    <2>6. \A a \in Accounts :
            account'[a].frozen = account[a].frozen
              + (IF op[o].source = a THEN - op[o].amount ELSE 0)
      BY <1>1, <2>1, <2>2, <2>5
    <2>7. RowHeld([op[o] EXCEPT !.status = "COMPLETED"]) = RowHeld(op[o]) + (- op[o].amount)
      BY <2>2, <2>3, <2>4
    <2> QED
      BY <1>2, <2>1, <2>4, <2>6, <2>7, StatusMoves
  <1>7. CASE ApprovePayout(o)
    <2>1. /\ op[o].status = "SUBMITTED" /\ SetStatus(o, "PROCESSING")
          /\ account' = account
      BY <1>7 DEF ApprovePayout
    <2>2. RowHeld([op[o] EXCEPT !.status = "PROCESSING"]) = RowHeld(op[o]) + 0
      BY <1>1, <1>2, <2>1, HeldAfter, RowHeldType
    <2>3. \A a \in Accounts :
            account'[a].frozen = account[a].frozen + (IF op[o].source = a THEN 0 ELSE 0)
      BY <1>1, <2>1
    <2> QED
      BY <1>2, <2>1, <2>2, <2>3, StatusMoves
  <1>8. CASE Reject(o)
    <2>1. /\ SetStatus(o, "REJECTED")
          /\ account' = IF UsesReservation(o)
                        THEN [account EXCEPT ![op[o].source] =
                                Unfreeze(account[op[o].source], Reserve(o))]
                        ELSE account
      BY <1>8 DEF Reject
    <2>2. RowHeld([op[o] EXCEPT !.status = "REJECTED"]) = 0
      BY <1>1, <1>2, HeldAfter
    <2>3. PICK d \in Int : d = IF UsesReservation(o) THEN - Reserve(o) ELSE 0
      BY <1>1
    <2>4. RowHeld([op[o] EXCEPT !.status = "REJECTED"]) = RowHeld(op[o]) + d
      BY <1>1, <1>3, <1>4, <2>2, <2>3
    <2>5. op[o].source \in Accounts =>
            Unfreeze(account[op[o].source], Reserve(o)).frozen =
              account[op[o].source].frozen - Reserve(o)
      BY <1>1, BalanceParts
    <2>6. \A a \in Accounts :
            account'[a].frozen = account[a].frozen + (IF op[o].source = a THEN d ELSE 0)
      BY <1>1, <1>3, <2>1, <2>3, <2>5
    <2> QED
      BY <1>2, <2>1, <2>4, <2>6, StatusMoves
  <1>9. CASE Execute(o)
    <2>1. /\ op[o].type = "PAYOUT" /\ SetStatus(o, "COMPLETED")
          /\ account' = [account EXCEPT ![op[o].source] =
                           Consume(account[op[o].source], Reserve(o))]
      BY <1>9 DEF Execute
    <2>2. op[o].source \in Accounts /\ RowHeld(op[o]) = Reserve(o)
      BY <1>3, <2>1 DEF UsesReservation
    <2>3. RowHeld([op[o] EXCEPT !.status = "COMPLETED"]) = 0
      BY <1>1, <1>2, <2>1, HeldAfter
    <2>4. - Reserve(o) \in Int /\ 0 = Reserve(o) + (- Reserve(o))
      BY <1>1
    <2>5. Consume(account[op[o].source], Reserve(o)).frozen =
            account[op[o].source].frozen - Reserve(o)
      BY <1>1, <2>2, BalanceParts
    <2>6. \A a \in Accounts :
            account'[a].frozen = account[a].frozen
              + (IF op[o].source = a THEN - Reserve(o) ELSE 0)
      BY <1>1, <2>1, <2>2, <2>5
    <2>7. RowHeld([op[o] EXCEPT !.status = "COMPLETED"]) = RowHeld(op[o]) + (- Reserve(o))
      BY <2>2, <2>3, <2>4
    <2> QED
      BY <1>2, <2>1, <2>4, <2>6, <2>7, StatusMoves
  <1> QED
    BY <1>5, <1>6, <1>7, <1>8, <1>9

\* Conversions consume what an exchange held, and what a quote freezes in the
\* same transaction.
LEMMA ConversionHolds ==
    ASSUME IInv, NEW o \in Ops, ApproveFx(o) \/ ConfirmQuote(o)
    PROVE  HeldMoves(o)
  <1>0. /\ op[o].status \in {"DRAFT", "SUBMITTED"} /\ op[o].status # "ABSENT"
        /\ SetStatus(o, "COMPLETED")
    BY DEF ApproveFx, ConfirmQuote
  <1>1. /\ op[o] \in Operation /\ RowShape(op[o])
        /\ op[o].quote \in Nat /\ Reserve(o) \in Nat
        /\ Reserve(o) = op[o].amount + op[o].fee
        /\ account \in [Accounts -> Balance] /\ DOMAIN account = Accounts
        /\ \A a \in Accounts : account[a] \in Balance /\ account[a].frozen \in Nat
    BY <1>0, RowFacts DEF Reserve, Balance, IInv, TypeOK
  <1>2. "COMPLETED" \in Statuses
    BY DEF Statuses, Terminal
  <1>3. op[o].type # "DEBIT"
    BY <1>0, <1>1 DEF RowShape, ApproveFx, ConfirmQuote
  <1>4. RowHeld([op[o] EXCEPT !.status = "COMPLETED"]) = 0
    BY <1>1, <1>2, <1>3, HeldAfter
  <1>5. \A a \in Accounts :
          Credit(account[a], op[o].quote).frozen = account[a].frozen
    BY <1>1, BalanceParts
  <1>6. CASE ApproveFx(o)
    <2>1. RowHeld(op[o]) = Reserve(o)
      BY <1>1, <1>6 DEF ApproveFx, RowHeld
    <2>2. /\ - Reserve(o) \in Int
          /\ RowHeld([op[o] EXCEPT !.status = "COMPLETED"]) = RowHeld(op[o]) + (- Reserve(o))
      BY <1>1, <1>4, <2>1
    <2>3. \A a \in Accounts :
            Consume(account[a], Reserve(o)).frozen = account[a].frozen - Reserve(o)
      BY <1>1, BalanceParts
    <2>4. account' = Converted(account, o, account)
      BY <1>6 DEF ApproveFx
    <2>5. \A a \in Accounts :
            account'[a].frozen = account[a].frozen
              + (IF op[o].source = a THEN - Reserve(o) ELSE 0)
      BY <1>1, <1>5, <2>3, <2>4 DEF Converted
    <2> QED
      BY <1>0, <1>2, <2>2, <2>5, StatusMoves
  <1>7. CASE ConfirmQuote(o)
    <2>1. RowHeld(op[o]) = 0
      BY <1>7 DEF ConfirmQuote, RowHeld
    <2>2. RowHeld([op[o] EXCEPT !.status = "COMPLETED"]) = RowHeld(op[o]) + 0
      BY <1>4, <2>1
    <2>3. \A a \in Accounts :
            Consume(Freeze(account[a], Reserve(o)), Reserve(o)).frozen = account[a].frozen
      BY <1>1, BalanceParts
    <2>4. account' = Converted(account, o,
                       [a \in Accounts |-> Freeze(account[a], Reserve(o))])
      BY <1>7 DEF ConfirmQuote
    <2>5. \A a \in Accounts :
            account'[a].frozen = account[a].frozen + (IF op[o].source = a THEN 0 ELSE 0)
      BY <1>1, <1>5, <2>3, <2>4 DEF Converted
    <2> QED
      BY <1>0, <1>2, <2>2, <2>5, StatusMoves
  <1> QED
    BY <1>6, <1>7

\* The frozen balance of every account is what its operations hold, for any
\* number of operations and accounts.
THEOREM FrozenIsAlwaysHeld == Spec => []FrozenIsHeld
  <1>1. Init => Reserved
    <2> SUFFICES ASSUME Init, NEW a \in Accounts
                 PROVE  /\ IsFiniteSet(OfSource(a))
                        /\ account[a].frozen = SumOver([o \in Ops |-> Held(o)], OfSource(a))
      BY DEF Reserved, FrozenIsHeld, OfSource
    <2>1. None \notin Accounts
      BY OperationsAssumption
    <2>2. OfSource(a) = {} /\ account[a].frozen = 0
      BY <2>1 DEF Init, OfSource, Absent
    <2> QED
      BY <2>2, SumEmpty, FS_EmptySet
  <1>2. ASSUME IInv, Reserved, [Next]_vars PROVE Reserved'
    <2>1. IInv'
      BY <1>2, EveryStep, StepKeepsInvariant
    <2>2. ASSUME NEW o \in Ops, HeldMoves(o) PROVE Reserved'
      BY <1>2, <2>1, <2>2, MoveKeepsSums
    <2>3. ASSUME UNCHANGED <<op, account>> PROVE Reserved'
      BY <1>2, <2>3 DEF Reserved, FrozenIsHeld, OfSource, Held, Open, UsesReservation, Reserve
    <2>4. CASE \/ \E f \in Fees, active \in BOOLEAN : UpdateFeeRule(f, active)
               \/ ShowFee \/ Tick \/ UNCHANGED vars
      BY <2>3, <2>4 DEF UpdateFeeRule, ShowFee, Tick, vars
    <2> QED
      BY <1>2, <2>2, <2>4, SubmissionHolds, QuoteHolds, DecisionHolds, ConversionHolds
         DEF Next
  <1>3. Reserved => FrozenIsHeld
    BY DEF Reserved
  <1> QED
    BY <1>1, <1>2, <1>3, Invariant, PTL DEF Spec

-----------------------------------------------------------------------------
(* An expired quote. *)

\* A quote that its customer let expire, or whose expiry was noticed.
Dead(o) ==
    /\ op[o].status \in {"DRAFT", "CANCELLED"}
    /\ op[o].status = "DRAFT" => op[o].expires <= clock

LEMMA StaysDead == ASSUME IInv, NEW o \in Ops, Dead(o), [Next]_vars PROVE Dead(o)'
  <1>1. /\ op \in [Ops -> Operation] /\ op[o] \in Operation
        /\ op[o].expires \in Nat /\ clock \in Nat
        /\ op[o].status \in {"DRAFT", "CANCELLED"}
        /\ op[o].status = "DRAFT" => op[o].expires <= clock
        /\ op[o].status = "DRAFT" => op[o].type = "OTC"
    BY DEF Dead, IInv, TypeOK, Operation, Shape, RowShape
  <1>2. ASSUME op'[o] = op[o], clock' = clock \/ clock' = clock + 1 PROVE Dead(o)'
    BY <1>1, <1>2 DEF Dead
  <1>3. ASSUME op'[o] = [op[o] EXCEPT !.status = "CANCELLED"] PROVE Dead(o)'
    <2>1. op'[o].status = "CANCELLED"
      BY <1>1, <1>3 DEF Operation
    <2> QED
      BY <2>1 DEF Dead
  <1>4. CancelExpired[o] = op[o] \/ CancelExpired[o] = [op[o] EXCEPT !.status = "CANCELLED"]
    BY DEF CancelExpired
  <1>5. ASSUME NEW x \in Ops, NEW row, Insert(x, row), clock' = clock PROVE Dead(o)'
    <2>1. x # o /\ op' = [op EXCEPT ![x] = row]
      BY <1>1, <1>5 DEF Insert
    <2> QED
      BY <1>1, <1>2, <1>5, <2>1
  <1>6. ASSUME NEW x \in Ops, NEW s, SetStatus(x, s), x # o, clock' = clock PROVE Dead(o)'
    BY <1>1, <1>2, <1>6 DEF SetStatus
  <1>7. ASSUME NEW x \in Ops,
               \/ \E a \in Fiat, n \in Amounts, r \in Receipts :
                    SubmitDeposit(x, a, n, r)
               \/ \E form \in CreditForms, n \in Amounts : SubmitCredit(x, form, n)
               \/ \E a \in Fiat, n \in Amounts, f \in Fees : SubmitDebit(x, a, n, f)
               \/ \E a, b \in Fiat, n \in Amounts, f \in Fees, q \in QuoteAmounts :
                    SubmitFx(x, a, b, n, f, q)
               \/ \E a \in Fiat, n \in Amounts : SubmitPayout(x, a, n)
               \/ \E a \in Fiat, n \in Amounts : SubmitCustomerPayout(x, a, n)
        PROVE  Dead(o)'
    <2>1. ASSUME NEW a \in Fiat, NEW n \in Amounts, NEW r \in Receipts,
                 SubmitDeposit(x, a, n, r)
          PROVE  Dead(o)'
      BY <1>5, <2>1 DEF SubmitDeposit
    <2>2. ASSUME NEW form \in CreditForms, NEW n \in Amounts, SubmitCredit(x, form, n)
          PROVE  Dead(o)'
      BY <1>5, <2>2 DEF SubmitCredit
    <2>3. ASSUME NEW row, SubmitReserved(x, row) PROVE Dead(o)'
      BY <1>5, <2>3 DEF SubmitReserved
    <2>4. ASSUME NEW a \in Fiat, NEW n \in Amounts, NEW f \in Fees, SubmitDebit(x, a, n, f)
          PROVE  Dead(o)'
      BY <2>3, <2>4 DEF SubmitDebit
    <2>5. ASSUME NEW a \in Fiat, NEW b \in Fiat, NEW n \in Amounts, NEW f \in Fees,
                 NEW q \in QuoteAmounts, SubmitFx(x, a, b, n, f, q)
          PROVE  Dead(o)'
      BY <2>3, <2>5 DEF SubmitFx
    <2>6. ASSUME NEW a \in Fiat, NEW n \in Amounts,
                 SubmitPayout(x, a, n) \/ SubmitCustomerPayout(x, a, n)
          PROVE  Dead(o)'
      BY <2>3, <2>6 DEF SubmitPayout, SubmitCustomerPayout
    <2> QED
      BY <1>7, <2>1, <2>2, <2>4, <2>5, <2>6
  <1>8. ASSUME NEW x \in Ops, NEW a \in Accounts, NEW b \in Accounts, NEW n \in Amounts,
               NEW q \in QuoteAmounts, CreateQuote(x, a, b, n, q)
        PROVE  Dead(o)'
    <2>1. PICK row : op' = [CancelExpired EXCEPT ![x] = row] /\ op[x].status = "ABSENT"
                     /\ clock' = clock
      BY <1>8 DEF CreateQuote
    <2>2. op'[o] = CancelExpired[o]
      BY <1>1, <2>1 DEF CancelExpired
    <2> QED
      BY <1>2, <1>3, <1>4, <2>1, <2>2
  <1>9. ASSUME NEW x \in Ops, RepeatQuote(x) PROVE Dead(o)'
    BY <1>2, <1>3, <1>4, <1>9 DEF RepeatQuote
  <1>10. ASSUME NEW x \in Ops, ConfirmExpired(x) PROVE Dead(o)'
    <2>1. SetStatus(x, "CANCELLED") /\ clock' = clock
      BY <1>10 DEF ConfirmExpired
    <2>2. CASE x = o
      BY <1>1, <1>3, <2>1, <2>2 DEF SetStatus
    <2> QED
      BY <1>6, <2>1, <2>2
  <1>11. ASSUME NEW x \in Ops,
                \/ ConfirmQuote(x) \/ ApproveCredit(x) \/ ApproveFx(x) \/ ApproveDebit(x)
                \/ ApprovePayout(x) \/ Reject(x) \/ Execute(x)
         PROVE  Dead(o)'
    <2>1. /\ x # o /\ clock' = clock
          /\ \E s \in Statuses : SetStatus(x, s)
      <3>1. op[x].status \in {"SUBMITTED", "PROCESSING"}
              \/ (op[x].status = "DRAFT" /\ op[x].expires > clock)
        BY <1>11 DEF ConfirmQuote, ApproveCredit, ApproveFx, ApproveDebit, ApprovePayout,
                     Reject, Execute
      <3>2. x # o
        BY <1>1, <3>1
      <3> QED
        BY <1>11, <3>2 DEF ConfirmQuote, ApproveCredit, ApproveFx, ApproveDebit,
             ApprovePayout, Reject, Execute, Statuses, Terminal
    <2> QED
      BY <1>6, <2>1
  <1>12. ASSUME \/ \E f \in Fees, active \in BOOLEAN : UpdateFeeRule(f, active)
                \/ ShowFee \/ Tick \/ UNCHANGED vars
         PROVE  Dead(o)'
    BY <1>2, <1>12 DEF UpdateFeeRule, ShowFee, Tick, vars
  <1> QED
    BY <1>7, <1>8, <1>9, <1>10, <1>11, <1>12 DEF Next

\* A quote past its window is never completed: the cancellation that
\* createOtcQuote makes first, the one of confirmOtcQuote and the clock check of
\* confirmOtcQuote leave no way from an expired draft to COMPLETED.
THEOREM ExpiredQuotesStayDead == Spec => ExpiredQuoteIsDead
  <1>1. ASSUME NEW o \in Ops
        PROVE  Spec => [](op[o].status = "DRAFT" /\ op[o].expires <= clock
                            => [](op[o].status # "COMPLETED"))
    <2>1. op[o].status = "DRAFT" /\ op[o].expires <= clock => Dead(o)
      BY DEF Dead
    <2>2. Dead(o) => op[o].status # "COMPLETED"
      BY DEF Dead
    <2>3. IInv /\ Dead(o) /\ [Next]_vars => Dead(o)'
      BY StaysDead
    <2> QED
      BY <2>1, <2>2, <2>3, Invariant, PTL DEF Spec
  <1> QED
    BY <1>1 DEF ExpiredQuoteIsDead

-----------------------------------------------------------------------------
(* The journal. *)

\* The amount of a posted line, whatever set it is summed over.
PostedAmount == [l \in Ops \X LineType |-> l[2].amount]

LEMMA SumLinesIs ==
    ASSUME NEW S \in SUBSET (Ops \X LineType), IsFiniteSet(S)
    PROVE  SumLines(S) = SumOver(PostedAmount, S) /\ SumLines(S) \in Int
  <1>1. PICK f : f = [l \in S |-> l[2].amount]
    OBVIOUS
  <1>2. PICK g : g = PostedAmount
    OBVIOUS
  <1>3. ASSUME NEW l \in S PROVE f[l] = g[l] /\ g[l] \in Int
    <2>1. l \in Ops \X LineType /\ l[2] \in LineType
      OBVIOUS
    <2>2. l[2].amount \in Int
      BY <2>1 DEF LineType
    <2> QED
      BY <1>1, <1>2, <2>1, <2>2 DEF PostedAmount
  <1>4. SumOver(f, S) = SumOver(g, S)
    BY <1>3, SumSame
  <1>5. SumOver(g, S) \in Int
    BY <1>3, SumType
  <1> QED
    BY <1>1, <1>2, <1>4, <1>5 DEF SumLines

LEMMA SumLinesUnion ==
    ASSUME NEW S \in SUBSET (Ops \X LineType), IsFiniteSet(S),
           NEW T \in SUBSET (Ops \X LineType), IsFiniteSet(T), S \cap T = {}
    PROVE  /\ IsFiniteSet(S \cup T)
           /\ SumLines(S) \in Int /\ SumLines(T) \in Int
           /\ SumLines(S \cup T) = SumLines(S) + SumLines(T)
  <1>1. PICK g : g = PostedAmount
    OBVIOUS
  <1>2. \A l \in S \cup T : g[l] \in Int
    <2>1. ASSUME NEW l \in S \cup T PROVE g[l] \in Int
      <3>1. l \in Ops \X LineType /\ l[2] \in LineType
        OBVIOUS
      <3>2. l[2].amount \in Int
        BY <3>1 DEF LineType
      <3> QED
        BY <1>1, <3>1, <3>2 DEF PostedAmount
    <2> QED
      BY <2>1
  <1>3. /\ IsFiniteSet(S \cup T)
        /\ SumOver(g, S) \in Int /\ SumOver(g, T) \in Int
        /\ SumOver(g, S \cup T) = SumOver(g, S) + SumOver(g, T)
    BY <1>2, SumUnion
  <1>4. PICK U : U = S \cup T
    OBVIOUS
  <1>5. U \in SUBSET (Ops \X LineType) /\ IsFiniteSet(U)
    BY <1>3, <1>4
  <1>6. SumLines(U) = SumOver(g, U) /\ SumLines(S) = SumOver(g, S) /\ SumLines(T) = SumOver(g, T)
    BY <1>1, <1>5, SumLinesIs
  <1> QED
    BY <1>3, <1>4, <1>6

\* Sets of no line, of one line and of two lines.
LEMMA NoLine == SumLines({}) = 0
  BY SumEmpty DEF SumLines

LEMMA OneLine ==
    ASSUME NEW o \in Ops, NEW k \in LineType
    PROVE  IsFiniteSet({<<o, k>>}) /\ SumLines({<<o, k>>}) = k.amount
  <1>1. PICK x, S, f : x = <<o, k>> /\ S = {x} /\ f = [l \in S |-> l[2].amount]
    OBVIOUS
  <1>2. f[x] = k.amount /\ k.amount \in Int
    BY <1>1 DEF LineType
  <1>3. IsFiniteSet({}) /\ x \notin {} /\ S = {} \cup {x} /\ \A y \in {} \cup {x} : f[y] \in Int
    BY <1>1, <1>2, FS_EmptySet
  <1>4. IsFiniteSet({} \cup {x})
    BY <1>3, FS_AddElement
  <1>5. SumOver(f, {} \cup {x}) = SumOver(f, {}) + f[x]
    BY <1>3, SumAdd
  <1>6. SumOver(f, S) = k.amount
    BY <1>2, <1>3, <1>5, SumEmpty
  <1> QED
    BY <1>1, <1>3, <1>4, <1>6 DEF SumLines

LEMMA TwoLines ==
    ASSUME NEW o \in Ops, NEW k \in LineType, NEW m \in LineType, k # m
    PROVE  /\ IsFiniteSet({<<o, k>>, <<o, m>>})
           /\ SumLines({<<o, k>>, <<o, m>>}) = k.amount + m.amount
  <1>1. PICK S, T : S = {<<o, k>>} /\ T = {<<o, m>>}
    OBVIOUS
  <1>2. /\ S \in SUBSET (Ops \X LineType) /\ T \in SUBSET (Ops \X LineType)
        /\ S \cap T = {} /\ {<<o, k>>, <<o, m>>} = S \cup T
    BY <1>1
  <1>3. /\ IsFiniteSet(S) /\ SumLines(S) = k.amount
        /\ IsFiniteSet(T) /\ SumLines(T) = m.amount
    BY <1>1, OneLine
  <1>4. IsFiniteSet(S \cup T) /\ SumLines(S \cup T) = SumLines(S) + SumLines(T)
    BY <1>2, <1>3, SumLinesUnion
  <1> QED
    BY <1>2, <1>3, <1>4

\* The lines of operation o in L that are of the kind F.
Chosen(o, L, F) == {o} \X (L \cap F)

LEMMA ChosenUnion ==
    ASSUME NEW o \in Ops, NEW L \in SUBSET LineType, NEW M \in SUBSET LineType,
           L \cap M = {}, NEW F,
           IsFiniteSet(Chosen(o, L, F)), IsFiniteSet(Chosen(o, M, F))
    PROVE  /\ IsFiniteSet(Chosen(o, L \cup M, F))
           /\ SumLines(Chosen(o, L, F)) \in Int /\ SumLines(Chosen(o, M, F)) \in Int
           /\ SumLines(Chosen(o, L \cup M, F)) =
                SumLines(Chosen(o, L, F)) + SumLines(Chosen(o, M, F))
  <1>1. PICK S, T : S = Chosen(o, L, F) /\ T = Chosen(o, M, F)
    OBVIOUS
  <1>2. /\ S \in SUBSET (Ops \X LineType) /\ T \in SUBSET (Ops \X LineType)
        /\ S \cap T = {} /\ Chosen(o, L \cup M, F) = S \cup T
    BY <1>1 DEF Chosen
  <1>3. /\ IsFiniteSet(S \cup T)
        /\ SumLines(S) \in Int /\ SumLines(T) \in Int
        /\ SumLines(S \cup T) = SumLines(S) + SumLines(T)
    BY <1>1, <1>2, SumLinesUnion
  <1> QED
    BY <1>1, <1>2, <1>3

\* Of two lines at most the first is of the kind F.
LEMMA ChosenLine ==
    ASSUME NEW o \in Ops, NEW k \in LineType, NEW m \in LineType, NEW F, m \notin F
    PROVE  /\ IsFiniteSet(Chosen(o, {k, m}, F))
           /\ SumLines(Chosen(o, {k, m}, F)) = IF k \in F THEN k.amount ELSE 0
  <1>1. CASE k \in F
    <2>1. Chosen(o, {k, m}, F) = {<<o, k>>}
      BY <1>1 DEF Chosen
    <2> QED
      BY <1>1, <2>1, OneLine
  <1>2. CASE k \notin F
    <2>1. Chosen(o, {k, m}, F) = {}
      BY <1>2 DEF Chosen
    <2> QED
      BY <1>2, <2>1, NoLine, FS_EmptySet
  <1> QED
    BY <1>1, <1>2

\* Lines of a side of an entry, and of a side of a customer's account.
OfEntry(s, c, side) == {l \in LineType : l.suffix = s /\ l.currency = c /\ l.side = side}
OfAccount(a, side) == {l \in LineType : l.book = Customer(a) /\ l.side = side}

\* The two lines of an amount n, from the account of book d to that of book e.
Pair(s, c, n, d, e) == {Line(s, d, "DEBIT", c, n), Line(s, e, "CREDIT", c, n)}

Books == ({"PLATFORM_CLEARING", "FEE_REVENUE"} \X Currencies) \cup ({"CUSTOMER"} \X Accounts)

LEMMA LineFields ==
    ASSUME NEW s \in {"principal", "fee"}, NEW c \in Currencies, NEW n \in Nat,
           NEW d \in Books, NEW side \in {"DEBIT", "CREDIT"}
    PROVE  /\ Line(s, d, side, c, n) \in LineType
           /\ Line(s, d, side, c, n).suffix = s /\ Line(s, d, side, c, n).currency = c
           /\ Line(s, d, side, c, n).side = side /\ Line(s, d, side, c, n).book = d
           /\ Line(s, d, side, c, n).amount = n
  BY DEF Line, LineType, Books

\* What a pair of lines contributes to each sum.
LEMMA PairSums ==
    ASSUME NEW o \in Ops, NEW s \in {"principal", "fee"}, NEW c \in Currencies,
           NEW n \in Nat, NEW d \in Books, NEW e \in Books
    PROVE  /\ Pair(s, c, n, d, e) \in SUBSET LineType
           /\ \A t \in {"principal", "fee"}, b \in Currencies, side \in {"DEBIT", "CREDIT"} :
                /\ IsFiniteSet(Chosen(o, Pair(s, c, n, d, e), OfEntry(t, b, side)))
                /\ SumLines(Chosen(o, Pair(s, c, n, d, e), OfEntry(t, b, side))) =
                     IF t = s /\ b = c THEN n ELSE 0
           /\ \A a \in Accounts :
                /\ IsFiniteSet(Chosen(o, Pair(s, c, n, d, e), OfAccount(a, "DEBIT")))
                /\ SumLines(Chosen(o, Pair(s, c, n, d, e), OfAccount(a, "DEBIT"))) =
                     IF d = Customer(a) THEN n ELSE 0
                /\ IsFiniteSet(Chosen(o, Pair(s, c, n, d, e), OfAccount(a, "CREDIT")))
                /\ SumLines(Chosen(o, Pair(s, c, n, d, e), OfAccount(a, "CREDIT"))) =
                     IF e = Customer(a) THEN n ELSE 0
  <1>1. PICK k, m : k = Line(s, d, "DEBIT", c, n) /\ m = Line(s, e, "CREDIT", c, n)
    OBVIOUS
  <1>2. /\ k \in LineType /\ m \in LineType
        /\ k.suffix = s /\ k.currency = c /\ k.side = "DEBIT" /\ k.book = d /\ k.amount = n
        /\ m.suffix = s /\ m.currency = c /\ m.side = "CREDIT" /\ m.book = e /\ m.amount = n
    BY <1>1, LineFields
  <1>3. Pair(s, c, n, d, e) = {k, m} /\ {k, m} = {m, k}
    BY <1>1 DEF Pair
  <1>4. ASSUME NEW F, m \notin F
        PROVE  /\ IsFiniteSet(Chosen(o, {k, m}, F))
               /\ SumLines(Chosen(o, {k, m}, F)) = IF k \in F THEN n ELSE 0
    BY <1>2, <1>4, ChosenLine
  <1>5. ASSUME NEW F, k \notin F
        PROVE  /\ IsFiniteSet(Chosen(o, {k, m}, F))
               /\ SumLines(Chosen(o, {k, m}, F)) = IF m \in F THEN n ELSE 0
    BY <1>2, <1>3, <1>5, ChosenLine
  <1>6. ASSUME NEW t \in {"principal", "fee"}, NEW b \in Currencies, NEW side \in {"DEBIT", "CREDIT"}
        PROVE  /\ IsFiniteSet(Chosen(o, {k, m}, OfEntry(t, b, side)))
               /\ SumLines(Chosen(o, {k, m}, OfEntry(t, b, side))) =
                    IF t = s /\ b = c THEN n ELSE 0
    <2>1. PICK F : F = OfEntry(t, b, side)
      OBVIOUS
    <2>2. CASE side = "DEBIT"
      <3>1. m \notin F /\ (k \in F <=> t = s /\ b = c)
        BY <1>2, <2>1, <2>2 DEF OfEntry
      <3> QED
        BY <1>4, <2>1, <3>1
    <2>3. CASE side = "CREDIT"
      <3>1. k \notin F /\ (m \in F <=> t = s /\ b = c)
        BY <1>2, <2>1, <2>3 DEF OfEntry
      <3> QED
        BY <1>5, <2>1, <3>1
    <2> QED
      BY <2>2, <2>3
  <1>7. ASSUME NEW a \in Accounts
        PROVE  /\ IsFiniteSet(Chosen(o, {k, m}, OfAccount(a, "DEBIT")))
               /\ SumLines(Chosen(o, {k, m}, OfAccount(a, "DEBIT"))) =
                    IF d = Customer(a) THEN n ELSE 0
               /\ IsFiniteSet(Chosen(o, {k, m}, OfAccount(a, "CREDIT")))
               /\ SumLines(Chosen(o, {k, m}, OfAccount(a, "CREDIT"))) =
                    IF e = Customer(a) THEN n ELSE 0
    <2>1. PICK F, G : F = OfAccount(a, "DEBIT") /\ G = OfAccount(a, "CREDIT")
      OBVIOUS
    <2>2. /\ m \notin F /\ (k \in F <=> d = Customer(a))
          /\ k \notin G /\ (m \in G <=> e = Customer(a))
      BY <1>2, <2>1 DEF OfAccount
    <2>3. /\ IsFiniteSet(Chosen(o, {k, m}, F))
          /\ SumLines(Chosen(o, {k, m}, F)) = IF d = Customer(a) THEN n ELSE 0
      BY <1>4, <2>2
    <2>4. /\ IsFiniteSet(Chosen(o, {k, m}, G))
          /\ SumLines(Chosen(o, {k, m}, G)) = IF e = Customer(a) THEN n ELSE 0
      BY <1>5, <2>2
    <2> QED
      BY <2>1, <2>3, <2>4
  <1> QED
    BY <1>2, <1>3, <1>6, <1>7

\* The lines L of operation o balance in every entry, debit each account a
\* with D[a] and credit it with C[a].
Settles(o, L, D, C) ==
    /\ L \in SUBSET LineType
    /\ \A t \in {"principal", "fee"}, b \in Currencies :
         /\ IsFiniteSet(Chosen(o, L, OfEntry(t, b, "DEBIT")))
         /\ IsFiniteSet(Chosen(o, L, OfEntry(t, b, "CREDIT")))
         /\ SumLines(Chosen(o, L, OfEntry(t, b, "DEBIT"))) =
              SumLines(Chosen(o, L, OfEntry(t, b, "CREDIT")))
    /\ \A a \in Accounts :
         /\ IsFiniteSet(Chosen(o, L, OfAccount(a, "DEBIT")))
         /\ IsFiniteSet(Chosen(o, L, OfAccount(a, "CREDIT")))
         /\ SumLines(Chosen(o, L, OfAccount(a, "DEBIT"))) = D[a]
         /\ SumLines(Chosen(o, L, OfAccount(a, "CREDIT"))) = C[a]

LEMMA SettlesNothing ==
    ASSUME NEW o \in Ops, NEW D, \A a \in Accounts : D[a] = 0
    PROVE  Settles(o, {}, D, D)
  <1>1. \A F : Chosen(o, {}, F) = {}
    BY DEF Chosen
  <1> QED
    BY <1>1, NoLine, FS_EmptySet DEF Settles

LEMMA SettlesPair ==
    ASSUME NEW o \in Ops, NEW s \in {"principal", "fee"}, NEW c \in Currencies,
           NEW n \in Nat, NEW d \in Books, NEW e \in Books, NEW D, NEW C,
           \A a \in Accounts : D[a] = IF d = Customer(a) THEN n ELSE 0,
           \A a \in Accounts : C[a] = IF e = Customer(a) THEN n ELSE 0
    PROVE  Settles(o, Pair(s, c, n, d, e), D, C)
  <1>1. PICK L : L = Pair(s, c, n, d, e)
    OBVIOUS
  <1>2. /\ L \in SUBSET LineType
        /\ \A t \in {"principal", "fee"}, b \in Currencies, side \in {"DEBIT", "CREDIT"} :
             /\ IsFiniteSet(Chosen(o, L, OfEntry(t, b, side)))
             /\ SumLines(Chosen(o, L, OfEntry(t, b, side))) =
                  IF t = s /\ b = c THEN n ELSE 0
        /\ \A a \in Accounts :
             /\ IsFiniteSet(Chosen(o, L, OfAccount(a, "DEBIT")))
             /\ SumLines(Chosen(o, L, OfAccount(a, "DEBIT"))) = D[a]
             /\ IsFiniteSet(Chosen(o, L, OfAccount(a, "CREDIT")))
             /\ SumLines(Chosen(o, L, OfAccount(a, "CREDIT"))) = C[a]
    BY <1>1, PairSums
  <1> QED
    BY <1>1, <1>2 DEF Settles

LEMMA SettlesBoth ==
    ASSUME NEW o \in Ops, NEW L, NEW M, L \cap M = {},
           NEW D, NEW C, NEW E, NEW G, NEW DE, NEW CG,
           Settles(o, L, D, C), Settles(o, M, E, G),
           \A a \in Accounts : DE[a] = D[a] + E[a],
           \A a \in Accounts : CG[a] = C[a] + G[a]
    PROVE  Settles(o, L \cup M, DE, CG)
  <1>1. L \in SUBSET LineType /\ M \in SUBSET LineType /\ L \cup M \in SUBSET LineType
    BY DEF Settles
  <1>2. ASSUME NEW F, IsFiniteSet(Chosen(o, L, F)), IsFiniteSet(Chosen(o, M, F))
        PROVE  /\ IsFiniteSet(Chosen(o, L \cup M, F))
               /\ SumLines(Chosen(o, L \cup M, F)) =
                    SumLines(Chosen(o, L, F)) + SumLines(Chosen(o, M, F))
    BY <1>1, <1>2, ChosenUnion
  <1>3. ASSUME NEW t \in {"principal", "fee"}, NEW b \in Currencies
        PROVE  /\ IsFiniteSet(Chosen(o, L \cup M, OfEntry(t, b, "DEBIT")))
               /\ IsFiniteSet(Chosen(o, L \cup M, OfEntry(t, b, "CREDIT")))
               /\ SumLines(Chosen(o, L \cup M, OfEntry(t, b, "DEBIT"))) =
                    SumLines(Chosen(o, L \cup M, OfEntry(t, b, "CREDIT")))
    <2>1. PICK F, H : F = OfEntry(t, b, "DEBIT") /\ H = OfEntry(t, b, "CREDIT")
      OBVIOUS
    <2>2. /\ IsFiniteSet(Chosen(o, L, F)) /\ IsFiniteSet(Chosen(o, M, F))
          /\ IsFiniteSet(Chosen(o, L, H)) /\ IsFiniteSet(Chosen(o, M, H))
          /\ SumLines(Chosen(o, L, F)) = SumLines(Chosen(o, L, H))
          /\ SumLines(Chosen(o, M, F)) = SumLines(Chosen(o, M, H))
      BY <2>1 DEF Settles
    <2> QED
      BY <1>2, <2>1, <2>2
  <1>4. ASSUME NEW a \in Accounts
        PROVE  /\ IsFiniteSet(Chosen(o, L \cup M, OfAccount(a, "DEBIT")))
               /\ IsFiniteSet(Chosen(o, L \cup M, OfAccount(a, "CREDIT")))
               /\ SumLines(Chosen(o, L \cup M, OfAccount(a, "DEBIT"))) = DE[a]
               /\ SumLines(Chosen(o, L \cup M, OfAccount(a, "CREDIT"))) = CG[a]
    BY <1>2 DEF Settles
  <1> QED
    BY <1>1, <1>3, <1>4 DEF Settles

\* What a completed operation takes from account a and what it gives to it.
Paid(p) ==
    [a \in Accounts |->
       IF p.type \notin {"DEPOSIT", "CREDIT"} /\ p.source = a
       THEN p.amount + (IF p.type = "DEBIT" THEN 0 ELSE p.fee) ELSE 0]

Received(p) ==
    [a \in Accounts |->
       IF p.target # a THEN 0
       ELSE IF p.type \in {"DEPOSIT", "CREDIT"} THEN p.amount
       ELSE IF p.type \in {"FX", "OTC"} THEN p.quote ELSE 0]

\* The books of different customers, and of the platform, are different.
LEMMA BooksDiffer ==
    ASSUME NEW a, NEW b, NEW c
    PROVE  /\ Customer(a) = Customer(b) <=> a = b
           /\ Clearing(c) # Customer(a) /\ FeeRevenue(c) # Customer(a)
  BY DEF Customer, Clearing, FeeRevenue

\* Pairs of different entries have no line in common.
LEMMA PairsDiffer ==
    ASSUME NEW s \in {"principal", "fee"}, NEW c \in Currencies, NEW n \in Nat,
           NEW d \in Books, NEW e \in Books,
           NEW t \in {"principal", "fee"}, NEW b \in Currencies, NEW m \in Nat,
           NEW f \in Books, NEW g \in Books, s # t \/ c # b
    PROVE  Pair(s, c, n, d, e) \cap Pair(t, b, m, f, g) = {}
  <1>1. /\ \A l \in Pair(s, c, n, d, e) : l.suffix = s /\ l.currency = c
        /\ \A l \in Pair(t, b, m, f, g) : l.suffix = t /\ l.currency = b
    BY LineFields DEF Pair
  <1> QED
    BY <1>1

\* What an operation posts is balanced and moves what it says.
LEMMA LinesSettle ==
    ASSUME IInv, NEW o \in Ops, op[o].status # "ABSENT"
    PROVE  Settles(o, Lines(o), Paid(op[o]), Received(op[o])) /\ Lines(o) # {}
  <1>1. PICK p, c : p = op[o] /\ c = p.currency
    OBVIOUS
  <1>2. /\ p.type \in Types /\ c \in Currencies
        /\ p.amount \in Nat /\ p.fee \in Nat /\ p.quote \in Nat
        /\ p.type \in {"DEPOSIT", "CREDIT", "FX", "OTC"} => p.target \in Accounts
        /\ p.type \in {"DEBIT", "PAYOUT", "FX", "OTC"} => p.source \in Accounts
        /\ p.type \in {"FX", "OTC"} =>
             p.source # p.target /\ c # CurrencyOf[p.target] /\ CurrencyOf[p.target] \in Currencies
    BY <1>1, OperationsAssumption DEF IInv, TypeOK, Shape, RowShape, Operation
  <1>3. /\ \A b \in Currencies : Clearing(b) \in Books /\ FeeRevenue(b) \in Books
        /\ \A a \in Accounts : Customer(a) \in Books
    BY DEF Clearing, FeeRevenue, Customer, Books
  <1>4. CASE p.type \in {"DEPOSIT", "CREDIT"}
    <2>1. Lines(o) = Pair("principal", c, p.amount, Clearing(c), Customer(p.target))
      BY <1>1, <1>4 DEF Lines, InLines, Pair
    <2>2. \A a \in Accounts : Paid(p)[a] = IF Clearing(c) = Customer(a) THEN p.amount ELSE 0
      BY <1>4, BooksDiffer DEF Paid
    <2>3. \A a \in Accounts :
            Received(p)[a] = IF Customer(p.target) = Customer(a) THEN p.amount ELSE 0
      BY <1>4, BooksDiffer DEF Received
    <2>4. Settles(o, Lines(o), Paid(p), Received(p))
      BY <1>2, <1>3, <1>4, <2>1, <2>2, <2>3, SettlesPair
    <2> QED
      BY <1>1, <2>1, <2>4 DEF Pair
  <1>5. CASE p.type \in {"DEBIT", "PAYOUT", "FX", "OTC"}
    <2>1. PICK Zero, Out, Conv, Fee, Amt, Quo :
            /\ Zero = [a \in Accounts |-> 0]
            /\ Out = Pair("principal", c, p.amount, Customer(p.source), Clearing(c))
            /\ Conv = Pair("principal", CurrencyOf[p.target], p.quote,
                           Clearing(CurrencyOf[p.target]), Customer(p.target))
            /\ Fee = IF p.fee = 0 THEN {} ELSE
                       Pair("fee", c, p.fee, Customer(p.source), FeeRevenue(c))
            /\ Amt = [a \in Accounts |-> IF p.source = a THEN p.amount ELSE 0]
            /\ Quo = [a \in Accounts |-> IF p.target = a THEN p.quote ELSE 0]
      OBVIOUS
    <2>2. PICK Cost, Sum :
            /\ Cost = [a \in Accounts |-> IF p.source = a THEN p.fee ELSE 0]
            /\ Sum = [a \in Accounts |-> IF p.source = a THEN p.amount + p.fee ELSE 0]
      OBVIOUS
    <2>3. p.source \in Accounts
      BY <1>2, <1>5
    <2>4. Settles(o, Out, Amt, Zero)
      <3>1. /\ \A a \in Accounts :
                 Amt[a] = IF Customer(p.source) = Customer(a) THEN p.amount ELSE 0
            /\ \A a \in Accounts : Zero[a] = IF Clearing(c) = Customer(a) THEN p.amount ELSE 0
        BY <2>1, BooksDiffer
      <3> QED
        BY <1>2, <1>3, <2>1, <2>3, <3>1, SettlesPair
    <2>5. Settles(o, Fee, Cost, Zero)
      <3>1. CASE p.fee = 0
        <4>1. Fee = {} /\ Cost = Zero /\ \A a \in Accounts : Zero[a] = 0
          BY <2>1, <2>2, <3>1
        <4> QED
          BY <4>1, SettlesNothing
      <3>2. CASE p.fee # 0
        <4>1. /\ \A a \in Accounts :
                   Cost[a] = IF Customer(p.source) = Customer(a) THEN p.fee ELSE 0
              /\ \A a \in Accounts :
                   Zero[a] = IF FeeRevenue(c) = Customer(a) THEN p.fee ELSE 0
          BY <2>1, <2>2, BooksDiffer
        <4>2. Fee = Pair("fee", c, p.fee, Customer(p.source), FeeRevenue(c))
          BY <2>1, <3>2
        <4> QED
          BY <1>2, <1>3, <2>3, <4>1, <4>2, SettlesPair
      <3> QED
        BY <3>1, <3>2
    <2>6. Out \cap Fee = {} /\ Out # {}
      <3>1. p.fee # 0 => Out \cap Fee = {}
        BY <1>2, <1>3, <2>1, <2>3, PairsDiffer
      <3> QED
        BY <2>1, <3>1 DEF Pair
    <2>7. CASE p.type = "DEBIT"
      <3>1. Lines(o) = Out
        BY <1>1, <2>1, <2>7 DEF Lines, OutLines, Pair
      <3>2. Paid(p) = Amt /\ Received(p) = Zero
        BY <1>2, <2>1, <2>7 DEF Paid, Received
      <3> QED
        BY <1>1, <2>4, <2>6, <3>1, <3>2
    <2>8. FeeLines(o) = Fee /\ OutLines(o) = Out
      BY <1>1, <2>1 DEF FeeLines, OutLines, Pair
    <2>9. CASE p.type = "PAYOUT"
      <3>1. Lines(o) = Out \cup Fee
        BY <1>1, <2>8, <2>9 DEF Lines
      <3>2. Paid(p) = Sum /\ Received(p) = Zero
        BY <1>2, <2>1, <2>2, <2>9 DEF Paid, Received
      <3>3. /\ \A a \in Accounts : Sum[a] = Amt[a] + Cost[a]
            /\ \A a \in Accounts : Zero[a] = Zero[a] + Zero[a]
        BY <1>2, <2>1, <2>2
      <3>4. Settles(o, Out \cup Fee, Sum, Zero)
        BY <2>4, <2>5, <2>6, <3>3, SettlesBoth
      <3> QED
        BY <1>1, <2>6, <3>1, <3>2, <3>4
    <2>10. CASE p.type \in {"FX", "OTC"}
      <3>1. Lines(o) = (Out \cup Fee) \cup Conv
        <4>1. ConversionLines(o) = Out \cup Conv
          BY <1>1, <2>1, <2>8 DEF ConversionLines, Pair
        <4> QED
          BY <1>1, <2>8, <2>10, <4>1 DEF Lines
      <3>2. Paid(p) = Sum /\ Received(p) = Quo
        BY <1>2, <2>1, <2>2, <2>10 DEF Paid, Received
      <3>3. /\ \A a \in Accounts : Sum[a] = Amt[a] + Cost[a]
            /\ \A a \in Accounts : Zero[a] = Zero[a] + Zero[a]
            /\ \A a \in Accounts : Sum[a] = Sum[a] + Zero[a]
            /\ \A a \in Accounts : Quo[a] = Zero[a] + Quo[a]
        BY <1>2, <2>1, <2>2
      <3>4. Settles(o, Out \cup Fee, Sum, Zero)
        BY <2>4, <2>5, <2>6, <3>3, SettlesBoth
      <3>5. p.target \in Accounts /\ CurrencyOf[p.target] \in Currencies /\ c # CurrencyOf[p.target]
        BY <1>2, <2>10
      <3>6. Settles(o, Conv, Zero, Quo)
        <4>1. /\ \A a \in Accounts :
                   Zero[a] = IF Clearing(CurrencyOf[p.target]) = Customer(a) THEN p.quote ELSE 0
              /\ \A a \in Accounts :
                   Quo[a] = IF Customer(p.target) = Customer(a) THEN p.quote ELSE 0
          BY <2>1, BooksDiffer
        <4> QED
          BY <1>2, <1>3, <2>1, <3>5, <4>1, SettlesPair
      <3>7. (Out \cup Fee) \cap Conv = {}
        <4>1. Out \cap Conv = {}
          BY <1>2, <1>3, <2>1, <2>3, <3>5, PairsDiffer
        <4>2. p.fee # 0 => Fee \cap Conv = {}
          <5> SUFFICES ASSUME p.fee # 0 PROVE Fee \cap Conv = {}
            OBVIOUS
          <5>1. Fee = Pair("fee", c, p.fee, Customer(p.source), FeeRevenue(c))
            BY <2>1
          <5>2. /\ Customer(p.source) \in Books /\ FeeRevenue(c) \in Books
                /\ Clearing(CurrencyOf[p.target]) \in Books /\ Customer(p.target) \in Books
            BY <1>2, <1>3, <2>3, <3>5
          <5> QED
            BY <1>2, <2>1, <3>5, <5>1, <5>2, PairsDiffer
        <4>3. p.fee = 0 => Fee = {}
          BY <2>1
        <4> QED
          BY <4>1, <4>2, <4>3
      <3>8. Settles(o, (Out \cup Fee) \cup Conv, Sum, Quo)
        BY <3>3, <3>4, <3>6, <3>7, SettlesBoth
      <3> QED
        BY <1>1, <2>6, <3>1, <3>2, <3>8
    <2> QED
      BY <1>5, <2>7, <2>9, <2>10
  <1> QED
    BY <1>2, <1>4, <1>5 DEF Types

\* The posted lines of a side of an account.
Mine(a, side) == {l \in Posted : l[2].book = Customer(a) /\ l[2].side = side}

\* The journal has the lines of the completed operations and no other, and the
\* balances follow it.
Journaled ==
    /\ \A o \in Ops : journal[o] = IF op[o].status = "COMPLETED" THEN Lines(o) ELSE {}
    /\ \A a \in Accounts :
         /\ IsFiniteSet(Mine(a, "DEBIT")) /\ IsFiniteSet(Mine(a, "CREDIT"))
         /\ account[a].available + account[a].frozen + SumLines(Mine(a, "DEBIT"))
              = Opening[a] + SumLines(Mine(a, "CREDIT"))

\* What Journaled says is what BooksMatch asks.
LEMMA JournaledBooks == ASSUME IInv, Journaled PROVE BooksMatch
  <1>1. \A o \in Ops : journal[o] # {} <=> op[o].status = "COMPLETED"
    BY LinesSettle DEF Journaled
  <1>2. ASSUME NEW a \in Accounts
        PROVE  LET mine == {l \in Posted : l[2].book = Customer(a)} IN
                 account[a].available + account[a].frozen
                     + SumLines({l \in mine : l[2].side = "DEBIT"})
                   = Opening[a] + SumLines({l \in mine : l[2].side = "CREDIT"})
    <2> DEFINE mine == {l \in Posted : l[2].book = Customer(a)}
    <2>1. /\ {l \in mine : l[2].side = "DEBIT"} = Mine(a, "DEBIT")
          /\ {l \in mine : l[2].side = "CREDIT"} = Mine(a, "CREDIT")
      BY DEF Mine
    <2> QED
      BY <2>1 DEF Journaled
  <1>3. ASSUME NEW o \in Ops, NEW s \in {"principal", "fee"}, NEW c \in Currencies
        PROVE  LET entry == {l \in {o} \X journal[o] :
                               l[2].suffix = s /\ l[2].currency = c} IN
               SumLines({l \in entry : l[2].side = "DEBIT"}) =
                 SumLines({l \in entry : l[2].side = "CREDIT"})
    <2> DEFINE entry == {l \in {o} \X journal[o] : l[2].suffix = s /\ l[2].currency = c}
    <2>1. journal[o] \in SUBSET LineType
      BY DEF IInv, TypeOK
    <2>2. /\ {l \in entry : l[2].side = "DEBIT"} = Chosen(o, journal[o], OfEntry(s, c, "DEBIT"))
          /\ {l \in entry : l[2].side = "CREDIT"} = Chosen(o, journal[o], OfEntry(s, c, "CREDIT"))
      BY <2>1 DEF Chosen, OfEntry
    <2>3. SumLines(Chosen(o, journal[o], OfEntry(s, c, "DEBIT"))) =
            SumLines(Chosen(o, journal[o], OfEntry(s, c, "CREDIT")))
      <3>1. CASE op[o].status = "COMPLETED"
        <4>1. Settles(o, Lines(o), Paid(op[o]), Received(op[o])) /\ journal[o] = Lines(o)
          BY <3>1, LinesSettle DEF Journaled
        <4> QED
          BY <4>1 DEF Settles
      <3>2. CASE op[o].status # "COMPLETED"
        <4>1. journal[o] = {}
          BY <3>2 DEF Journaled
        <4>2. \A F : Chosen(o, journal[o], F) = {}
          BY <4>1 DEF Chosen
        <4> QED
          BY <4>2
      <3> QED
        BY <3>1, <3>2
    <2> QED
      BY <2>2, <2>3
  <1>4. EntriesBalance
    BY <1>3 DEF EntriesBalance
  <1> QED
    BY <1>1, <1>2, <1>4 DEF BooksMatch

\* A step that completes nothing.
BooksQuiet ==
    /\ journal' = journal
    /\ \A a \in Accounts :
         account'[a].available + account'[a].frozen = account[a].available + account[a].frozen
    /\ \A o \in Ops : \/ op'[o] = op[o]
                      \/ op[o].status # "COMPLETED" /\ op'[o].status # "COMPLETED"

\* A step that completes operation o.
BooksPost(o) ==
    /\ op[o].status \notin {"ABSENT", "COMPLETED"}
    /\ SetStatus(o, "COMPLETED")
    /\ journal' = [journal EXCEPT ![o] = Lines(o)]
    /\ \A a \in Accounts :
         account'[a].available + account'[a].frozen =
           account[a].available + account[a].frozen + Received(op[o])[a] - Paid(op[o])[a]

\* The lines of a row whose status alone changed.
LEMMA LinesKept ==
    ASSUME NEW o \in Ops, op[o] \in Operation,
           op'[o] = op[o] \/ \E s \in Statuses : op'[o] = [op[o] EXCEPT !.status = s]
    PROVE  Lines(o)' = Lines(o)
  <1>1. /\ op'[o].type = op[o].type /\ op'[o].currency = op[o].currency
        /\ op'[o].amount = op[o].amount /\ op'[o].fee = op[o].fee
        /\ op'[o].source = op[o].source /\ op'[o].target = op[o].target
        /\ op'[o].quote = op[o].quote
    BY DEF Operation
  <1> QED
    BY <1>1 DEF Lines, InLines, OutLines, ConversionLines, FeeLines

LEMMA QuietKeepsBooks == ASSUME IInv, Journaled, BooksQuiet PROVE Journaled'
  <1>1. ASSUME NEW o \in Ops
        PROVE  journal'[o] = IF op'[o].status = "COMPLETED" THEN Lines(o)' ELSE {}
    <2>1. op[o] \in Operation
      BY DEF IInv, TypeOK
    <2>2. CASE op'[o] = op[o]
      <3>1. Lines(o)' = Lines(o)
        BY <2>1, <2>2, LinesKept
      <3> QED
        BY <2>2, <3>1 DEF Journaled, BooksQuiet
    <2>3. CASE op[o].status # "COMPLETED" /\ op'[o].status # "COMPLETED"
      BY <2>3 DEF Journaled, BooksQuiet
    <2> QED
      BY <2>2, <2>3 DEF BooksQuiet
  <1>2. ASSUME NEW a \in Accounts
        PROVE  /\ Mine(a, "DEBIT")' = Mine(a, "DEBIT")
               /\ Mine(a, "CREDIT")' = Mine(a, "CREDIT")
    BY DEF Mine, Posted, BooksQuiet
  <1>3. ASSUME NEW a \in Accounts
        PROVE  /\ IsFiniteSet(Mine(a, "DEBIT")') /\ IsFiniteSet(Mine(a, "CREDIT")')
               /\ account'[a].available + account'[a].frozen + SumLines(Mine(a, "DEBIT")')
                    = Opening[a] + SumLines(Mine(a, "CREDIT")')
    BY <1>2 DEF Journaled, BooksQuiet
  <1> QED
    BY <1>1, <1>3 DEF Journaled, SumLines

LEMMA PostKeepsBooks ==
    ASSUME IInv, Journaled, NEW o \in Ops, BooksPost(o) PROVE Journaled'
  <1>1. /\ op \in [Ops -> Operation] /\ op[o] \in Operation
        /\ journal \in [Ops -> SUBSET LineType]
        /\ journal[o] = {} /\ op[o].status # "ABSENT"
    BY DEF IInv, TypeOK, Journaled, BooksPost
  <1>2. PICK L : L = Lines(o)
    OBVIOUS
  <1>3. /\ op'[o] = [op[o] EXCEPT !.status = "COMPLETED"] /\ "COMPLETED" \in Statuses
        /\ op'[o].status = "COMPLETED"
        /\ \A x \in Ops \ {o} : op'[x] = op[x]
    BY <1>1 DEF BooksPost, SetStatus, Operation, Statuses, Terminal
  <1>4. \A x \in Ops : Lines(x)' = Lines(x)
    BY <1>1, <1>3, LinesKept
  <1>5. journal' = [journal EXCEPT ![o] = L]
    BY <1>2 DEF BooksPost
  <1>6. ASSUME NEW x \in Ops
        PROVE  journal'[x] = IF op'[x].status = "COMPLETED" THEN Lines(x)' ELSE {}
    <2>1. CASE x = o
      BY <1>1, <1>2, <1>3, <1>4, <1>5, <2>1
    <2>2. CASE x # o
      BY <1>1, <1>3, <1>4, <1>5, <2>2 DEF Journaled
    <2> QED
      BY <2>1, <2>2
  <1>7. PICK D, C : D = Paid(op[o]) /\ C = Received(op[o])
    OBVIOUS
  <1>8. Settles(o, L, D, C) /\ L \in SUBSET LineType
    BY <1>1, <1>2, <1>7, LinesSettle DEF Settles
  <1>9. ASSUME NEW a \in Accounts, NEW side \in {"DEBIT", "CREDIT"}, IsFiniteSet(Mine(a, side)),
               IsFiniteSet(Chosen(o, L, OfAccount(a, side)))
        PROVE  /\ IsFiniteSet(Mine(a, side)')
               /\ SumLines(Mine(a, side)) \in Int
               /\ SumLines(Chosen(o, L, OfAccount(a, side))) \in Int
               /\ SumLines(Mine(a, side)') =
                    SumLines(Mine(a, side)) + SumLines(Chosen(o, L, OfAccount(a, side)))
    <2>1. PICK S, T : S = Mine(a, side) /\ T = Chosen(o, L, OfAccount(a, side))
      OBVIOUS
    <2>2. S \in SUBSET (Ops \X LineType) /\ T \in SUBSET (Ops \X LineType)
      BY <1>1, <1>8, <2>1 DEF Mine, Posted, Chosen
    <2>3. S \cap T = {}
      BY <1>1, <2>1 DEF Mine, Posted, Chosen
    <2>4. Mine(a, side)' = S \cup T
      <3>1. ASSUME NEW l PROVE l \in Posted' <=> l \in Posted \/ l \in {o} \X L
        <4>1. l \in Posted' <=> \E x \in Ops : l \in {x} \X journal'[x]
          BY DEF Posted
        <4>2. l \in Posted <=> \E x \in Ops : l \in {x} \X journal[x]
          BY DEF Posted
        <4>3. /\ \A x \in Ops \ {o} : journal'[x] = journal[x]
              /\ journal'[o] = L
          BY <1>1, <1>5
        <4> QED
          BY <1>1, <4>1, <4>2, <4>3
      <3>2. ASSUME NEW l
            PROVE  l \in Mine(a, side)' <=> l \in Posted' /\ l[2].book = Customer(a) /\ l[2].side = side
        BY DEF Mine
      <3>3. ASSUME NEW l
            PROVE  l \in T <=> l \in {o} \X L /\ l[2].book = Customer(a) /\ l[2].side = side
        BY <1>8, <2>1 DEF Chosen, OfAccount
      <3>4. ASSUME NEW l
            PROVE  l \in S <=> l \in Posted /\ l[2].book = Customer(a) /\ l[2].side = side
        BY <2>1 DEF Mine
      <3> QED
        BY <3>1, <3>2, <3>3, <3>4
    <2>5. /\ IsFiniteSet(S \cup T)
          /\ SumLines(S) \in Int /\ SumLines(T) \in Int
          /\ SumLines(S \cup T) = SumLines(S) + SumLines(T)
      BY <1>9, <2>1, <2>2, <2>3, SumLinesUnion
    <2> QED
      BY <2>1, <2>4, <2>5
  <1>10. ASSUME NEW a \in Accounts
         PROVE  /\ IsFiniteSet(Mine(a, "DEBIT")') /\ IsFiniteSet(Mine(a, "CREDIT")')
                /\ account'[a].available + account'[a].frozen + SumLines(Mine(a, "DEBIT")')
                     = Opening[a] + SumLines(Mine(a, "CREDIT")')
    <2>1. /\ IsFiniteSet(Chosen(o, L, OfAccount(a, "DEBIT")))
          /\ IsFiniteSet(Chosen(o, L, OfAccount(a, "CREDIT")))
          /\ SumLines(Chosen(o, L, OfAccount(a, "DEBIT"))) = D[a]
          /\ SumLines(Chosen(o, L, OfAccount(a, "CREDIT"))) = C[a]
      BY <1>8 DEF Settles
    <2>2. /\ IsFiniteSet(Mine(a, "DEBIT")) /\ IsFiniteSet(Mine(a, "CREDIT"))
          /\ account[a].available + account[a].frozen + SumLines(Mine(a, "DEBIT"))
               = Opening[a] + SumLines(Mine(a, "CREDIT"))
      BY DEF Journaled
    <2>3. /\ IsFiniteSet(Mine(a, "DEBIT")') /\ SumLines(Mine(a, "DEBIT")) \in Int
          /\ D[a] \in Int /\ SumLines(Mine(a, "DEBIT")') = SumLines(Mine(a, "DEBIT")) + D[a]
      BY <1>9, <2>1, <2>2
    <2>4. /\ IsFiniteSet(Mine(a, "CREDIT")') /\ SumLines(Mine(a, "CREDIT")) \in Int
          /\ C[a] \in Int /\ SumLines(Mine(a, "CREDIT")') = SumLines(Mine(a, "CREDIT")) + C[a]
      BY <1>9, <2>1, <2>2
    <2>5. account'[a].available + account'[a].frozen =
            account[a].available + account[a].frozen + C[a] - D[a]
      BY <1>7 DEF BooksPost
    <2>6. account[a].available \in Int /\ account[a].frozen \in Int /\ Opening[a] \in Int
      BY OperationsAssumption DEF IInv, TypeOK, Balance
    <2>7. account'[a].available + account'[a].frozen + SumLines(Mine(a, "DEBIT")')
            = Opening[a] + SumLines(Mine(a, "CREDIT")')
      <3>1. PICK t, u, d, c :
              /\ t = account[a].available + account[a].frozen /\ t \in Int
              /\ u = account'[a].available + account'[a].frozen
              /\ d = SumLines(Mine(a, "DEBIT")) /\ c = SumLines(Mine(a, "CREDIT"))
        BY <2>6
      <3>2. t + d = Opening[a] + c /\ u = t + C[a] - D[a]
        BY <2>2, <2>5, <3>1
      <3>3. u + (d + D[a]) = Opening[a] + (c + C[a])
        <4>1. t \in Int /\ d \in Int /\ c \in Int /\ D[a] \in Int /\ C[a] \in Int
              /\ Opening[a] \in Int
          BY <2>3, <2>4, <2>6, <3>1
        <4>2. u + (d + D[a]) = (t + C[a] - D[a]) + (d + D[a])
          BY <3>2
        <4>3. (t + C[a] - D[a]) + (d + D[a]) = (t + d) + C[a]
          BY <4>1
        <4>4. (Opening[a] + c) + C[a] = Opening[a] + (c + C[a])
          BY <4>1
        <4> QED
          BY <3>2, <4>2, <4>3, <4>4
      <3> QED
        BY <2>3, <2>4, <3>1, <3>3
    <2> QED
      BY <2>3, <2>4, <2>7
  <1> QED
    BY <1>6, <1>10 DEF Journaled, SumLines

\* Steps on rows that complete nothing.
LEMMA InsertIsQuiet ==
    ASSUME IInv, NEW o \in Ops, NEW row, Insert(o, row), row.status # "COMPLETED",
           journal' = journal,
           \A a \in Accounts :
             account'[a].available + account'[a].frozen = account[a].available + account[a].frozen
    PROVE  BooksQuiet
  <1>1. op' = [op EXCEPT ![o] = row] /\ op[o].status = "ABSENT" /\ op \in [Ops -> Operation]
    BY DEF Insert, IInv, TypeOK
  <1>2. \A x \in Ops : op'[x] = IF x = o THEN row ELSE op[x]
    BY <1>1
  <1> QED
    BY <1>1, <1>2 DEF BooksQuiet

LEMMA StatusIsQuiet ==
    ASSUME IInv, NEW o \in Ops, NEW s \in Statuses, s # "COMPLETED", SetStatus(o, s),
           op[o].status # "COMPLETED", journal' = journal,
           \A a \in Accounts :
             account'[a].available + account'[a].frozen = account[a].available + account[a].frozen
    PROVE  BooksQuiet
  <1>1. op \in [Ops -> Operation] /\ op[o] \in Operation
    BY DEF IInv, TypeOK
  <1>2. \A x \in Ops : op'[x] = IF x = o THEN [op[o] EXCEPT !.status = s] ELSE op[x]
    BY <1>1 DEF SetStatus
  <1>3. [op[o] EXCEPT !.status = s].status = s
    BY <1>1 DEF Operation
  <1> QED
    BY <1>2, <1>3 DEF BooksQuiet

\* A change of one balance and its total.
TotalMoves(a, n) ==
    \A x \in Accounts :
      account'[x].available + account'[x].frozen =
        account[x].available + account[x].frozen + (IF x = a THEN n ELSE 0)

LEMMA OneTotal ==
    ASSUME IInv, NEW a \in Accounts, NEW b \in Balance, NEW n \in Int,
           account' = [account EXCEPT ![a] = b],
           b.available + b.frozen = account[a].available + account[a].frozen + n
    PROVE  TotalMoves(a, n)
  <1>1. account \in [Accounts -> Balance]
    BY DEF IInv, TypeOK
  <1>2. ASSUME NEW x \in Accounts
        PROVE  account[x].available \in Nat /\ account[x].frozen \in Nat
    BY <1>1 DEF Balance
  <1> QED
    BY <1>1, <1>2 DEF TotalMoves

\* Submissions complete nothing and keep every total.
LEMMA SubmissionIsQuiet ==
    ASSUME IInv, NEW o \in Ops,
           \/ \E a \in Fiat, n \in Amounts, r \in Receipts :
                SubmitDeposit(o, a, n, r)
           \/ \E form \in CreditForms, n \in Amounts : SubmitCredit(o, form, n)
           \/ \E a \in Fiat, n \in Amounts, f \in Fees :
                SubmitDebit(o, a, n, f)
           \/ \E a, b \in Fiat, n \in Amounts, f \in Fees,
                 q \in QuoteAmounts : SubmitFx(o, a, b, n, f, q)
           \/ \E a \in Fiat, n \in Amounts : SubmitPayout(o, a, n)
           \/ \E a \in Fiat, n \in Amounts : SubmitCustomerPayout(o, a, n)
    PROVE  BooksQuiet
  <1>1. ASSUME NEW row, SubmitReserved(o, row), row.status = "SUBMITTED",
               row.source \in Fiat, row.amount \in Nat, row.fee \in Nat
        PROVE  BooksQuiet
    <2>1. /\ Insert(o, row) /\ journal' = journal
          /\ account' = [account EXCEPT ![row.source] =
                           Freeze(account[row.source], row.amount + row.fee)]
          /\ account[row.source].available >= row.amount + row.fee
      BY <1>1 DEF SubmitReserved, CanFreeze
    <2>2. PICK a, n, b : /\ a = row.source /\ n = row.amount + row.fee
                         /\ b = Freeze(account[a], n)
      OBVIOUS
    <2>3. a \in Accounts /\ n \in Nat /\ account[a] \in Balance
      BY <1>1, <2>2, FiatAccounts DEF IInv, TypeOK
    <2>4. b \in Balance
      BY <2>1, <2>2, <2>3, BalanceOps
    <2>5. PICK z \in Int : z = 0
      OBVIOUS
    <2>6. TotalMoves(a, z)
      <3>1. account' = [account EXCEPT ![a] = b]
        BY <2>1, <2>2
      <3>2. /\ account[a].available \in Nat /\ account[a].frozen \in Nat
            /\ b.available = account[a].available - n /\ b.frozen = account[a].frozen + n
        BY <2>2, <2>3, BalanceParts
      <3>3. b.available + b.frozen = account[a].available + account[a].frozen + z
        BY <2>3, <2>5, <3>2
      <3> QED
        BY <2>3, <2>4, <3>1, <3>3, OneTotal
    <2>7. \A x \in Accounts : account[x].available \in Nat /\ account[x].frozen \in Nat
      BY DEF IInv, TypeOK, Balance
    <2>8. \A x \in Accounts :
            account'[x].available + account'[x].frozen =
              account[x].available + account[x].frozen
      BY <2>5, <2>6, <2>7 DEF TotalMoves
    <2> QED
      BY <1>1, <2>1, <2>8, InsertIsQuiet
  <1>2. ASSUME NEW a \in Fiat, NEW n \in Amounts, NEW r \in Receipts,
               SubmitDeposit(o, a, n, r)
        PROVE  BooksQuiet
    <2>1. PICK row : /\ row = [Absent EXCEPT !.type = "DEPOSIT", !.status = "SUBMITTED",
                                 !.currency = CurrencyOf[a], !.amount = n, !.target = a,
                                 !.receipt = r]
                     /\ Insert(o, row)
      BY <1>2 DEF SubmitDeposit
    <2>2. row.status = "SUBMITTED" /\ journal' = journal /\ account' = account
      BY <1>2, <2>1 DEF SubmitDeposit, Absent
    <2> QED
      BY <2>1, <2>2, InsertIsQuiet
  <1>3. ASSUME NEW form \in CreditForms, NEW n \in Amounts, SubmitCredit(o, form, n)
        PROVE  BooksQuiet
    <2>1. PICK row : /\ row = [Absent EXCEPT !.type = "CREDIT", !.status = "SUBMITTED",
                                 !.currency = form[1], !.amount = n, !.target = form[2]]
                     /\ Insert(o, row)
      BY <1>3 DEF SubmitCredit
    <2>2. row.status = "SUBMITTED" /\ journal' = journal /\ account' = account
      BY <1>3, <2>1 DEF SubmitCredit, Absent
    <2> QED
      BY <2>1, <2>2, InsertIsQuiet
  <1>4. ASSUME NEW a \in Fiat, NEW n \in Amounts, NEW f \in Fees, SubmitDebit(o, a, n, f)
        PROVE  BooksQuiet
    <2>1. PICK row : /\ row = [Absent EXCEPT !.type = "DEBIT", !.status = "SUBMITTED",
                                 !.currency = CurrencyOf[a], !.amount = n, !.fee = f,
                                 !.source = a]
                     /\ SubmitReserved(o, row)
      BY <1>4 DEF SubmitDebit
    <2>2. row.status = "SUBMITTED" /\ row.source = a /\ row.amount \in Nat /\ row.fee \in Nat
      BY <2>1, OperationsAssumption DEF Absent
    <2> QED
      BY <1>1, <2>1, <2>2
  <1>5. ASSUME NEW a \in Fiat, NEW b \in Fiat, NEW n \in Amounts, NEW f \in Fees,
               NEW q \in QuoteAmounts, SubmitFx(o, a, b, n, f, q)
        PROVE  BooksQuiet
    <2>1. PICK row : /\ row = [Absent EXCEPT !.type = "FX", !.status = "SUBMITTED",
                                 !.currency = CurrencyOf[a], !.amount = n,
                                 !.fee = f, !.source = a, !.target = b, !.quote = q]
                     /\ SubmitReserved(o, row)
      BY <1>5 DEF SubmitFx
    <2>2. row.status = "SUBMITTED" /\ row.source = a /\ row.amount \in Nat /\ row.fee \in Nat
      BY <2>1, OperationsAssumption DEF Absent
    <2> QED
      BY <1>1, <2>1, <2>2
  <1>6. ASSUME NEW a \in Fiat, NEW n \in Amounts,
               SubmitPayout(o, a, n) \/ SubmitCustomerPayout(o, a, n)
        PROVE  BooksQuiet
    <2>1. PICK row : /\ \/ row = PayoutRow(a, n)
                        \/ row = [PayoutRow(a, n) EXCEPT !.confirmed = feeRule.amount]
                     /\ SubmitReserved(o, row)
      BY <1>6 DEF SubmitPayout, SubmitCustomerPayout
    <2>2. feeRule.amount \in Nat
      BY OperationsAssumption DEF IInv, TypeOK
    <2>3. row.status = "SUBMITTED" /\ row.source = a /\ row.amount \in Nat /\ row.fee \in Nat
      BY <2>1, <2>2, OperationsAssumption DEF PayoutRow, Absent
    <2> QED
      BY <1>1, <2>1, <2>3
  <1> QED
    BY <1>2, <1>3, <1>4, <1>5, <1>6

\* Quotes that are made, repeated or expire.
LEMMA QuoteIsQuiet ==
    ASSUME IInv, NEW o \in Ops,
           \/ \E a, b \in Accounts, n \in Amounts, q \in QuoteAmounts :
                CreateQuote(o, a, b, n, q)
           \/ RepeatQuote(o)
           \/ ConfirmExpired(o)
    PROVE  BooksQuiet
  <1>1. journal' = journal /\ account' = account
    BY DEF CreateQuote, RepeatQuote, ConfirmExpired
  <1>2. ASSUME NEW x \in Ops
        PROVE  \/ CancelExpired[x] = op[x]
               \/ op[x].status # "COMPLETED" /\ CancelExpired[x].status # "COMPLETED"
    <2>1. op[x] \in Operation
      BY DEF IInv, TypeOK
    <2>2. [op[x] EXCEPT !.status = "CANCELLED"].status = "CANCELLED"
      BY <2>1 DEF Operation
    <2> QED
      BY <2>2 DEF CancelExpired
  <1>3. ASSUME NEW a \in Accounts, NEW b \in Accounts, NEW n \in Amounts,
               NEW q \in QuoteAmounts, CreateQuote(o, a, b, n, q)
        PROVE  BooksQuiet
    <2>1. PICK row : /\ row = [Absent EXCEPT !.type = "OTC", !.status = "DRAFT",
                                 !.currency = CurrencyOf[a], !.amount = n,
                                 !.source = a, !.target = b, !.quote = q,
                                 !.expires = clock + Window]
                     /\ op' = [CancelExpired EXCEPT ![o] = row]
      BY <1>3 DEF CreateQuote
    <2>2. row.status = "DRAFT" /\ op[o].status = "ABSENT"
      BY <1>3, <2>1 DEF CreateQuote, Absent
    <2>3. \A x \in Ops : op'[x] = IF x = o THEN row ELSE CancelExpired[x]
      BY <2>1 DEF CancelExpired
    <2> QED
      BY <1>1, <1>2, <2>2, <2>3 DEF BooksQuiet
  <1>4. CASE RepeatQuote(o)
    BY <1>1, <1>2, <1>4 DEF RepeatQuote, BooksQuiet
  <1>5. CASE ConfirmExpired(o)
    <2>1. SetStatus(o, "CANCELLED") /\ op[o].status = "DRAFT" /\ "CANCELLED" \in Statuses
      BY <1>5 DEF ConfirmExpired, Statuses, Terminal
    <2> QED
      BY <1>1, <2>1, StatusIsQuiet
  <1> QED
    BY <1>3, <1>4, <1>5

\* Decisions either complete the operation and post it, or post nothing.
LEMMA DecisionBooks ==
    ASSUME IInv, NEW o \in Ops,
           \/ ApproveCredit(o)
           \/ ApproveDebit(o)
           \/ ApprovePayout(o)
           \/ Reject(o)
           \/ Execute(o)
    PROVE  BooksQuiet \/ BooksPost(o)
  <1>0. op[o].status \in {"SUBMITTED", "PROCESSING"}
    BY DEF ApproveCredit, ApproveDebit, ApprovePayout, Reject, Execute
  <1>1. /\ op[o] \in Operation /\ RowShape(op[o]) /\ op[o].status # "ABSENT"
        /\ op[o].amount \in Nat /\ op[o].fee \in Nat /\ Reserve(o) \in Nat
        /\ Reserve(o) = op[o].amount + op[o].fee
        /\ \A a \in Accounts :
             account[a] \in Balance /\ account[a].available \in Nat /\ account[a].frozen \in Nat
    <2>1. op[o].status # "ABSENT"
      BY <1>0
    <2> QED
      BY <2>1, RowFacts DEF Reserve, Operation, Balance
  <1>2. {"PROCESSING", "REJECTED"} \subseteq Statuses
    BY DEF Statuses, Terminal
  <1>3. CASE ApproveCredit(o)
    <2>1. /\ op[o].type \in {"DEPOSIT", "CREDIT"} /\ SetStatus(o, "COMPLETED")
          /\ account' = [account EXCEPT ![op[o].target] =
                           Credit(account[op[o].target], op[o].amount)]
          /\ journal' = [journal EXCEPT ![o] = Lines(o)]
      BY <1>3 DEF ApproveCredit, Post
    <2>2. PICK t, n, b : t = op[o].target /\ n = op[o].amount /\ b = Credit(account[t], n)
      OBVIOUS
    <2>3. t \in Accounts
      BY <1>1, <2>1, <2>2 DEF RowShape
    <2>4. b \in Balance
      BY <1>1, <2>2, <2>3, BalanceOps
    <2>5. n \in Int /\ b.available + b.frozen = account[t].available + account[t].frozen + n
      <3>1. n \in Nat /\ account[t] \in Balance
        BY <1>1, <2>2, <2>3
      <3>2. /\ account[t].available \in Nat /\ account[t].frozen \in Nat
            /\ b.available = account[t].available + n /\ b.frozen = account[t].frozen
        BY <2>2, <3>1, BalanceParts
      <3> QED
        BY <3>1, <3>2
    <2>6. TotalMoves(t, n)
      <3>1. account' = [account EXCEPT ![t] = b]
        BY <2>1, <2>2
      <3> QED
        BY <2>3, <2>4, <2>5, <3>1, OneTotal
    <2>7. \A x \in Accounts : /\ Received(op[o])[x] = IF x = t THEN n ELSE 0
                              /\ Paid(op[o])[x] = 0
      BY <2>1, <2>2 DEF Received, Paid
    <2>8. \A x \in Accounts :
            account'[x].available + account'[x].frozen =
              account[x].available + account[x].frozen + Received(op[o])[x] - Paid(op[o])[x]
      BY <1>1, <2>5, <2>6, <2>7 DEF TotalMoves
    <2> QED
      BY <1>0, <2>1, <2>8 DEF BooksPost
  <1>4. ASSUME NEW n \in Nat, op[o].source \in Accounts,
               account[op[o].source].frozen >= n, SetStatus(o, "COMPLETED"),
               account' = [account EXCEPT ![op[o].source] = Consume(account[op[o].source], n)],
               journal' = [journal EXCEPT ![o] = Lines(o)],
               \/ op[o].type = "DEBIT" /\ n = op[o].amount
               \/ op[o].type = "PAYOUT" /\ n = Reserve(o)
        PROVE  BooksPost(o)
    <2>1. PICK t, b : t = op[o].source /\ b = Consume(account[t], n)
      OBVIOUS
    <2>2. b \in Balance
      BY <1>1, <1>4, <2>1, BalanceOps
    <2>3. - n \in Int /\ b.available + b.frozen = account[t].available + account[t].frozen + (- n)
      <3>1. /\ account[t].available \in Nat /\ account[t].frozen \in Nat
            /\ b.available = account[t].available /\ b.frozen = account[t].frozen - n
        BY <1>1, <1>4, <2>1, BalanceParts
      <3> QED
        BY <1>4, <3>1
    <2>4. TotalMoves(t, - n)
      BY <1>4, <2>1, <2>2, <2>3, OneTotal
    <2>5. \A x \in Accounts : /\ Received(op[o])[x] = 0
                              /\ Paid(op[o])[x] = IF x = t THEN n ELSE 0
      BY <1>1, <1>4, <2>1 DEF Received, Paid
    <2>6. \A x \in Accounts :
            account'[x].available + account'[x].frozen =
              account[x].available + account[x].frozen + Received(op[o])[x] - Paid(op[o])[x]
      BY <1>1, <1>4, <2>4, <2>5 DEF TotalMoves
    <2> QED
      BY <1>0, <1>4, <2>6 DEF BooksPost
  <1>5. CASE ApproveDebit(o)
    <2>1. op[o].source \in Accounts
      BY <1>1, <1>5 DEF ApproveDebit, RowShape
    <2>2. /\ op[o].type = "DEBIT" /\ SetStatus(o, "COMPLETED")
          /\ account[op[o].source].frozen >= op[o].amount
          /\ account' = [account EXCEPT ![op[o].source] =
                           Consume(account[op[o].source], op[o].amount)]
          /\ journal' = [journal EXCEPT ![o] = Lines(o)]
      BY <1>5 DEF ApproveDebit, IsFrozen, Post
    <2>3. PICK n \in Nat : n = op[o].amount
      BY <1>1
    <2>4. /\ account[op[o].source].frozen >= n
          /\ account' = [account EXCEPT ![op[o].source] = Consume(account[op[o].source], n)]
      BY <2>2, <2>3
    <2>5. /\ SetStatus(o, "COMPLETED") /\ journal' = [journal EXCEPT ![o] = Lines(o)]
          /\ op[o].type = "DEBIT" /\ n = op[o].amount
      BY <2>2, <2>3
    <2> QED
      BY <1>4, <2>1, <2>4, <2>5
  <1>6. CASE Execute(o)
    <2>1. op[o].source \in Accounts
      BY <1>1, <1>6 DEF Execute, RowShape
    <2>2. /\ op[o].type = "PAYOUT" /\ SetStatus(o, "COMPLETED")
          /\ account[op[o].source].frozen >= Reserve(o)
          /\ account' = [account EXCEPT ![op[o].source] =
                           Consume(account[op[o].source], Reserve(o))]
          /\ journal' = [journal EXCEPT ![o] = Lines(o)]
      BY <1>6 DEF Execute, IsFrozen, Post
    <2> QED
      BY <1>1, <1>4, <2>1, <2>2
  <1>7. CASE ApprovePayout(o)
    <2>1. SetStatus(o, "PROCESSING") /\ journal' = journal /\ account' = account
      BY <1>7 DEF ApprovePayout
    <2> QED
      BY <1>0, <1>2, <2>1, StatusIsQuiet
  <1>8. CASE Reject(o)
    <2>1. SetStatus(o, "REJECTED") /\ journal' = journal
      BY <1>8 DEF Reject
    <2>2. \A x \in Accounts :
            account'[x].available + account'[x].frozen =
              account[x].available + account[x].frozen
      <3>1. CASE ~UsesReservation(o)
        BY <1>8, <3>1 DEF Reject
      <3>2. CASE UsesReservation(o)
        <4>1. PICK t, b : t = op[o].source /\ b = Unfreeze(account[t], Reserve(o))
          OBVIOUS
        <4>2. /\ account' = [account EXCEPT ![t] = b] /\ account[t].frozen >= Reserve(o)
          BY <1>8, <3>2, <4>1 DEF Reject, IsFrozen
        <4>3. t \in Accounts
          BY <1>1, <3>2, <4>1 DEF UsesReservation, RowShape
        <4>4. b \in Balance
          BY <1>1, <4>1, <4>2, <4>3, BalanceOps
        <4>5. PICK z \in Int : z = 0
          OBVIOUS
        <4>6. TotalMoves(t, z)
          <5>1. /\ account[t].available \in Nat /\ account[t].frozen \in Nat
                /\ account[t] \in Balance /\ Reserve(o) \in Nat
            BY <1>1, <4>3
          <5>2. /\ b.available = account[t].available + Reserve(o)
                /\ b.frozen = account[t].frozen - Reserve(o)
            BY <4>1, <5>1, BalanceParts
          <5>3. b.available + b.frozen = account[t].available + account[t].frozen + z
            BY <4>5, <5>1, <5>2
          <5> QED
            BY <4>2, <4>3, <4>4, <5>3, OneTotal
        <4> QED
          BY <1>1, <4>5, <4>6 DEF TotalMoves
      <3> QED
        BY <3>1, <3>2
    <2> QED
      BY <1>0, <1>2, <2>1, <2>2, StatusIsQuiet
  <1> QED
    BY <1>3, <1>5, <1>6, <1>7, <1>8

\* A conversion takes amount and fee from the source and gives the quote to
\* the target.
LEMMA ConversionBooks ==
    ASSUME IInv, NEW o \in Ops, ApproveFx(o) \/ ConfirmQuote(o)
    PROVE  BooksPost(o)
  <1>1. /\ op[o].status \in {"DRAFT", "SUBMITTED"} /\ op[o].status # "ABSENT"
        /\ SetStatus(o, "COMPLETED") /\ journal' = [journal EXCEPT ![o] = Lines(o)]
    BY DEF ApproveFx, ConfirmQuote, Post
  <1>2. /\ op[o] \in Operation /\ RowShape(op[o])
        /\ op[o].quote \in Nat /\ Reserve(o) \in Nat
        /\ Reserve(o) = op[o].amount + op[o].fee
        /\ DOMAIN account = Accounts
        /\ \A a \in Accounts :
             account[a] \in Balance /\ account[a].available \in Nat /\ account[a].frozen \in Nat
    BY <1>1, RowFacts DEF Reserve, Balance, IInv, TypeOK
  <1>3. op[o].type \in {"FX", "OTC"}
    BY <1>1, <1>2 DEF RowShape, ApproveFx, ConfirmQuote
  <1>4. op[o].source \in Accounts /\ op[o].target \in Accounts /\ op[o].source # op[o].target
    BY <1>1, <1>2, <1>3 DEF RowShape
  <1>5. PICK p, r : p = op[o] /\ r = Reserve(o)
    OBVIOUS
  <1>6. ASSUME NEW x \in Accounts
        PROVE  account'[x] = IF x = p.source
                             THEN IF ApproveFx(o) THEN Consume(account[x], r)
                                  ELSE Consume(Freeze(account[x], r), r)
                             ELSE IF x = p.target THEN Credit(account[x], p.quote)
                             ELSE account[x]
    <2>1. CASE ApproveFx(o)
      <3>1. account' = Converted(account, o, account)
        BY <2>1 DEF ApproveFx
      <3> QED
        BY <1>2, <1>5, <2>1, <3>1 DEF Converted
    <2>2. CASE ~ApproveFx(o)
      <3>1. account' = Converted(account, o,
                         [a \in Accounts |-> Freeze(account[a], Reserve(o))])
        BY <2>2 DEF ConfirmQuote
      <3> QED
        BY <1>2, <1>5, <2>2, <3>1 DEF Converted
    <2> QED
      BY <2>1, <2>2
  <1>7. ASSUME NEW x \in Accounts
        PROVE  account'[x].available + account'[x].frozen =
                 account[x].available + account[x].frozen
                   + (IF x = p.target THEN p.quote ELSE 0) - (IF x = p.source THEN r ELSE 0)
    <2>1. /\ account[x] \in Balance /\ account[x].available \in Nat /\ account[x].frozen \in Nat
          /\ p.quote \in Nat /\ r \in Nat /\ p.source # p.target
      BY <1>2, <1>4, <1>5
    <2>2. /\ Consume(account[x], r).available = account[x].available
          /\ Consume(account[x], r).frozen = account[x].frozen - r
          /\ Consume(Freeze(account[x], r), r).available = account[x].available - r
          /\ Consume(Freeze(account[x], r), r).frozen = account[x].frozen
          /\ Credit(account[x], p.quote).available = account[x].available + p.quote
          /\ Credit(account[x], p.quote).frozen = account[x].frozen
      BY <2>1, BalanceParts
    <2>3. CASE x = p.source
      BY <1>6, <2>1, <2>2, <2>3
    <2>4. CASE x # p.source /\ x = p.target
      BY <1>6, <2>1, <2>2, <2>4
    <2>5. CASE x # p.source /\ x # p.target
      BY <1>6, <2>1, <2>5
    <2> QED
      BY <2>3, <2>4, <2>5
  <1>8. \A x \in Accounts : /\ Received(op[o])[x] = IF x = p.target THEN p.quote ELSE 0
                            /\ Paid(op[o])[x] = IF x = p.source THEN r ELSE 0
    BY <1>2, <1>3, <1>5 DEF Received, Paid
  <1> QED
    BY <1>1, <1>7, <1>8 DEF BooksPost

\* The journal is the accounting authority in every state: entries balance in
\* every currency, exactly the completed operations are posted, and the balance
\* of each account is what its lines say.
THEOREM BooksAlwaysMatch == Spec => []BooksMatch
  <1>1. Init => Journaled
    <2> SUFFICES ASSUME Init PROVE Journaled
      OBVIOUS
    <2>1. \A o \in Ops : journal[o] = {} /\ op[o].status # "COMPLETED"
      BY DEF Init, Absent
    <2>2. \A a \in Accounts, side \in {"DEBIT", "CREDIT"} : Mine(a, side) = {}
      BY <2>1 DEF Mine, Posted
    <2>3. \A a \in Accounts : /\ account[a].available = Opening[a] /\ account[a].frozen = 0
                              /\ Opening[a] \in Nat
      BY OperationsAssumption DEF Init
    <2>4. ASSUME NEW a \in Accounts
          PROVE  /\ IsFiniteSet(Mine(a, "DEBIT")) /\ IsFiniteSet(Mine(a, "CREDIT"))
                 /\ account[a].available + account[a].frozen + SumLines(Mine(a, "DEBIT"))
                      = Opening[a] + SumLines(Mine(a, "CREDIT"))
      <3>1. Mine(a, "DEBIT") = {} /\ Mine(a, "CREDIT") = {} /\ IsFiniteSet({})
        BY <2>2, FS_EmptySet
      <3>2. account[a].available + account[a].frozen + 0 = Opening[a] + 0
        BY <2>3
      <3> QED
        BY <3>1, <3>2, NoLine
    <2> QED
      BY <2>1, <2>4 DEF Journaled
  <1>2. ASSUME IInv, Journaled, [Next]_vars PROVE Journaled'
    <2>1. CASE \/ \E f \in Fees, active \in BOOLEAN : UpdateFeeRule(f, active)
               \/ ShowFee \/ Tick \/ UNCHANGED vars
      <3>1. op' = op /\ account' = account /\ journal' = journal
        BY <2>1 DEF UpdateFeeRule, ShowFee, Tick, vars
      <3>2. BooksQuiet
        BY <3>1 DEF BooksQuiet
      <3> QED
        BY <1>2, <3>2, QuietKeepsBooks
    <2>2. CASE \E o \in Ops : BooksQuiet \/ BooksPost(o)
      BY <1>2, <2>2, QuietKeepsBooks, PostKeepsBooks
    <2> QED
      BY <1>2, <2>1, <2>2, SubmissionIsQuiet, QuoteIsQuiet, DecisionBooks, ConversionBooks
         DEF Next
  <1>3. IInv /\ Journaled => BooksMatch
    BY JournaledBooks
  <1> QED
    BY <1>1, <1>2, <1>3, Invariant, PTL DEF Spec
=============================================================================
