-------------------------- MODULE CryptoTransfers --------------------------
(***************************************************************************)
(* The Core's own withdrawal workflow for a USDT wallet                    *)
(* (server/src/crypto-wallets/crypto-wallets.service.ts), used where the   *)
(* custody API is not deployed: a withdrawal is submitted, approved or     *)
(* rejected, and executed.                                                 *)
(*                                                                         *)
(* createWithdrawal is a serializable transaction and one action.  The     *)
(* three decisions run at the database's default isolation: the status is  *)
(* read first and the writes do not look at it again, so each is two       *)
(* steps.  The writes of one decision are one step: all decisions take     *)
(* their row locks in the same order (wallet, account, operation,          *)
(* transfer), hence they take effect in the order of the first lock that   *)
(* two of them share.                                                      *)
(***************************************************************************)
EXTENDS Integers, Sums

CONSTANTS
    Transfers,   \* withdrawals, by idempotency key
    Admins,      \* administrators deciding concurrently
    Amounts,     \* amounts of a withdrawal, fee included
    Opening      \* the balance at the start

CryptoTransfersAssumption ==
    /\ Amounts \subseteq Nat \ {0}
    /\ Opening \in Nat

VARIABLES
    transfer,   \* CryptoTransfer rows
    op,         \* status of the Operation with the same id
    wallet,     \* CryptoWallet balances
    account,    \* the mirror Account of kind CRYPTO_WALLET
    posted,     \* journal amount of each operation, principal and fee
    tx          \* the decision each administrator's request has begun

vars == <<transfer, op, wallet, account, posted, tx>>

-----------------------------------------------------------------------------
Absent == [status |-> "ABSENT", amount |-> 0]

NoTx == [kind |-> "none"]

Kinds == {"approve", "reject", "execute"}

Open(t) == transfer[t].status \in {"SUBMITTED", "PROCESSING"}

Released(b, n) == [available |-> b.available + n, frozen |-> b.frozen - n]

Consumed(b, n) == [b EXCEPT !.frozen = @ - n]

Init ==
    /\ transfer = [t \in Transfers |-> Absent]
    /\ op = [t \in Transfers |-> "ABSENT"]
    /\ wallet = [available |-> Opening, frozen |-> 0]
    /\ account = [available |-> Opening, frozen |-> 0]
    /\ posted = [t \in Transfers |-> 0]
    /\ tx = [a \in Admins |-> NoTx]

\* Mutant: the mirror account is not frozen with the wallet.
MutCreateWithdrawal(t, n) ==
    /\ transfer[t] = Absent
    /\ wallet.available >= n
    /\ wallet' = [available |-> wallet.available - n,
                  frozen |-> wallet.frozen + n]
    /\ UNCHANGED account
    /\ transfer' = [transfer EXCEPT ![t] =
                      [status |-> "SUBMITTED", amount |-> n]]
    /\ op' = [op EXCEPT ![t] = "SUBMITTED"]
    /\ UNCHANGED <<posted, tx>>

CreateWithdrawal(t, n) ==
    /\ transfer[t] = Absent
    /\ wallet.available >= n
    /\ account.available >= n
    /\ wallet' = [available |-> wallet.available - n,
                  frozen |-> wallet.frozen + n]
    /\ account' = [available |-> account.available - n,
                   frozen |-> account.frozen + n]
    /\ transfer' = [transfer EXCEPT ![t] =
                      [status |-> "SUBMITTED", amount |-> n]]
    /\ op' = [op EXCEPT ![t] = "SUBMITTED"]
    /\ UNCHANGED <<posted, tx>>

-----------------------------------------------------------------------------
(* Decisions: the status is read ... *)

Begin(a, kind, t) ==
    /\ tx[a] = NoTx
    /\ transfer[t].status =
         IF kind = "execute" THEN "PROCESSING" ELSE "SUBMITTED"
    /\ tx' = [tx EXCEPT ![a] = [kind |-> kind, of |-> t]]
    /\ UNCHANGED <<transfer, op, wallet, account, posted>>

(* ... and the writes follow, whatever the row has become. *)

Write(a, kind, t, status) ==
    /\ tx[a] = [kind |-> kind, of |-> t]
    /\ tx' = [tx EXCEPT ![a] = NoTx]
    /\ transfer' = [transfer EXCEPT ![t] = [@ EXCEPT !.status = status]]

\* updateMany ... where status = 'SUBMITTED': no row is no error.
MoveSubmitted(t, status) ==
    op' = [op EXCEPT ![t] = IF @ = "SUBMITTED" THEN status ELSE @]

Approve(a, t) ==
    /\ Write(a, "approve", t, "PROCESSING")
    /\ MoveSubmitted(t, "PROCESSING")
    /\ UNCHANGED <<wallet, account, posted>>

\* Mutant: the release credits the customer's balance and keeps the hold.
MutReject(a, t) ==
    LET n == transfer[t].amount IN
    /\ Write(a, "reject", t, "REJECTED")
    /\ wallet.frozen >= n
    /\ wallet' = [wallet EXCEPT !.available = @ + n]
    /\ account' = [account EXCEPT !.available = @ + n]
    /\ MoveSubmitted(t, "REJECTED")
    /\ UNCHANGED posted

\* Mutant: nothing keeps a frozen balance from becoming negative.
MutRejectUnchecked(a, t) ==
    LET n == transfer[t].amount IN
    /\ Write(a, "reject", t, "REJECTED")
    /\ wallet' = Released(wallet, n)
    /\ account' = Released(account, n)
    /\ MoveSubmitted(t, "REJECTED")
    /\ UNCHANGED posted

\* The wallet's release is unconditional, but its balances may not become
\* negative (CryptoWallet_nonnegative_balances); the account's names them.
Reject(a, t) ==
    LET n == transfer[t].amount IN
    /\ Write(a, "reject", t, "REJECTED")
    /\ wallet.frozen >= n
    /\ account.frozen >= n
    /\ wallet' = Released(wallet, n)
    /\ account' = Released(account, n)
    /\ MoveSubmitted(t, "REJECTED")
    /\ UNCHANGED posted

\* JournalEntry.reference is unique.
ReferenceIsNew(t) == posted[t] = 0

\* Mutant: without the trigger an operation that ended completes.
MutMayComplete(t) == TRUE

\* guard_operation_transition: an operation that ended is immutable.
MayComplete(t) == op[t] \notin {"COMPLETED", "REJECTED"}

\* Mutant: neither the reference nor the trigger stops a second execution.
MutExecute(a, t) ==
    LET n == transfer[t].amount IN
    /\ Write(a, "execute", t, "COMPLETED")
    /\ wallet.frozen >= n
    /\ account.frozen >= n
    /\ wallet' = Consumed(wallet, n)
    /\ account' = Consumed(account, n)
    /\ posted' = [posted EXCEPT ![t] = @ + n]
    /\ op' = [op EXCEPT ![t] = "COMPLETED"]

Execute(a, t) ==
    LET n == transfer[t].amount IN
    /\ Write(a, "execute", t, "COMPLETED")
    /\ wallet.frozen >= n
    /\ account.frozen >= n
    /\ wallet' = Consumed(wallet, n)
    /\ account' = Consumed(account, n)
    /\ ReferenceIsNew(t)
    /\ posted' = [posted EXCEPT ![t] = @ + n]
    /\ MayComplete(t)
    /\ op' = [op EXCEPT ![t] = "COMPLETED"]

\* A decision that a constraint or the trigger refuses is rolled back.
RollBack(a) ==
    /\ tx[a] # NoTx
    /\ tx' = [tx EXCEPT ![a] = NoTx]
    /\ UNCHANGED <<transfer, op, wallet, account, posted>>

-----------------------------------------------------------------------------
Next ==
    \/ \E t \in Transfers, n \in Amounts : CreateWithdrawal(t, n)
    \/ \E a \in Admins, t \in Transfers :
         \/ \E kind \in Kinds : Begin(a, kind, t)
         \/ Approve(a, t)
         \/ Reject(a, t)
         \/ Execute(a, t)
    \/ \E a \in Admins : RollBack(a)

Spec == Init /\ [][Next]_vars

-----------------------------------------------------------------------------
Balance == [available : Nat, frozen : Nat]

\* The type of every variable.
TypeOK ==
    /\ transfer \in [Transfers ->
         [status : {"ABSENT", "SUBMITTED", "PROCESSING", "COMPLETED",
                    "REJECTED"}, amount : Nat]]
    /\ op \in [Transfers -> {"ABSENT", "SUBMITTED", "PROCESSING", "COMPLETED",
                             "REJECTED"}]
    /\ wallet \in Balance
    /\ account \in Balance
    /\ posted \in [Transfers -> Nat]
    /\ tx \in [Admins -> {NoTx} \cup [kind : Kinds, of : Transfers]]

\* Wallet and mirror account move together in every decision, in any
\* interleaving of stale decisions.
MirrorAgrees == wallet = account

Executed == {t \in Transfers : posted[t] > 0}

\* No interleaving makes or destroys money: what left the wallet is what the
\* journal posted.
MoneyConserved ==
    wallet.available + wallet.frozen + SumOver(posted, Executed) = Opening

\* execute: a withdrawal is posted once and only if its operation completed,
\* though two executions, or an execution and a late decision, overlap.
PostedOnce ==
    \A t \in Transfers :
        posted[t] = IF op[t] = "COMPLETED" THEN transfer[t].amount ELSE 0

\* An operation that ended is never reopened by a decision that read the
\* transfer before it ended.
OperationKept ==
    \A t \in Transfers :
        op[t] \in {"COMPLETED", "REJECTED"} => op'[t] = op[t]

=============================================================================
