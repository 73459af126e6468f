-------------------------- MODULE CregisWithdrawal --------------------------
(***************************************************************************)
(* The USDT withdrawal of the bank, end to end: the Go custody API         *)
(* (server-go/cmd/api/cregis_handlers.go) that keeps the custody row and   *)
(* talks to the payout provider Cregis, the accounting queue row that      *)
(* hands each stage to the Core, and the Core worker                       *)
(* (server/src/deposit-accounting/withdrawal-accounting.worker.ts) that    *)
(* freezes, releases and consumes the customer's money.                    *)
(*                                                                         *)
(* One action is one database transaction, one provider call or one step   *)
(* between two of them.  Both services run their transactions at           *)
(* serializable isolation, so a transaction is atomic here.  All           *)
(* withdrawals belong to one customer wallet: rows of different wallets    *)
(* share no state.  Wall-clock time is left out: a pending row may be due  *)
(* and a lock may be stale at any moment.                                  *)
(***************************************************************************)
EXTENDS Naturals, Sums

CONSTANTS
    Withdrawals,     \* withdrawal ids; w also names the provider's cid for w
    NoCid,           \* cregis_cid IS NULL
    OtherCid,        \* a cid that belongs to none of these withdrawals
    Jobs,            \* accounting calls in flight (batch rows, direct calls)
    Total,           \* amount_minor: what the wallet is debited
    Fee,             \* fee_amount_minor
    OpeningBalance,  \* USDT available to the customer at the start
    Conversions,     \* amounts the customer may convert away (OTC)
    MaxAttempts,     \* MAX_ATTEMPTS of the worker
    MaxTakeovers,    \* bound: claims taken over from a stale lock
    MaxInexact,      \* bound: callbacks whose payload does not match
    MaxCrashes       \* bound: accounting calls that die or are stopped

ASSUME WithdrawalAssumption ==
    /\ NoCid \notin Withdrawals
    /\ OtherCid \notin Withdrawals \cup {NoCid}
    /\ Total \in [Withdrawals -> Nat]
    /\ Fee \in [Withdrawals -> Nat]
    /\ \A w \in Withdrawals : Fee[w] < Total[w]
    /\ OpeningBalance \in Nat
    /\ Conversions \subseteq Nat
    /\ MaxAttempts \in Nat \ {0}
    /\ MaxTakeovers \in Nat
    /\ MaxInexact \in Nat
    /\ MaxCrashes \in Nat

VARIABLES
    custody,      \* cregis_withdrawals.status
    cid,          \* cregis_withdrawals.cregis_cid
    acct,         \* cregis_withdrawal_accounting.status
    attempts,     \* cregis_withdrawal_accounting.attempt_count
    op,           \* status of the Core Operation and CryptoTransfer
    account,      \* Core Account: available and frozen USDT
    wallet,       \* Core CryptoWallet, the mirror of the account
    journal,      \* credits posted to clearing and to fee revenue
    job,          \* what each accounting call is doing
    exec,         \* where the execute handler of a withdrawal is
    order,        \* the provider's payout order
    events,       \* cregis_callback_events of type payout, per cid
    verified,     \* callbacks past verifyPayoutOrder and not yet stored
    operational,  \* the customer, KYC and wallet are active
    spent         \* bounded environment choices made so far

moneyVars == <<account, wallet, journal>>
custodyVars == <<custody, cid, exec, order, events, verified>>
queueVars == <<acct, attempts, job>>
vars == <<custody, cid, acct, attempts, op, account, wallet, journal, job,
          exec, order, events, verified, operational, spent>>

-----------------------------------------------------------------------------
(* Statuses. *)

Stages == {"reserve", "approve", "release", "settle"}

PendingStatus ==
    [reserve |-> "pending_reservation", approve |-> "pending_approval",
     release |-> "pending_release", settle |-> "pending_settlement"]

ProcessingStatus ==
    [reserve |-> "reserving", approve |-> "approving",
     release |-> "releasing", settle |-> "settling"]

PendingStatuses == {PendingStatus[s] : s \in Stages}
ProcessingStatuses == {ProcessingStatus[s] : s \in Stages}
QueueStatuses == PendingStatuses \cup ProcessingStatuses

AccountingStatuses ==
    QueueStatuses \cup {"absent", "reserved", "approved", "released",
                        "settled", "exception"}

CustodyStatuses ==
    {"absent", "submitted", "approved", "executing", "submitted_to_cregis",
     "completed", "rejected", "failed", "exception"}

OperationStatuses ==
    {"none", "SUBMITTED", "PROCESSING", "COMPLETED", "REJECTED", "FAILED"}

OpenStatuses == {"SUBMITTED", "PROCESSING"}

\* The final callback families: status 2 and 4, status 6, status 7.
FinalStatuses == {"rejected", "completed", "failed"}

\* Mutant: a callback no longer moves a row in exception.
MutLiveCustody == {"submitted_to_cregis", "executing"}

\* Custody rows a final callback may still move.
LiveCustody == {"submitted_to_cregis", "executing", "exception"}

ActiveHandler == {"checking", "legal", "refused", "accepted", "unknown"}

Cids == Withdrawals \cup {OtherCid}

\* Mutant: the principal journal posts the gross amount.
MutNet == Total

Net == [w \in Withdrawals |-> Total[w] - Fee[w]]

-----------------------------------------------------------------------------
(* Money movements of the Core, on the account and on its mirror. *)

Freeze(balance, amount) ==
    [balance EXCEPT !.available = @ - amount, !.frozen = @ + amount]

\* Mutant: a release credits the customer and keeps the reservation.
MutUnfreeze(balance, amount) == [balance EXCEPT !.available = @ + amount]

Unfreeze(balance, amount) ==
    [balance EXCEPT !.available = @ + amount, !.frozen = @ - amount]

Consume(balance, amount) == [balance EXCEPT !.frozen = @ - amount]

-----------------------------------------------------------------------------
IdleJob ==
    [pc |-> "idle", wd |-> NoCid, stage |-> "reserve", retryable |-> FALSE,
     seen |-> "reserve", terminal |-> FALSE]

JobTypes ==
    [pc : {"idle", "claimed", "failed", "recording"},
     wd : Withdrawals \cup {NoCid}, stage : Stages, retryable : BOOLEAN,
     seen : Stages, terminal : BOOLEAN]

Init ==
    /\ custody = [w \in Withdrawals |-> "absent"]
    /\ cid = [w \in Withdrawals |-> NoCid]
    /\ acct = [w \in Withdrawals |-> "absent"]
    /\ attempts = [w \in Withdrawals |-> 0]
    /\ op = [w \in Withdrawals |-> "none"]
    /\ account = [available |-> OpeningBalance, frozen |-> 0]
    /\ wallet = [available |-> OpeningBalance, frozen |-> 0]
    /\ journal = [clearing |-> 0, feeRevenue |-> 0, converted |-> 0]
    /\ job = [k \in Jobs |-> IdleJob]
    /\ exec = [w \in Withdrawals |-> "idle"]
    /\ order = [w \in Withdrawals |-> "none"]
    /\ events = [c \in Cids |-> {}]
    /\ verified = {}
    /\ operational = TRUE
    /\ spent = [takeovers |-> 0, inexact |-> 0, crashes |-> 0]

-----------------------------------------------------------------------------
(* The customer and the administrator, through the Go API. *)

\* Amounts promised by requests the Core has not reserved yet.
Unreserved ==
    {v \in Withdrawals : acct[v] \in {"pending_reservation", "reserving"}}

\* createCregisWithdrawal: the custody row and its accounting intent are
\* inserted together, if the wallet can still cover the request.
CreateWithdrawal(w) ==
    /\ custody[w] = "absent"
    /\ operational
    /\ Total[w] + SumOver(Total, Unreserved) <= account.available
    /\ custody' = [custody EXCEPT ![w] = "submitted"]
    /\ acct' = [acct EXCEPT ![w] = "pending_reservation"]
    /\ UNCHANGED <<cid, attempts, op, moneyVars, job, exec, order, events,
                   verified, operational, spent>>

\* approveWithdrawalSQL.
ApproveWithdrawal(w) ==
    /\ acct[w] = "reserved"
    /\ custody[w] = "submitted"
    /\ custody' = [custody EXCEPT ![w] = "approved"]
    /\ acct' = [acct EXCEPT ![w] = "pending_approval"]
    /\ UNCHANGED <<cid, attempts, op, moneyVars, job, exec, order, events,
                   verified, operational, spent>>

\* Mutant: a rejection never queues the release of reserved funds.
MutRejectWithdrawal(w) ==
    /\ acct[w] \in {"pending_reservation", "reserving", "reserved"}
    /\ custody[w] = "submitted"
    /\ custody' = [custody EXCEPT ![w] = "rejected"]
    /\ acct' = [acct EXCEPT ![w] = "released"]
    /\ UNCHANGED <<cid, attempts, op, moneyVars, job, exec, order, events,
                   verified, operational, spent>>

\* Mutant: a rejection is also accepted for a row in exception.
MutRejectException(w) ==
    /\ acct[w] \in {"pending_reservation", "reserving", "reserved",
                     "exception"}
    /\ custody[w] = "submitted"
    /\ custody' = [custody EXCEPT ![w] = "rejected"]
    /\ acct' = [acct EXCEPT ![w] =
                    IF op[w] = "none" THEN "released" ELSE "pending_release"]
    /\ UNCHANGED <<cid, attempts, op, moneyVars, job, exec, order, events,
                   verified, operational, spent>>

\* rejectWithdrawalSQL: without a Core operation nothing was frozen.
RejectWithdrawal(w) ==
    /\ acct[w] \in {"pending_reservation", "reserving", "reserved"}
    /\ custody[w] = "submitted"
    /\ custody' = [custody EXCEPT ![w] = "rejected"]
    /\ acct' = [acct EXCEPT ![w] =
                    IF op[w] = "none" THEN "released" ELSE "pending_release"]
    /\ UNCHANGED <<cid, attempts, op, moneyVars, job, exec, order, events,
                   verified, operational, spent>>

\* Account-status, KYC or wallet changes made by an administrator.
SetOperational ==
    /\ operational' = ~operational
    /\ UNCHANGED <<custodyVars, queueVars, op, moneyVars, spent>>

\* Mutant: a conversion debits the account and forgets the wallet mirror.
MutConvertUsdt(amount) ==
    /\ account.available >= amount
    /\ account' = [account EXCEPT !.available = @ - amount]
    /\ journal' = [journal EXCEPT !.converted = @ + amount]
    /\ UNCHANGED <<custodyVars, queueVars, op, wallet, operational, spent>>

\* confirmQuote of an OTC conversion out of USDT (operations.service.ts):
\* it takes available balance between the Go admission check and the Core
\* reservation.
ConvertUsdt(amount) ==
    /\ account.available >= amount
    /\ wallet.available >= amount
    /\ account' = [account EXCEPT !.available = @ - amount]
    /\ wallet' = [wallet EXCEPT !.available = @ - amount]
    /\ journal' = [journal EXCEPT !.converted = @ + amount]
    /\ UNCHANGED <<custodyVars, queueVars, op, operational, spent>>

-----------------------------------------------------------------------------
(* executeCregisWithdrawal, one step per database or provider call. *)

\* Mutant: execution does not wait for the Core's approval.
MutStartExecution(w) ==
    /\ custody[w] = "approved"
    /\ custody' = [custody EXCEPT ![w] = "executing"]
    /\ exec' = [exec EXCEPT ![w] = "checking"]
    /\ UNCHANGED <<cid, queueVars, op, moneyVars, order, events, verified,
                   operational, spent>>

\* startWithdrawalExecutionSQL.
StartExecution(w) ==
    /\ custody[w] = "approved"
    /\ acct[w] = "approved"
    /\ custody' = [custody EXCEPT ![w] = "executing"]
    /\ exec' = [exec EXCEPT ![w] = "checking"]
    /\ UNCHANGED <<cid, queueVars, op, moneyVars, order, events, verified,
                   operational, spent>>

\* /api/v1/address/legal: a failed lookup counts as an illegal address.
CheckAddress(w) ==
    /\ exec[w] = "checking"
    /\ \E outcome \in {"legal", "refused"} :
          exec' = [exec EXCEPT ![w] = outcome]
    /\ UNCHANGED <<custody, cid, queueVars, op, moneyVars, order, events,
                   verified, operational, spent>>

\* Mutant: a timeout is taken for a refusal.
MutCallPayout(w) ==
    /\ exec[w] = "legal"
    /\ \/ /\ exec' = [exec EXCEPT ![w] = "accepted"]
          /\ order' = [order EXCEPT ![w] = "pending"]
       \/ /\ exec' = [exec EXCEPT ![w] = "refused"]
          /\ \E placed \in {"none", "pending"} :
                order' = [order EXCEPT ![w] = placed]
    /\ UNCHANGED <<custody, cid, queueVars, op, moneyVars, events, verified,
                   operational, spent>>

\* /api/v2/payout: accepted with a cid, refused with E0008, or no usable
\* answer, in which case the provider may or may not hold the order.
CallPayout(w) ==
    /\ exec[w] = "legal"
    /\ \/ /\ exec' = [exec EXCEPT ![w] = "accepted"]
          /\ order' = [order EXCEPT ![w] = "pending"]
       \/ /\ exec' = [exec EXCEPT ![w] = "refused"]
          /\ UNCHANGED order
       \/ /\ exec' = [exec EXCEPT ![w] = "unknown"]
          /\ \E placed \in {"none", "pending"} :
                order' = [order EXCEPT ![w] = placed]
    /\ UNCHANGED <<custody, cid, queueVars, op, moneyVars, events, verified,
                   operational, spent>>

\* persistWithdrawalSubmissionSQL.
PersistSubmission(w) ==
    /\ exec[w] = "accepted"
    /\ exec' = [exec EXCEPT ![w] = "done"]
    /\ IF custody[w] = "executing" /\ acct[w] = "approved"
       THEN /\ custody' = [custody EXCEPT ![w] = "submitted_to_cregis"]
            /\ cid' = [cid EXCEPT ![w] = w]
       ELSE UNCHANGED <<custody, cid>>
    /\ UNCHANGED <<queueVars, op, moneyVars, order, events, verified,
                   operational, spent>>

\* failWithdrawalForReleaseSQL, after an illegal address or E0008.
FailForRelease(w) ==
    /\ exec[w] = "refused"
    /\ exec' = [exec EXCEPT ![w] = "done"]
    /\ IF custody[w] = "executing" /\ acct[w] = "approved"
       THEN /\ custody' = [custody EXCEPT ![w] = "failed"]
            /\ acct' = [acct EXCEPT ![w] = "pending_release"]
       ELSE UNCHANGED <<custody, acct>>
    /\ UNCHANGED <<cid, attempts, job, op, moneyVars, order, events,
                   verified, operational, spent>>

\* The payout call failed or answered without a cid.
MarkException(w) ==
    /\ exec[w] = "unknown"
    /\ exec' = [exec EXCEPT ![w] = "excepted"]
    /\ custody' = [custody EXCEPT ![w] =
                       IF @ = "executing" THEN "exception" ELSE @]
    /\ UNCHANGED <<cid, queueVars, op, moneyVars, order, events, verified,
                   operational, spent>>

\* The same update issued on the cancelled request context: it fails, the
\* error is discarded and the handler answers 502.
ExceptionNotWritten(w) ==
    /\ exec[w] = "unknown"
    /\ exec' = [exec EXCEPT ![w] = "unwritten"]
    /\ UNCHANGED <<custody, cid, queueVars, op, moneyVars, order, events,
                   verified, operational, spent>>

\* The process dies, or a database call fails, before the handler's write.
LoseHandler(w) ==
    /\ exec[w] \in ActiveHandler
    /\ exec' = [exec EXCEPT ![w] = "lost"]
    /\ UNCHANGED <<custody, cid, queueVars, op, moneyVars, order, events,
                   verified, operational, spent>>

-----------------------------------------------------------------------------
(* The payout provider (external) and its signed callbacks. *)

\* The provider brings an order to its single final status.
DecideOrder(w) ==
    /\ order[w] = "pending"
    /\ \E s \in FinalStatuses : order' = [order EXCEPT ![w] = s]
    /\ UNCHANGED <<custody, cid, exec, events, verified, queueVars, op,
                   moneyVars, operational, spent>>

\* verifyPayoutOrder: the payload and the queried order agree with the row,
\* and the row is bound to no other cid.
ExactOrder(w, s) == cid[w] \in {NoCid, w} /\ order[w] = s

\* The callback of a final order, delivered any number of times, passes the
\* check; its handler has not written anything yet.
VerifyCallback(w) ==
    /\ order[w] \in FinalStatuses
    /\ w \notin verified
    /\ ExactOrder(w, order[w])
    /\ verified' = verified \cup {w}
    /\ UNCHANGED <<custody, cid, exec, order, events, queueVars, op,
                   moneyVars, operational, spent>>

\* cregisPayoutCallback, exact: one transaction stores the event, binds the
\* cid unless another was bound meanwhile and, while the accounting row is
\* approved, ends the custody row and queues the settlement or the release.
StoreCallback(w) ==
    LET s == order[w]
        bound == custody[w] \in LiveCustody /\ cid[w] \in {NoCid, w}
        ends == bound /\ acct[w] = "approved"
    IN  /\ w \in verified
        /\ verified' = verified \ {w}
        /\ events' = [events EXCEPT ![w] = @ \cup {s}]
        /\ cid' = [cid EXCEPT ![w] = IF bound THEN w ELSE @]
        /\ custody' = [custody EXCEPT ![w] = IF ends THEN s ELSE @]
        /\ acct' = [acct EXCEPT ![w] =
                        IF ~ends THEN @
                        ELSE IF s = "completed" THEN "pending_settlement"
                        ELSE "pending_release"]
        /\ UNCHANGED <<attempts, job, exec, order, op, moneyVars,
                       operational, spent>>

\* cregisPayoutCallback, not exact: the evidence is stored, a live row goes
\* to exception and no accounting is queued.
HoldCallback(w, s) ==
    /\ events' = [events EXCEPT ![w] = @ \cup {s}]
    /\ custody' = [custody EXCEPT ![w] =
                       IF @ \in LiveCustody THEN "exception" ELSE @]
    /\ UNCHANGED <<cid, acct, attempts, job, exec, order, verified, op,
                   moneyVars, operational>>

\* The true callback of an order whose row is bound to another cid.
UnboundCallback(w) ==
    /\ order[w] \in FinalStatuses
    /\ ~ExactOrder(w, order[w])
    /\ HoldCallback(w, order[w])
    /\ UNCHANGED spent

\* A callback whose amount, address, hash or status disagrees with the row
\* or with the queried order.
InexactCallback(w, s) ==
    /\ order[w] # "none"
    /\ spent.inexact < MaxInexact
    /\ spent' = [spent EXCEPT !.inexact = @ + 1]
    /\ HoldCallback(w, s)

-----------------------------------------------------------------------------
(* reconcileCregisWithdrawal: the administrator's two resolutions. *)

\* reconcileWithdrawalSubmittedSQL: the cid is whatever the operator typed.
ReconcileSubmitted(w, c) ==
    /\ custody[w] = "exception"
    /\ cid[w] = NoCid
    /\ acct[w] = "approved"
    /\ op[w] # "none"
    /\ custody' = [custody EXCEPT ![w] = "submitted_to_cregis"]
    /\ cid' = [cid EXCEPT ![w] = c]
    /\ UNCHANGED <<queueVars, op, moneyVars, exec, order, events, verified,
                   operational, spent>>

\* Mutant: the stored evidence is trusted without asking the provider.
MutProviderConfirms(w) == TRUE

\* providerPayoutMatchesWithdrawal on the order queried for the bound cid.
ProviderConfirms(w) == cid[w] = w /\ order[w] = "completed"

\* settleCregisWithdrawalFromProvider: stored completion evidence for the
\* bound cid, none against it, and the queried order is this withdrawal's.
ReconcileCompleted(w) ==
    /\ custody[w] = "exception"
    /\ acct[w] = "approved"
    /\ cid[w] # NoCid
    /\ events[cid[w]] = {"completed"}
    /\ ProviderConfirms(w)
    /\ custody' = [custody EXCEPT ![w] = "completed"]
    /\ acct' = [acct EXCEPT ![w] = "pending_settlement"]
    /\ UNCHANGED <<cid, attempts, job, op, moneyVars, exec, order, events,
                   verified, operational, spent>>

-----------------------------------------------------------------------------
(* The accounting queue: claims, and what happens when they fail. *)

\* Some call still works on the row, so a stale lock has a live owner.
Held(w) == \E j \in Jobs : job[j].pc # "idle" /\ job[j].wd = w

\* Its lock is five minutes old: the owner died, or is merely slow.
StaleLock(w) ==
    IF Held(w)
    THEN /\ spent.takeovers < MaxTakeovers
         /\ spent' = [spent EXCEPT !.takeovers = @ + 1]
    ELSE UNCHANGED spent

\* claimBatch and the claim of processDirect: a due pending row, or a row in
\* processing with a stale lock.
Claim(k, w, s) ==
    /\ job[k].pc = "idle"
    /\ \/ acct[w] = PendingStatus[s] /\ UNCHANGED spent
       \/ acct[w] = ProcessingStatus[s] /\ StaleLock(w)
    /\ acct' = [acct EXCEPT ![w] = ProcessingStatus[s]]
    /\ job' = [job EXCEPT ![k] =
                   [IdleJob EXCEPT !.pc = "claimed", !.wd = w, !.stage = s]]
    /\ UNCHANGED <<custodyVars, attempts, op, moneyVars, operational>>

\* claimBatch, its first statement, for a stale row past the batch size.
RequeueStale(w, s) ==
    /\ acct[w] = ProcessingStatus[s]
    /\ StaleLock(w)
    /\ acct' = [acct EXCEPT ![w] = PendingStatus[s]]
    /\ UNCHANGED <<custodyVars, attempts, job, op, moneyVars, operational>>

\* load: the row must still be in the stage the call claimed.
Loaded(k, w, s) ==
    /\ job[k].pc = "claimed"
    /\ job[k].wd = w
    /\ job[k].stage = s
    /\ acct[w] = ProcessingStatus[s]

\* validateFinalCallbackEvidence for the settle action.
SettleEvidence(w) ==
    /\ cid[w] # NoCid
    /\ events[cid[w]] = {"completed"}

\* validateFinalCallbackEvidence for the release action.
ReleaseEvidence(w) ==
    cid[w] # NoCid => events[cid[w]] \in {{"rejected"}, {"failed"}}

\* Mutant: the balance updates lose their guard.
MutCanFreeze(w) == TRUE

\* The balance guards of reserve's two conditional updates.
CanFreeze(w) ==
    /\ wallet.available >= Total[w]
    /\ account.available >= Total[w]

\* Everything the transaction of a stage checks before it writes.
StageChecks(w, s) ==
    \/ /\ s = "reserve"
       /\ custody[w] = "submitted"
       /\ operational
       /\ op[w] = "none"
       /\ CanFreeze(w)
    \/ /\ s = "approve"
       /\ custody[w] = "approved"
       /\ operational
       /\ op[w] = "SUBMITTED"
    \/ /\ s = "release"
       /\ custody[w] \in {"rejected", "failed"}
       /\ ReleaseEvidence(w)
       /\ \/ op[w] = "none"
          \/ /\ op[w] \in OpenStatuses
             /\ wallet.frozen >= Total[w]
             /\ account.frozen >= Total[w]
    \/ /\ s = "settle"
       /\ custody[w] = "completed"
       /\ SettleEvidence(w)
       /\ op[w] = "PROCESSING"
       /\ wallet.frozen >= Total[w]
       /\ account.frozen >= Total[w]

\* reserve: freeze the wallet and the account, create the Core records.
Reserve(k, w) ==
    /\ Loaded(k, w, "reserve")
    /\ StageChecks(w, "reserve")
    /\ wallet' = Freeze(wallet, Total[w])
    /\ account' = Freeze(account, Total[w])
    /\ op' = [op EXCEPT ![w] = "SUBMITTED"]
    /\ acct' = [acct EXCEPT ![w] = "reserved"]
    /\ job' = [job EXCEPT ![k] = IdleJob]
    /\ UNCHANGED <<custodyVars, attempts, journal, operational, spent>>

\* approve: both Core records start processing.
Approve(k, w) ==
    /\ Loaded(k, w, "approve")
    /\ StageChecks(w, "approve")
    /\ op' = [op EXCEPT ![w] = "PROCESSING"]
    /\ acct' = [acct EXCEPT ![w] = "approved"]
    /\ job' = [job EXCEPT ![k] = IdleJob]
    /\ UNCHANGED <<custodyVars, attempts, moneyVars, operational, spent>>

\* releaseFunds: give the frozen total back, if any was frozen.
ReleaseFunds(k, w) ==
    /\ Loaded(k, w, "release")
    /\ StageChecks(w, "release")
    /\ IF op[w] = "none"
       THEN UNCHANGED <<wallet, account, op>>
       ELSE /\ wallet' = Unfreeze(wallet, Total[w])
            /\ account' = Unfreeze(account, Total[w])
            /\ op' = [op EXCEPT ![w] =
                          IF @ = "SUBMITTED" THEN "REJECTED" ELSE "FAILED"]
    /\ acct' = [acct EXCEPT ![w] = "released"]
    /\ job' = [job EXCEPT ![k] = IdleJob]
    /\ UNCHANGED <<custodyVars, attempts, journal, operational, spent>>

\* settle: consume the frozen total, post the principal and fee journals.
Settle(k, w) ==
    /\ Loaded(k, w, "settle")
    /\ StageChecks(w, "settle")
    /\ wallet' = Consume(wallet, Total[w])
    /\ account' = Consume(account, Total[w])
    /\ journal' = [journal EXCEPT !.clearing = @ + Net[w],
                                  !.feeRevenue = @ + Fee[w]]
    /\ op' = [op EXCEPT ![w] = "COMPLETED"]
    /\ acct' = [acct EXCEPT ![w] = "settled"]
    /\ job' = [job EXCEPT ![k] = IdleJob]
    /\ UNCHANGED <<custodyVars, attempts, operational, spent>>

\* The transaction throws.  A conflict or an unavailable dependency may be
\* retried; a failed check, of the rows or of the Core's own configuration,
\* may not.
FailStage(k) ==
    /\ job[k].pc = "claimed"
    /\ \E retryable \in BOOLEAN :
          job' = [job EXCEPT ![k] =
                     [@ EXCEPT !.pc = "failed", !.retryable = retryable]]
    /\ UNCHANGED <<custodyVars, acct, attempts, op, moneyVars, operational,
                   spent>>

\* recordFailure, its SELECT: the row is looked up by id in any processing
\* status, not only in the stage this call had claimed.
ReadFailure(k) ==
    LET w == job[k].wd
    IN  /\ job[k].pc = "failed"
        /\ \/ /\ acct[w] \notin ProcessingStatuses
              /\ job' = [job EXCEPT ![k] = IdleJob]
           \/ \E s \in Stages :
                 /\ acct[w] = ProcessingStatus[s]
                 /\ job' = [job EXCEPT ![k] =
                      [@ EXCEPT !.pc = "recording",
                                !.seen = s,
                                !.terminal = \/ ~job[k].retryable
                                             \/ attempts[w] + 1
                                                  >= MaxAttempts]]
        /\ UNCHANGED <<custodyVars, acct, attempts, op, moneyVars,
                       operational, spent>>

\* Mutant: a retryable failure is not counted.
MutWriteFailure(k) ==
    LET w == job[k].wd
        s == job[k].seen
    IN  /\ job[k].pc = "recording"
        /\ acct' = [acct EXCEPT ![w] =
               IF @ # ProcessingStatus[s] THEN @
               ELSE IF job[k].terminal THEN "exception" ELSE PendingStatus[s]]
        /\ job' = [job EXCEPT ![k] = IdleJob]
        /\ UNCHANGED <<custodyVars, attempts, op, moneyVars, operational,
                       spent>>

\* recordFailure, its UPDATE: applied if the row still has the status read.
WriteFailure(k) ==
    LET w == job[k].wd
        s == job[k].seen
    IN  /\ job[k].pc = "recording"
        /\ IF acct[w] = ProcessingStatus[s]
           THEN /\ acct' = [acct EXCEPT ![w] =
                      IF job[k].terminal THEN "exception"
                                         ELSE PendingStatus[s]]
                /\ attempts' = [attempts EXCEPT ![w] = @ + 1]
           ELSE UNCHANGED <<acct, attempts>>
        /\ job' = [job EXCEPT ![k] = IdleJob]
        /\ UNCHANGED <<custodyVars, op, moneyVars, operational, spent>>

\* releaseClaims, when the worker stops before it reached this row.
ReleaseClaim(k) ==
    LET w == job[k].wd
        s == job[k].stage
    IN  /\ job[k].pc = "claimed"
        /\ spent.crashes < MaxCrashes
        /\ spent' = [spent EXCEPT !.crashes = @ + 1]
        /\ acct' = [acct EXCEPT ![w] = IF @ = ProcessingStatus[s]
                                       THEN PendingStatus[s]
                                       ELSE @]
        /\ job' = [job EXCEPT ![k] = IdleJob]
        /\ UNCHANGED <<custodyVars, attempts, op, moneyVars, operational>>

\* The process dies with the claim: the row keeps its processing status.
CrashJob(k) ==
    /\ job[k].pc # "idle"
    /\ spent.crashes < MaxCrashes
    /\ spent' = [spent EXCEPT !.crashes = @ + 1]
    /\ job' = [job EXCEPT ![k] = IdleJob]
    /\ UNCHANGED <<custodyVars, acct, attempts, op, moneyVars, operational>>

-----------------------------------------------------------------------------
CustomerOrAdmin ==
    \/ SetOperational
    \/ \E amount \in Conversions : ConvertUsdt(amount)
    \/ \E w \in Withdrawals :
          \/ CreateWithdrawal(w)
          \/ ApproveWithdrawal(w)
          \/ RejectWithdrawal(w)
          \/ ReconcileCompleted(w)
          \/ \E c \in Cids : ReconcileSubmitted(w, c)

ExecuteHandler(w) ==
    \/ StartExecution(w)
    \/ CheckAddress(w)
    \/ CallPayout(w)
    \/ PersistSubmission(w)
    \/ FailForRelease(w)
    \/ MarkException(w)
    \/ ExceptionNotWritten(w)
    \/ LoseHandler(w)

Provider(w) ==
    \/ DecideOrder(w)
    \/ VerifyCallback(w)
    \/ StoreCallback(w)
    \/ UnboundCallback(w)
    \/ \E s \in FinalStatuses : InexactCallback(w, s)

AccountingCall(k) ==
    \/ \E w \in Withdrawals :
          \/ \E s \in Stages : Claim(k, w, s)
          \/ Reserve(k, w)
          \/ Approve(k, w)
          \/ ReleaseFunds(k, w)
          \/ Settle(k, w)
    \/ FailStage(k)
    \/ ReadFailure(k)
    \/ WriteFailure(k)
    \/ ReleaseClaim(k)
    \/ CrashJob(k)

Next ==
    \/ CustomerOrAdmin
    \/ \E w \in Withdrawals :
          \/ ExecuteHandler(w)
          \/ Provider(w)
          \/ \E s \in Stages : RequeueStale(w, s)
    \/ \E k \in Jobs : AccountingCall(k)

Spec == Init /\ [][Next]_vars

-----------------------------------------------------------------------------
(* The Core's own decisions on a transfer (CryptoWalletsService).  The pages *)
(* of this deployment decide through the custody API, but the endpoints do   *)
(* not look at the transfer's custody rail.  A decision is one step here;    *)
(* CryptoTransfers separates its check from its writes.                      *)

coreUnchanged == <<custodyVars, queueVars, operational, spent>>

\* approve.
CoreApprove(w) ==
    /\ op[w] = "SUBMITTED"
    /\ op' = [op EXCEPT ![w] = "PROCESSING"]
    /\ UNCHANGED <<moneyVars, coreUnchanged>>

\* Mutant: a transfer that was approved can still be rejected.
MutCoreReject(w) ==
    /\ op[w] \in OpenStatuses
    /\ account.frozen >= Total[w]
    /\ wallet' = Unfreeze(wallet, Total[w])
    /\ account' = Unfreeze(account, Total[w])
    /\ op' = [op EXCEPT ![w] = "REJECTED"]
    /\ UNCHANGED <<journal, coreUnchanged>>

\* reject: both balances get the reservation back.
CoreReject(w) ==
    /\ op[w] = "SUBMITTED"
    /\ account.frozen >= Total[w]
    /\ wallet' = Unfreeze(wallet, Total[w])
    /\ account' = Unfreeze(account, Total[w])
    /\ op' = [op EXCEPT ![w] = "REJECTED"]
    /\ UNCHANGED <<journal, coreUnchanged>>

\* Mutant: no journal is posted for the fee.
MutCoreExecute(w) ==
    /\ op[w] = "PROCESSING"
    /\ account.frozen >= Total[w]
    /\ wallet' = Consume(wallet, Total[w])
    /\ account' = Consume(account, Total[w])
    /\ journal' = [journal EXCEPT !.clearing = @ + Net[w]]
    /\ op' = [op EXCEPT ![w] = "COMPLETED"]
    /\ UNCHANGED coreUnchanged

\* execute, with a transaction hash the administrator typed.
CoreExecute(w) ==
    /\ op[w] = "PROCESSING"
    /\ account.frozen >= Total[w]
    /\ wallet' = Consume(wallet, Total[w])
    /\ account' = Consume(account, Total[w])
    /\ journal' = [journal EXCEPT !.clearing = @ + Net[w],
                                  !.feeRevenue = @ + Fee[w]]
    /\ op' = [op EXCEPT ![w] = "COMPLETED"]
    /\ UNCHANGED coreUnchanged

NextWithCore ==
    \/ Next
    \/ \E w \in Withdrawals :
          CoreApprove(w) \/ CoreReject(w) \/ CoreExecute(w)

SpecWithCore == Init /\ [][NextWithCore]_vars

-----------------------------------------------------------------------------
\* What a claimed accounting call can do next.
Process(k) ==
    \/ FailStage(k)
    \/ \E w \in Withdrawals :
          Reserve(k, w) \/ Approve(k, w) \/ ReleaseFunds(k, w) \/ Settle(k, w)

-----------------------------------------------------------------------------
(* Safety. *)

BalanceType == [available : Nat, frozen : Nat]

\* The types of the rows, balances and calls.  A balance that a Core update
\* drove below zero would leave Nat.
TypeOK ==
    /\ custody \in [Withdrawals -> CustodyStatuses]
    /\ cid \in [Withdrawals -> Cids \cup {NoCid}]
    /\ acct \in [Withdrawals -> AccountingStatuses]
    /\ attempts \in [Withdrawals -> Nat]
    /\ op \in [Withdrawals -> OperationStatuses]
    /\ account \in BalanceType
    /\ wallet \in BalanceType
    /\ journal \in [clearing : Nat, feeRevenue : Nat, converted : Nat]
    /\ job \in [Jobs -> JobTypes]
    /\ \A k \in Jobs : job[k].pc # "idle" => job[k].wd \in Withdrawals
    /\ exec \in [Withdrawals -> ActiveHandler \cup
                   {"idle", "done", "excepted", "unwritten", "lost"}]
    /\ order \in [Withdrawals -> {"none", "pending"} \cup FinalStatuses]
    /\ events \in [Cids -> SUBSET FinalStatuses]
    /\ verified \subseteq {w \in Withdrawals : order[w] \in FinalStatuses}
    /\ operational \in BOOLEAN
    /\ spent \in [takeovers : Nat, inexact : Nat, crashes : Nat]

OpenWithdrawals == {w \in Withdrawals : op[w] \in OpenStatuses}
SettledWithdrawals == {w \in Withdrawals : op[w] = "COMPLETED"}

\* What is frozen is exactly what open Core operations reserved, and what was
\* posted is exactly what settled operations are worth, whatever calls raced,
\* failed or were repeated.
LedgerBalanced ==
    /\ account.frozen = SumOver(Total, OpenWithdrawals)
    /\ journal.clearing + journal.feeRevenue = SumOver(Total, SettledWithdrawals)
    /\ journal.feeRevenue = SumOver(Fee, SettledWithdrawals)

\* No USDT appears or disappears: customer balance, clearing, fee revenue and
\* conversions always add up to the opening balance.
MoneyConserved ==
    account.available + account.frozen + journal.clearing
      + journal.feeRevenue + journal.converted = OpeningBalance

\* The Account and its CryptoWallet mirror always freeze, consume and release
\* together: their balances never differ.
MirrorInSync == wallet = account

\* Money that left through the provider is never also given back to the
\* customer: a paid order keeps its reservation until it is settled.
PaidNeverReleased ==
    \A w \in Withdrawals :
        order[w] = "completed" => op[w] \in {"PROCESSING", "COMPLETED"}

\* The customer is debited only for a payout that really happened, even when
\* an operator bound a wrong cid or a callback lied about the outcome.
SettledWasPaid ==
    \A w \in Withdrawals : op[w] = "COMPLETED" => order[w] = "completed"

\* A payout order exists only for a withdrawal whose reservation the Core
\* moved to PROCESSING first.
PayoutNeedsReservation ==
    \A w \in Withdrawals :
        order[w] # "none" => op[w] \in {"PROCESSING", "COMPLETED", "FAILED"}

\* adminWithdrawalHistoryStatusSQL, for a row with an accounting intent.
PublicStatus(w) ==
    CASE acct[w] = "reserved" /\ custody[w] = "submitted" -> "submitted"
      [] acct[w] = "approved" /\ custody[w] = "approved" -> "approved"
      [] acct[w] = "settled" -> "completed"
      [] acct[w] = "released" /\ custody[w] = "rejected" -> "rejected"
      [] acct[w] = "released" /\ custody[w] = "failed" -> "failed"
      [] custody[w] = "exception" \/ acct[w] = "exception" -> "exception"
      [] OTHER -> "processing"

\* The status shown to customer and Admin becomes final only after the Core
\* has moved the money: a rejected or failed withdrawal has nothing frozen,
\* a completed one is debited.
PublicStatusHonest ==
    \A w \in Withdrawals :
        /\ PublicStatus(w) \in {"rejected", "failed"} =>
              op[w] \in {"none", "REJECTED", "FAILED"}
        /\ PublicStatus(w) = "completed" => op[w] = "COMPLETED"

\* The queue status says which Core records exist and how far they are.
QueueMatchesCore ==
    \A w \in Withdrawals :
        /\ acct[w] \in {"absent", "pending_reservation", "reserving"} =>
              op[w] = "none"
        /\ acct[w] \in {"reserved", "pending_approval", "approving"} =>
              op[w] = "SUBMITTED"
        /\ acct[w] \in {"approved", "pending_settlement", "settling"} =>
              op[w] = "PROCESSING"
        /\ acct[w] \in {"pending_release", "releasing"} =>
              op[w] \in OpenStatuses
        /\ acct[w] = "settled" => op[w] = "COMPLETED"
        /\ acct[w] = "released" => op[w] \in {"none", "REJECTED", "FAILED"}
        /\ acct[w] = "exception" => op[w] \in {"none"} \cup OpenStatuses

\* Until the provider answered the payout call the row is executing and
\* approved, and a row that was never executed has no order.
OrderNeedsExecution ==
    \A w \in Withdrawals :
        /\ exec[w] \in {"checking", "legal", "refused"} =>
              custody[w] = "executing" /\ acct[w] = "approved"
                /\ order[w] = "none"
        /\ custody[w] \in {"absent", "submitted", "approved"} =>
              order[w] = "none"
        /\ custody[w] = "absent" => acct[w] = "absent"

\* An undecided order leaves the row approved, a completed one allows only
\* settlement or an exception, and only a completed one is settled.
QueueMatchesOrder ==
    \A w \in Withdrawals :
        /\ order[w] = "pending" => acct[w] = "approved"
        /\ order[w] = "completed" =>
              acct[w] \in {"approved", "pending_settlement", "settling",
                           "settled", "exception"}
        /\ acct[w] \in {"pending_settlement", "settling", "settled"} =>
              order[w] = "completed"

\* The queue, the custody row, the Core and the provider agree on how far a
\* withdrawal has come, whichever of them acted last.  Inductive together
\* with the type invariant and PayoutNeedsReservation.
Lifecycle == QueueMatchesCore /\ OrderNeedsExecution /\ QueueMatchesOrder

\* An accounting exception blocks the withdrawal: the row stays in exception,
\* the Core records stay as they are and no payout order is placed.
ExceptionBlocks ==
    [][\A w \in Withdrawals : acct[w] = "exception" =>
          /\ acct'[w] = "exception"
          /\ op'[w] = op[w]
          /\ order[w] = "none" => order'[w] = "none"]_vars

\* docs/CREGIS_DIRECT_ACCOUNTING.md: a submission timeout or an invalid
\* response remains exception with funds frozen.  Once the handler of such a
\* submission has answered, the row is not left in executing.
TimeoutBecomesException ==
    \A w \in Withdrawals :
        exec[w] \in {"excepted", "unwritten"} => custody[w] # "executing"

-----------------------------------------------------------------------------
(* The money this system moves is the money WithdrawalFunds allows. *)

FundOf ==
    [none |-> "none", SUBMITTED |-> "reserved", PROCESSING |-> "reserved",
     COMPLETED |-> "settled", REJECTED |-> "released", FAILED |-> "released"]

Funds ==
    INSTANCE WithdrawalFunds WITH
        fund <- [w \in Withdrawals |-> FundOf[op[w]]],
        paid <- {w \in Withdrawals : order[w] = "completed"},
        available <- account.available,
        frozen <- account.frozen

\* Handlers, queue and worker together implement the abstract life of a
\* reservation.
RefinesFunds == Funds!Spec

-----------------------------------------------------------------------------
(* What MCLiveness says of a withdrawal. *)

\* A stage waits in the accounting queue.
Queued(w) == acct[w] \in QueueStatuses

\* The payout is settled or held for review; only a wrongly typed cid keeps it
\* open.
Accounted(w) == acct[w] \in {"settled", "exception"} \/ cid[w] \notin {NoCid, w}
=============================================================================
