# NeoBank: a TLA+ verification project

NeoBank is a digital bank: fiat accounts with a maker-checker workflow, and a
USDT account whose custody and payouts are done by an external provider, Cregis.
This project models the part of it that moves customer money, checks it with
TLC and proves its main properties with TLAPS. `PROJECT.json` lists components,
runs, mutants, the map from definitions to source lines, hazards, findings and
theorems in machine-readable form.

## 1. The system

| Part | Where | State it keeps |
| --- | --- | --- |
| Custody API | `server-go/cmd/api` (Go) | custody tables `cregis_*`, customers, sessions |
| Core | `server/src` (NestJS, Prisma) | `Account`, `CryptoWallet`, `Operation`, journal, fee rules |
| Accounting queues | `cregis_withdrawal_accounting`, `cregis_deposit_accounting` | one row per withdrawal or deposit: status, attempts, lock |
| Accounting workers | `server/src/deposit-accounting` | nothing but the row they claimed |
| Cregis | external | payout orders, deposit trades; sends signed callbacks |
| Web client | `src/src` | what a page shows |

The custody API and the Core share one PostgreSQL database. A custody row says
what the provider was asked to do and what it answered; the Core alone moves
balances. The accounting row of a withdrawal carries each stage (reserve,
approve, release, settle) from one to the other: the API queues it, and either a
synchronous call to the Core or the polling worker executes it. A deposit has one
stage, its posting. Fiat money never touches custody: an operator or a customer
submits an `Operation`, an administrator decides it, and the Core posts it.

What each part has to guarantee:

* **Withdrawals.** Funds are reserved before the provider is asked to pay; a
  reservation ends once, consumed if the payout happened and given back if it did
  not; the status shown is final only after the Core moved the money; every queued
  stage and every paid order is eventually accounted.
* **Deposits.** A completed transfer is credited exactly once, is backed by the
  chain, and is not lost when callbacks, calls or workers fail.
* **Operations.** The frozen balance is what open operations reserved; balances
  agree with the journal; the journal balances; the USDT account and its
  `CryptoWallet` agree; an expired quote is dead; what was submitted is what is
  posted; one receipt is credited once.

The behaviours that are hard are those between two transactions: the same row
worked on by a worker, a synchronous call and an administrator; a lock taken over
from a call that is slow and not dead; a payout call without an answer; callbacks
that are repeated, late, or early; a process that dies between the provider's
answer and its own write; a balance, fee or quote read before it changes. The
hazards in `PROJECT.json` name them line by line.

Around the money there are the records that decide who may move it and where to:
customers, their credentials, sessions, passkeys, allowlist and withdrawal lock,
registration and identity review, and the administrators. They are kept by the
custody API in the same database, and nearly every handler there has one shape: some
queries, then one *batch*, a serializable transaction (`internal/postgres/client.go:93`)
whose statements all run, whatever the first one matched; the handler looks at the row
counts after the commit. What a request read may be stale when its batch runs, and a
batch whose guarding statement matched nothing has still run the others. Most of the
disagreements of section 4 are of this kind.

* **Virtual accounts.** An opening fee is held, charged or given up once, as the
  customer confirmed it.
* **Wallets.** A customer has one usable address, owned at the provider, which is never
  replaced after it was shown, and is copied to the Core.
* **E-mail.** What is enqueued is sent or given up; duplicates come from faults only.
* **Credentials, sessions, passkeys.** A usable session was proved with the present
  credentials; one-time codes, links and challenges work once.
* **Withdrawal controls.** Money leaves to listed destinations only and not while the
  customer has locked withdrawals; the lock cools before it is lifted.
* **Registration, setup, identity review.** Nobody is approved without the review and
  nobody signs in with a replaced link; every notification is followed up.
* **Administrators.** Someone can always administer; a change of access ends sessions.

## 2. Modules

| Module | Models | Uses |
| --- | --- | --- |
| `WithdrawalFunds` | abstract promise of a withdrawal | |
| `CregisWithdrawal` | USDT withdrawal: custody API, queue, worker, provider | refines `WithdrawalFunds` |
| `DepositCredit` | abstract promise of a deposit | |
| `CregisDeposit` | USDT deposit: callback, queue, worker, reconciliation command | refines `DepositCredit` |
| `HistoricalWithdrawals` | withdrawals older than the queue: command, worker, callbacks | |
| `Operations` | operations, OTC quotes, fee rule, ledger | |
| `CryptoTransfers` | the Core's own USDT transfers, decided by administrators | |
| `VaOpeningFee` | virtual account requests, their fee, channel and fee policy | |
| `WalletProvisioning` | wallet rows, the provider's addresses, the mirror in the Core | |
| `EmailOutbox` | the outbox and its delivery workers | |
| `CustomerCredentials` | logins, TOTP, recovery codes, sessions, password reset | |
| `CustomerPasskeys` | passkey registration, login and removal | |
| `EmailChange` | change of e-mail address, closure of the account | |
| `WithdrawalControls` | allowlist, step-up tokens, withdrawal lock, the checks of payouts | |
| `CustomerRegistration` | registration, e-mail verification, application, first sign-in | |
| `AccountSetup` | first password and TOTP of a customer created by an administrator | |
| `KycReview` | identity review: webhooks, synchronisation jobs, decision | |
| `AdminUsers`, `AdminAuth` | administrators: access among several; setup, login and lock of one | |
| `MCCregisWithdrawal`, `MCCregisDeposit`, `MCOperations` | constants and symmetry of the small instances | the module they name |
| `MCFunds`, `MCAccess`, `MCBackOffice`, `MCLiveness` | suites: small instances of several components | section 3 |
| `Sums` | the sum of a function over a finite set | |
| `CregisWithdrawalProofs`, `CregisDepositProofs`, `OperationsProofs`, `EmailOutboxProofs` | theorems and proofs of the module they name | section 5 |
| `FundsProofs` | theorems about `CryptoTransfers`, `HistoricalWithdrawals`, `VaOpeningFee`, `WalletProvisioning` | section 5 |
| `CustomerProofs` | theorems about `WithdrawalControls`, `CustomerCredentials`, `EmailChange`, `CustomerPasskeys` | section 5 |
| `BackOfficeProofs` | theorems about `AdminUsers`, `KycReview`, `AdminAuth`, `CustomerRegistration`, `AccountSetup` | section 5 |
| `SumsProofs` | how a sum changes with its set and its function | `Sums` |

One action is one database transaction, one provider call, or the step between
two. The API's batches and the accounting and operation transactions of the Core are
serializable, so they are atomic here; the decisions about Core transfers are not, and
`CryptoTransfers` separates their reads from their writes.
Definitions named `Mut...` are faulty variants used to confirm that a property can
fail; no specification uses them.

### CregisWithdrawal

`custody` and `cid` are `cregis_withdrawals.status` and `cregis_cid`; `acct` and
`attempts` are the accounting row; `op` is the status the Core's `Operation` and
`CryptoTransfer` share; `account`, `wallet` and `journal` are the Core's money;
`exec` is the position of `executeCregisWithdrawal`; `order`, `events` and
`verified` are the provider's order, the stored callbacks, and callbacks between
their verification and their storage; `job` holds the accounting calls in flight.

* The customer and the administrator: `CreateWithdrawal`, `ApproveWithdrawal`,
  `RejectWithdrawal`. The conversion `ConvertUsdt` is the one other consumer of
  USDT, here to race the admission check.
* The execute handler: `StartExecution`, `CheckAddress`, `CallPayout`,
  `PersistSubmission`, `FailForRelease`, `MarkException`. `ExceptionNotWritten` is
  the update whose error is discarded, `LoseHandler` a death before any write.
* Callbacks: `VerifyCallback` then `StoreCallback`, `UnboundCallback` and
  `InexactCallback`; an operator's `ReconcileSubmitted` and `ReconcileCompleted`.
* Accounting calls: `Claim` (pending, or processing with a stale lock),
  `RequeueStale`, the stages `Reserve`, `Approve`, `ReleaseFunds`, `Settle`, then
  `FailStage`, and `recordFailure` as `ReadFailure` and `WriteFailure`, because its
  SELECT and UPDATE are two statements. `ReleaseClaim` is an orderly stop of the
  worker, `CrashJob` a death.
* The Core's own decisions: `CoreApprove`, `CoreReject`, `CoreExecute` are the endpoints
  of `CryptoWalletsService`, which do not look at the custody rail of a transfer
  (`OperationsService` does: `requireNonCryptoWorkflow`). The pages of this deployment
  decide custody withdrawals through the custody API, and `Spec` has those decisions
  only; `SpecWithCore` adds the Core's, each as one step. The part `stages` of `MCFunds`
  runs it.

Left out: wall-clock time (a row may be due, a lock stale, at any moment), other
wallets (they share no state), and idempotent repetition of create, which finds
its row and changes nothing.

### CregisDeposit

`trade` is the provider's record; `deposit`, `acct`, `source`, `attempts` are the
custody and accounting rows; `op`, `account`, `wallet`, `clearing` the Core's
money. `StoreCallback` is the whole transaction of `cregisDepositCallback`: the
insert that the unique cid or the unique hash of completed deposits may ignore,
then the intent for whatever completed row is stored under that cid. `StoreNotice` is
the same transaction for a notice of failure, which is not looked up at the provider;
`InexactCallback` bounds such notices and repetitions with another payload. A callback
for a wallet that is not active and verified is refused and changes nothing. Deposits
older than the queue (`Historical`) start stored and without intent; `Hold` and
`Release` are the reconciliation command. Accounting calls are as above.

### Operations

`op` has one row per idempotency key; `account` and `wallet` are balances;
`journal` the posted lines; `feeRule` the payout rule and `shown` the copy on the
customer's page; `clock` the time that quotes expire by. There is one action per
submission type, `CreateQuote`, `RepeatQuote` (a repeated request that still
cancels expired drafts), `ConfirmQuote` or `ConfirmExpired`, one approval per kind
of posting, `Reject`, `Execute`, and `UpdateFeeRule`, `ShowFee`, `Tick`. A posting
whose line would have amount zero is undone by the database constraint, so the
action is not enabled. Beneficiary, channel and eligibility checks refuse requests
without changing state; the modelled requests are those that pass them. A rejected
deposit keeps its receipt, so that receipt cannot be entered again; a payout in
PROCESSING can only be executed.

### HistoricalWithdrawals

`Init` ranges over what the time before the queue may have left: rows in flight or
ended, with or without a Core operation, a reserved amount other than the row's
(`Reserved`), a `CryptoWallet` that does or does not mirror the account. `Hold` and
`Release` are the two commands with all their validation (`Releasable`), `Claim`,
`ReleaseFunds`, `FailStage` and `GiveUp` the worker's release stage; a failure queues the
row again or, at the attempt limit, makes it an exception. `preview` reads.

### CryptoTransfers and VaOpeningFee

In `CryptoTransfers` an administrator's approve, reject or execute is a read and a
transaction, because the status check is made on the row that was read. In
`VaOpeningFee` an account request is quoted, confirmed, approved, rejected, cancelled
or waived; `channel`, `policy` and the customer's balance change meanwhile, and an
editor of a channel reads before it writes. Fee amounts are small numbers; bank
details are present or missing.

### WalletProvisioning

Every statement of `provisionCregisWallet` is a step, so that a request can die, or its
provider call fail, between any two; `Legacy` are rows of earlier versions. Approval
leaves the customer in setup, when a wallet may be asked for already; `CompleteSetup`
makes him active, and the mirror sync, which reads and then writes, copies the wallets
of active customers only.

### EmailOutbox

`Claim` takes a batch, `Send` calls the mail service, `Record` writes the outcome with
the attempt number of the claimed copy. A worker may crash, stall until its lock is
taken over, lose the answer, or fail to write.

### CustomerCredentials, CustomerPasskeys, EmailChange

One customer, active and with a verified address, and two or three requests. A request
is a `...Start` step, which merges loading the session and the credentials (a session
revoked between the two is also one revoked right after), and a `...Commit` step, the
batch. Passwords, secrets and handles are fresh names; a row whose token reached nobody
is not recorded. TOTP counters are numbers where a property counts them
(`EmailChange`, `CustomerPasskeys`). In `CustomerPasskeys` an authenticator's credential
answers one challenge; the answer may be sent twice. Its signature counter is left out:
nothing in this code reads it. `NextSerial` allows one request at a time.

### WithdrawalControls

Tokens, sessions and rows of the allowlist, the lock, and the withdrawals and payouts
that check both. Timestamps of two requests are distinct; `MaxFlight` says how long a
request takes compared with the cooling period (seconds and a day in the code). Whether
a TOTP code is unused is a choice here.

### CustomerRegistration, AccountSetup, KycReview

One applicant and one address. `CustomerRegistration` follows the cookie of each
browser; expiry is compared with the time the request began, and the resend cooldown
is a flag that `Minute` clears. `AccountSetup` is the path of customers that an
administrator created. `KycReview` keeps a job row, its workers and the decision; a
lock is taken over only after its holder is gone (two minutes against fifteen seconds
of timeouts). The provider may notify about an applicant whose id is not stored yet
(`Known`), and with `Reconfigured` the level or environment of a verification may have
changed, which ends its job at once (`SyncRefused`). The registration accepts any staged
application where the code compares fingerprints, which only adds behaviours. `asOf`,
`greenRead` and the job's `by` are history variables.

### AdminUsers and AdminAuth

`AdminUsers` has several administrators and races of access; a sign-in is two steps.
`MaxBehind` is how stale the version is that a caller sends. `AdminAuth` has one
administrator and races of setup, login, enrolment and lock; changes of access are
atomic in it. `gen` and `proved` are history.

## 3. Runs

| Run | Shows | Bounds |
| --- | --- | --- |
| `withdrawal_races` | lifecycle, mirror, public status, no release of paid money | 1 withdrawal, 2 calls, 2 takeovers, 1 crash, 1 inexact callback, 2 attempts |
| `withdrawal_pair` | ledger, conservation, evidence, refinement of `WithdrawalFunds` | 2 withdrawals of one wallet, 1 call |
| `withdrawal_timeout` | violated: timeout does not always become exception | 1 withdrawal |
| `deposit_races` | exactly-once credit, backing, final statuses, refinement of `DepositCredit` | 3 deposits (2 of one hash, 1 historical), 2 calls, 1 takeover, 1 crash, 1 inexact callback |
| `deposit_historical` | violated: a repeated callback credits a historical deposit | 1 deposit |
| `operations_ledger` | reservations, books and journal, mirror, receipts | 3 operations, amount 1, fees 0 and 1, conversions paying 0 or 2, 1 clock step |
| `operations_snapshots` | fee confirmation, dead quotes, immutability | 2 operations, 2 fee versions, 2 clock steps |
| `adjustment_currency` | violated: a fiat credit may target the USDT account | 1 operation |
| `liveness` | what the provider completed is accounted for; queued work ends | the table below |
| `funds` | fees, Core transfers and decisions, historical releases, wallets, withdrawal controls | the table below |
| `access` | credentials, passkeys, change of address | the table below |
| `back_office` | registration, setup, identity review, administrators, mails | the table below |

### The suites

`MCLiveness`, `MCFunds`, `MCAccess` and `MCBackOffice` check several components in one
run each. The components of a suite share no state, so interleaving them would only
multiply the states: the variable `part` names one instance, which runs alone in a
behaviour, and the variables of the others are `None`. `Init` chooses the part and no
step changes it; the state counts of the instances add up. Each instance is an
`INSTANCE ... WITH` that gives the component its constants, and `Instances` checks the
component's own assumption of them. A component can occur several times: with
overlapping requests, and with one request at a time (`serial ...`) where the overlap
breaks a property and the order one after the other keeps it (section 4 names those).

| Property of a suite | Part | What it says there | Bounds |
| --- | --- | --- | --- |
| `FeesAreHeldOnce` | fees | `FrozenBacksFees`, `FeesConserved`, `FeeFollowsRequest`, `RequestsCanEnd`, `VersionNamesFee` | 2 requests, 2 currencies, fees 1 and 2, balance 3, 2 fee versions, 1 other operation |
| | fee policy | also `ChargedAsConfirmed`, `PolicyAudit` | 1 request, 3 policy changes, 2 fee versions, a channel that closes |
| `FrozenIsReserved` | transfers | `MirrorAgrees`, `MoneyConserved`, `PostedOnce` | 3 transfers of 1 or 2, balance 4, 2 administrators |
| | releases | `FrozenIsReserved` | 2 withdrawals, 2 calls, 1 takeover, 1 inexact callback |
| | exact releases | `PaidStaysFrozen` | 2 withdrawals, 2 approvals, 1 call |
| | stages | with the Core's decisions: `LedgerBalanced`, `PaidNeverReleased`, `PublicStatusHonest` | 1 withdrawal, 2 calls, 2 attempts, 1 takeover, 1 inexact callback |
| `AddressesAreOwned` | wallets | `ExposedIsOwned` | 2 keys, 2 requests, 1 sync, 2 faults, 4 addresses |
| | serial wallets | also `SingleUsable`, `ShownIsKept`, `OrphansNeedFaults`, `MirrorAgrees` | 2 keys, 1 request, 2 syncs, 3 faults, 5 addresses |
| | wallet retries | `RetryIsOpen`: a row is usable, being worked on, or taken up by the next request | 1 key, 2 requests, 3 provider failures |
| `ControlsHold` | allowlists | `ControlsHold`: `TokenForOneChange`, `OneActivePerDestination`, `DestinationsAreListed`, `PayoutsRespectLock` | 2 requests, 2 tokens, 2 rows |
| | payments, lock | the same, where withdrawals are paid; where the lock is set | 2 requests, 2 tokens, 2 destinations; 2 requests |
| `DecisionsStand` | fees, transfers, releases, cooling | `DecisionKept`, `OperationKept`, `ReleaseHasEvidence`, `UnlockHasCooled` | as above; cooling: 3 requests, 2 ticks to cool, 4 in all |
| `SessionsAreCurrent` | credentials, recovery, enrolment, serial credentials | `SessionsAreCurrent` | 2 requests, 2 sessions, 2 challenges, 2 reset links, 3 fresh secrets |
| `SecretsAreUsedOnce` | credentials, recovery, enrolment | `CodesSpentOnce`, `LinkUsedOnce` | the same; 2 attempts for a link |
| | passkeys | `LoginsAreOnce`, `HandlesAgree` | 2 requests, 2 challenges, 2 passkeys, 3 sessions |
| `ChangesAreProved` | address | `EmailWasVerified` | 2 requests, 2 changes |
| | serial address, passkeys, credentials | `ChangesAreProved`, `ChangesAreAnnounced`, `CodesAreShown`, `MailIsTrue` | 1 request at a time, 3 changes or challenges, 4 codes |
| `RevokedStaysRevoked` | credentials, passkeys, serial address | `RevokedStays`, `RemovedKeysSignNothing`, `ReplacedChangesStay` | as above |
| `OnlyVerifiedCustomers` | registration | `LinksAreOnce`, `AcceptedIsStored`, `ApprovedCanSignIn`, `IndividualsAreVerified` | 2 browsers, 2 links, 2 keys |
| | serial registration | `NewestLinkWorks` | 1 browser, 3 links |
| | setup, setup link | `PasswordFromLink`, `SessionsAreEnrolled`; `ActiveCanSignIn` | 3 requests, 3 links; 1 link |
| | review, review workers | `ReadyIsFresh`; `ApprovedOnlyGreen` | 1 worker, 2 administrators, 2 events, 2 faults; 2 workers |
| `OnlyCurrentAdministrators` | administrators | `ActiveSuperAdmin`, `SessionsMatchAccess` | 2 administrators, 2 requests, 2 sessions, 2 changes |
| | serial administrators | `SomeoneCanAdminister` | 3 administrators, stale versions |
| | sign-in, sign-in codes | `SessionsAreCurrent`, `TotpIsConfirmed`; `CodesAreOnce` | 2 requests, 2 links, 2 logins; 3 logins |
| `MailsAreCounted` | mail, stalled mail | `MailsAreCounted`: `OutcomeIsTrue`, `DuplicatesNeedFaults`, and `TriesBounded` where no worker stalls | 2 mails, 2 workers, 3 attempts, 2 faults; 1 mail, 3 faults, a stalled worker |
| `StepsAreAllowed` | registration, setup, review, administrators, sign-in, mail | `PasswordIsKept`, `ResendLimit`, `OldEnrolmentFails`, `DecisionIsFinal`, `UpdatesSawTheRow`, `ChangesAreAuthorised`, `LockHolds`, `InvitesArePending`, `OutcomeIsFinal` | as above; stale updates: 3 changes |
| `CompletedIsAccounted` | withdrawal, deposit | a paid order is settled or in review; a completed transfer is credited, in an exception or held | 1 withdrawal; 2 new deposits; 2 calls, a crash or a takeover |
| `QueuesDrain` | withdrawal, mail, review | stages end; a mail is sent or given up; a webhook is followed by a newer result | 2 calls; 2 mails, 2 workers, 1 fault; 1 worker, 2 events, 2 faults, the same configuration |

The first invariant of each component's parts includes its `TypeOK`.

### Bounds

Two accounting calls suffice for a takeover to overlap
the call it replaces, and with two attempts a failure can both be retried and be
final. The second takeover of `withdrawal_races` lets a call be overtaken in one
stage and report its failure in another. Two withdrawals whose totals and a
conversion exceed the balance are the smallest competition for funds; the first
withdrawal is larger, so that taking one cid for the other would show. Three
operations let two of them compete while a third completes and shifts balances.
Two deposits of one hash and a third of its own are all the ways a hash can meet
the unique index. Amounts are small because only comparison and addition are
applied to them.

For the handlers of the custody API two requests are the smallest overlap, and a third
is added where the property needs a step between two others (the setup and the cooling
period). Versions, codes and links are bounded so that a value can be replaced while a
request that read the first one is still on its way. Two allowlist rows or links for one
destination are all a unique index tells apart. Two faults in the mail worker let a
takeover itself fail. `MaxFaults` of the review is below `MaxAttempts` in `liveness`,
since a job that failed every attempt is given up by design; the same run allows a crash
or a takeover, not both, of an accounting call (`OneFault`), and the races of both are
those of `withdrawal_races` and `deposit_races`. It has no historical deposit, whose
callback was answered long ago, and no unverified notice of failure (section 4).

`CHECK_DEADLOCK FALSE` appears where the system may come to rest: every operation,
request, link or order has ended and the bounded supply of new ones is spent. The
withdrawal and deposit instances never rest and are checked for deadlock.

### Fairness

Only `liveness` assumes fairness, stated in `MCLiveness`. The worker polls for ever and
a due row is claimed: weak fairness of `Claim` per row, over all calls. A claimed row is
processed and its failure recorded: weak fairness of these steps per call; crashes and
stops are not fair, only bounded, and they take the row back to what a stale lock
recovers. Cregis repeats a callback until it is answered with success: weak fairness of
the callback actions per order or deposit. Nothing is assumed of customers, the
execute handler, or of the chain's decision. A mail worker polls, sends and records, and
a lock that nobody renews ages. The steps of the identity worker are weakly fair;
webhooks are not. No step of a customer or an administrator is fair: a wallet that
waits for an approval or for a retry is the subject of the invariant `RetryIsOpen`. A fairness
condition names the part it belongs to and is void in the others.

## 4. Disagreements found

Three have a run that shows them:

1. **A submission timeout can leave the row in `executing`**
   (`cregis_handlers.go:914`, `:925`). `CREGIS_DIRECT_ACCOUNTING.md:48` says it
   "remains `exception` with funds frozen". The update runs on the request's
   context and its error is discarded. Funds do stay frozen, and a final callback
   still settles the row; the operator's reconciliation does not accept it.
2. **A credit adjustment may name an account of another currency**
   (`operations.service.ts:897`): a USD credit to the USDT account changes the
   account and not its `CryptoWallet`. The operator's form filters targets, so
   `operations_ledger` uses the pairs the form offers (`FormTargets`).
3. **A repeated callback credits a historical deposit** (`cregis_handlers.go:1195`)
   with no hold and no release, although `CREGIS_DEPOSIT_ACCOUNTING.md:83` says
   that historical deposits are never automatically credited.

Others show when an instance of a suite is given one more request, worker or fault than
the suite gives it. They are why the property concerned is claimed there of one request
at a time, or not at all:

* **Statements after a guard that matched nothing** (section 1). Overlapping requests
  for new recovery codes replace the codes that were shown and show none
  (`customer_security.go:289`); a reset that was overtaken queues the mail that it
  succeeded (`customer_password_recovery.go:256`); a lock change whose code was spent
  answers a conflict and takes effect (`customer_security.go:725`); so do changes of
  address and of passkeys (`customer_security.go:626`, `customer_passkeys.go:493`), and
  a passkey can be added without its notice; an enrolment with a reissued setup link
  makes the customer active without a password (`customer_auth.go:829`); an opened link
  that was replaced cancels its replacement (`customer_password_recovery.go:328`); a
  refused individual application leaves a verification record for a business
  (`customer_registration_staged.go:315`).
* **A check in a query of its own.** The reservation of a USDT withdrawal does not look
  at the lock again (`customer_auth.go:1195`; the Core's payout does); two resends
  within a minute (`customer_registration_staged.go:352`); an approval after a webhook
  took readiness away (`customer_admin.go:495`, `:58`); a setup link sent after the
  setup was completed (`admin_users.go:356`); a login that began before the lock clears
  it (`admin_auth.go:282`); two editors leave an active channel without bank details
  (`channels.controller.ts:305`); two decisions of one Core transfer release what
  another one reserved (`crypto-wallets.service.ts:296`).
* **Custody withdrawals decided in the Core.** Approve, reject and execute of
  `crypto-wallets.service.ts` (`:295`, `:322`, `:381`) do not look at the custody rail, and
  every custody withdrawal has a transfer there: an administrator who approves and executes
  it, with any well-formed hash, has the customer debited for a payout that was never made,
  although `CREGIS_WITHDRAWAL_ACCOUNTING.md:33` says that the provider is queried "before any
  release or settlement". `SpecWithCore` has those decisions: `SettledWasPaid`, `Lifecycle`
  and the refinement fail in it, and the part `stages` of `funds` checks what still holds.
* **Wallets.** Two keys activate two wallets (`cregis_handlers.go:309`); a retry on a
  stale row takes back a verified address (`:362`); a request that dies leaves its row
  in `creating` for ever (`:347`).
* **Identity review.** With two workers one completes the job the other holds
  (`customer_sumsub.go:748`); a late failure gives up a job that was queued again
  (`:806`).
* **Deposits.** A notice of failure is stored without looking up the trade; the callback
  of the completed transfer that follows meets the stored row, is answered with success
  and is never credited (`cregis_handlers.go:1164`, `:1239`).
* **Historical withdrawals.** A stored callback that did not match its order counts as
  evidence of a rejection (`withdrawal-reconciliation-policy.ts:140`).

One more behaviour is stated rather than reported: a completed DEBIT adjustment
leaves the fee that was frozen with it (`operations.service.ts:963`), as the
definition `Held` says. No document promises otherwise.

## 5. Proofs

All theorems hold for every number of withdrawals, deposits, operations, accounts,
mails, wallets, administrators, sessions and requests, and for all amounts, fees and bounds
that satisfy the assumption of the module: `WithdrawalAssumption`, `DepositAssumption` and
`OperationsAssumption`, which the modules assume. The assumption of a module that a suite
instantiates (`ControlsAssumption`, `KycAssumption`, `CredentialsAssumption`, ...) is a
hypothesis of the theorems about it, and TLC checks it as part of the suite's `Instances`.
They ask for natural numbers, fees below totals, finite sets where something
is counted, and distinct names for absent values.

**Withdrawals** (`CregisWithdrawalProofs`). The inductive invariant is
`TypeOK /\ Lifecycle /\ PayoutNeedsReservation`. That paid money is never released
is not inductive: it depends on which custody, queue, Core and order statuses can
occur together. `Lifecycle` states that, in three parts: queue row with Core
records, order with execution, queue row with order. Each step is checked against
each part. From it follow `PaidIsNeverReleased`, `SettledIsPaid`,
`PublicStatusIsHonest` and `ExceptionsBlock`. `MirrorStaysInSync` and
`MoneyIsConserved` add their own one-step argument, since every money movement is
applied to account and mirror alike and what leaves the account is posted.
`LedgerStaysBalanced` reduces every step to one that leaves the money alone or to
`Moves(w, s)`: one Core operation changes its status and its total enters or leaves the
frozen balance with it; the sums over open and settled withdrawals then change by that
total (`LedgerStep`); only the types are needed. `ImplementsFunds` shows that each step is a step of
`WithdrawalFunds` or a stutter.

These theorems are about `Spec`. Three hold for `SpecWithCore` too, where `Lifecycle` does
not, because an operation may be ahead of its queue row. `CInv` keeps its two parts about
the order and replaces the third by `CoreFollows`: a queue row that says a stage is done
has an operation that got there, one way or the other, and perhaps further.
`PaidIsNeverReleasedByCore`, `LedgerBalancedWithCore` and
`StatusHonestWithCore` follow; `SettledIsPaid` does not (section 4).

**Deposits** (`CregisDepositProofs`). The inductive invariant is
`RowsOK /\ StoredIsBacked /\ PostedIsCredited /\ OneCreditPerHash`: rows and calls have
their types; a completed row has a completed trade and an intent has a completed row;
the Core has an operation for exactly the posted intents; and no two of them have one
hash. The last part is what the property says and is not inductive without the others,
because the worker refuses a second credit by looking at its own operations. Every
action is first reduced to one of two kinds of step, one that leaves the credits alone
and the posting, and the invariant is shown for these two. From it follow `Backed`,
`Final` and `ImplementsCredit`, the refinement of `DepositCredit`. `CreditedOnce` adds
`Books`, that account, mirror and journal are the sum over the Core's operations, which
only the posting changes, by one amount. `DepositTypes` contains the bound of the attempt
count. `recordFailure` reads the count and writes it later, so the count alone says
nothing: `Tries` bounds it together with the number of calls that may still write a retry
(`Retriers`), and each takeover adds one.

**Operations** (`OperationsProofs`). The inductive invariant is types, `Shape` and
`ReceiptsUnique`. `Shape` says which accounts an operation of each type names and
in which statuses it can be, without which a posting could credit an account that
does not exist or touch a mirrored one. All actions are reduced to one statement
about a step, `StepOK`, whose central part `RowStep` says that a row is filled
once, changes its status only while it is open, and nothing else. From it follow
`TypesHold`, `ConfirmedFeeIsCharged`, `ReceiptsCreditOnce` and
`SubmissionsAreImmutable`. `WalletStaysMirrored` has the hypothesis `FormsMatch`,
that credits name fiat accounts; finding 2 shows that it is needed.
`FrozenIsAlwaysHeld` shows of every action that the frozen balance of an account moves by
what its one changed row holds more or less (`HeldMoves`). `ExpiredQuotesStayDead` follows
from `StaysDead`: a draft past its window stays one or is cancelled.
`BooksAlwaysMatch` has the invariant `Journaled`, that the journal has the lines of
exactly the completed operations and that each balance is the opening one plus the sum of
its credit lines less that of its debit lines. It rests on `LinesSettle`: for each type of
operation the posted lines balance in every entry and currency, and debit and credit each
account with what the operation takes and gives (`Paid`, `Received`). That source and
target of a conversion differ in currency, part of `Shape`, keeps its two entries apart.

**Withdrawal controls** (`CustomerProofs`). The invariant says what a request
may still hold when its transaction runs (`RequestsOK`), that a grant names a used token
of its purpose and is given once (`GrantsOK`), that two active rows of one destination are
one row (`Unique`), and that a pending unlock was asked for after the lock was set, but
for the time of one request (`LockCools`). From it follow `ControlsAlwaysHold`, the four
properties that `ControlsHold` of the run `funds` checks, and `UnlocksHaveCooled`, the
part of `DecisionsStand` about the lock.

**E-mail** (`EmailOutboxProofs`). That a mail is delivered n + 1 times only by n faults is
not inductive, since a lock taken over leaves two copies. `Potential` bounds the
deliveries, the workers that hold an unsent copy and the further claim that the row allows,
together, by one more than the faults. `MailsAreAlwaysCounted` (`MailsAreCounted` of the
run `back_office`) and `OutcomesAreFinal` (in `StepsAreAllowed`) follow.

**Core transfers** (`FundsProofs`, over an instance of `CryptoTransfers`). `TransfersInv`
says that a transfer and its operation exist together, that wallet and mirror agree, that
the journal has exactly the completed withdrawals, and that finitely many were executed,
so that what left the wallet is a sum. Decisions read the transfer before they write, so
each is shown against a row that may have ended meanwhile. `TransfersAreConserved` and
`EndedTransfersStay` follow.

**Historical withdrawals** (`FundsProofs`). `ReleasesKeepReservations` needs to know of
every row which of operation, accounting row and command can occur together: a linked
operation holds the row's total, and a release has its evidence stored (`ReleaseOK`). For
finitely many withdrawals the frozen balance is then the sum over the open operations.
`PaidIsNotGivenBack` has the hypothesis `MaxInexact = 0`, as the run has: every callback
reports the order as it is. The release compares callbacks with the custody row only.

**Opening fees** (`FundsProofs`). `FeesInv` joins the types, the two sums (frozen, and what
left the customer), request with operation and journal, and the fee versions seen so far
with the one fee each names; `OpeningFeesAreConserved`, `OpeningFeesAreAsQuoted` and
`OpeningDecisionsStand` are its parts and its steps.

**Wallets** (`FundsProofs`). For any number of overlapping requests only ownership can be
said (`AddressesAreTheProjects`, invariant `WalletsInv`): every copy of an address, in a
call, a synchronisation or a row, was confirmed. `FailedWalletsCanBeRetried` has any
number of requests as well, none of which dies: a row in `creating` always has the request
that works on it (`RetryInv`). The rest of `AddressesAreOwned` has one
request at a time, as in the run: while it runs no wallet is usable, the row shows every
address that was returned, and each address without a row costs a fault.

**Administrators** (`BackOfficeProofs`). A request in flight keeps the row it read;
`Became` relates it to the row as it is now: versions only grow, and a row with the version
that was read has the access that was read. With it the count of super administrators in
the updating statement is about the row that is removed, and `SuperAdminRemains`,
`SessionsFollowAccess` and `NoLostUpdates` hold for any number of overlapping requests.
The author's own access is checked when the request begins and not when it commits, so
nothing is proved about authors.

**Identity review** (`BackOfficeProofs`, over an instance of `KycReview`). `KycInv` says that
whatever leads to an approval, a ready verification, a worker's green answer or an
administrator who has checked, rests on a green result that was read; `ApprovalFollowsReview`
and `ReviewDecisionsStand` follow for any number of workers. `ReadyFollowsWebhooks` has one
worker, as the code starts one: while its job is the one it claimed no webhook has come
since it read (`FollowedInv`). A second worker that still holds an old answer breaks it.

**Administrators' credentials** (`BackOfficeProofs`, `AdminAuth`). `AuthInv` ties everything to
`credential_version`: a session, a challenge or a request of the present version was
begun with the stored secrets, the present role and status, and a counter not above the
stored one; nothing is of a version to come. `LocksAndInvitesHold` has one request at a
time, because a login writes the count that it read.

**Customers' credentials** (`CustomerProofs`, `CustomerCredentials`). `CredInv` is the same
relation for sessions, challenges, links and requests on every endpoint. `SpentInv` adds
what became of a code that was spent: it is of an earlier authenticator or batch, or not
above the stored counter, or no more among the unused rows. To keep that when an
authenticator is installed, no code of the authenticator that an enrolment token or a
request of the present version carries may have been spent (`NotSpent`). `LinkInv` says
that a link that set a password is consumed. From them follow `CustomersProveWhatIsStored`,
`RevokedSessionsStay` and `CodesAndLinksAreOnce`.

**Change of address** (`CustomerProofs`, `EmailChange`). `ChangeInv` says that a row that has
cooled was verified, that a request to apply carries such a row, and that neither the address
nor the end of the cooling period of a row changes; `AddressesAreVerified` follows for any
number of requests.

**Passkeys** (`CustomerProofs`, `CustomerPasskeys`). `KeyInv` follows the handle from the
options of a registration to the stored passkey: it is the request's own or the stored one,
and a stored handle stays. With consumed challenges of the sessions it gives `PasskeysHold`.
The type of the row counter needs `StoredOnce`, that the rows stored and the requests still
carrying the answer are no more than the requests (`PasskeyRowsAreTyped`).

**Registration** (`BackOfficeProofs`, `CustomerRegistration`). `RegInv` ties the links to the
applicant (`LinkStates`, `ApplicantOK`): one link is good at a time and one that let a browser
in is consumed. `RegistrationsHold` and `ChosenPasswordsStay` hold for any number of browsers.
`SentLinksWork` has one browser: the cooldown and the link that a request read are then still
so (`OneRegistration`).

**Account setup** (`BackOfficeProofs`, `AccountSetup`). `SetupInv` says that an open enrolment
is of the password and the link that are stored, and numbers the links, so that a request
with an old one matches nothing; `SetupsFollowTheirLink` follows. `SetupsCanSignIn` has one
link in all, and then every enrolment that began confirms unless another one did
(`OneLinkInv`). `OldEnrolmentsFail` has one request at a time (`EnrolsUndisturbed`). Section 4
says what a link issued beside an enrolment does.

**Sums** (`SumsProofs`). The community operator `MapThenSumSet` folds over a set in an
order of its own, so even the sum over one element more needs an induction. The library's
induction theorems take an operator as parameter and cannot be used; `FiniteInduction`
takes the set of the good subsets instead, and finds a smallest bad one by `WFMin`. On it
rest the sum over a set with one element more or less, over a disjoint union, and over a
changed function (`SumWithout`, `SumUnion`, `SumChange`, `SumMove`). The theorems above do
not assume that there are finitely many operations: those that occurred are finitely many
in every reachable state, and their invariants say so.

**Model-checked only.** Liveness (`CompletedIsAccounted`, `QueuesDrain`),
`ReservationsCanEnd` and the part of the suites that uses ENABLED (`RequestsCanEnd`):
fairness and ENABLED are beyond the prover. The invariants and action properties of the
suites `MCFunds`, `MCAccess` and `MCBackOffice` are, but for `RequestsCanEnd`,
conjunctions of component properties over fixed instances. The conjunction itself is
left to the run; each conjunct is proved for every instance, under the hypotheses named
above, but for seven: `SomeoneCanAdminister`, `ChangesAreAuthorised`, `CodesAreShown`,
`MailIsTrue`, `ChangesAreAnnounced`, `ReplacedChangesStay` and `ChangesAreProved` of
`EmailChange` and `CustomerPasskeys`. Overlapping requests break these (section 4), and
TLC checks them for one request at a time: they show that a sequence of complete requests,
in any order, does not.

## 6. Not modelled

* The React client (about 100,000 of the repository's lines): pages that show state and
  send requests. What a page copies and sends later is modelled where the server relies
  on it (`shown` in `Operations`, the quote of `VaOpeningFee`).
* Rates, reconciliation triage, ledger and inbound views: arithmetic on market data and
  reports that only read.
* Edge authentication, the web worker, the D1 gateway, the Cregis client and its egress:
  stateless checks, signatures and transport. Their outcomes are choices of the actions
  that call them.
* Database clients, migrations and migration tools: a batch is atomic here; the schema
  gives status sets and unique indexes.
* The direct opening of customers by an administrator and the USDT fee rule: like the
  modelled setup and fiat rule, not modelled yet.
* The beneficiaries an administrator creates and disables through the Core
  (`beneficiaries.controller.ts:122`, `:148`), which has neither the step-up token nor the
  duplicate check of the customer's allowlist: `ControlsHold` is about the destinations
  that customers list.
* The customer's data export, which spends the TOTP code it is asked with
  (`customer_security.go:793`) by the statement that the modelled step-ups use.
* Scripts and tests.

## 7. Plan

Done: the modules above, in order of the money at stake. Left:

1. Direct opening and the administration of fee rules.
2. A composition of withdrawals, deposits and conversions over one USDT balance.
