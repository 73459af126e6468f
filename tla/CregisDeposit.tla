--------------------------- MODULE CregisDeposit ---------------------------
(***************************************************************************)
(* A USDT deposit, end to end: the callback handler of the Go custody API  *)
(* (cregisDepositCallback in server-go/cmd/api/cregis_handlers.go), the    *)
(* accounting intent it stores, the Core worker that posts it              *)
(* (server/src/deposit-accounting/deposit-accounting.worker.ts) and the    *)
(* reconciliation command for deposits that are older than the queue.      *)
(*                                                                         *)
(* One action is one database transaction or one step between two.  All    *)
(* deposits go to one verified wallet of one customer.  A completed        *)
(* callback is checked against the provider's own trade record, whose      *)
(* outcome is final, so the check and the transaction that stores the      *)
(* deposit are one action.  Time is left out: an intent may be due and a   *)
(* lock may be stale at any moment.                                        *)
(***************************************************************************)
EXTENDS Naturals, Sums

CONSTANTS
    Deposits,      \* deposits; d also names the provider's cid
    TxOf,          \* the transaction hash of a deposit; two may share one
    Amount,        \* amount_minor
    Historical,    \* deposits stored before the accounting queue existed
    Jobs,          \* accounting calls in flight
    NoDeposit,     \* an idle call's deposit
    MaxAttempts,   \* MAX_ATTEMPTS of the worker
    MaxTakeovers,  \* bound: claims taken over from a call still running
    MaxCrashes,    \* bound: accounting calls that die or are stopped
    MaxInexact     \* bound: replayed callbacks with another payload

ASSUME DepositAssumption ==
    /\ NoDeposit \notin Deposits
    /\ DOMAIN TxOf = Deposits
    /\ Amount \in [Deposits -> Nat \ {0}]
    /\ Historical \subseteq Deposits
    /\ \A d, e \in Historical : TxOf[d] = TxOf[e] => d = e
    /\ MaxAttempts \in Nat \ {0}
    /\ MaxTakeovers \in Nat
    /\ MaxCrashes \in Nat
    /\ MaxInexact \in Nat

VARIABLES
    trade,        \* the provider's record of the transfer
    deposit,      \* cregis_deposits.status
    acct,         \* cregis_deposit_accounting.status
    source,       \* cregis_deposit_accounting.enqueue_source
    attempts,     \* cregis_deposit_accounting.attempt_count
    reviewed,     \* deposits an operator released after review
    op,           \* deposits with a completed Core Operation
    account,      \* Core Account: available USDT
    wallet,       \* Core CryptoWallet, the mirror of the account
    clearing,     \* debits posted to platform clearing
    job,          \* what each accounting call is doing
    operational,  \* the customer, KYC and wallet are active
    spent         \* bounded environment choices made so far

moneyVars == <<op, account, wallet, clearing>>
custodyVars == <<trade, deposit, source, reviewed>>
vars == <<trade, deposit, acct, source, attempts, reviewed, op, account,
          wallet, clearing, job, operational, spent>>

IdleJob == [pc |-> "idle", dep |-> NoDeposit, retryable |-> FALSE,
            terminal |-> FALSE]

Init ==
    /\ trade = [d \in Deposits |->
                  IF d \in Historical THEN "completed" ELSE "none"]
    /\ deposit = [d \in Deposits |->
                    IF d \in Historical THEN "completed" ELSE "absent"]
    /\ acct = [d \in Deposits |-> "absent"]
    /\ source = [d \in Deposits |-> "none"]
    /\ attempts = [d \in Deposits |-> 0]
    /\ reviewed = {}
    /\ op = {}
    /\ account = 0
    /\ wallet = 0
    /\ clearing = 0
    /\ job = [k \in Jobs |-> IdleJob]
    /\ operational = TRUE
    /\ spent = [takeovers |-> 0, crashes |-> 0, inexact |-> 0]

-----------------------------------------------------------------------------
(* Provider and callback handler. *)

\* The chain decides a transfer.
DecideTrade(d) ==
    /\ trade[d] = "none"
    /\ \E outcome \in {"completed", "failed"} :
          trade' = [trade EXCEPT ![d] = outcome]
    /\ UNCHANGED <<deposit, acct, source, attempts, reviewed, moneyVars, job,
                   operational, spent>>

\* INSERT OR IGNORE: the cid is new, and so is the hash of a completed one.
Inserts(d) ==
    /\ deposit[d] = "absent"
    /\ trade[d] = "completed" =>
         \A e \in Deposits : deposit[e] = "completed" => TxOf[e] # TxOf[d]

\* The intent of a completed deposit that has none yet, new or stored.
Enqueues(d, row) == acct[d] = "absent" /\ row = "completed"

\* Mutant: the callback is believed without looking up the trade.
MutStoreCallback(d) ==
    /\ trade[d] # "none"
    /\ deposit[d] = "absent"
    /\ deposit' = [deposit EXCEPT ![d] = "completed"]
    /\ acct' = [acct EXCEPT ![d] = "pending"]
    /\ source' = [source EXCEPT ![d] = "callback"]
    /\ UNCHANGED <<trade, attempts, reviewed, moneyVars, job, operational>>

\* Custody row and intent in one transaction.  Callbacks repeat, and an
\* unexpected payload stores the same rows before it is found inexact.  The
\* deposit wallet is active and verified: a callback for another one is
\* refused with 422 and changes nothing.
StoreCallback(d) ==
    LET row == IF Inserts(d) THEN trade[d] ELSE deposit[d] IN
    /\ trade[d] # "none"
    /\ deposit' = [deposit EXCEPT ![d] = row]
    /\ IF Enqueues(d, row)
       THEN /\ acct' = [acct EXCEPT ![d] = "pending"]
            /\ source' = [source EXCEPT ![d] = "callback"]
       ELSE UNCHANGED <<acct, source>>
    /\ UNCHANGED <<trade, attempts, reviewed, moneyVars, job, operational>>

FirstCallback(d) == StoreCallback(d) /\ UNCHANGED spent

\* A failure notice is not looked up at the provider: the first callback of a
\* cid, wrong or early, is stored as failed.
StoreNotice(d) ==
    /\ deposit[d] = "absent"
    /\ deposit' = [deposit EXCEPT ![d] = "failed"]
    /\ UNCHANGED <<trade, acct, source, attempts, reviewed, moneyVars, job,
                   operational>>

\* A callback that does not agree with the trade: an unverified failure notice
\* for a new cid, or other facts, a changed payload, for a stored one.  It is
\* recorded and answered with success.
InexactCallback(d) ==
    /\ spent.inexact < MaxInexact
    /\ spent' = [spent EXCEPT !.inexact = @ + 1]
    /\ \/ StoreNotice(d)
       \/ deposit[d] # "absent" /\ StoreCallback(d)

-----------------------------------------------------------------------------
(* deposit:reconcile, for one exact deposit. *)

Hold(d) ==
    /\ deposit[d] = "completed"
    /\ operational
    /\ acct[d] = "absent"
    /\ acct' = [acct EXCEPT ![d] = "held"]
    /\ source' = [source EXCEPT ![d] = "manual_reconciliation"]
    /\ UNCHANGED <<trade, deposit, attempts, reviewed, moneyVars, job,
                   operational, spent>>

Release(d) ==
    /\ acct[d] = "held"
    /\ source[d] = "manual_reconciliation"
    /\ acct' = [acct EXCEPT ![d] = "pending"]
    /\ reviewed' = reviewed \cup {d}
    /\ UNCHANGED <<trade, deposit, source, attempts, moneyVars, job,
                   operational, spent>>

-----------------------------------------------------------------------------
(* Accounting calls: the polling worker's rows and processDirect. *)

\* Some call still works on d.
Busy(d) == \E k \in Jobs : job[k].dep = d

\* A lock five minutes old: its call is gone, or, a bounded number of times,
\* still running.
StaleLock(d) ==
    IF Busy(d)
    THEN /\ spent.takeovers < MaxTakeovers
         /\ spent' = [spent EXCEPT !.takeovers = @ + 1]
    ELSE UNCHANGED spent

\* Mutant: a stale lock is never taken over.
MutClaim(k, d) ==
    /\ job[k].pc = "idle"
    /\ acct[d] = "pending"
    /\ acct' = [acct EXCEPT ![d] = "processing"]
    /\ job' = [job EXCEPT ![k] = [IdleJob EXCEPT !.pc = "claimed", !.dep = d]]
    /\ UNCHANGED <<custodyVars, attempts, moneyVars, operational, spent>>

Claim(k, d) ==
    /\ job[k].pc = "idle"
    /\ \/ acct[d] = "pending" /\ UNCHANGED spent
       \/ acct[d] = "processing" /\ StaleLock(d)
    /\ acct' = [acct EXCEPT ![d] = "processing"]
    /\ job' = [job EXCEPT ![k] = [IdleJob EXCEPT !.pc = "claimed", !.dep = d]]
    /\ UNCHANGED <<custodyVars, attempts, moneyVars, operational>>

\* claimBatch, its first statement, for a stale row past the batch size.
RequeueStale(d) ==
    /\ acct[d] = "processing"
    /\ StaleLock(d)
    /\ acct' = [acct EXCEPT ![d] = "pending"]
    /\ UNCHANGED <<custodyVars, attempts, moneyVars, job, operational>>

\* An operation with the same reference or the same transaction hash.
Duplicate(d) == \E e \in op : TxOf[e] = TxOf[d]

\* validateCustodyRow and the checks that follow it.
Valid(d) ==
    /\ deposit[d] = "completed"
    /\ operational
    /\ ~Duplicate(d)

\* postOnce found the row in another status: it changes nothing.
Superseded(k) ==
    /\ job[k].pc = "claimed"
    /\ acct[job[k].dep] # "processing"
    /\ job' = [job EXCEPT ![k] = IdleJob]
    /\ UNCHANGED <<custodyVars, acct, attempts, moneyVars, operational, spent>>

\* Mutant: the status update runs after the posting transaction.
MutPost(k) ==
    LET d == job[k].dep IN
    /\ job[k].pc = "claimed"
    /\ Valid(d)
    /\ op' = op \cup {d}
    /\ account' = account + Amount[d]
    /\ wallet' = wallet + Amount[d]
    /\ clearing' = clearing + Amount[d]
    /\ acct' = IF acct[d] = "processing"
               THEN [acct EXCEPT ![d] = "posted"] ELSE acct
    /\ job' = [job EXCEPT ![k] = IdleJob]
    /\ UNCHANGED <<custodyVars, attempts, operational, spent>>

\* postOnce: operation, transfer, journal, both balances and the status.
Post(k) ==
    LET d == job[k].dep IN
    /\ job[k].pc = "claimed"
    /\ acct[d] = "processing"
    /\ Valid(d)
    /\ op' = op \cup {d}
    /\ account' = account + Amount[d]
    /\ wallet' = wallet + Amount[d]
    /\ clearing' = clearing + Amount[d]
    /\ acct' = [acct EXCEPT ![d] = "posted"]
    /\ job' = [job EXCEPT ![k] = IdleJob]
    /\ UNCHANGED <<custodyVars, attempts, operational, spent>>

\* A check fails for good, or the database, the customer's Core record or the
\* clearing account is not available now.
FailPost(k) ==
    /\ job[k].pc = "claimed"
    /\ \E retryable \in BOOLEAN :
          /\ ~retryable => acct[job[k].dep] = "processing"
                             /\ ~Valid(job[k].dep)
          /\ job' = [job EXCEPT ![k] =
                       [@ EXCEPT !.pc = "failed", !.retryable = retryable]]
    /\ UNCHANGED <<custodyVars, acct, attempts, moneyVars, operational, spent>>

\* Mutant: retryable failures are not limited.
MutReadFailure(k) ==
    LET d == job[k].dep IN
    /\ job[k].pc = "failed"
    /\ job' = [job EXCEPT ![k] =
                 IF acct[d] # "processing" THEN IdleJob
                 ELSE [@ EXCEPT !.pc = "recording",
                         !.terminal = ~job[k].retryable]]
    /\ UNCHANGED <<custodyVars, acct, attempts, moneyVars, operational, spent>>

\* recordFailure, its SELECT.
ReadFailure(k) ==
    LET d == job[k].dep IN
    /\ job[k].pc = "failed"
    /\ job' = [job EXCEPT ![k] =
                 IF acct[d] # "processing" THEN IdleJob
                 ELSE [@ EXCEPT !.pc = "recording",
                         !.terminal = \/ ~job[k].retryable
                                      \/ attempts[d] + 1 >= MaxAttempts]]
    /\ UNCHANGED <<custodyVars, acct, attempts, moneyVars, operational, spent>>

\* Mutant: the update does not repeat the status it read.
MutWriteFailure(k) ==
    LET d == job[k].dep IN
    /\ job[k].pc = "recording"
    /\ acct' = [acct EXCEPT ![d] =
                  IF job[k].terminal THEN "exception" ELSE "pending"]
    /\ attempts' = [attempts EXCEPT ![d] = @ + 1]
    /\ job' = [job EXCEPT ![k] = IdleJob]
    /\ UNCHANGED <<custodyVars, moneyVars, operational, spent>>

\* recordFailure, its UPDATE, which repeats the status condition.
WriteFailure(k) ==
    LET d == job[k].dep IN
    /\ job[k].pc = "recording"
    /\ IF acct[d] = "processing"
       THEN /\ acct' = [acct EXCEPT ![d] =
                  IF job[k].terminal THEN "exception" ELSE "pending"]
            /\ attempts' = [attempts EXCEPT ![d] = @ + 1]
       ELSE UNCHANGED <<acct, attempts>>
    /\ job' = [job EXCEPT ![k] = IdleJob]
    /\ UNCHANGED <<custodyVars, moneyVars, operational, spent>>

Stops ==
    /\ spent.crashes < MaxCrashes
    /\ spent' = [spent EXCEPT !.crashes = @ + 1]

\* The worker is stopped before it reached this row.
ReleaseClaim(k) ==
    LET d == job[k].dep IN
    /\ job[k].pc = "claimed"
    /\ Stops
    /\ acct' = [acct EXCEPT ![d] = IF @ = "processing" THEN "pending" ELSE @]
    /\ job' = [job EXCEPT ![k] = IdleJob]
    /\ UNCHANGED <<custodyVars, attempts, moneyVars, operational>>

\* The process dies with the claim: the row stays in processing.
CrashJob(k) ==
    /\ job[k].pc # "idle"
    /\ Stops
    /\ job' = [job EXCEPT ![k] = IdleJob]
    /\ UNCHANGED <<custodyVars, acct, attempts, moneyVars, operational>>

\* The customer or the wallet is suspended or active again.
SetOperational ==
    /\ operational' = ~operational
    /\ UNCHANGED <<custodyVars, acct, attempts, moneyVars, job, spent>>

-----------------------------------------------------------------------------
AccountingCall(k) ==
    \/ \E d \in Deposits : Claim(k, d)
    \/ Superseded(k)
    \/ Post(k)
    \/ FailPost(k)
    \/ ReadFailure(k)
    \/ WriteFailure(k)
    \/ ReleaseClaim(k)
    \/ CrashJob(k)

Next ==
    \/ \E d \in Deposits :
          \/ DecideTrade(d)
          \/ FirstCallback(d)
          \/ InexactCallback(d)
          \/ Hold(d)
          \/ Release(d)
          \/ RequeueStale(d)
    \/ \E k \in Jobs : AccountingCall(k)
    \/ SetOperational

Spec == Init /\ [][Next]_vars

-----------------------------------------------------------------------------
(* Properties. *)

AccountingStatuses ==
    {"absent", "held", "pending", "processing", "posted", "exception"}

\* The types of rows, balances and calls.  The attempt count stays within the
\* limit, but for one failure more per call that was taken over while running.
TypeOK ==
    /\ trade \in [Deposits -> {"none", "completed", "failed"}]
    /\ deposit \in [Deposits -> {"absent", "completed", "failed"}]
    /\ acct \in [Deposits -> AccountingStatuses]
    /\ source \in [Deposits -> {"none", "callback", "manual_reconciliation"}]
    /\ attempts \in [Deposits -> 0 .. MaxAttempts + MaxTakeovers]
    /\ reviewed \subseteq Deposits
    /\ op \subseteq Deposits
    /\ account \in Nat /\ wallet \in Nat /\ clearing \in Nat
    /\ job \in [Jobs -> [pc : {"idle", "claimed", "failed", "recording"},
                         dep : Deposits \cup {NoDeposit},
                         retryable : BOOLEAN, terminal : BOOLEAN]]
    /\ \A k \in Jobs : job[k].pc = "idle" <=> job[k].dep = NoDeposit
    /\ operational \in BOOLEAN
    /\ spent \in [takeovers : 0 .. MaxTakeovers, crashes : 0 .. MaxCrashes,
                  inexact : 0 .. MaxInexact]

\* Exactly once: the intent is posted if and only if the Core has the
\* operation, and account, mirror and journal hold exactly the posted
\* deposits, however many calls, takeovers and repeated callbacks there were.
CreditedExactlyOnce ==
    /\ op = {d \in Deposits : acct[d] = "posted"}
    /\ account = SumOver(Amount, op)
    /\ wallet = account
    /\ clearing = account

\* Customer money is backed by the chain: a credited transfer is completed at
\* the provider, and no transaction hash is credited twice.
CreditIsBacked ==
    /\ \A d \in op : trade[d] = "completed"
    /\ \A d, e \in op : TxOf[d] = TxOf[e] => d = e

\* An accounting state exists for completed custody rows only, as the runbook's
\* table of public states has it; posted and exception are final: neither a
\* late failure report, nor a repeated callback, nor the reconciliation
\* command moves them.
FinalStaysFinal ==
    [][\A d \in Deposits :
         /\ acct'[d] # "absent" => deposit'[d] = "completed"
         /\ acct[d] \in {"posted", "exception"} => acct'[d] = acct[d]]_vars

\* "Historical deposits are never automatically credited": only one that an
\* operator held, reviewed and released is posted.
HistoricalNeedsRelease == op \cap Historical \subseteq reviewed

\* The transfer is credited, in an exception for review or held by an operator,
\* or another transfer of its transaction is stored.
Accounted(d) ==
    \/ acct[d] \in {"posted", "exception", "held"}
    \/ \E e \in Deposits \ {d} : TxOf[e] = TxOf[d] /\ deposit[e] = "completed"

Confirmed == {d \in Deposits : trade[d] = "completed"}

Promise == INSTANCE DepositCredit WITH
             confirmed <- Confirmed, credited <- op, balance <- account

\* The deposit path implements the promise of DepositCredit: whatever callbacks,
\* takeovers, failures and commands do, the balance moves only by crediting a
\* confirmed transfer for the first time.
RefinesCredit == Promise!Spec
=============================================================================
