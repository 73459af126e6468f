----------------------- MODULE HistoricalWithdrawals -----------------------
(***************************************************************************)
(* Withdrawals of the time before the accounting queue: custody rows       *)
(* without an accounting intent, some with a reservation in the Core.  An  *)
(* operator closes one whose payout Cregis rejected or failed with two     *)
(* commands, hold and release (withdrawal-reconciliation.ts), and the      *)
(* accounting worker then gives the reservation back.  Callbacks keep      *)
(* arriving meanwhile.                                                     *)
(*                                                                         *)
(* Every command and every accounting step is one serializable             *)
(* transaction that locks the custody row.                                 *)
(***************************************************************************)
EXTENDS Integers, FiniteSets, Sums

CONSTANTS Withdrawals,   \* w also names the provider's cid for w
          NoCid,
          Total,         \* amount_text of the custody row
          Reserved,      \* amounts a Core operation may hold for a withdrawal
          Approvals,     \* approver, reason and backup of a command
          Jobs,          \* accounting calls in flight
          MaxInexact,    \* bound: callbacks that do not match the order
          MaxTakeovers   \* bound: claims of rows another call still works on

HistoricalAssumption ==
  /\ IsFiniteSet(Withdrawals) /\ NoCid \notin Withdrawals
  /\ Total \in Nat \ {0} /\ Reserved \subseteq Nat \ {0}
  /\ MaxInexact \in Nat /\ MaxTakeovers \in Nat

VARIABLES
  custody,   \* cregis_withdrawals.status
  cid,       \* cregis_withdrawals.cregis_cid
  order,     \* the provider's payout order
  events,    \* payout events stored under the withdrawal's cid
  acct,      \* cregis_withdrawal_accounting.status
  link,      \* is the intent linked to the Core operation?
  approval,  \* enqueued_by, reconciliation_reason and backup_sha256
  op,        \* Core Operation and CryptoTransfer: status and reserved amount
  account,   \* Core Account
  wallet,    \* Core CryptoWallet, its mirror
  job,       \* the withdrawal an accounting call has claimed
  spent      \* bounded environment choices made so far

vars == <<custody, cid, order, events, acct, link, approval, op, account,
          wallet, job, spent>>
custodyVars == <<custody, cid, order, events>>
queueVars   == <<acct, link, approval, job>>
coreVars    == <<op, account, wallet>>

Open          == {"SUBMITTED", "PROCESSING"}
FinalStatuses == {"rejected", "completed", "failed"}
LiveCustody   == {"submitted_to_cregis", "executing", "exception"}
OpenOps == {w \in Withdrawals : op[w].status \in Open}
NoApproval == "none"

\* What the open operations hold.
Held == SumOver([w \in Withdrawals |-> op[w].amount], OpenOps)

\* What the time before the queue may have left: rows in flight, and rows an
\* administrator or an earlier version of the callback had ended.
Init ==
  /\ custody \in [Withdrawals -> LiveCustody \cup FinalStatuses]
  /\ cid \in [Withdrawals -> Withdrawals \cup {NoCid}]
  /\ order \in [Withdrawals -> {"none", "pending"} \cup FinalStatuses]
  /\ \A w \in Withdrawals :
       /\ cid[w] \in {NoCid, w}
       /\ custody[w] \in {"submitted_to_cregis", "completed", "failed"} => cid[w] = w
       /\ IF custody[w] \in FinalStatuses /\ cid[w] = w THEN order[w] = custody[w]
          ELSE IF custody[w] = "rejected" THEN order[w] = "none"
          ELSE IF cid[w] = w THEN order[w] = "pending"
          ELSE order[w] \in {"none", "pending"}
  /\ events = [w \in Withdrawals |-> {}]
  /\ acct = [w \in Withdrawals |-> "absent"]
  /\ link = [w \in Withdrawals |-> FALSE]
  /\ approval = [w \in Withdrawals |-> NoApproval]
  /\ op \in [Withdrawals -> [status : Open, amount : Reserved]
                             \cup {[status |-> "none", amount |-> 0]}]
  /\ account = [available |-> 0, frozen |-> Held]
  /\ wallet \in {account, [account EXCEPT !.frozen = 0]}
  /\ job = [k \in Jobs |-> NoCid]
  /\ spent = [inexact |-> 0, takeovers |-> 0]

-----------------------------------------------------------------------------
(* The provider (external) and its callbacks                               *)

DecideOrder(w) ==
  /\ order[w] = "pending"
  /\ \E s \in FinalStatuses : order' = [order EXCEPT ![w] = s]
  /\ UNCHANGED <<custody, cid, events, queueVars, coreVars, spent>>

\* cregisPayoutCallback, exact: no intent is approved here, so the row keeps its
\* status; the event is stored and the cid bound.
StoreCallback(w) ==
  /\ order[w] \in FinalStatuses
  /\ events' = [events EXCEPT ![w] = @ \cup {order[w]}]
  /\ cid' = [cid EXCEPT ![w] = IF custody[w] \in LiveCustody THEN w ELSE @]
  /\ UNCHANGED <<custody, order, queueVars, coreVars, spent>>

\* Not exact: the payload disagrees with the row or with the queried order.
InexactCallback(w, s) ==
  /\ order[w] # "none" /\ spent.inexact < MaxInexact
  /\ spent' = [spent EXCEPT !.inexact = @ + 1]
  /\ events' = [events EXCEPT ![w] = @ \cup {s}]
  /\ custody' = [custody EXCEPT ![w] = IF @ \in LiveCustody THEN "exception" ELSE @]
  /\ UNCHANGED <<cid, order, queueVars, coreVars>>

-----------------------------------------------------------------------------
(* The reconciliation command                                              *)

MutResolution(w) == IF "rejected" \in events[w] THEN "rejected" ELSE "failed"

\* withdrawalTerminalResolution: exactly one family of callbacks, and not 6.
\* The events are those stored under the row's cid.
Resolution(w) ==
  IF cid[w] = w /\ events[w] \in {{"rejected"}, {"failed"}}
  THEN CHOOSE s \in events[w] : TRUE
  ELSE "blocked"

MutCoreMatches(w) ==
  op[w].status # "none" =>
    /\ op[w].status \in Open
    /\ account = wallet /\ account.frozen >= Total

\* validateCoreMatch, for a withdrawal that has a Core operation.
CoreMatches(w) ==
  op[w].status # "none" =>
    /\ op[w].status \in Open
    /\ op[w].amount = Total
    /\ account = wallet /\ account.frozen >= Total

\* validateHistoricalWithdrawalRelease.  Only a completed row has a transaction hash.
Releasable(w) ==
  /\ Resolution(w) # "blocked"
  /\ custody[w] \in {"exception", "submitted_to_cregis", Resolution(w)}
  /\ CoreMatches(w)

Hold(w, a) ==
  /\ acct[w] = "absent"
  /\ Releasable(w)
  /\ acct' = [acct EXCEPT ![w] = "held"]
  /\ link' = [link EXCEPT ![w] = op[w].status # "none"]
  /\ approval' = [approval EXCEPT ![w] = a]
  /\ UNCHANGED <<custodyVars, job, coreVars, spent>>

\* release: the same approval, the same link, and everything validated again.
Release(w, a) ==
  /\ acct[w] = "held" /\ approval[w] = a
  /\ Releasable(w)
  /\ link[w] = (op[w].status # "none")
  /\ custody' = [custody EXCEPT ![w] = Resolution(w)]
  /\ acct' = [acct EXCEPT ![w] = "pending_release"]
  /\ UNCHANGED <<cid, order, events, link, approval, job, coreVars, spent>>

-----------------------------------------------------------------------------
(* The accounting worker                                                   *)

\* A due row, or one whose lock is stale because its owner died or is slow.
Claim(k, w) ==
  /\ job[k] = NoCid
  /\ \/ acct[w] = "pending_release" /\ UNCHANGED spent
     \/ /\ acct[w] = "releasing" /\ spent.takeovers < MaxTakeovers
        /\ spent' = [spent EXCEPT !.takeovers = @ + 1]
  /\ acct' = [acct EXCEPT ![w] = "releasing"]
  /\ job' = [job EXCEPT ![k] = w]
  /\ UNCHANGED <<custodyVars, link, approval, coreVars>>

MutMayRelease(w) == custody[w] \in {"rejected", "failed"}

\* validateCustody and validateFinalCallbackEvidence.
MayRelease(w) ==
  /\ custody[w] \in {"rejected", "failed"}
  /\ cid[w] = w => events[w] \in {{"rejected"}, {"failed"}}

HasFunds(w) ==
  op[w].status \in Open /\ wallet.frozen >= Total /\ account.frozen >= Total

MutUnfreeze(b) == [b EXCEPT !.available = @ + Total, !.frozen = @ - Total - 1]
Unfreeze(b) == [b EXCEPT !.available = @ + Total, !.frozen = @ - Total]

\* releaseFunds: without a link there is nothing to give back.
ReleaseFunds(k, w) ==
  /\ job[k] = w /\ acct[w] = "releasing"
  /\ MayRelease(w)
  /\ IF link[w]
     THEN /\ HasFunds(w)
          /\ account' = Unfreeze(account) /\ wallet' = Unfreeze(wallet)
          /\ op' = [op EXCEPT ![w].status =
                      IF @ = "SUBMITTED" THEN "REJECTED" ELSE "FAILED"]
     ELSE UNCHANGED coreVars
  /\ acct' = [acct EXCEPT ![w] = "released"]
  /\ job' = [job EXCEPT ![k] = NoCid]
  /\ UNCHANGED <<custodyVars, link, approval, spent>>

\* What the transaction refuses is no transient error: the row goes to exception,
\* unless another call has finished it.
FailStage(k, w) ==
  /\ job[k] = w
  /\ acct[w] = "releasing" => ~(MayRelease(w) /\ (link[w] => HasFunds(w)))
  /\ acct' = [acct EXCEPT ![w] = IF @ = "releasing" THEN "exception" ELSE @]
  /\ job' = [job EXCEPT ![k] = NoCid]
  /\ UNCHANGED <<custodyVars, link, approval, coreVars, spent>>

\* A transient failure, or the worker stops: the row is due again, or, when
\* the failure was the last of its attempts, in exception.
GiveUp(k, w) ==
  /\ job[k] = w
  /\ \E next \in {"pending_release", "exception"} :
       acct' = [acct EXCEPT ![w] = IF @ = "releasing" THEN next ELSE @]
  /\ job' = [job EXCEPT ![k] = NoCid]
  /\ UNCHANGED <<custodyVars, link, approval, coreVars, spent>>

Next ==
  \/ \E w \in Withdrawals :
       \/ DecideOrder(w) \/ StoreCallback(w)
       \/ \E s \in FinalStatuses : InexactCallback(w, s)
       \/ \E a \in Approvals : Hold(w, a) \/ Release(w, a)
       \/ \E k \in Jobs :
            Claim(k, w) \/ ReleaseFunds(k, w) \/ FailStage(k, w) \/ GiveUp(k, w)

Spec == Init /\ [][Next]_vars

-----------------------------------------------------------------------------
(* Properties                                                              *)

Balance == [available : Nat, frozen : Nat]

\* The types of the rows; a balance the worker drove below zero would leave Nat.
TypeOK ==
  /\ custody \in [Withdrawals -> LiveCustody \cup FinalStatuses]
  /\ cid \in [Withdrawals -> Withdrawals \cup {NoCid}]
  /\ order \in [Withdrawals -> {"none", "pending"} \cup FinalStatuses]
  /\ events \in [Withdrawals -> SUBSET FinalStatuses]
  /\ acct \in [Withdrawals -> {"absent", "held", "pending_release", "releasing",
                               "released", "exception"}]
  /\ link \in [Withdrawals -> BOOLEAN]
  /\ approval \in [Withdrawals -> Approvals \cup {NoApproval}]
  /\ op \in [Withdrawals -> [status : Open \cup {"none", "REJECTED", "FAILED"},
                             amount : Nat]]
  /\ account \in Balance /\ wallet \in Balance
  /\ job \in [Jobs -> Withdrawals \cup {NoCid}]
  /\ spent \in [inexact : 0 .. MaxInexact, takeovers : 0 .. MaxTakeovers]

\* What is frozen is what the open operations reserved: a release gives back exactly
\* the reservation of its withdrawal, once, and never that of another one, also when
\* the Core had reserved another amount or two calls work on the row.
FrozenIsReserved == account.frozen = Held

\* Money is given back only while the stored callbacks agree with the custody status
\* the command wrote: a callback of another kind that arrives between the command
\* and the worker stops the release.
ReleaseHasEvidence ==
  \A w \in Withdrawals : acct'[w] = "released" /\ acct[w] # "released" =>
    events[w] = {custody[w]}

\* A payout that took place is never also given back to the customer
\* (CREGIS_WITHDRAWAL_ACCOUNTING.md:33: the order is queried before any release, and
\* a callback that does not match it leaves the Core freeze unchanged).
PaidStaysFrozen ==
  \A w \in Withdrawals :
    order[w] = "completed" => op[w].status \notin {"REJECTED", "FAILED"}

=============================================================================
