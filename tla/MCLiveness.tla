----------------------------- MODULE MCLiveness -----------------------------
(***************************************************************************)
(* What must happen in the end, with the fairness of each component.  As   *)
(* in MCFunds, a behaviour runs one component, and the variables of the    *)
(* others are None.                                                        *)
(***************************************************************************)
EXTENDS Integers, TLC

CONSTANTS None, OtherCid, w1, d1, d2, j1, j2, t1, t2, k1, k2

VARIABLES
  part,   \* the component that runs
  custody, cid, acct, attempts, op, account, wallet, journal, job, exec, order,
  events, verified, operational, spent,
  trade, deposit, intent, source, tries, reviewed, posted, balance, mirrored,
  clearing, call, enabled, used,
  row, todo, current, accepted, sends, faults, stops,
  provider, sent, ver, claimed, sync, worker, token, kyc, admin, kycFaults,
  syncs, greenRead

-----------------------------------------------------------------------------
(* The instances.                                                          *)

\* A withdrawal with two workers, of which one may die or be overtaken.
W == INSTANCE CregisWithdrawal WITH
       Withdrawals <- {w1}, NoCid <- None, Jobs <- {j1, j2},
       Total <- (w1 :> 3), Fee <- (w1 :> 1), OpeningBalance <- 3,
       Conversions <- {}, MaxAttempts <- 2, MaxTakeovers <- 1, MaxInexact <- 0,
       MaxCrashes <- 1

\* Two new deposits, with the same faults.
D == INSTANCE CregisDeposit WITH
       acct <- intent, attempts <- tries, op <- posted, account <- balance,
       wallet <- mirrored, job <- call, operational <- enabled, spent <- used,
       Deposits <- {d1, d2}, TxOf <- (d1 :> t1 @@ d2 :> t2),
       Amount <- (d1 :> 2 @@ d2 :> 1), Historical <- {}, Jobs <- {j1, j2},
       NoDeposit <- None, MaxAttempts <- 2, MaxTakeovers <- 1, MaxCrashes <- 1,
       MaxInexact <- 0

\* Two mails, with workers that die or stall.
E == INSTANCE EmailOutbox WITH
       tries <- sends,
       Mails <- {k1, k2}, Workers <- {j1, j2}, BatchSize <- 2, MaxAttempts <- 2,
       Faults <- {"crash", "stall"}, MaxFaults <- 1, MaxStops <- 1

\* One worker, with fewer failures than a job has attempts and one configuration.
Y == INSTANCE KycReview WITH
       job <- sync, faults <- kycFaults,
       Workers <- {j1}, Admins <- {d1}, Events <- {k1, k2}, MaxAttempts <- 3,
       MaxFaults <- 2, MaxSyncs <- 0, Reconfigured <- FALSE

ASSUME Instances ==
  /\ E!EmailOutboxAssumption /\ Y!KycAssumption

-----------------------------------------------------------------------------
(* One behaviour runs one instance.                                        *)

withdrawalVars == <<custody, cid, acct, attempts, op, account, wallet, journal,
                    job, exec, order, events, verified, operational, spent>>
depositVars == <<trade, deposit, intent, source, tries, reviewed, posted, balance,
                 mirrored, clearing, call, enabled, used>>
mailVars == <<row, todo, current, accepted, sends, faults, stops>>
kycVars == <<provider, sent, ver, claimed, sync, worker, token, kyc, admin,
             kycFaults, syncs, greenRead>>
vars == <<part, withdrawalVars, depositVars, mailVars, kycVars>>

NoWithdrawal ==
  /\ custody = None /\ cid = None /\ acct = None /\ attempts = None /\ op = None
  /\ account = None /\ wallet = None /\ journal = None /\ job = None
  /\ exec = None /\ order = None /\ events = None /\ verified = None
  /\ operational = None /\ spent = None
NoDeposit ==
  /\ trade = None /\ deposit = None /\ intent = None /\ source = None
  /\ tries = None /\ reviewed = None /\ posted = None /\ balance = None
  /\ mirrored = None /\ clearing = None /\ call = None /\ enabled = None
  /\ used = None
NoMail ==
  /\ row = None /\ todo = None /\ current = None /\ accepted = None
  /\ sends = None /\ faults = None /\ stops = None
NoKyc ==
  /\ provider = None /\ sent = None /\ ver = None /\ claimed = None
  /\ sync = None /\ worker = None /\ token = None /\ kyc = None
  /\ admin = None /\ kycFaults = None /\ syncs = None /\ greenRead = None

Init ==
  \/ part = "withdrawal" /\ W!Init /\ NoDeposit /\ NoMail /\ NoKyc
  \/ part = "deposit" /\ D!Init /\ NoWithdrawal /\ NoMail /\ NoKyc
  \/ part = "mail" /\ E!Init /\ NoWithdrawal /\ NoDeposit /\ NoKyc
  \/ part = "review" /\ Y!Init /\ NoWithdrawal /\ NoDeposit /\ NoMail

\* A step of the component that runs.
Withdrawal(A) == /\ part = "withdrawal" /\ part' = part /\ A
                 /\ UNCHANGED <<depositVars, mailVars, kycVars>>
Deposit(A) == /\ part = "deposit" /\ part' = part /\ A
              /\ UNCHANGED <<withdrawalVars, mailVars, kycVars>>
Mail(A) == /\ part = "mail" /\ part' = part /\ A
           /\ UNCHANGED <<withdrawalVars, depositVars, kycVars>>
Review(A) == /\ part = "review" /\ part' = part /\ A
             /\ UNCHANGED <<withdrawalVars, depositVars, mailVars>>

\* Bound: a worker dies or is overtaken, in one behaviour not both.
OneFault(bounds) == bounds.crashes + bounds.takeovers <= 1

Next == \/ Withdrawal(W!Next /\ OneFault(spent'))
        \/ Deposit(D!Next /\ OneFault(used'))
        \/ Mail(E!Next)
        \/ Review(Y!Next)

(***************************************************************************)
(* Fairness.  Withdrawals: the worker's run loop polls for ever and claims *)
(* due or stale rows; a claimed row is processed and a failure recorded    *)
(* unless the process dies; Cregis repeats a final callback until it is    *)
(* accepted.  Deposits: Cregis repeats a callback until it is answered     *)
(* with success, which a retryable result never is, and each repetition    *)
(* calls the Core; nothing is asked of a historical deposit, whose         *)
(* callback was answered long ago.  Mails and reviews: the workers poll    *)
(* and handle what they claimed, and time passes.  One component runs in a *)
(* behaviour, so weak fairness of a disjunction over components is weak    *)
(* fairness of each.  No step of a customer or an administrator is fair.   *)
(***************************************************************************)
Fairness ==
  /\ WF_withdrawalVars(/\ part = "withdrawal"
                       /\ \E k \in {j1, j2}, s \in W!Stages : W!Claim(k, w1, s)
                       /\ OneFault(spent'))
  /\ WF_withdrawalVars(part = "withdrawal" /\ W!VerifyCallback(w1))
  /\ WF_withdrawalVars(part = "withdrawal" /\ W!StoreCallback(w1))
  /\ \A k \in {j1, j2} :
       /\ WF_withdrawalVars(part = "withdrawal" /\ W!Process(k))
       /\ WF_withdrawalVars(part = "withdrawal" /\ W!ReadFailure(k))
       /\ WF_withdrawalVars(part = "withdrawal" /\ W!WriteFailure(k))
  /\ \A d \in {d1, d2} :
       /\ WF_depositVars(part = "deposit" /\ D!FirstCallback(d))
       /\ WF_depositVars(/\ part = "deposit"
                         /\ \E k \in {j1, j2} : D!Claim(k, d)
                         /\ OneFault(used'))
  /\ \A k \in {j1, j2} :
       /\ WF_depositVars(/\ part = "deposit"
                         /\ D!Superseded(k) \/ D!Post(k) \/ D!FailPost(k))
       /\ WF_depositVars(part = "deposit" /\ D!ReadFailure(k))
       /\ WF_depositVars(part = "deposit" /\ D!WriteFailure(k))
  /\ \A k \in {j1, j2} :
       /\ WF_mailVars(part = "mail" /\ E!Claim(k))
       /\ WF_mailVars(part = "mail" /\ (E!Send(k) \/ E!Record(k)))
  /\ \A m \in {k1, k2} : WF_mailVars(part = "mail" /\ E!LockAges(m))
  /\ WF_kycVars(part = "review" /\ Y!WorkerStep(j1))

FairSpec == Init /\ [][Next]_vars /\ Fairness

-----------------------------------------------------------------------------
\* The provider completed the payout w1, or the transfer d.
Completed(d) ==
  \/ part = "withdrawal" /\ order[w1] = "completed"
  \/ part = "deposit" /\ trade[d] = "completed"

Accounted(d) ==
  \/ part = "withdrawal" /\ W!Accounted(w1)
  \/ part = "deposit" /\ D!Accounted(d)

\* What the provider completed is accounted for.  A payout that reached the chain is
\* settled or held for review, whether the execute handler lived to store the cid or
\* not; the first completed transfer of a transaction is credited, in an exception or
\* held, in spite of crashes between callback, claim and posting.
CompletedIsAccounted == \A d \in {d1, d2} : Completed(d) ~> Accounted(d)

\* Work that is due: a queued accounting stage, a mail to be sent (of two that nothing
\* tells apart), a webhook no result has followed.
Waiting ==
  \/ part = "withdrawal" /\ W!Queued(w1)
  \/ part = "mail" /\ row[k1].status = "PENDING"
  \/ part = "review" /\ ~Y!Followed

Done ==
  \/ part = "withdrawal" /\ ~W!Queued(w1)
  \/ part = "mail" /\ E!Ended(k1)
  \/ part = "review" /\ Y!Followed

\* Queued work ends in spite of dead workers, stale locks and failures: an accounting
\* stage succeeds or becomes an exception, a mail is sent or given up, and a webhook is
\* followed by a newer result.
QueuesDrain == Waiting ~> Done
=============================================================================
