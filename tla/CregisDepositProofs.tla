------------------------ MODULE CregisDepositProofs ------------------------
(***************************************************************************)
(* Proofs about CregisDeposit, for any number of deposits and accounting   *)
(* calls, any amounts, hashes and bounds.                                  *)
(***************************************************************************)
EXTENDS CregisDeposit, SumsProofs, TLAPS

JobType == [pc : {"idle", "claimed", "failed", "recording"},
            dep : Deposits \cup {NoDeposit},
            retryable : BOOLEAN, terminal : BOOLEAN]

\* A call that works has a deposit.
JobOK(r) == r \in JobType /\ (r.pc = "idle" <=> r.dep = NoDeposit)

\* The rows and calls have their types; the attempt count is left out, since its
\* bound counts calls.
RowsOK ==
    /\ trade \in [Deposits -> {"none", "completed", "failed"}]
    /\ deposit \in [Deposits -> {"absent", "completed", "failed"}]
    /\ acct \in [Deposits -> AccountingStatuses]
    /\ job \in [Jobs -> JobType]
    /\ \A k \in Jobs : JobOK(job[k])

\* A completed custody row is backed by a completed trade, and an intent by a
\* completed custody row.
StoredIsBacked ==
    \A d \in Deposits :
      /\ deposit[d] = "completed" => trade[d] = "completed"
      /\ acct[d] # "absent" => deposit[d] = "completed"

\* The Core has an operation for exactly the posted intents.
PostedIsCredited == op = {d \in Deposits : acct[d] = "posted"}

OneCreditPerHash == \A d, e \in op : TxOf[d] = TxOf[e] => d = e

IInv == RowsOK /\ StoredIsBacked /\ PostedIsCredited /\ OneCreditPerHash

-----------------------------------------------------------------------------
\* An idle call is well formed, and so are the records a call goes through.
LEMMA JobRecords ==
    /\ JobOK(IdleJob)
    /\ \A d \in Deposits : JobOK([IdleJob EXCEPT !.pc = "claimed", !.dep = d])
    /\ \A r \in JobType, b \in BOOLEAN : JobOK(r) /\ r.pc # "idle" =>
         /\ JobOK([r EXCEPT !.pc = "failed", !.retryable = b])
         /\ JobOK([r EXCEPT !.pc = "recording", !.terminal = b])
  BY DepositAssumption DEF JobOK, JobType, IdleJob

\* A step that replaces the record of one call keeps the calls well formed.
LEMMA JobUpdate ==
    ASSUME RowsOK, NEW k \in Jobs, NEW r, JobOK(r), job' = [job EXCEPT ![k] = r]
    PROVE  job' \in [Jobs -> JobType] /\ \A j \in Jobs : JobOK(job'[j])
  BY DEF RowsOK, JobOK

\* A call that is not idle works on a deposit.
LEMMA BusyDeposit ==
    ASSUME RowsOK, NEW k \in Jobs, job[k].pc # "idle"
    PROVE  job[k].dep \in Deposits
  BY DEF RowsOK, JobOK, JobType

\* No row, call or credit exists before the first callback.
THEOREM InitInv == Init => IInv
  <1> SUFFICES ASSUME Init PROVE IInv
    OBVIOUS
  <1>1. RowsOK
    BY JobRecords DEF Init, RowsOK, AccountingStatuses, JobOK
  <1>2. StoredIsBacked /\ PostedIsCredited /\ OneCreditPerHash
    BY DEF Init, StoredIsBacked, PostedIsCredited, OneCreditPerHash
  <1> QED
    BY <1>1, <1>2 DEF IInv

-----------------------------------------------------------------------------
(* A step is safe when it moves the four money-relevant variables only in  *)
(* these ways; every action but the posting one is of the first kind.      *)

\* Nothing is credited; trades and custody rows only become final, and an intent
\* appears for a completed row only and neither becomes nor ceases to be posted.
Quiet ==
    /\ op' = op
    /\ \A d \in Deposits :
         /\ trade[d] # "none" => trade'[d] = trade[d]
         /\ deposit[d] # "absent" => deposit'[d] = deposit[d]
         /\ deposit'[d] = "completed" => trade'[d] = "completed"
         /\ acct'[d] # "absent" => deposit'[d] = "completed"
         /\ acct[d] \in {"posted", "exception"} => acct'[d] = acct[d]
         /\ acct'[d] = "posted" => acct[d] = "posted"

\* A quiet step that keeps the types keeps the invariant.
LEMMA QuietKeeps ==
    ASSUME IInv, RowsOK', Quiet
    PROVE  IInv'
  BY DEF IInv, Quiet, StoredIsBacked, PostedIsCredited, OneCreditPerHash

\* The provider and the callback handler.
LEMMA CallbackQuiet ==
    ASSUME IInv, NEW d \in Deposits,
           DecideTrade(d) \/ FirstCallback(d) \/ InexactCallback(d)
    PROVE  RowsOK' /\ Quiet /\ account' = account
  <1> USE DEF IInv
  <1>1. CASE DecideTrade(d)
    BY <1>1 DEF DecideTrade, RowsOK, Quiet, StoredIsBacked, moneyVars
  <1>2. ASSUME StoreCallback(d) PROVE RowsOK' /\ Quiet /\ account' = account
    <2> DEFINE row == IF Inserts(d) THEN trade[d] ELSE deposit[d]
    <2>1. /\ row \in {"absent", "completed", "failed"}
          /\ row = "completed" => trade[d] = "completed"
          /\ deposit[d] # "absent" => row = deposit[d]
      BY <1>2 DEF StoreCallback, Inserts, RowsOK, StoredIsBacked
    <2>2. /\ deposit' = [deposit EXCEPT ![d] = row]
          /\ acct' = IF acct[d] = "absent" /\ row = "completed"
                     THEN [acct EXCEPT ![d] = "pending"] ELSE acct
          /\ UNCHANGED <<trade, op, account, job>>
      BY <1>2 DEF StoreCallback, Enqueues, moneyVars
    <2> HIDE DEF row
    <2>3. RowsOK'
      BY <2>1, <2>2 DEF RowsOK, AccountingStatuses
    <2>4. Quiet
      BY <2>1, <2>2 DEF RowsOK, Quiet, StoredIsBacked
    <2> QED
      BY <2>2, <2>3, <2>4
  <1>3. ASSUME StoreNotice(d) PROVE RowsOK' /\ Quiet /\ account' = account
    BY <1>3 DEF StoreNotice, RowsOK, Quiet, StoredIsBacked, moneyVars
  <1> QED
    BY <1>1, <1>2, <1>3 DEF FirstCallback, InexactCallback

\* A step that changes only the intent of one deposit, between open statuses or
\* from absent, is quiet.
LEMMA IntentQuiet ==
    ASSUME IInv, NEW d \in Deposits,
           NEW s \in {"held", "pending", "processing", "exception"},
           deposit[d] = "completed", acct[d] \notin {"posted", "exception"},
           acct' = [acct EXCEPT ![d] = s], UNCHANGED <<trade, deposit, op>>
    PROVE  Quiet /\ acct' \in [Deposits -> AccountingStatuses]
  BY DEF IInv, RowsOK, Quiet, StoredIsBacked, AccountingStatuses

\* A step that changes none of them is quiet.
LEMMA IdleQuiet ==
    ASSUME IInv, UNCHANGED <<trade, deposit, acct, op>>
    PROVE  Quiet
  BY DEF IInv, Quiet, StoredIsBacked

\* The reconciliation command, stale locks and suspension.
LEMMA CommandQuiet ==
    ASSUME IInv, NEW d \in Deposits, Hold(d) \/ Release(d) \/ RequeueStale(d)
    PROVE  RowsOK' /\ Quiet /\ account' = account
  <1>1. /\ deposit[d] = "completed" /\ acct[d] \notin {"posted", "exception"}
        /\ \E s \in {"held", "pending"} : acct' = [acct EXCEPT ![d] = s]
        /\ UNCHANGED <<trade, deposit, op, account, job>>
    BY DEF Hold, Release, RequeueStale, IInv, StoredIsBacked, custodyVars, moneyVars
  <1> QED
    BY <1>1, IntentQuiet DEF IInv, RowsOK

\* The steps of an accounting call, but for the posting.
LEMMA CallQuiet ==
    ASSUME IInv, NEW k \in Jobs, AccountingCall(k), ~Post(k)
    PROVE  RowsOK' /\ Quiet /\ account' = account
  <1> DEFINE dep == job[k].dep
  <1> USE DEF IInv
  <1>1. ASSUME NEW d \in Deposits, Claim(k, d)
        PROVE  RowsOK' /\ Quiet /\ account' = account
    <2>1. /\ deposit[d] = "completed" /\ acct[d] \notin {"posted", "exception"}
          /\ acct' = [acct EXCEPT ![d] = "processing"]
          /\ UNCHANGED <<trade, deposit, op, account>>
      BY <1>1 DEF Claim, StoredIsBacked, custodyVars, moneyVars
    <2>2. job' \in [Jobs -> JobType] /\ \A j \in Jobs : JobOK(job'[j])
      BY <1>1, JobRecords, JobUpdate DEF Claim
    <2> QED
      BY <2>1, <2>2, IntentQuiet DEF RowsOK
  <1>2. CASE Superseded(k) \/ CrashJob(k)
    <2>1. /\ job' = [job EXCEPT ![k] = IdleJob]
          /\ UNCHANGED <<trade, deposit, acct, op, account>>
      BY <1>2 DEF Superseded, CrashJob, custodyVars, moneyVars
    <2> QED
      BY <2>1, JobRecords, JobUpdate, IdleQuiet DEF RowsOK
  <1>3. CASE FailPost(k)
    <2>1. PICK b \in BOOLEAN :
            job' = [job EXCEPT ![k] = [job[k] EXCEPT !.pc = "failed", !.retryable = b]]
      BY <1>3 DEF FailPost
    <2>2. JobOK(job[k]) /\ job[k] \in JobType /\ job[k].pc # "idle"
      BY <1>3 DEF FailPost, RowsOK
    <2>3. job' \in [Jobs -> JobType] /\ \A j \in Jobs : JobOK(job'[j])
      BY <2>1, <2>2, JobRecords, JobUpdate
    <2>4. UNCHANGED <<trade, deposit, acct, op, account>>
      BY <1>3 DEF FailPost, custodyVars, moneyVars
    <2> QED
      BY <2>3, <2>4, IdleQuiet DEF RowsOK
  <1>4. CASE ReadFailure(k)
    <2> DEFINE b == ~job[k].retryable \/ attempts[dep] + 1 >= MaxAttempts
    <2>1. job' = [job EXCEPT ![k] =
                    IF acct[dep] # "processing" THEN IdleJob
                    ELSE [job[k] EXCEPT !.pc = "recording", !.terminal = b]]
      BY <1>4 DEF ReadFailure
    <2>2. JobOK(job[k]) /\ job[k] \in JobType /\ job[k].pc # "idle" /\ b \in BOOLEAN
      BY <1>4 DEF ReadFailure, RowsOK
    <2> HIDE DEF b
    <2>3. job' \in [Jobs -> JobType] /\ \A j \in Jobs : JobOK(job'[j])
      BY <2>1, <2>2, JobRecords, JobUpdate
    <2>4. UNCHANGED <<trade, deposit, acct, op, account>>
      BY <1>4 DEF ReadFailure, custodyVars, moneyVars
    <2> QED
      BY <2>3, <2>4, IdleQuiet DEF RowsOK
  <1>5. CASE WriteFailure(k) \/ ReleaseClaim(k)
    <2>1. dep \in Deposits
      BY <1>5, BusyDeposit DEF WriteFailure, ReleaseClaim
    <2>2. job' = [job EXCEPT ![k] = IdleJob] /\ UNCHANGED <<trade, deposit, op, account>>
      BY <1>5 DEF WriteFailure, ReleaseClaim, custodyVars, moneyVars
    <2>3. job' \in [Jobs -> JobType] /\ \A j \in Jobs : JobOK(job'[j])
      BY <2>2, JobRecords, JobUpdate
    <2>4. \/ acct' = acct
          \/ /\ acct[dep] = "processing"
             /\ \E s \in {"exception", "pending"} : acct' = [acct EXCEPT ![dep] = s]
      BY <1>5, <2>1 DEF WriteFailure, ReleaseClaim, RowsOK
    <2>5. CASE acct' = acct
      BY <2>2, <2>3, <2>5, IdleQuiet DEF RowsOK
    <2>6. CASE acct[dep] = "processing"
               /\ \E s \in {"exception", "pending"} : acct' = [acct EXCEPT ![dep] = s]
      <3>1. deposit[dep] = "completed"
        BY <2>1, <2>6 DEF StoredIsBacked
      <3> QED
        BY <2>1, <2>2, <2>3, <2>6, <3>1, IntentQuiet DEF RowsOK
    <2> QED
      BY <2>4, <2>5, <2>6
  <1> QED
    BY <1>1, <1>2, <1>3, <1>4, <1>5 DEF AccountingCall

\* The posting: what it credits, and that it keeps the invariant.
LEMMA PostCredits ==
    ASSUME IInv, NEW k \in Jobs, Post(k)
    PROVE  /\ IInv'
           /\ \E d \in Deposits :
                /\ trade[d] = "completed" /\ d \notin op
                /\ \A e \in op : TxOf[e] # TxOf[d]
                /\ op' = op \cup {d} /\ account' = account + Amount[d]
                /\ acct[d] = "processing" /\ deposit[d] = "completed"
                /\ acct' = [acct EXCEPT ![d] = "posted"]
           /\ UNCHANGED <<trade, deposit>>
  <1> DEFINE d == job[k].dep
  <1> USE DEF IInv
  <1>1. d \in Deposits
    BY BusyDeposit DEF Post
  <1>2. /\ acct[d] = "processing" /\ deposit[d] = "completed"
        /\ \A e \in op : TxOf[e] # TxOf[d]
        /\ op' = op \cup {d} /\ account' = account + Amount[d]
        /\ acct' = [acct EXCEPT ![d] = "posted"]
        /\ job' = [job EXCEPT ![k] = IdleJob]
        /\ UNCHANGED <<trade, deposit>>
    BY DEF Post, Valid, Duplicate, custodyVars
  <1>3. trade[d] = "completed" /\ d \notin op
    BY <1>1, <1>2 DEF StoredIsBacked, PostedIsCredited
  <1>4. RowsOK'
    <2>1. job' \in [Jobs -> JobType] /\ \A j \in Jobs : JobOK(job'[j])
      BY <1>2, JobRecords, JobUpdate
    <2> QED
      BY <1>1, <1>2, <2>1 DEF RowsOK, AccountingStatuses
  <1> HIDE DEF d
  <1>5. StoredIsBacked'
    BY <1>1, <1>2 DEF StoredIsBacked, RowsOK
  <1>6. PostedIsCredited'
    BY <1>1, <1>2 DEF PostedIsCredited, RowsOK
  <1>7. OneCreditPerHash'
    BY <1>1, <1>2 DEF OneCreditPerHash
  <1> QED
    BY <1>1, <1>2, <1>3, <1>4, <1>5, <1>6, <1>7

\* Every step is quiet or credits one confirmed deposit for the first time.
LEMMA StepKind ==
    ASSUME IInv, [Next]_vars
    PROVE  \/ RowsOK' /\ Quiet /\ account' = account
           \/ \E k \in Jobs : Post(k)
  <1>1. ASSUME NEW d \in Deposits,
               \/ DecideTrade(d) \/ FirstCallback(d) \/ InexactCallback(d)
               \/ Hold(d) \/ Release(d) \/ RequeueStale(d)
        PROVE  RowsOK' /\ Quiet /\ account' = account
    BY <1>1, CallbackQuiet, CommandQuiet
  <1>2. ASSUME NEW k \in Jobs, AccountingCall(k), ~Post(k)
        PROVE  RowsOK' /\ Quiet /\ account' = account
    BY <1>2, CallQuiet
  <1>3. CASE SetOperational \/ UNCHANGED vars
    <2>1. UNCHANGED <<trade, deposit, acct, op, account, job>>
      BY <1>3 DEF SetOperational, vars, custodyVars, moneyVars
    <2> QED
      BY <2>1, IdleQuiet DEF IInv, RowsOK
  <1> QED
    BY <1>1, <1>2, <1>3 DEF Next

\* The invariant holds of every behaviour.
THEOREM Inductive == Spec => []IInv
  <1>1. IInv /\ [Next]_vars => IInv'
    BY StepKind, QuietKeeps, PostCredits
  <1> QED
    BY <1>1, InitInv, PTL DEF Spec

-----------------------------------------------------------------------------
\* Customer money is backed by the chain: postOnce credits completed transfers
\* only, and no transaction hash twice, for any number of deposits and calls.
THEOREM Backed == Spec => []CreditIsBacked
  <1>1. IInv => CreditIsBacked
    BY DEF IInv, StoredIsBacked, PostedIsCredited, OneCreditPerHash, CreditIsBacked
  <1> QED
    BY <1>1, Inductive, PTL

\* Intents exist for completed custody rows only, and posted and exception are
\* final, whatever late failure reports, callbacks and commands arrive.
THEOREM Final == Spec => FinalStaysFinal
  <1> DEFINE A == \A d \in Deposits :
                    /\ acct'[d] # "absent" => deposit'[d] = "completed"
                    /\ acct[d] \in {"posted", "exception"} => acct'[d] = acct[d]
  <1>1. IInv /\ [Next]_vars => A
    <2> SUFFICES ASSUME IInv, [Next]_vars PROVE A
      OBVIOUS
    <2>1. CASE Quiet
      BY <2>1 DEF Quiet
    <2>2. CASE \E k \in Jobs : Post(k)
      BY <2>2, PostCredits DEF IInv, RowsOK, StoredIsBacked
    <2> QED
      BY <2>1, <2>2, StepKind
  <1>2. IInv /\ [Next]_vars => [A]_vars
    BY <1>1
  <1> QED
    BY <1>2, Inductive, PTL DEF Spec, FinalStaysFinal

\* The deposit path implements DepositCredit: the balance moves only by crediting a
\* confirmed transfer, exactly once, with its amount.
THEOREM ImplementsCredit == Spec => RefinesCredit
  <1>1. Init => Promise!Init
    BY DEF Init, Promise!Init, Confirmed
  <1>2. IInv /\ [Next]_vars => [Promise!Next]_(Promise!vars)
    <2> SUFFICES ASSUME IInv, [Next]_vars
                 PROVE  [Promise!Next]_(Promise!vars)
      OBVIOUS
    <2>1. CASE (\E k \in Jobs : Post(k))
      <3>1. PICK d \in Deposits :
              /\ trade[d] = "completed" /\ d \notin op
              /\ \A e \in op : TxOf[e] # TxOf[d]
              /\ op' = op \cup {d} /\ account' = account + Amount[d]
              /\ UNCHANGED trade
        BY <2>1, PostCredits
      <3>2. d \in Confirmed \ op /\ Confirmed' = Confirmed
        BY <3>1 DEF Confirmed
      <3>3. Promise!Credit(d)
        BY <3>1, <3>2 DEF Promise!Credit
      <3> QED
        BY <3>3 DEF Promise!Next
    <2>2. CASE \E d \in Deposits : DecideTrade(d)
      <3>1. PICK d \in Deposits : DecideTrade(d)
        BY <2>2
      <3>2. PICK s \in {"completed", "failed"} : trade' = [trade EXCEPT ![d] = s]
        BY <3>1 DEF DecideTrade
      <3>3. UNCHANGED <<op, account>> /\ trade[d] = "none"
        BY <3>1 DEF DecideTrade, moneyVars
      <3>4. CASE s = "completed"
        <4>1. d \notin Confirmed /\ Confirmed' = Confirmed \cup {d}
          BY <3>2, <3>3, <3>4 DEF Confirmed, IInv, RowsOK
        <4> QED
          BY <3>3, <4>1 DEF Promise!Next, Promise!Confirm
      <3>5. CASE s = "failed"
        <4>1. Confirmed' = Confirmed
          BY <3>2, <3>3, <3>5 DEF Confirmed, IInv, RowsOK
        <4> QED
          BY <3>3, <4>1 DEF Promise!vars
      <3> QED
        BY <3>2, <3>4, <3>5
    <2>3. CASE ~(\E k \in Jobs : Post(k)) /\ ~(\E d \in Deposits : DecideTrade(d))
      <3>1. op' = op /\ account' = account
        BY <2>3, StepKind DEF Quiet
      <3>2. trade' = trade
        BY <2>3 DEF Next, FirstCallback, InexactCallback, StoreCallback, StoreNotice, Hold, Release,
                    RequeueStale, AccountingCall, Claim, Superseded, FailPost,
                    ReadFailure, WriteFailure, ReleaseClaim, CrashJob, SetOperational,
                    custodyVars, vars
      <3>3. Confirmed' = Confirmed
        BY <3>2 DEF Confirmed
      <3> QED
        BY <3>1, <3>3 DEF Promise!vars
    <2> QED
      BY <2>1, <2>2, <2>3
  <1> QED
    BY <1>1, <1>2, Inductive, PTL DEF Spec, RefinesCredit, Promise!Spec

-----------------------------------------------------------------------------
(* The balances as a sum.                                                  *)

\* Account, mirror and journal hold the amounts of the operations, of which there are
\* finitely many.
Books ==
    /\ IsFiniteSet(op) /\ account = SumOver(Amount, op)
    /\ wallet = account /\ clearing = account

\* Only the posting moves money.
LEMMA BooksOnlyMoveHere ==
    ASSUME [Next]_vars, ~\E k \in Jobs : Post(k)
    PROVE  UNCHANGED moneyVars
  BY DEF Next, DecideTrade, FirstCallback, InexactCallback, StoreCallback, StoreNotice, Hold, Release,
         RequeueStale, AccountingCall, Claim, Superseded, FailPost, ReadFailure,
         WriteFailure, ReleaseClaim, CrashJob, SetOperational, moneyVars, vars

LEMMA PostKeepsBooks ==
    ASSUME IInv, Books, NEW k \in Jobs, Post(k) PROVE Books'
  <1>1. PICK d \in Deposits :
          /\ d \notin op /\ op' = op \cup {d} /\ account' = account + Amount[d]
          /\ d = job[k].dep
    <2>1. PICK d \in Deposits : /\ d \notin op /\ op' = op \cup {d}
                                /\ account' = account + Amount[d]
      BY PostCredits
    <2>2. op' = op \cup {job[k].dep}
      BY DEF Post
    <2> QED
      BY <2>1, <2>2
  <1>2. wallet' = wallet + Amount[d] /\ clearing' = clearing + Amount[d]
    BY <1>1 DEF Post
  <1>3. \A e \in op \cup {d} : Amount[e] \in Int
    BY <1>1, DepositAssumption DEF IInv, PostedIsCredited
  <1>4. SumOver(Amount, op \cup {d}) = SumOver(Amount, op) + Amount[d]
    BY <1>1, <1>3, SumAdd DEF Books
  <1>5. IsFiniteSet(op \cup {d})
    BY FS_AddElement DEF Books
  <1> QED
    BY <1>1, <1>2, <1>4, <1>5 DEF Books

\* postOnce credits exactly once: the Core has an operation for exactly the posted
\* intents, and account, mirror and journal are the sum of their amounts, however many
\* deposits, calls, takeovers and repeated callbacks there are.
THEOREM CreditedOnce == Spec => []CreditedExactlyOnce
  <1>1. Init => Books
    BY SumEmpty, FS_EmptySet DEF Init, Books
  <1>2. IInv /\ Books /\ [Next]_vars => Books'
    <2> SUFFICES ASSUME IInv, Books, [Next]_vars PROVE Books'
      OBVIOUS
    <2>1. CASE \E k \in Jobs : Post(k)
      BY <2>1, PostKeepsBooks
    <2>2. CASE ~\E k \in Jobs : Post(k)
      BY <2>2, BooksOnlyMoveHere DEF moneyVars, Books
    <2> QED
      BY <2>1, <2>2
  <1>3. IInv /\ Books => CreditedExactlyOnce
    BY DEF IInv, PostedIsCredited, Books, CreditedExactlyOnce
  <1> QED
    BY <1>1, <1>2, <1>3, Inductive, PTL DEF Spec

-----------------------------------------------------------------------------
(* The attempt limit.  A claim that is taken over keeps its call running,  *)
(* so a deposit has as many calls at once as there were takeovers, and one *)
(* more while its row is in processing.  Each of them may have read the    *)
(* count before the others raised it.                                      *)

Holders(d) == {k \in Jobs : job[k].dep = d}
Retries(r, d) == r.dep = d /\ r.pc = "recording" /\ ~r.terminal
Retriers(d) == {k \in Jobs : Retries(job[k], d)}

TriesOf(d) ==
    /\ IsFiniteSet(Holders(d))
    /\ Cardinality(Holders(d))
         <= spent.takeovers + (IF acct[d] = "processing" THEN 1 ELSE 0)
    /\ acct[d] # "exception" =>
         attempts[d] + Cardinality(Retriers(d)) <= MaxAttempts - 1 + spent.takeovers
    /\ attempts[d] <= MaxAttempts + spent.takeovers

\* The types RowsOK leaves out, and the limit.
Tries ==
    /\ source \in [Deposits -> {"none", "callback", "manual_reconciliation"}]
    /\ reviewed \subseteq Deposits
    /\ account \in Nat /\ wallet \in Nat /\ clearing \in Nat
    /\ operational \in BOOLEAN
    /\ spent \in [takeovers : 0 .. MaxTakeovers, crashes : 0 .. MaxCrashes,
                  inexact : 0 .. MaxInexact]
    /\ attempts \in [Deposits -> Nat]
    /\ \A d \in Deposits : TriesOf(d)

\* The calls that retry a deposit are calls of it.
LEMMA CountsOf ==
    ASSUME NEW d, IsFiniteSet(Holders(d))
    PROVE  /\ Cardinality(Holders(d)) \in Nat /\ Cardinality(Retriers(d)) \in Nat
           /\ Cardinality(Retriers(d)) <= Cardinality(Holders(d))
           /\ IsFiniteSet(Retriers(d))
  <1>1. Retriers(d) \subseteq Holders(d)
    BY DEF Retriers, Holders, Retries
  <1> QED
    BY <1>1, FS_Subset, FS_CardinalityType

\* What replacing one call's record does to the numbers of calls of a deposit.
LEMMA CountsChange ==
    ASSUME RowsOK, NEW d, IsFiniteSet(Holders(d)), NEW k \in Jobs, NEW r,
           job' = [job EXCEPT ![k] = r]
    PROVE  /\ IsFiniteSet(Holders(d))'
           /\ Cardinality(Holders(d))' \in Nat /\ Cardinality(Retriers(d))' \in Nat
           /\ Cardinality(Holders(d))' - (IF r.dep = d THEN 1 ELSE 0)
                = Cardinality(Holders(d)) - (IF job[k].dep = d THEN 1 ELSE 0)
           /\ Cardinality(Retriers(d))' - (IF Retries(r, d) THEN 1 ELSE 0)
                = Cardinality(Retriers(d)) - (IF Retries(job[k], d) THEN 1 ELSE 0)
  <1>1. job \in [Jobs -> JobType] /\ job'[k] = r /\ \A j \in Jobs : j # k => job'[j] = job[j]
    BY DEF RowsOK
  <1>2. PICK S, T, U, V : /\ S = Holders(d) /\ T = Holders(d)'
                          /\ U = Retriers(d) /\ V = Retriers(d)'
    OBVIOUS
  <1>3. S \ {k} = T \ {k} /\ (k \in S <=> job[k].dep = d) /\ (k \in T <=> r.dep = d)
    BY <1>1, <1>2 DEF Holders
  <1>4. U \ {k} = V \ {k} /\ (k \in U <=> Retries(job[k], d)) /\ (k \in V <=> Retries(r, d))
    <2>1. V = {j \in Jobs : Retries(job'[j], d)}
      BY <1>2 DEF Retriers, Retries
    <2> QED
      BY <1>1, <1>2, <2>1 DEF Retriers
  <1>5. IsFiniteSet(S) /\ IsFiniteSet(U)
    BY <1>2, CountsOf
  <1>6. /\ IsFiniteSet(T) /\ Cardinality(T) \in Nat
        /\ Cardinality(T) - (IF k \in T THEN 1 ELSE 0)
             = Cardinality(S) - (IF k \in S THEN 1 ELSE 0)
    BY <1>3, <1>5, CountChange
  <1>7. /\ Cardinality(V) \in Nat
        /\ Cardinality(V) - (IF k \in V THEN 1 ELSE 0)
             = Cardinality(U) - (IF k \in U THEN 1 ELSE 0)
    BY <1>4, <1>5, CountChange
  <1> QED
    BY <1>2, <1>3, <1>4, <1>6, <1>7

\* The numbers in TriesOf, and that a deposit's records are not those of no deposit.
LEMMA TryNumbers ==
    ASSUME Tries, RowsOK, NEW d \in Deposits
    PROVE  /\ spent.takeovers \in Nat /\ attempts[d] \in Nat /\ MaxAttempts \in Nat
           /\ Cardinality(Holders(d)) \in Nat /\ Cardinality(Retriers(d)) \in Nat
           /\ Cardinality(Retriers(d)) <= Cardinality(Holders(d))
           /\ IdleJob.dep # d /\ IdleJob.pc = "idle"
  BY CountsOf, DepositAssumption DEF Tries, TriesOf, IdleJob

\* No call and no count changes, and no row enters or leaves processing or exception.
LEMMA TriesStay ==
    ASSUME Tries, job' = job, attempts' = attempts, spent'.takeovers = spent.takeovers,
           \A d \in Deposits : /\ acct'[d] = "processing" <=> acct[d] = "processing"
                               /\ acct'[d] = "exception" <=> acct[d] = "exception"
    PROVE  \A d \in Deposits : TriesOf(d)'
  BY DEF Tries, TriesOf, Holders, Retriers, Retries

\* A call ends or goes on without becoming one that retries.
LEMMA CallGoesOn ==
    ASSUME Tries, RowsOK, NEW k \in Jobs, NEW r, job' = [job EXCEPT ![k] = r],
           r.dep \in {job[k].dep, NoDeposit}, ~(r.pc = "recording" /\ ~r.terminal),
           attempts' = attempts, spent'.takeovers = spent.takeovers, acct' = acct
    PROVE  \A d \in Deposits : TriesOf(d)'
  <1> SUFFICES ASSUME NEW d \in Deposits PROVE TriesOf(d)'
    OBVIOUS
  <1>1. TriesOf(d) /\ NoDeposit # d
    BY DepositAssumption DEF Tries
  <1>2. IsFiniteSet(Holders(d))
    BY <1>1 DEF TriesOf
  <1>3. ~Retries(r, d)
    BY DEF Retries
  <1>4. PICK h, n : h = Cardinality(Holders(d))' /\ n = Cardinality(Retriers(d))'
    OBVIOUS
  <1>5. /\ IsFiniteSet(Holders(d))' /\ h \in Nat /\ n \in Nat
        /\ h <= Cardinality(Holders(d)) /\ n <= Cardinality(Retriers(d))
    <2>1. /\ IsFiniteSet(Holders(d))' /\ h \in Nat /\ n \in Nat
          /\ h - (IF r.dep = d THEN 1 ELSE 0)
               = Cardinality(Holders(d)) - (IF job[k].dep = d THEN 1 ELSE 0)
          /\ n - (IF Retries(r, d) THEN 1 ELSE 0)
               = Cardinality(Retriers(d)) - (IF Retries(job[k], d) THEN 1 ELSE 0)
      BY <1>2, <1>4, CountsChange
    <2>2. Cardinality(Holders(d)) \in Nat /\ Cardinality(Retriers(d)) \in Nat
      BY TryNumbers
    <2> QED
      BY <1>1, <1>3, <2>1, <2>2
  <1> QED
    BY <1>1, <1>4, <1>5, TryNumbers DEF TriesOf

\* The row leaves processing together with its call, which may have counted.
LEMMA CallGivesBack ==
    ASSUME Tries, RowsOK, NEW k \in Jobs, job' = [job EXCEPT ![k] = IdleJob],
           NEW e \in Deposits, e = job[k].dep, NEW s, s # "processing",
           acct[e] = "processing", acct' = [acct EXCEPT ![e] = s],
           spent'.takeovers = spent.takeovers, NEW n \in {0, 1},
           attempts' = [attempts EXCEPT ![e] = @ + n],
           n = 1 => s = "exception" \/ Retries(job[k], e)
    PROVE  \A d \in Deposits : TriesOf(d)'
  <1> SUFFICES ASSUME NEW d \in Deposits PROVE TriesOf(d)'
    OBVIOUS
  <1>1. TriesOf(d) /\ ~Retries(IdleJob, d) /\ IdleJob.dep # d
    BY TryNumbers DEF Tries, Retries
  <1>2. IsFiniteSet(Holders(d))
    BY <1>1 DEF TriesOf
  <1>3. PICK h, m : h = Cardinality(Holders(d))' /\ m = Cardinality(Retriers(d))'
    OBVIOUS
  <1>4. /\ IsFiniteSet(Holders(d))' /\ h \in Nat /\ m \in Nat
        /\ h = Cardinality(Holders(d)) - (IF job[k].dep = d THEN 1 ELSE 0)
        /\ m = Cardinality(Retriers(d)) - (IF Retries(job[k], d) THEN 1 ELSE 0)
    <2>1. PICK r : r = IdleJob
      OBVIOUS
    <2>2. /\ IsFiniteSet(Holders(d))' /\ h \in Nat /\ m \in Nat
          /\ h - (IF r.dep = d THEN 1 ELSE 0)
               = Cardinality(Holders(d)) - (IF job[k].dep = d THEN 1 ELSE 0)
          /\ m - (IF Retries(r, d) THEN 1 ELSE 0)
               = Cardinality(Retriers(d)) - (IF Retries(job[k], d) THEN 1 ELSE 0)
      BY <1>2, <1>3, <2>1, CountsChange
    <2> QED
      BY <1>1, <2>1, <2>2
  <1>5. CASE d = e
    <2>1. acct'[d] = s /\ attempts'[d] = attempts[d] + n
      BY <1>5 DEF RowsOK, Tries
    <2> QED
      BY <1>1, <1>3, <1>4, <1>5, <2>1, TryNumbers DEF TriesOf
  <1>6. CASE d # e
    <2>1. acct'[d] = acct[d] /\ attempts'[d] = attempts[d]
      BY <1>6 DEF RowsOK, Tries
    <2> QED
      BY <1>1, <1>3, <1>4, <1>6, <2>1, TryNumbers DEF TriesOf
  <1> QED
    BY <1>5, <1>6

\* An idle call claims a row; a row that some call still works on costs a takeover.
LEMMA CallClaims ==
    ASSUME Tries, RowsOK, NEW k \in Jobs, NEW e \in Deposits, Claim(k, e)
    PROVE  \A d \in Deposits : TriesOf(d)'
  <1> SUFFICES ASSUME NEW d \in Deposits PROVE TriesOf(d)'
    OBVIOUS
  <1>1. PICK r : r = [IdleJob EXCEPT !.pc = "claimed", !.dep = e]
    OBVIOUS
  <1>2. /\ r.dep = e /\ r.pc = "claimed" /\ job' = [job EXCEPT ![k] = r]
        /\ attempts' = attempts /\ acct' = [acct EXCEPT ![e] = "processing"]
    BY <1>1 DEF Claim, IdleJob
  <1>3. TriesOf(d) /\ ~Retries(r, d) /\ job[k].dep = NoDeposit /\ NoDeposit # d
    BY <1>2, DepositAssumption DEF Tries, Retries, RowsOK, JobOK, Claim
  <1>4. IsFiniteSet(Holders(d)) /\ ~Retries(job[k], d)
    BY <1>3 DEF TriesOf, Retries
  <1>5. PICK h, m : h = Cardinality(Holders(d))' /\ m = Cardinality(Retriers(d))'
    OBVIOUS
  <1>6. /\ IsFiniteSet(Holders(d))' /\ h \in Nat /\ m \in Nat
        /\ h = Cardinality(Holders(d)) + (IF d = e THEN 1 ELSE 0)
        /\ m = Cardinality(Retriers(d))
    <2>1. /\ IsFiniteSet(Holders(d))' /\ h \in Nat /\ m \in Nat
          /\ h - (IF r.dep = d THEN 1 ELSE 0)
               = Cardinality(Holders(d)) - (IF job[k].dep = d THEN 1 ELSE 0)
          /\ m - (IF Retries(r, d) THEN 1 ELSE 0)
               = Cardinality(Retriers(d)) - (IF Retries(job[k], d) THEN 1 ELSE 0)
      BY <1>2, <1>4, <1>5, CountsChange
    <2> QED
      BY <1>2, <1>3, <1>4, <2>1, TryNumbers
  <1>7. spent'.takeovers \in Nat /\ spent.takeovers <= spent'.takeovers
    BY TryNumbers DEF Claim, StaleLock, Tries
  <1>8. CASE d = e
    <2>1. acct'[d] = "processing"
      BY <1>2, <1>8 DEF RowsOK
    <2>2. Cardinality(Holders(d)) <= spent'.takeovers
      <3>1. CASE acct[d] = "pending"
        BY <1>3, <1>7, <3>1, TryNumbers DEF TriesOf
      <3>2. CASE acct[d] = "processing" /\ Busy(d)
        <4>1. spent'.takeovers = spent.takeovers + 1
          BY <1>8, <3>2 DEF Claim, StaleLock, Tries
        <4> QED
          BY <1>3, <3>2, <4>1, TryNumbers DEF TriesOf
      <3>3. CASE ~Busy(d)
        <4>1. Holders(d) = {}
          BY <3>3 DEF Busy, Holders
        <4> QED
          BY <1>7, <4>1, FS_EmptySet
      <3> QED
        BY <1>8, <3>1, <3>2, <3>3 DEF Claim
    <2>3. acct[d] # "exception"
      BY <1>8 DEF Claim
    <2> QED
      BY <1>2, <1>3, <1>5, <1>6, <1>7, <1>8, <2>1, <2>2, <2>3, TryNumbers DEF TriesOf
  <1>9. CASE d # e
    <2>1. acct'[d] = acct[d]
      BY <1>2, <1>9 DEF RowsOK
    <2> QED
      BY <1>2, <1>3, <1>5, <1>6, <1>7, <1>9, <2>1, TryNumbers DEF TriesOf
  <1> QED
    BY <1>8, <1>9

\* recordFailure reads the count while its row is in processing.
LEMMA CallReadsFailure ==
    ASSUME Tries, RowsOK, NEW k \in Jobs, ReadFailure(k)
    PROVE  \A d \in Deposits : TriesOf(d)'
  <1>1. PICK e, b : e = job[k].dep /\ b = (~job[k].retryable \/ attempts[e] + 1 >= MaxAttempts)
    OBVIOUS
  <1>2. /\ e \in Deposits /\ job[k] \in JobType /\ job[k].pc = "failed"
        /\ acct' = acct /\ attempts' = attempts /\ spent' = spent
    BY <1>1, BusyDeposit DEF ReadFailure, RowsOK
  <1>3. CASE acct[e] # "processing"
    <2>1. job' = [job EXCEPT ![k] = IdleJob]
      BY <1>1, <1>3 DEF ReadFailure
    <2>2. IdleJob.dep = NoDeposit /\ IdleJob.pc = "idle"
      BY DEF IdleJob
    <2> QED
      BY <1>2, <2>1, <2>2, CallGoesOn
  <1>4. CASE acct[e] = "processing"
    <2>1. PICK r : r = [job[k] EXCEPT !.pc = "recording", !.terminal = b]
      OBVIOUS
    <2>2. job' = [job EXCEPT ![k] = r]
      BY <1>1, <1>4, <2>1 DEF ReadFailure
    <2>3. r.dep = e /\ r.pc = "recording" /\ r.terminal = b
      BY <1>1, <1>2, <2>1 DEF JobType
    <2>4. CASE b
      BY <1>1, <1>2, <2>2, <2>3, <2>4, CallGoesOn
    <2>5. CASE ~b
      <3> SUFFICES ASSUME NEW d \in Deposits PROVE TriesOf(d)'
        OBVIOUS
      <3>1. TriesOf(d) /\ ~Retries(job[k], d) /\ (Retries(r, d) <=> d = e)
        BY <1>2, <2>3, <2>5 DEF Tries, Retries
      <3>2. IsFiniteSet(Holders(d))
        BY <3>1 DEF TriesOf
      <3>3. PICK S, T, h, n : /\ S = Holders(d)' /\ T = Retriers(d)'
                              /\ h = Cardinality(S) /\ n = Cardinality(T)
        OBVIOUS
      <3>4. /\ IsFiniteSet(S) /\ h \in Nat /\ n \in Nat
            /\ h = Cardinality(Holders(d))
            /\ n = Cardinality(Retriers(d)) + (IF d = e THEN 1 ELSE 0)
        <4>1. /\ IsFiniteSet(Holders(d))' /\ h \in Nat /\ n \in Nat
              /\ h - (IF r.dep = d THEN 1 ELSE 0)
                   = Cardinality(Holders(d)) - (IF job[k].dep = d THEN 1 ELSE 0)
              /\ n - (IF Retries(r, d) THEN 1 ELSE 0)
                   = Cardinality(Retriers(d)) - (IF Retries(job[k], d) THEN 1 ELSE 0)
          BY <2>2, <3>2, <3>3, CountsChange
        <4>2. Cardinality(Holders(d)) \in Nat /\ Cardinality(Retriers(d)) \in Nat
          BY TryNumbers
        <4>3. IsFiniteSet(S)
          BY <3>3, <4>1
        <4>4. r.dep = d <=> job[k].dep = d
          BY <1>1, <2>3
        <4>5. h = Cardinality(Holders(d))
          BY <4>1, <4>2, <4>4
        <4>6. n = Cardinality(Retriers(d)) + (IF d = e THEN 1 ELSE 0)
          BY <3>1, <4>1, <4>2
        <4> QED
          BY <4>1, <4>3, <4>5, <4>6
      <3>5. n <= h
        <4>1. T \subseteq S
          BY <3>3 DEF Holders, Retriers, Retries
        <4> QED
          BY <3>3, <3>4, <4>1, FS_Subset
      <3>6. CASE d = e
        <4>1. attempts[d] + 1 < MaxAttempts
          <5>1. ~(attempts[d] + 1 >= MaxAttempts)
            BY <1>1, <2>5, <3>6
          <5>2. attempts[d] \in Nat /\ MaxAttempts \in Nat
            BY TryNumbers
          <5> QED
            BY <5>1, <5>2
        <4> QED
          BY <1>2, <1>4, <3>1, <3>3, <3>4, <3>5, <3>6, <4>1, TryNumbers DEF TriesOf
      <3>7. CASE d # e
        BY <1>2, <3>1, <3>3, <3>4, <3>7, TryNumbers DEF TriesOf
      <3> QED
        BY <3>6, <3>7
    <2> QED
      BY <2>4, <2>5
  <1> QED
    BY <1>3, <1>4

\* claimBatch gives a stale row back; a call that still works on it costs a takeover.
LEMMA RowRequeued ==
    ASSUME Tries, RowsOK, NEW e \in Deposits, RequeueStale(e)
    PROVE  \A d \in Deposits : TriesOf(d)'
  <1> SUFFICES ASSUME NEW d \in Deposits PROVE TriesOf(d)'
    OBVIOUS
  <1>1. /\ job' = job /\ attempts' = attempts /\ acct' = [acct EXCEPT ![e] = "pending"]
        /\ acct[e] = "processing" /\ TriesOf(d)
    BY DEF RequeueStale, Tries
  <1>2. spent'.takeovers \in Nat /\ spent.takeovers <= spent'.takeovers
    BY TryNumbers DEF RequeueStale, StaleLock, Tries
  <1>3. Holders(d)' = Holders(d) /\ Retriers(d)' = Retriers(d)
    BY <1>1 DEF Holders, Retriers, Retries
  <1>4. CASE d = e
    <2>1. acct'[d] = "pending"
      BY <1>1, <1>4 DEF RowsOK
    <2>2. Cardinality(Holders(d)) <= spent'.takeovers
      <3>1. CASE Busy(d)
        <4>1. spent'.takeovers = spent.takeovers + 1
          BY <1>4, <3>1 DEF RequeueStale, StaleLock, Tries
        <4> QED
          BY <1>1, <4>1, TryNumbers DEF TriesOf
      <3>2. CASE ~Busy(d)
        <4>1. Holders(d) = {}
          BY <3>2 DEF Busy, Holders
        <4> QED
          BY <1>2, <4>1, FS_EmptySet
      <3> QED
        BY <3>1, <3>2
    <2> QED
      BY <1>1, <1>2, <1>3, <1>4, <2>1, <2>2, TryNumbers DEF TriesOf
  <1>5. CASE d # e
    <2>1. acct'[d] = acct[d]
      BY <1>1, <1>5 DEF RowsOK
    <2> QED
      BY <1>1, <1>2, <1>3, <2>1, TryNumbers DEF TriesOf
  <1> QED
    BY <1>4, <1>5

LEMMA TriesStep == ASSUME IInv, Tries, [Next]_vars PROVE Tries'
  <1>1. RowsOK /\ RowsOK'
    <2>1. IInv'
      BY StepKind, QuietKeeps, PostCredits
    <2> QED
      BY <2>1 DEF IInv
  <1>2. \A d \in Deposits : TriesOf(d)'
    <2>1. ASSUME NEW d \in Deposits,
                 \/ DecideTrade(d) \/ FirstCallback(d) \/ InexactCallback(d)
                 \/ Hold(d) \/ Release(d)
          PROVE  \A e \in Deposits : TriesOf(e)'
      <3>1. job' = job /\ attempts' = attempts /\ spent'.takeovers = spent.takeovers
        BY <2>1 DEF DecideTrade, FirstCallback, InexactCallback, StoreCallback, StoreNotice, Hold,
                    Release, Tries
      <3>2. \/ acct' = acct
            \/ \E s \in {"held", "pending"} : /\ acct' = [acct EXCEPT ![d] = s]
                                              /\ acct[d] \in {"absent", "held"}
        BY <2>1 DEF DecideTrade, FirstCallback, InexactCallback, StoreCallback, StoreNotice, Enqueues,
                    Hold, Release
      <3>3. \A e \in Deposits : /\ acct'[e] = "processing" <=> acct[e] = "processing"
                                /\ acct'[e] = "exception" <=> acct[e] = "exception"
        BY <1>1, <3>2 DEF RowsOK
      <3> QED
        BY <3>1, <3>3, TriesStay
    <2>2. ASSUME NEW d \in Deposits, RequeueStale(d)
          PROVE  \A e \in Deposits : TriesOf(e)'
      BY <1>1, <2>2, RowRequeued
    <2>3. ASSUME NEW k \in Jobs, AccountingCall(k) PROVE \A d \in Deposits : TriesOf(d)'
      <3>1. ASSUME NEW d \in Deposits, Claim(k, d) PROVE \A e \in Deposits : TriesOf(e)'
        BY <1>1, <3>1, CallClaims
      <3>2. CASE Superseded(k) \/ CrashJob(k)
        <4>1. IdleJob.dep = NoDeposit /\ IdleJob.pc = "idle"
          BY DEF IdleJob
        <4>2. /\ job' = [job EXCEPT ![k] = IdleJob] /\ attempts' = attempts /\ acct' = acct
              /\ spent'.takeovers = spent.takeovers
          BY <3>2 DEF Superseded, CrashJob, Stops, Tries
        <4> QED
          BY <1>1, <4>1, <4>2, CallGoesOn
      <3>3. CASE FailPost(k)
        <4>1. PICK b \in BOOLEAN :
                job' = [job EXCEPT ![k] = [job[k] EXCEPT !.pc = "failed", !.retryable = b]]
          BY <3>3 DEF FailPost
        <4>2. PICK r : r = [job[k] EXCEPT !.pc = "failed", !.retryable = b]
          OBVIOUS
        <4>3. r.pc = "failed" /\ r.dep = job[k].dep
          BY <1>1, <4>2 DEF RowsOK, JobType
        <4>4. attempts' = attempts /\ acct' = acct /\ spent' = spent
          BY <3>3 DEF FailPost
        <4> QED
          BY <1>1, <4>1, <4>2, <4>3, <4>4, CallGoesOn
      <3>4. CASE ReadFailure(k)
        BY <1>1, <3>4, CallReadsFailure
      <3>5. CASE WriteFailure(k) /\ acct[job[k].dep] # "processing"
        <4>1. IdleJob.dep = NoDeposit /\ IdleJob.pc = "idle"
          BY DEF IdleJob
        <4>2. /\ job' = [job EXCEPT ![k] = IdleJob] /\ attempts' = attempts /\ acct' = acct
              /\ spent' = spent
          BY <3>5 DEF WriteFailure
        <4> QED
          BY <1>1, <4>1, <4>2, CallGoesOn
      <3>6. CASE WriteFailure(k) /\ acct[job[k].dep] = "processing"
        <4>1. PICK e, s : e = job[k].dep /\ s = IF job[k].terminal THEN "exception" ELSE "pending"
          OBVIOUS
        <4>2. /\ e \in Deposits /\ job' = [job EXCEPT ![k] = IdleJob] /\ spent' = spent
              /\ acct' = [acct EXCEPT ![e] = s] /\ attempts' = [attempts EXCEPT ![e] = @ + 1]
              /\ job[k].pc = "recording"
          BY <1>1, <3>6, <4>1, BusyDeposit DEF WriteFailure
        <4>3. s = "exception" \/ Retries(job[k], e)
          BY <4>1, <4>2 DEF Retries
        <4>4. s # "processing" /\ acct[e] = "processing"
          BY <3>6, <4>1
        <4> QED
          BY <1>1, <4>1, <4>2, <4>3, <4>4, CallGivesBack
      <3>7. CASE ReleaseClaim(k) \/ Post(k)
        <4>1. PICK e : e = job[k].dep
          OBVIOUS
        <4>2. /\ e \in Deposits /\ job' = [job EXCEPT ![k] = IdleJob] /\ attempts' = attempts
              /\ spent'.takeovers = spent.takeovers
          BY <1>1, <3>7, <4>1, BusyDeposit DEF ReleaseClaim, Post, Stops, Tries
        <4>3. CASE acct' = acct
          <5>1. IdleJob.dep = NoDeposit /\ IdleJob.pc = "idle"
            BY DEF IdleJob
          <5> QED
            BY <1>1, <4>2, <4>3, <5>1, CallGoesOn
        <4>4. CASE acct' # acct
          <5>1. PICK s \in {"pending", "posted"} : acct' = [acct EXCEPT ![e] = s]
            BY <1>1, <3>7, <4>1, <4>2, <4>4 DEF ReleaseClaim, Post, RowsOK
          <5>2. acct[e] = "processing" /\ s # "processing"
            BY <1>1, <3>7, <4>1, <4>2, <4>4, <5>1 DEF ReleaseClaim, Post, RowsOK
          <5>3. PICK n \in {0, 1} : n = 0
            OBVIOUS
          <5>4. attempts' = [attempts EXCEPT ![e] = @ + n]
            BY <4>2, <5>3 DEF Tries
          <5>5. n = 1 => s = "exception" \/ Retries(job[k], e)
            BY <5>3
          <5> QED
            BY <1>1, <4>1, <4>2, <5>1, <5>2, <5>4, <5>5, CallGivesBack
        <4> QED
          BY <4>3, <4>4
      <3> QED
        BY <2>3, <3>1, <3>2, <3>3, <3>4, <3>5, <3>6, <3>7 DEF AccountingCall
    <2>4. CASE SetOperational \/ UNCHANGED vars
      <3>1. job' = job /\ attempts' = attempts /\ spent' = spent /\ acct' = acct
        BY <2>4 DEF SetOperational, vars
      <3> QED
        BY <3>1, TriesStay
    <2> QED
      BY <2>1, <2>2, <2>3, <2>4 DEF Next
  <1>3. /\ attempts' \in [Deposits -> Nat] /\ reviewed' \subseteq Deposits
        /\ operational' \in BOOLEAN
        /\ source' \in [Deposits -> {"none", "callback", "manual_reconciliation"}]
    <2>1. attempts' = attempts \/ \E d : attempts' = [attempts EXCEPT ![d] = @ + 1]
      BY DEF Next, DecideTrade, FirstCallback, InexactCallback, StoreCallback, StoreNotice, Hold,
             Release, RequeueStale, AccountingCall, Claim, Superseded, FailPost, Post,
             ReadFailure, WriteFailure, ReleaseClaim, CrashJob, SetOperational, vars
    <2>2. reviewed' = reviewed \/ \E d \in Deposits : reviewed' = reviewed \cup {d}
      BY DEF Next, DecideTrade, FirstCallback, InexactCallback, StoreCallback, StoreNotice, Hold,
             Release, RequeueStale, AccountingCall, Claim, Superseded, FailPost, Post,
             ReadFailure, WriteFailure, ReleaseClaim, CrashJob, SetOperational, vars,
             custodyVars
    <2>3. \/ source' = source
          \/ \E d, s : /\ source' = [source EXCEPT ![d] = s]
                       /\ s \in {"callback", "manual_reconciliation"}
      BY DEF Next, DecideTrade, FirstCallback, InexactCallback, StoreCallback, StoreNotice, Hold,
             Release, RequeueStale, AccountingCall, Claim, Superseded, FailPost, Post,
             ReadFailure, WriteFailure, ReleaseClaim, CrashJob, SetOperational, vars,
             custodyVars
    <2>4. operational' = operational \/ operational' = ~operational
      BY DEF Next, DecideTrade, FirstCallback, InexactCallback, StoreCallback, StoreNotice, Hold,
             Release, RequeueStale, AccountingCall, Claim, Superseded, FailPost, Post,
             ReadFailure, WriteFailure, ReleaseClaim, CrashJob, SetOperational, vars
    <2>5. attempts' \in [Deposits -> Nat] /\ reviewed' \subseteq Deposits
      BY <2>1, <2>2 DEF Tries
    <2>6. source' \in [Deposits -> {"none", "callback", "manual_reconciliation"}]
      BY <2>3 DEF Tries
    <2> QED
      BY <2>4, <2>5, <2>6 DEF Tries
  <1>4. account' \in Nat /\ wallet' \in Nat /\ clearing' \in Nat
    <2>1. CASE \E k \in Jobs : Post(k)
      <3>1. PICK k \in Jobs : Post(k)
        BY <2>1
      <3>2. Amount[job[k].dep] \in Nat
        BY <1>1, <3>1, BusyDeposit, DepositAssumption DEF Post
      <3> QED
        BY <3>1, <3>2 DEF Post, Tries
    <2>2. CASE ~\E k \in Jobs : Post(k)
      BY <2>2, BooksOnlyMoveHere DEF moneyVars, Tries
    <2> QED
      BY <2>1, <2>2
  <1>5. spent' \in [takeovers : 0 .. MaxTakeovers, crashes : 0 .. MaxCrashes,
                    inexact : 0 .. MaxInexact]
    <2>1. \/ spent' = spent
          \/ spent.takeovers < MaxTakeovers /\ spent' = [spent EXCEPT !.takeovers = @ + 1]
          \/ spent.crashes < MaxCrashes /\ spent' = [spent EXCEPT !.crashes = @ + 1]
          \/ spent.inexact < MaxInexact /\ spent' = [spent EXCEPT !.inexact = @ + 1]
      BY DEF Next, DecideTrade, FirstCallback, InexactCallback, StoreNotice, Hold,
             Release, RequeueStale, AccountingCall, Claim, Superseded, FailPost, Post,
             ReadFailure, WriteFailure, ReleaseClaim, CrashJob, SetOperational, vars,
             StaleLock, Stops
    <2>2. \A n, m \in Nat : n < m => n + 1 \in 0 .. m
      OBVIOUS
    <2> QED
      BY <2>1, <2>2, DepositAssumption DEF Tries
  <1> QED
    BY <1>2, <1>3, <1>4, <1>5 DEF Tries

\* The rows, calls and balances have their types, and recordFailure keeps the attempt
\* count within the limit but for one failure more per call that was taken over while
\* running, for any number of deposits and calls.
THEOREM DepositTypes == Spec => []TypeOK
  <1>1. Init => Tries
    <2> SUFFICES ASSUME Init PROVE Tries
      OBVIOUS
    <2>1. ASSUME NEW d \in Deposits PROVE TriesOf(d)
      <3>1. Holders(d) = {} /\ Retriers(d) = {}
        BY DepositAssumption DEF Init, Holders, Retriers, Retries, IdleJob
      <3>2. attempts[d] = 0 /\ spent.takeovers = 0 /\ acct[d] = "absent"
        BY DEF Init
      <3> QED
        BY <3>1, <3>2, FS_EmptySet, DepositAssumption DEF TriesOf
    <2> QED
      BY <2>1, DepositAssumption DEF Init, Tries
  <1>2. IInv /\ Tries /\ [Next]_vars => Tries'
    BY TriesStep
  <1>3. IInv /\ Tries => TypeOK
    <2> SUFFICES ASSUME IInv, Tries PROVE TypeOK
      OBVIOUS
    <2>1. ASSUME NEW d \in Deposits PROVE attempts[d] \in 0 .. MaxAttempts + MaxTakeovers
      <3>1. /\ attempts[d] \in Nat /\ attempts[d] <= MaxAttempts + spent.takeovers
            /\ spent.takeovers \in 0 .. MaxTakeovers
        BY DEF Tries, TriesOf
      <3> QED
        BY <3>1, DepositAssumption
    <2>2. attempts \in [Deposits -> 0 .. MaxAttempts + MaxTakeovers]
      BY <2>1 DEF Tries
    <2>3. op \subseteq Deposits
      BY DEF IInv, PostedIsCredited
    <2> QED
      BY <2>2, <2>3 DEF IInv, RowsOK, JobOK, JobType, Tries, TypeOK
  <1> QED
    BY <1>1, <1>2, <1>3, Inductive, PTL DEF Spec
=============================================================================
