----------------------- MODULE CregisWithdrawalProofs -----------------------
(***************************************************************************)
(* Proofs about CregisWithdrawal, for any number of withdrawals and        *)
(* accounting calls, any amounts and any bounds.                           *)
(***************************************************************************)
EXTENDS CregisWithdrawal, SumsProofs, TLAPS

\* The statuses a stage queues and processes are statuses of the queue row.
LEMMA StageStatusType ==
    ASSUME NEW s \in Stages
    PROVE  /\ PendingStatus[s] \in AccountingStatuses
           /\ ProcessingStatus[s] \in AccountingStatuses
  BY DEF Stages, PendingStatus, ProcessingStatus, AccountingStatuses,
         QueueStatuses, PendingStatuses, ProcessingStatuses

\* The statuses that handlers queue are statuses of the queue row.
LEMMA QueueStatusType ==
    {"pending_reservation", "pending_approval", "pending_release",
     "pending_settlement"} \subseteq AccountingStatuses
  BY StageStatusType DEF Stages, PendingStatus

\* An idle accounting call has its type.
LEMMA IdleJobType == IdleJob \in JobTypes /\ IdleJob.pc = "idle"
  BY DEF IdleJob, JobTypes, Stages

\* A failed accounting call keeps its type and its withdrawal.
LEMMA FailedJobType ==
    ASSUME NEW r \in JobTypes, NEW b \in BOOLEAN
    PROVE  /\ [r EXCEPT !.pc = "failed", !.retryable = b] \in JobTypes
           /\ [r EXCEPT !.pc = "failed", !.retryable = b].wd = r.wd
  BY DEF JobTypes

\* So does a call that has read the row it will mark as failed.
LEMMA RecordingJobType ==
    ASSUME NEW r \in JobTypes, NEW b \in BOOLEAN, NEW s \in Stages
    PROVE  /\ [r EXCEPT !.pc = "recording", !.seen = s, !.terminal = b]
                 \in JobTypes
           /\ [r EXCEPT !.pc = "recording", !.seen = s, !.terminal = b].wd
                 = r.wd
  BY DEF JobTypes

\* The three money movements keep a balance a balance when it is covered.
LEMMA BalanceMovement ==
    ASSUME NEW b \in BalanceType, NEW n \in Nat
    PROVE  /\ b.available >= n => Freeze(b, n) \in BalanceType
           /\ b.frozen >= n => Unfreeze(b, n) \in BalanceType
           /\ b.frozen >= n => Consume(b, n) \in BalanceType
  <1>1. b.available + n \in Nat /\ b.frozen + n \in Nat
    BY DEF BalanceType
  <1>2. ASSUME b.available >= n PROVE Freeze(b, n) \in BalanceType
    <2>1. b.available - n \in Nat
      BY <1>2 DEF BalanceType
    <2> QED
      BY <1>1, <2>1 DEF BalanceType, Freeze
  <1>3. ASSUME b.frozen >= n
        PROVE  Unfreeze(b, n) \in BalanceType /\ Consume(b, n) \in BalanceType
    <2>1. b.frozen - n \in Nat
      BY <1>3 DEF BalanceType
    <2> QED
      BY <1>1, <2>1 DEF BalanceType, Unfreeze, Consume
  <1> QED
    BY <1>2, <1>3

\* The net amount of a withdrawal is a natural number.
LEMMA NetType == ASSUME NEW w \in Withdrawals PROVE Net[w] \in Nat
  <1>1. Total[w] \in Nat /\ Fee[w] \in Nat /\ Fee[w] < Total[w]
    BY WithdrawalAssumption
  <1> QED
    BY <1>1 DEF Net

\* The initial state has the right types.
LEMMA InitTypeOK == Init => TypeOK
  BY WithdrawalAssumption
     DEF Init, TypeOK, BalanceType, IdleJob, JobTypes, Stages, CustodyStatuses,
         AccountingStatuses, OperationStatuses, ActiveHandler, FinalStatuses,
         Cids

\* A stage that passed its checks finds the balance its update needs.
LEMMA StageChecksBalance ==
    ASSUME NEW w \in Withdrawals
    PROVE  /\ StageChecks(w, "reserve") =>
                 account.available >= Total[w] /\ wallet.available >= Total[w]
           /\ StageChecks(w, "release") /\ op[w] # "none" =>
                 account.frozen >= Total[w] /\ wallet.frozen >= Total[w]
           /\ StageChecks(w, "settle") =>
                 account.frozen >= Total[w] /\ wallet.frozen >= Total[w]
  BY DEF StageChecks, CanFreeze

\* Every step keeps the types; in particular no Core update drives a balance
\* below zero.  An order is placed by a handler whose row has none yet.
LEMMA NextTypeOK == TypeOK /\ OrderNeedsExecution /\ [Next]_vars => TypeOK'
  <1> SUFFICES ASSUME TypeOK, OrderNeedsExecution, [Next]_vars
               PROVE  TypeOK'
    OBVIOUS
  <1> USE DEF TypeOK, moneyVars, custodyVars, queueVars
  <1>1. CASE SetOperational
    BY <1>1 DEF SetOperational
  <1>2. ASSUME NEW amount \in Conversions, ConvertUsdt(amount)
        PROVE  TypeOK'
    BY <1>2, WithdrawalAssumption DEF ConvertUsdt, BalanceType
  <1>3. ASSUME NEW w \in Withdrawals, CreateWithdrawal(w)
        PROVE  TypeOK'
    BY <1>3, QueueStatusType DEF CreateWithdrawal, CustodyStatuses
  <1>4. ASSUME NEW w \in Withdrawals, ApproveWithdrawal(w)
        PROVE  TypeOK'
    BY <1>4, QueueStatusType DEF ApproveWithdrawal, CustodyStatuses
  <1>5. ASSUME NEW w \in Withdrawals, RejectWithdrawal(w)
        PROVE  TypeOK'
    BY <1>5, QueueStatusType DEF RejectWithdrawal, CustodyStatuses,
       AccountingStatuses
  <1>6. ASSUME NEW w \in Withdrawals, ReconcileCompleted(w)
        PROVE  TypeOK'
    BY <1>6, QueueStatusType DEF ReconcileCompleted, CustodyStatuses
  <1>7. ASSUME NEW w \in Withdrawals, StartExecution(w)
        PROVE  TypeOK'
    BY <1>7 DEF StartExecution, CustodyStatuses, ActiveHandler
  <1>8. ASSUME NEW w \in Withdrawals, CheckAddress(w)
        PROVE  TypeOK'
    BY <1>8 DEF CheckAddress, ActiveHandler
  <1>9. ASSUME NEW w \in Withdrawals, CallPayout(w)
        PROVE  TypeOK'
    BY <1>9 DEF CallPayout, ActiveHandler, FinalStatuses, OrderNeedsExecution
  <1>10. ASSUME NEW w \in Withdrawals, PersistSubmission(w)
        PROVE  TypeOK'
    BY <1>10 DEF PersistSubmission, CustodyStatuses, Cids
  <1>11. ASSUME NEW w \in Withdrawals, FailForRelease(w)
        PROVE  TypeOK'
    BY <1>11, QueueStatusType DEF FailForRelease, CustodyStatuses
  <1>12. ASSUME NEW w \in Withdrawals, MarkException(w)
        PROVE  TypeOK'
    BY <1>12 DEF MarkException, CustodyStatuses
  <1>13. ASSUME NEW w \in Withdrawals, ExceptionNotWritten(w)
        PROVE  TypeOK'
    BY <1>13 DEF ExceptionNotWritten
  <1>14. ASSUME NEW w \in Withdrawals, LoseHandler(w)
        PROVE  TypeOK'
    BY <1>14 DEF LoseHandler
  <1>15. ASSUME NEW w \in Withdrawals, DecideOrder(w)
        PROVE  TypeOK'
    BY <1>15 DEF DecideOrder, FinalStatuses
  <1>16. ASSUME NEW w \in Withdrawals, VerifyCallback(w)
        PROVE  TypeOK'
    BY <1>16 DEF VerifyCallback
  <1>17. ASSUME NEW w \in Withdrawals, StoreCallback(w)
        PROVE  TypeOK'
    BY <1>17, QueueStatusType DEF StoreCallback, CustodyStatuses,
       FinalStatuses, Cids
  <1>18. ASSUME NEW w \in Withdrawals, UnboundCallback(w)
        PROVE  TypeOK'
    BY <1>18 DEF UnboundCallback, HoldCallback, CustodyStatuses, Cids
  <1>19. ASSUME NEW w \in Withdrawals, NEW c \in Cids, ReconcileSubmitted(w, c)
        PROVE  TypeOK'
    BY <1>19 DEF ReconcileSubmitted, CustodyStatuses
  <1>20. ASSUME NEW w \in Withdrawals, NEW s \in FinalStatuses,
               InexactCallback(w, s)
        PROVE  TypeOK'
    BY <1>20 DEF InexactCallback, HoldCallback, CustodyStatuses, Cids
  <1>21. ASSUME NEW w \in Withdrawals, NEW s \in Stages, RequeueStale(w, s)
        PROVE  TypeOK'
    BY <1>21, StageStatusType DEF RequeueStale, StaleLock
  <1>22. ASSUME NEW k \in Jobs, NEW w \in Withdrawals, NEW s \in Stages,
               Claim(k, w, s)
        PROVE  TypeOK'
    <2>1. [IdleJob EXCEPT !.pc = "claimed", !.wd = w, !.stage = s] \in JobTypes
      BY DEF IdleJob, JobTypes, Stages
    <2>2. job' \in [Jobs -> JobTypes]
      BY <1>22, <2>1 DEF Claim
    <2>3. \A j \in Jobs : job'[j].pc # "idle" => job'[j].wd \in Withdrawals
      BY <1>22, <2>1 DEF Claim, IdleJob
    <2>4. spent' \in [takeovers : Nat, inexact : Nat, crashes : Nat]
      BY <1>22 DEF Claim, StaleLock
    <2> QED
      BY <1>22, <2>2, <2>3, <2>4, StageStatusType DEF Claim
  <1>23. ASSUME NEW k \in Jobs, NEW w \in Withdrawals, Reserve(k, w)
        PROVE  TypeOK'
    <2>1. account' \in BalanceType /\ wallet' \in BalanceType
      BY <1>23, StageChecksBalance, BalanceMovement,
         WithdrawalAssumption DEF Reserve
    <2>9. /\ job' \in [Jobs -> JobTypes]
          /\ \A j \in Jobs : job'[j].pc # "idle" => job'[j].wd \in Withdrawals
      BY <1>23, IdleJobType DEF Reserve
    <2> QED
      BY <1>23, <2>1, <2>9 DEF Reserve, AccountingStatuses, OperationStatuses
  <1>24. ASSUME NEW k \in Jobs, NEW w \in Withdrawals, Approve(k, w)
        PROVE  TypeOK'
    BY <1>24 DEF Approve, StageChecks, CanFreeze, Freeze, Unfreeze, Consume,
       BalanceType, Net, IdleJob, JobTypes, Stages, AccountingStatuses,
       OperationStatuses
  <1>25. ASSUME NEW k \in Jobs, NEW w \in Withdrawals, ReleaseFunds(k, w)
        PROVE  TypeOK'
    <2>1. account' \in BalanceType /\ wallet' \in BalanceType
      <3>1. CASE op[w] = "none"
        BY <1>25, <3>1 DEF ReleaseFunds
      <3>2. CASE op[w] # "none"
        <4>1. account.frozen >= Total[w] /\ wallet.frozen >= Total[w]
          BY <1>25, <3>2, StageChecksBalance DEF ReleaseFunds
        <4>2. /\ Unfreeze(account, Total[w]) \in BalanceType
              /\ Unfreeze(wallet, Total[w]) \in BalanceType
          BY <4>1, BalanceMovement, WithdrawalAssumption
        <4> QED
          BY <1>25, <3>2, <4>2 DEF ReleaseFunds
      <3> QED
        BY <3>1, <3>2
    <2>2. op' \in [Withdrawals -> OperationStatuses]
      BY <1>25 DEF ReleaseFunds, OperationStatuses
    <2>9. /\ job' \in [Jobs -> JobTypes]
          /\ \A j \in Jobs : job'[j].pc # "idle" => job'[j].wd \in Withdrawals
      BY <1>25, IdleJobType DEF ReleaseFunds
    <2> QED
      BY <1>25, <2>1, <2>2, <2>9 DEF ReleaseFunds, AccountingStatuses
  <1>26. ASSUME NEW k \in Jobs, NEW w \in Withdrawals, Settle(k, w)
        PROVE  TypeOK'
    <2>1. account' \in BalanceType /\ wallet' \in BalanceType
      BY <1>26, StageChecksBalance, BalanceMovement,
         WithdrawalAssumption DEF Settle
    <2>2. journal' \in [clearing : Nat, feeRevenue : Nat, converted : Nat]
      <3>1. /\ journal.clearing + Net[w] \in Nat
            /\ journal.feeRevenue + Fee[w] \in Nat
        BY NetType, WithdrawalAssumption
      <3> QED
        BY <1>26, <3>1 DEF Settle
    <2>9. /\ job' \in [Jobs -> JobTypes]
          /\ \A j \in Jobs : job'[j].pc # "idle" => job'[j].wd \in Withdrawals
      BY <1>26, IdleJobType DEF Settle
    <2> QED
      BY <1>26, <2>1, <2>2, <2>9 DEF Settle, AccountingStatuses,
         OperationStatuses
  <1>27. ASSUME NEW k \in Jobs, FailStage(k)
        PROVE  TypeOK'
    <2> PICK b \in BOOLEAN :
             job' = [job EXCEPT ![k] =
                        [@ EXCEPT !.pc = "failed", !.retryable = b]]
      BY <1>27 DEF FailStage
    <2>3. job[k].pc # "idle" /\ job[k] \in JobTypes
      BY <1>27 DEF FailStage
    <2>1. job' \in [Jobs -> JobTypes]
      BY <2>3, FailedJobType
    <2>2. \A j \in Jobs : job'[j].pc # "idle" => job'[j].wd \in Withdrawals
      BY <2>3, FailedJobType
    <2> QED
      BY <1>27, <2>1, <2>2 DEF FailStage
  <1>28. ASSUME NEW k \in Jobs, ReadFailure(k)
        PROVE  TypeOK'
    <2>1. job[k] \in JobTypes /\ job[k].wd \in Withdrawals
      BY <1>28 DEF ReadFailure
    <2>2. CASE job' = [job EXCEPT ![k] = IdleJob]
      BY <1>28, <2>1, <2>2, IdleJobType DEF ReadFailure
    <2>3. CASE job' # [job EXCEPT ![k] = IdleJob]
      <3> PICK s \in Stages, b \in BOOLEAN :
               job' = [job EXCEPT ![k] =
                  [@ EXCEPT !.pc = "recording", !.seen = s, !.terminal = b]]
        BY <1>28, <2>3 DEF ReadFailure
      <3>1. job' \in [Jobs -> JobTypes]
        BY <2>1, RecordingJobType
      <3>2. \A j \in Jobs : job'[j].pc # "idle" => job'[j].wd \in Withdrawals
        <4>1. job'[k].wd = job[k].wd
          BY <2>1, RecordingJobType
        <4>2. \A j \in Jobs \ {k} : job'[j] = job[j]
          OBVIOUS
        <4> QED
          BY <2>1, <4>1, <4>2
      <3> QED
        BY <1>28, <3>1, <3>2 DEF ReadFailure
    <2> QED
      BY <2>2, <2>3
  <1>29. ASSUME NEW k \in Jobs, WriteFailure(k)
        PROVE  TypeOK'
    <2>1. job[k].wd \in Withdrawals /\ job[k].seen \in Stages
      BY <1>29 DEF WriteFailure, JobTypes
    <2>2. acct' \in [Withdrawals -> AccountingStatuses]
      BY <1>29, <2>1, StageStatusType DEF WriteFailure, AccountingStatuses
    <2>3. attempts' \in [Withdrawals -> Nat]
      BY <1>29, <2>1 DEF WriteFailure
    <2>4. /\ job' \in [Jobs -> JobTypes]
          /\ \A j \in Jobs : job'[j].pc # "idle" => job'[j].wd \in Withdrawals
      BY <1>29, IdleJobType DEF WriteFailure
    <2> QED
      BY <1>29, <2>2, <2>3, <2>4 DEF WriteFailure
  <1>30. ASSUME NEW k \in Jobs, ReleaseClaim(k)
        PROVE  TypeOK'
    BY <1>30, StageStatusType DEF ReleaseClaim, IdleJob, JobTypes, Stages,
       AccountingStatuses
  <1>31. ASSUME NEW k \in Jobs, CrashJob(k)
        PROVE  TypeOK'
    BY <1>31, StageStatusType DEF CrashJob, IdleJob, JobTypes, Stages,
       AccountingStatuses
  <1>32. CASE UNCHANGED vars
    BY <1>32 DEF vars
  <1> QED
    BY <1>1, <1>2, <1>3, <1>4, <1>5, <1>6, <1>7, <1>8, <1>9, <1>10, <1>11,
       <1>12, <1>13, <1>14, <1>15, <1>16, <1>17, <1>18, <1>19, <1>20, <1>21,
       <1>22, <1>23, <1>24, <1>25, <1>26, <1>27, <1>28, <1>29, <1>30, <1>31,
       <1>32
       DEF Next, CustomerOrAdmin, ExecuteHandler, Provider, AccountingCall

-----------------------------------------------------------------------------
(* The inductive invariant.  PaidNeverReleased and SettledWasPaid are not   *)
(* inductive: a release is refused for a paid order only because such an   *)
(* order keeps its row out of the release stage, and that in turn because  *)
(* no other handler than the one that saw a refusal queues a release.      *)

IInv == TypeOK /\ Lifecycle /\ PayoutNeedsReservation

\* Statuses that the queue passes through without touching Core records.
SameStage(a, b) ==
    \E s \in Stages :
        /\ a \in {PendingStatus[s], ProcessingStatus[s]}
        /\ b \in {PendingStatus[s], ProcessingStatus[s], "exception"}

\* Moving a row within its stage, or to exception, keeps the agreement of
\* the queue with custody, Core and provider.
LEMMA QueueMove ==
    ASSUME IInv, NEW w \in Withdrawals, NEW b, SameStage(acct[w], b),
           acct' = [acct EXCEPT ![w] = b],
           UNCHANGED <<custody, op, exec, order>>
    PROVE  Lifecycle' /\ PayoutNeedsReservation'
  <1> USE DEF IInv, TypeOK, SameStage, Stages, PendingStatus, ProcessingStatus
  <1>1. QueueMatchesCore'
    BY DEF Lifecycle, QueueMatchesCore, OpenStatuses
  <1>2. OrderNeedsExecution'
    BY DEF Lifecycle, OrderNeedsExecution
  <1>3. QueueMatchesOrder'
    BY DEF Lifecycle, QueueMatchesOrder
  <1>4. PayoutNeedsReservation'
    BY DEF PayoutNeedsReservation
  <1> QED
    BY <1>1, <1>2, <1>3, <1>4 DEF Lifecycle

\* Every step keeps the agreement of queue, custody row, Core and provider.
LEMMA NextLifecycle ==
    IInv /\ [Next]_vars => Lifecycle' /\ PayoutNeedsReservation'
  <1> SUFFICES ASSUME IInv, [Next]_vars
               PROVE  Lifecycle' /\ PayoutNeedsReservation'
    OBVIOUS
  <1> USE DEF moneyVars, custodyVars, queueVars
  <1>1. CASE SetOperational
    BY <1>1 DEF SetOperational, IInv, TypeOK, Lifecycle, QueueMatchesCore,
       OrderNeedsExecution, QueueMatchesOrder, PayoutNeedsReservation
  <1>2. ASSUME NEW amount \in Conversions, ConvertUsdt(amount)
        PROVE  Lifecycle' /\ PayoutNeedsReservation'
    BY <1>2 DEF ConvertUsdt, IInv, TypeOK, Lifecycle, QueueMatchesCore,
       OrderNeedsExecution, QueueMatchesOrder, PayoutNeedsReservation
  <1>3. ASSUME NEW w \in Withdrawals, CreateWithdrawal(w)
        PROVE  Lifecycle' /\ PayoutNeedsReservation'
    BY <1>3 DEF CreateWithdrawal, IInv, TypeOK, Lifecycle, QueueMatchesCore,
       OrderNeedsExecution, QueueMatchesOrder, PayoutNeedsReservation
  <1>4. ASSUME NEW w \in Withdrawals, ApproveWithdrawal(w)
        PROVE  Lifecycle' /\ PayoutNeedsReservation'
    BY <1>4 DEF ApproveWithdrawal, IInv, TypeOK, Lifecycle, QueueMatchesCore,
       OrderNeedsExecution, QueueMatchesOrder, PayoutNeedsReservation
  <1>5. ASSUME NEW w \in Withdrawals, RejectWithdrawal(w)
        PROVE  Lifecycle' /\ PayoutNeedsReservation'
    BY <1>5 DEF RejectWithdrawal, OpenStatuses, IInv, TypeOK, Lifecycle,
       QueueMatchesCore, OrderNeedsExecution, QueueMatchesOrder,
       PayoutNeedsReservation
  <1>6. ASSUME NEW w \in Withdrawals, ReconcileCompleted(w)
        PROVE  Lifecycle' /\ PayoutNeedsReservation'
    BY <1>6 DEF ReconcileCompleted, ProviderConfirms, IInv, TypeOK, Lifecycle,
       QueueMatchesCore, OrderNeedsExecution, QueueMatchesOrder,
       PayoutNeedsReservation
  <1>7. ASSUME NEW w \in Withdrawals, StartExecution(w)
        PROVE  Lifecycle' /\ PayoutNeedsReservation'
    BY <1>7 DEF StartExecution, IInv, TypeOK, Lifecycle, QueueMatchesCore,
       OrderNeedsExecution, QueueMatchesOrder, PayoutNeedsReservation
  <1>8. ASSUME NEW w \in Withdrawals, CheckAddress(w)
        PROVE  Lifecycle' /\ PayoutNeedsReservation'
    BY <1>8 DEF CheckAddress, IInv, TypeOK, Lifecycle, QueueMatchesCore,
       OrderNeedsExecution, QueueMatchesOrder, PayoutNeedsReservation
  <1>9. ASSUME NEW w \in Withdrawals, CallPayout(w)
        PROVE  Lifecycle' /\ PayoutNeedsReservation'
    BY <1>9 DEF CallPayout, IInv, TypeOK, Lifecycle, QueueMatchesCore,
       OrderNeedsExecution, QueueMatchesOrder, PayoutNeedsReservation
  <1>10. ASSUME NEW w \in Withdrawals, PersistSubmission(w)
        PROVE  Lifecycle' /\ PayoutNeedsReservation'
    BY <1>10 DEF PersistSubmission, IInv, TypeOK, Lifecycle, QueueMatchesCore,
       OrderNeedsExecution, QueueMatchesOrder, PayoutNeedsReservation
  <1>11. ASSUME NEW w \in Withdrawals, FailForRelease(w)
        PROVE  Lifecycle' /\ PayoutNeedsReservation'
    BY <1>11 DEF FailForRelease, OpenStatuses, IInv, TypeOK, Lifecycle,
       QueueMatchesCore, OrderNeedsExecution, QueueMatchesOrder,
       PayoutNeedsReservation
  <1>12. ASSUME NEW w \in Withdrawals, MarkException(w)
        PROVE  Lifecycle' /\ PayoutNeedsReservation'
    BY <1>12 DEF MarkException, IInv, TypeOK, Lifecycle, QueueMatchesCore,
       OrderNeedsExecution, QueueMatchesOrder, PayoutNeedsReservation
  <1>13. ASSUME NEW w \in Withdrawals, ExceptionNotWritten(w)
        PROVE  Lifecycle' /\ PayoutNeedsReservation'
    BY <1>13 DEF ExceptionNotWritten, IInv, TypeOK, Lifecycle,
       QueueMatchesCore, OrderNeedsExecution, QueueMatchesOrder,
       PayoutNeedsReservation
  <1>14. ASSUME NEW w \in Withdrawals, LoseHandler(w)
        PROVE  Lifecycle' /\ PayoutNeedsReservation'
    BY <1>14 DEF LoseHandler, IInv, TypeOK, Lifecycle, QueueMatchesCore,
       OrderNeedsExecution, QueueMatchesOrder, PayoutNeedsReservation
  <1>15. ASSUME NEW w \in Withdrawals, DecideOrder(w)
        PROVE  Lifecycle' /\ PayoutNeedsReservation'
    BY <1>15 DEF DecideOrder, FinalStatuses, IInv, TypeOK, Lifecycle,
       QueueMatchesCore, OrderNeedsExecution, QueueMatchesOrder,
       PayoutNeedsReservation
  <1>16. ASSUME NEW w \in Withdrawals, VerifyCallback(w)
        PROVE  Lifecycle' /\ PayoutNeedsReservation'
    BY <1>16 DEF VerifyCallback, IInv, TypeOK, Lifecycle, QueueMatchesCore,
       OrderNeedsExecution, QueueMatchesOrder, PayoutNeedsReservation
  <1>17. ASSUME NEW w \in Withdrawals, StoreCallback(w)
        PROVE  Lifecycle' /\ PayoutNeedsReservation'
    BY <1>17 DEF StoreCallback, OpenStatuses, FinalStatuses, LiveCustody,
       IInv, TypeOK, Lifecycle, QueueMatchesCore, OrderNeedsExecution,
       QueueMatchesOrder, PayoutNeedsReservation
  <1>18. ASSUME NEW w \in Withdrawals, UnboundCallback(w)
        PROVE  Lifecycle' /\ PayoutNeedsReservation'
    BY <1>18 DEF UnboundCallback, HoldCallback, LiveCustody, FinalStatuses,
       IInv, TypeOK, Lifecycle, QueueMatchesCore, OrderNeedsExecution,
       QueueMatchesOrder,
       PayoutNeedsReservation
  <1>19. ASSUME NEW w \in Withdrawals, NEW c \in Cids, ReconcileSubmitted(w, c)
        PROVE  Lifecycle' /\ PayoutNeedsReservation'
    BY <1>19 DEF ReconcileSubmitted, IInv, TypeOK, Lifecycle,
       QueueMatchesCore, OrderNeedsExecution, QueueMatchesOrder,
       PayoutNeedsReservation
  <1>20. ASSUME NEW w \in Withdrawals, NEW s \in FinalStatuses,
               InexactCallback(w, s)
        PROVE  Lifecycle' /\ PayoutNeedsReservation'
    BY <1>20 DEF InexactCallback, HoldCallback, LiveCustody, IInv, TypeOK,
       Lifecycle, QueueMatchesCore, OrderNeedsExecution, QueueMatchesOrder,
       PayoutNeedsReservation
  <1>21. ASSUME NEW w \in Withdrawals, NEW s \in Stages, RequeueStale(w, s)
        PROVE  Lifecycle' /\ PayoutNeedsReservation'
    BY <1>21, QueueMove DEF RequeueStale, SameStage
  <1>22. ASSUME NEW k \in Jobs, NEW w \in Withdrawals, NEW s \in Stages,
               Claim(k, w, s)
        PROVE  Lifecycle' /\ PayoutNeedsReservation'
    BY <1>22, QueueMove DEF Claim, SameStage
  <1>23. ASSUME NEW k \in Jobs, NEW w \in Withdrawals, Reserve(k, w)
        PROVE  Lifecycle' /\ PayoutNeedsReservation'
    BY <1>23 DEF Reserve, Loaded, ProcessingStatus, OpenStatuses, IInv,
       TypeOK, Lifecycle, QueueMatchesCore, OrderNeedsExecution,
       QueueMatchesOrder, PayoutNeedsReservation
  <1>24. ASSUME NEW k \in Jobs, NEW w \in Withdrawals, Approve(k, w)
        PROVE  Lifecycle' /\ PayoutNeedsReservation'
    BY <1>24 DEF Approve, Loaded, ProcessingStatus, OpenStatuses, IInv,
       TypeOK, Lifecycle, QueueMatchesCore, OrderNeedsExecution,
       QueueMatchesOrder, PayoutNeedsReservation
  <1>25. ASSUME NEW k \in Jobs, NEW w \in Withdrawals, ReleaseFunds(k, w)
        PROVE  Lifecycle' /\ PayoutNeedsReservation'
    BY <1>25 DEF ReleaseFunds, Loaded, ProcessingStatus, OpenStatuses, IInv,
       TypeOK, Lifecycle, QueueMatchesCore, OrderNeedsExecution,
       QueueMatchesOrder, PayoutNeedsReservation
  <1>26. ASSUME NEW k \in Jobs, NEW w \in Withdrawals, Settle(k, w)
        PROVE  Lifecycle' /\ PayoutNeedsReservation'
    BY <1>26 DEF Settle, Loaded, ProcessingStatus, OpenStatuses, IInv, TypeOK,
       Lifecycle, QueueMatchesCore, OrderNeedsExecution, QueueMatchesOrder,
       PayoutNeedsReservation
  <1>27. ASSUME NEW k \in Jobs, FailStage(k)
        PROVE  Lifecycle' /\ PayoutNeedsReservation'
    BY <1>27 DEF FailStage, IInv, TypeOK, Lifecycle, QueueMatchesCore,
       OrderNeedsExecution, QueueMatchesOrder, PayoutNeedsReservation
  <1>28. ASSUME NEW k \in Jobs, ReadFailure(k)
        PROVE  Lifecycle' /\ PayoutNeedsReservation'
    BY <1>28 DEF ReadFailure, IInv, TypeOK, Lifecycle, QueueMatchesCore,
       OrderNeedsExecution, QueueMatchesOrder, PayoutNeedsReservation
  <1>29. ASSUME NEW k \in Jobs, CrashJob(k)
        PROVE  Lifecycle' /\ PayoutNeedsReservation'
    BY <1>29 DEF CrashJob, IInv, TypeOK, Lifecycle, QueueMatchesCore,
       OrderNeedsExecution, QueueMatchesOrder, PayoutNeedsReservation
  <1>30. ASSUME NEW k \in Jobs, WriteFailure(k)
        PROVE  Lifecycle' /\ PayoutNeedsReservation'
    <2>1. job[k].wd \in Withdrawals /\ job[k].seen \in Stages
      BY <1>30 DEF WriteFailure, IInv, TypeOK, JobTypes
    <2>2. CASE acct[job[k].wd] = ProcessingStatus[job[k].seen]
      BY <1>30, <2>1, <2>2, QueueMove DEF WriteFailure, SameStage
    <2>3. CASE acct[job[k].wd] # ProcessingStatus[job[k].seen]
      <3>1. acct' = acct
        BY <1>30, <2>1, <2>3 DEF WriteFailure, IInv, TypeOK
      <3> QED
        BY <1>30, <3>1 DEF WriteFailure, IInv, Lifecycle, QueueMatchesCore,
           OrderNeedsExecution, QueueMatchesOrder, PayoutNeedsReservation
    <2> QED
      BY <2>2, <2>3
  <1>31. ASSUME NEW k \in Jobs, ReleaseClaim(k)
        PROVE  Lifecycle' /\ PayoutNeedsReservation'
    <2>1. job[k].wd \in Withdrawals /\ job[k].stage \in Stages
      BY <1>31 DEF ReleaseClaim, IInv, TypeOK, JobTypes
    <2>2. CASE acct[job[k].wd] = ProcessingStatus[job[k].stage]
      BY <1>31, <2>1, <2>2, QueueMove DEF ReleaseClaim, SameStage
    <2>3. CASE acct[job[k].wd] # ProcessingStatus[job[k].stage]
      <3>1. acct' = acct
        BY <1>31, <2>1, <2>3 DEF ReleaseClaim, IInv, TypeOK
      <3> QED
        BY <1>31, <3>1 DEF ReleaseClaim, IInv, Lifecycle, QueueMatchesCore,
           OrderNeedsExecution, QueueMatchesOrder, PayoutNeedsReservation
    <2> QED
      BY <2>2, <2>3
  <1>32. CASE UNCHANGED vars
    BY <1>32 DEF vars, IInv, TypeOK, Lifecycle, QueueMatchesCore,
       OrderNeedsExecution, QueueMatchesOrder, PayoutNeedsReservation
  <1> QED
    BY <1>1, <1>2, <1>3, <1>4, <1>5, <1>6, <1>7, <1>8, <1>9, <1>10, <1>11,
       <1>12, <1>13, <1>14, <1>15, <1>16, <1>17, <1>18, <1>19, <1>20, <1>21,
       <1>22, <1>23, <1>24, <1>25, <1>26, <1>27, <1>28, <1>29, <1>30, <1>31,
       <1>32
       DEF Next, CustomerOrAdmin, ExecuteHandler, Provider, AccountingCall

\* IInv is inductive.
LEMMA Inductive == Spec => []IInv
  <1>1. Init => IInv
    <2>1. Init => TypeOK
      BY InitTypeOK
    <2>2. Init => Lifecycle /\ PayoutNeedsReservation
      BY DEF Init, Lifecycle, QueueMatchesCore, OrderNeedsExecution,
             QueueMatchesOrder, PayoutNeedsReservation
    <2> QED
      BY <2>1, <2>2 DEF IInv
  <1>2. IInv /\ [Next]_vars => IInv'
    BY NextTypeOK, NextLifecycle DEF IInv, Lifecycle
  <1> QED
    BY <1>1, <1>2, PTL DEF Spec

\* Every reachable state of handlers, queue, worker and provider is well
\* typed; no sequence of Core updates drives a balance below zero.
THEOREM TypeCorrect == Spec => []TypeOK
  BY Inductive, PTL DEF IInv

\* The custody row, the accounting queue, the Core records and the provider's
\* order never disagree on how far a withdrawal has come.
THEOREM LifecycleHolds == Spec => []Lifecycle
  BY Inductive, PTL DEF IInv

\* The provider holds an order only for a withdrawal the Core had moved to
\* PROCESSING.
THEOREM PayoutsAreReserved == Spec => []PayoutNeedsReservation
  BY Inductive, PTL DEF IInv

\* A completed payout is never given back to the customer.
THEOREM PaidIsNeverReleased == Spec => []PaidNeverReleased
  <1>1. IInv => PaidNeverReleased
    BY DEF IInv, Lifecycle, QueueMatchesCore, QueueMatchesOrder,
           PayoutNeedsReservation, PaidNeverReleased, OpenStatuses
  <1> QED
    BY <1>1, Inductive, PTL

\* The status shown to customer and Admin is final only once the Core moved
\* the money.
THEOREM PublicStatusIsHonest == Spec => []PublicStatusHonest
  <1>1. IInv => PublicStatusHonest
    BY DEF IInv, TypeOK, Lifecycle, QueueMatchesCore, PublicStatusHonest,
           PublicStatus
  <1> QED
    BY <1>1, Inductive, PTL

\* The customer is debited only for a payout that really happened.
THEOREM SettledIsPaid == Spec => []SettledWasPaid
  <1>1. IInv => SettledWasPaid
    BY DEF IInv, TypeOK, Lifecycle, QueueMatchesCore, QueueMatchesOrder,
           SettledWasPaid, AccountingStatuses, QueueStatuses, PendingStatuses,
           ProcessingStatuses, Stages, PendingStatus, ProcessingStatus,
           OpenStatuses
  <1> QED
    BY <1>1, Inductive, PTL

-----------------------------------------------------------------------------
(* Steps that move no money and no order. *)

\* Actions that leave the Core balances and Operation alone.
LEMMA MoneyOnlyMovesHere ==
    ASSUME [Next]_vars
    PROVE  \/ UNCHANGED <<account, wallet, op>>
           \/ \E amount \in Conversions : ConvertUsdt(amount)
           \/ \E k \in Jobs, w \in Withdrawals :
                 \/ Reserve(k, w)
                 \/ Approve(k, w)
                 \/ ReleaseFunds(k, w)
                 \/ Settle(k, w)
  <1> USE DEF moneyVars, custodyVars, queueVars
  <1>1. CASE CustomerOrAdmin
    BY <1>1 DEF CustomerOrAdmin, SetOperational, CreateWithdrawal,
       ApproveWithdrawal, RejectWithdrawal, ReconcileCompleted,
       ReconcileSubmitted
  <1>2. ASSUME NEW w \in Withdrawals, ExecuteHandler(w)
        PROVE  UNCHANGED <<account, wallet, op>>
    BY <1>2 DEF ExecuteHandler, StartExecution, CheckAddress, CallPayout,
       PersistSubmission, FailForRelease, MarkException, ExceptionNotWritten,
       LoseHandler
  <1>3. ASSUME NEW w \in Withdrawals, Provider(w)
        PROVE  UNCHANGED <<account, wallet, op>>
    BY <1>3 DEF Provider, DecideOrder, VerifyCallback, StoreCallback,
       UnboundCallback, InexactCallback, HoldCallback
  <1>4. ASSUME NEW w \in Withdrawals, NEW s \in Stages, RequeueStale(w, s)
        PROVE  UNCHANGED <<account, wallet, op>>
    BY <1>4 DEF RequeueStale
  <1>5. ASSUME NEW k \in Jobs, AccountingCall(k)
        PROVE  \/ UNCHANGED <<account, wallet, op>>
               \/ \E w \in Withdrawals :
                     \/ Reserve(k, w)
                     \/ Approve(k, w)
                     \/ ReleaseFunds(k, w)
                     \/ Settle(k, w)
    BY <1>5 DEF AccountingCall, Claim, FailStage, ReadFailure, WriteFailure,
       ReleaseClaim, CrashJob
  <1>6. CASE UNCHANGED vars
    BY <1>6 DEF vars
  <1> QED
    BY <1>1, <1>2, <1>3, <1>4, <1>5, <1>6 DEF Next

\* Account and mirror change together.
LEMMA MirrorKept == ASSUME MirrorInSync, [Next]_vars PROVE MirrorInSync'
  <1> USE DEF MirrorInSync, moneyVars
  <1>1. ASSUME NEW amount \in Conversions, ConvertUsdt(amount)
        PROVE  MirrorInSync'
    BY <1>1 DEF ConvertUsdt
  <1>2. ASSUME NEW k \in Jobs, NEW w \in Withdrawals,
               \/ Reserve(k, w)
               \/ Approve(k, w)
               \/ ReleaseFunds(k, w)
               \/ Settle(k, w)
        PROVE  MirrorInSync'
    BY <1>2 DEF Reserve, Approve, ReleaseFunds, Settle
  <1> QED
    BY <1>1, <1>2, MoneyOnlyMovesHere

\* The Account and its CryptoWallet mirror never differ.
THEOREM MirrorStaysInSync == Spec => []MirrorInSync
  <1>1. Init => MirrorInSync
    BY DEF Init, MirrorInSync
  <1>2. MirrorInSync /\ [Next]_vars => MirrorInSync'
    BY MirrorKept
  <1> QED
    BY <1>1, <1>2, PTL DEF Spec

\* The three money movements, field by field.
LEMMA MovedAmounts ==
    ASSUME NEW b \in BalanceType, NEW n \in Nat
    PROVE  /\ Freeze(b, n).available = b.available - n
           /\ Freeze(b, n).frozen = b.frozen + n
           /\ Unfreeze(b, n).available = b.available + n
           /\ Unfreeze(b, n).frozen = b.frozen - n
           /\ Consume(b, n).available = b.available
           /\ Consume(b, n).frozen = b.frozen - n
  BY DEF BalanceType, Freeze, Unfreeze, Consume

\* Journals are posted by conversions and settlements only.
LEMMA JournalOnlyMovesHere ==
    ASSUME [Next]_vars
    PROVE  \/ UNCHANGED journal
           \/ \E amount \in Conversions : ConvertUsdt(amount)
           \/ \E k \in Jobs, w \in Withdrawals : Settle(k, w)
  <1> USE DEF moneyVars, custodyVars, queueVars
  <1>1. CASE CustomerOrAdmin
    BY <1>1 DEF CustomerOrAdmin, SetOperational, CreateWithdrawal,
       ApproveWithdrawal, RejectWithdrawal, ReconcileCompleted,
       ReconcileSubmitted
  <1>2. ASSUME NEW w \in Withdrawals, ExecuteHandler(w)
        PROVE  UNCHANGED journal
    BY <1>2 DEF ExecuteHandler, StartExecution, CheckAddress, CallPayout,
       PersistSubmission, FailForRelease, MarkException, ExceptionNotWritten,
       LoseHandler
  <1>3. ASSUME NEW w \in Withdrawals, Provider(w)
        PROVE  UNCHANGED journal
    BY <1>3 DEF Provider, DecideOrder, VerifyCallback, StoreCallback,
       UnboundCallback, InexactCallback, HoldCallback
  <1>4. ASSUME NEW w \in Withdrawals, NEW s \in Stages, RequeueStale(w, s)
        PROVE  UNCHANGED journal
    BY <1>4 DEF RequeueStale
  <1>5. ASSUME NEW k \in Jobs, AccountingCall(k)
        PROVE  UNCHANGED journal \/ \E w \in Withdrawals : Settle(k, w)
    BY <1>5 DEF AccountingCall, Claim, Reserve, Approve, ReleaseFunds,
       FailStage, ReadFailure, WriteFailure, ReleaseClaim, CrashJob
  <1>6. CASE UNCHANGED vars
    BY <1>6 DEF vars
  <1> QED
    BY <1>1, <1>2, <1>3, <1>4, <1>5, <1>6 DEF Next

\* No sequence of reservations, releases, settlements and conversions creates
\* or destroys USDT.
THEOREM MoneyIsConserved == Spec => []MoneyConserved
  <1>1. Init => MoneyConserved
    BY WithdrawalAssumption DEF Init, MoneyConserved
  <1>2. IInv /\ MoneyConserved /\ [Next]_vars => MoneyConserved'
    <2> SUFFICES ASSUME IInv, MoneyConserved, [Next]_vars
                 PROVE  MoneyConserved'
      OBVIOUS
    <2>t. /\ account \in BalanceType
          /\ account.available \in Nat /\ account.frozen \in Nat
          /\ journal \in [clearing : Nat, feeRevenue : Nat, converted : Nat]
          /\ journal.clearing \in Nat /\ journal.feeRevenue \in Nat
          /\ journal.converted \in Nat
          /\ OpeningBalance \in Nat
      BY WithdrawalAssumption DEF IInv, TypeOK, BalanceType
    <2>1. ASSUME NEW amount \in Conversions, ConvertUsdt(amount)
          PROVE  MoneyConserved'
      <3>1. /\ amount \in Nat
            /\ account'.available = account.available - amount
            /\ account'.frozen = account.frozen
            /\ journal'.clearing = journal.clearing
            /\ journal'.feeRevenue = journal.feeRevenue
            /\ journal'.converted = journal.converted + amount
        BY <2>1, <2>t, WithdrawalAssumption DEF ConvertUsdt, BalanceType
      <3> QED
        BY <2>t, <3>1 DEF MoneyConserved
    <2>2. ASSUME NEW k \in Jobs, NEW w \in Withdrawals, Reserve(k, w)
          PROVE  MoneyConserved'
      <3>1. /\ Total[w] \in Nat
            /\ account'.available = account.available - Total[w]
            /\ account'.frozen = account.frozen + Total[w]
            /\ journal' = journal
        BY <2>2, <2>t, MovedAmounts, WithdrawalAssumption DEF Reserve
      <3> QED
        BY <2>t, <3>1 DEF MoneyConserved
    <2>3. ASSUME NEW k \in Jobs, NEW w \in Withdrawals, Approve(k, w)
          PROVE  MoneyConserved'
      BY <2>3 DEF Approve, moneyVars, MoneyConserved
    <2>4. ASSUME NEW k \in Jobs, NEW w \in Withdrawals, ReleaseFunds(k, w)
          PROVE  MoneyConserved'
      <3>1. CASE op[w] = "none"
        BY <2>4, <3>1 DEF ReleaseFunds, MoneyConserved
      <3>2. CASE op[w] # "none"
        <4>1. account' = Unfreeze(account, Total[w]) /\ journal' = journal
          BY <2>4, <3>2 DEF ReleaseFunds
        <4>2. /\ Total[w] \in Nat
              /\ account'.available = account.available + Total[w]
              /\ account'.frozen = account.frozen - Total[w]
          BY <2>t, <4>1, MovedAmounts, WithdrawalAssumption
        <4> QED
          BY <2>t, <4>1, <4>2 DEF MoneyConserved
      <3> QED
        BY <3>1, <3>2
    <2>5. ASSUME NEW k \in Jobs, NEW w \in Withdrawals, Settle(k, w)
          PROVE  MoneyConserved'
      <3>1. /\ Total[w] \in Nat /\ Fee[w] \in Nat
            /\ Net[w] = Total[w] - Fee[w]
        BY WithdrawalAssumption DEF Net
      <3>2. /\ account'.available = account.available
            /\ account'.frozen = account.frozen - Total[w]
        BY <2>5, <2>t, <3>1, MovedAmounts DEF Settle
      <3>3. /\ journal'.clearing = journal.clearing + Net[w]
            /\ journal'.feeRevenue = journal.feeRevenue + Fee[w]
            /\ journal'.converted = journal.converted
        BY <2>5, <2>t DEF Settle
      <3> QED
        BY <2>t, <3>1, <3>2, <3>3 DEF MoneyConserved
    <2>6. CASE UNCHANGED <<account, journal>>
      BY <2>6 DEF MoneyConserved
    <2> QED
      BY <2>1, <2>2, <2>3, <2>4, <2>5, <2>6, MoneyOnlyMovesHere,
         JournalOnlyMovesHere
  <1> QED
    BY <1>1, <1>2, Inductive, PTL DEF Spec

\* Only the payout call and the provider itself touch an order, and neither
\* touches money or the queue.
LEMMA OrdersOnlyMoveHere ==
    ASSUME [Next]_vars
    PROVE  \/ UNCHANGED order
           \/ \E w \in Withdrawals : CallPayout(w) \/ DecideOrder(w)
  <1> USE DEF moneyVars, custodyVars, queueVars
  <1>1. CASE CustomerOrAdmin
    BY <1>1 DEF CustomerOrAdmin, SetOperational, ConvertUsdt, CreateWithdrawal,
       ApproveWithdrawal, RejectWithdrawal, ReconcileCompleted,
       ReconcileSubmitted
  <1>2. ASSUME NEW w \in Withdrawals, ExecuteHandler(w)
        PROVE  UNCHANGED order \/ CallPayout(w)
    BY <1>2 DEF ExecuteHandler, StartExecution, CheckAddress,
       PersistSubmission, FailForRelease, MarkException, ExceptionNotWritten,
       LoseHandler
  <1>3. ASSUME NEW w \in Withdrawals, Provider(w)
        PROVE  UNCHANGED order \/ DecideOrder(w)
    BY <1>3 DEF Provider, VerifyCallback, StoreCallback, UnboundCallback,
       InexactCallback, HoldCallback
  <1>4. ASSUME NEW w \in Withdrawals, NEW s \in Stages, RequeueStale(w, s)
        PROVE  UNCHANGED order
    BY <1>4 DEF RequeueStale
  <1>5. ASSUME NEW k \in Jobs, AccountingCall(k)
        PROVE  UNCHANGED order
    BY <1>5 DEF AccountingCall, Claim, Reserve, Approve, ReleaseFunds, Settle,
       FailStage, ReadFailure, WriteFailure, ReleaseClaim, CrashJob
  <1>6. CASE UNCHANGED vars
    BY <1>6 DEF vars
  <1> QED
    BY <1>1, <1>2, <1>3, <1>4, <1>5, <1>6 DEF Next

\* No action leaves an accounting row that is in exception.
LEMMA ExceptionStays ==
    ASSUME IInv, [Next]_vars, NEW v \in Withdrawals, acct[v] = "exception"
    PROVE  acct'[v] = "exception"
  <1> USE DEF moneyVars, custodyVars, queueVars
  <1>t. acct \in [Withdrawals -> AccountingStatuses]
    BY DEF IInv, TypeOK
  <1>1. CASE CustomerOrAdmin
    BY <1>1, <1>t DEF CustomerOrAdmin, SetOperational, ConvertUsdt,
       CreateWithdrawal, ApproveWithdrawal, RejectWithdrawal,
       ReconcileCompleted, ReconcileSubmitted, IInv, Lifecycle,
       OrderNeedsExecution
  <1>2. ASSUME NEW w \in Withdrawals, ExecuteHandler(w)
        PROVE  acct'[v] = "exception"
    BY <1>2, <1>t DEF ExecuteHandler, StartExecution, CheckAddress, CallPayout,
       PersistSubmission, FailForRelease, MarkException, ExceptionNotWritten,
       LoseHandler
  <1>3. ASSUME NEW w \in Withdrawals, Provider(w)
        PROVE  acct'[v] = "exception"
    BY <1>3, <1>t DEF Provider, DecideOrder, VerifyCallback, StoreCallback,
       UnboundCallback, InexactCallback, HoldCallback
  <1>4. ASSUME NEW w \in Withdrawals, NEW s \in Stages, RequeueStale(w, s)
        PROVE  acct'[v] = "exception"
    BY <1>4, <1>t DEF RequeueStale, Stages, ProcessingStatus
  <1>5. ASSUME NEW k \in Jobs, NEW w \in Withdrawals, NEW s \in Stages,
               Claim(k, w, s)
        PROVE  acct'[v] = "exception"
    BY <1>5, <1>t DEF Claim, Stages, ProcessingStatus, PendingStatus
  <1>6. ASSUME NEW k \in Jobs, NEW w \in Withdrawals,
               \/ Reserve(k, w)
               \/ Approve(k, w)
               \/ ReleaseFunds(k, w)
               \/ Settle(k, w)
        PROVE  acct'[v] = "exception"
    BY <1>6, <1>t DEF Reserve, Approve, ReleaseFunds, Settle, Loaded,
       ProcessingStatus
  <1>7. ASSUME NEW k \in Jobs, FailStage(k) \/ ReadFailure(k) \/ CrashJob(k)
        PROVE  acct'[v] = "exception"
    BY <1>7 DEF FailStage, ReadFailure, CrashJob
  <1>8. ASSUME NEW k \in Jobs, WriteFailure(k) \/ ReleaseClaim(k)
        PROVE  acct'[v] = "exception"
    <2>1. job[k].seen \in Stages /\ job[k].stage \in Stages
      BY DEF IInv, TypeOK, JobTypes
    <2> QED
      BY <1>8, <1>t, <2>1 DEF WriteFailure, ReleaseClaim, Stages,
         ProcessingStatus
  <1>9. CASE UNCHANGED vars
    BY <1>9 DEF vars
  <1> QED
    BY <1>1, <1>2, <1>3, <1>4, <1>5, <1>6, <1>7, <1>8, <1>9
       DEF Next, AccountingCall

\* An accounting exception blocks the withdrawal for good: no retry, handler
\* or callback moves its row, its Core records or places a payout.
THEOREM ExceptionsBlock == Spec => ExceptionBlocks
  <1>1. ASSUME IInv, [Next]_vars, NEW v \in Withdrawals,
               acct[v] = "exception"
        PROVE  /\ acct'[v] = "exception"
               /\ op'[v] = op[v]
               /\ order[v] = "none" => order'[v] = "none"
    <2>1. acct'[v] = "exception"
      BY <1>1, ExceptionStays
    <2>2. op'[v] = op[v]
      <3>1. ASSUME NEW k \in Jobs, NEW w \in Withdrawals,
                   \/ Reserve(k, w)
                   \/ Approve(k, w)
                   \/ ReleaseFunds(k, w)
                   \/ Settle(k, w)
            PROVE  op'[v] = op[v]
        BY <1>1, <3>1 DEF Reserve, Approve, ReleaseFunds, Settle, Loaded,
           ProcessingStatus, IInv, TypeOK
      <3>2. ASSUME NEW amount \in Conversions, ConvertUsdt(amount)
            PROVE  op'[v] = op[v]
        BY <3>2 DEF ConvertUsdt
      <3> QED
        BY <1>1, <3>1, <3>2, MoneyOnlyMovesHere
    <2>3. order[v] = "none" => order'[v] = "none"
      <3>1. ASSUME NEW w \in Withdrawals, CallPayout(w) \/ DecideOrder(w)
            PROVE  order[v] = "none" => order'[v] = "none"
        BY <1>1, <3>1 DEF CallPayout, DecideOrder, IInv, TypeOK, Lifecycle,
           OrderNeedsExecution
      <3> QED
        BY <1>1, <3>1, OrdersOnlyMoveHere
    <2> QED
      BY <2>1, <2>2, <2>3
  <1>2. IInv /\ [Next]_vars =>
          [\A w \in Withdrawals : acct[w] = "exception" =>
              /\ acct'[w] = "exception"
              /\ op'[w] = op[w]
              /\ order[w] = "none" => order'[w] = "none"]_vars
    BY <1>1
  <1> QED
    BY <1>2, Inductive, PTL DEF Spec, ExceptionBlocks

-----------------------------------------------------------------------------
(* Refinement of WithdrawalFunds. *)

\* The abstract fund of each Core status.
LEMMA FundOfValues ==
    /\ FundOf["none"] = "none"
    /\ FundOf["SUBMITTED"] = "reserved"
    /\ FundOf["PROCESSING"] = "reserved"
    /\ FundOf["COMPLETED"] = "settled"
    /\ FundOf["REJECTED"] = "released"
    /\ FundOf["FAILED"] = "released"
  BY DEF FundOf

\* The initial state maps to the abstract initial state.
LEMMA InitRefines == Init => Funds!Init
  BY FundOfValues DEF Init, Funds!Init

\* Every step maps to an abstract step or leaves the abstract state alone.
LEMMA NextRefines ==
    ASSUME IInv, [Next]_vars
    PROVE  [Funds!Next]_(Funds!vars)
  <1> DEFINE fund == [w \in Withdrawals |-> FundOf[op[w]]]
             paid == {w \in Withdrawals : order[w] = "completed"}
  <1>t. /\ op \in [Withdrawals -> OperationStatuses]
        /\ order \in [Withdrawals -> {"none", "pending"} \cup FinalStatuses]
        /\ account \in BalanceType
    BY DEF IInv, TypeOK
  <1>1. ASSUME NEW amount \in Conversions, ConvertUsdt(amount)
        PROVE  Funds!Convert(amount)
    BY <1>1, <1>t DEF ConvertUsdt, custodyVars, queueVars, Funds!Convert,
       BalanceType
  <1>2. ASSUME NEW k \in Jobs, NEW w \in Withdrawals, Reserve(k, w)
        PROVE  Funds!Reserve(w)
    <2>1. op[w] = "none" /\ account.available >= Total[w]
      BY <1>2, StageChecksBalance DEF Reserve, StageChecks
    <2>2. op' = [op EXCEPT ![w] = "SUBMITTED"]
          /\ account' = Freeze(account, Total[w]) /\ order' = order
      BY <1>2 DEF Reserve, custodyVars
    <2>3. fund' = [fund EXCEPT ![w] = "reserved"]
      BY <1>t, <2>2, FundOfValues
    <2>4. /\ account'.available = account.available - Total[w]
          /\ account'.frozen = account.frozen + Total[w]
      BY <1>t, <2>2 DEF Freeze, BalanceType
    <2> QED
      BY <2>1, <2>2, <2>3, <2>4, FundOfValues DEF Funds!Reserve
  <1>3. ASSUME NEW k \in Jobs, NEW w \in Withdrawals, Approve(k, w)
        PROVE  UNCHANGED Funds!vars
    <2>1. op[w] = "SUBMITTED" /\ op' = [op EXCEPT ![w] = "PROCESSING"]
          /\ UNCHANGED <<account, order>>
      BY <1>3 DEF Approve, StageChecks, custodyVars, moneyVars
    <2>2. fund' = fund
      BY <1>t, <2>1, FundOfValues
    <2> QED
      BY <2>1, <2>2 DEF Funds!vars
  <1>4. ASSUME NEW k \in Jobs, NEW w \in Withdrawals, ReleaseFunds(k, w)
        PROVE  Funds!Release(w)
    <2>1. acct[w] = "releasing" /\ op[w] \in OpenStatuses
          /\ order[w] # "completed"
      BY <1>4 DEF ReleaseFunds, Loaded, ProcessingStatus, IInv, Lifecycle,
         QueueMatchesCore, QueueMatchesOrder
    <2>2. /\ op' = [op EXCEPT ![w] = IF @ = "SUBMITTED" THEN "REJECTED"
                                                        ELSE "FAILED"]
          /\ account' = Unfreeze(account, Total[w])
          /\ order' = order
      BY <1>4, <2>1 DEF ReleaseFunds, custodyVars, OpenStatuses
    <2>3. fund' = [fund EXCEPT ![w] = "released"]
      BY <1>t, <2>1, <2>2, FundOfValues DEF OpenStatuses
    <2>4. /\ account'.available = account.available + Total[w]
          /\ account'.frozen = account.frozen - Total[w]
      BY <1>t, <2>2 DEF Unfreeze, BalanceType
    <2>5. fund[w] = "reserved"
      BY <2>1, FundOfValues DEF OpenStatuses
    <2> QED
      BY <2>1, <2>2, <2>3, <2>4, <2>5 DEF Funds!Release
  <1>5. ASSUME NEW k \in Jobs, NEW w \in Withdrawals, Settle(k, w)
        PROVE  Funds!Settle(w)
    <2>1. op[w] = "PROCESSING" /\ order[w] = "completed"
      BY <1>5 DEF Settle, Loaded, ProcessingStatus, IInv, Lifecycle,
         QueueMatchesCore, QueueMatchesOrder
    <2>2. /\ op' = [op EXCEPT ![w] = "COMPLETED"]
          /\ account' = Consume(account, Total[w])
          /\ order' = order
      BY <1>5 DEF Settle, custodyVars
    <2>3. fund' = [fund EXCEPT ![w] = "settled"]
      BY <1>t, <2>2, FundOfValues
    <2>4. /\ account'.available = account.available
          /\ account'.frozen = account.frozen - Total[w]
      BY <1>t, <2>2 DEF Consume, BalanceType
    <2> QED
      BY <2>1, <2>2, <2>3, <2>4, FundOfValues DEF Funds!Settle
  <1>6. ASSUME NEW w \in Withdrawals, CallPayout(w)
        PROVE  UNCHANGED Funds!vars
    <2>1. order[w] = "none" /\ order'[w] # "completed"
          /\ \A v \in Withdrawals \ {w} : order'[v] = order[v]
      BY <1>6, <1>t DEF CallPayout, IInv, Lifecycle, OrderNeedsExecution
    <2>2. paid' = paid
      BY <2>1
    <2> QED
      BY <1>6, <2>2 DEF CallPayout, Funds!vars, moneyVars
  <1>7. ASSUME NEW w \in Withdrawals, DecideOrder(w)
        PROVE  Funds!Pay(w) \/ UNCHANGED Funds!vars
    <2> PICK s \in FinalStatuses : order' = [order EXCEPT ![w] = s]
      BY <1>7 DEF DecideOrder
    <2>1. order[w] = "pending" /\ op[w] = "PROCESSING"
          /\ UNCHANGED <<op, account>>
      BY <1>7 DEF DecideOrder, moneyVars, IInv, Lifecycle, QueueMatchesCore,
         QueueMatchesOrder
    <2>2. CASE s = "completed"
      <3>1. paid' = paid \cup {w}
        BY <1>t, <2>2
      <3> QED
        BY <2>1, <3>1, FundOfValues DEF Funds!Pay
    <2>3. CASE s # "completed"
      <3>1. paid' = paid
        BY <1>t, <2>1, <2>3
      <3> QED
        BY <2>1, <3>1 DEF Funds!vars
    <2> QED
      BY <2>2, <2>3
  <1>8. CASE UNCHANGED <<account, wallet, op>> /\ UNCHANGED order
    BY <1>8 DEF Funds!vars
  <1>9. \/ UNCHANGED order
        \/ UNCHANGED <<account, wallet, op>>
    BY OrdersOnlyMoveHere DEF CallPayout, DecideOrder, moneyVars
  <1> QED
    BY <1>1, <1>2, <1>3, <1>4, <1>5, <1>6, <1>7, <1>8, <1>9,
       MoneyOnlyMovesHere, OrdersOnlyMoveHere DEF Funds!Next

\* Handlers, queue and worker together implement the abstract life of a
\* reservation: reserve once, pay only what is reserved, end once, giving
\* back only what was not paid.
THEOREM ImplementsFunds == Spec => RefinesFunds
  <1>1. IInv /\ [Next]_vars => [Funds!Next]_(Funds!vars)
    BY NextRefines
  <1> QED
    BY <1>1, InitRefines, Inductive, PTL DEF Spec, RefinesFunds, Funds!Spec

-----------------------------------------------------------------------------
(* The ledger as sums. *)

\* Sums over the same rows, of which there are finitely many.
Ledger ==
    /\ LedgerBalanced
    /\ IsFiniteSet(OpenWithdrawals) /\ IsFiniteSet(SettledWithdrawals)

\* The sums when one withdrawal enters or leaves a set.
LEMMA AmountsMove ==
    ASSUME NEW S, NEW T, NEW w \in Withdrawals, IsFiniteSet(S),
           S \subseteq Withdrawals, T \subseteq Withdrawals, S \ {w} = T \ {w},
           NEW amount \in [Withdrawals -> Nat]
    PROVE  /\ IsFiniteSet(T) /\ SumOver(amount, S) \in Int /\ SumOver(amount, T) \in Int
           /\ SumOver(amount, T) - (IF w \in T THEN amount[w] ELSE 0)
                = SumOver(amount, S) - (IF w \in S THEN amount[w] ELSE 0)
  <1>1. (\A y \in S : amount[y] \in Int) /\ (\A y \in T : amount[y] \in Int)
    OBVIOUS
  <1> QED
    BY <1>1, SumMove DEF Others

\* A step changes one Core operation and moves its amounts with it.
Moves(w, s) ==
    /\ s \in OperationStatuses /\ op[w] # "COMPLETED"
    /\ op' = [op EXCEPT ![w] = s]
    /\ account'.frozen = account.frozen + (IF s \in OpenStatuses THEN Total[w] ELSE 0)
                           - (IF op[w] \in OpenStatuses THEN Total[w] ELSE 0)
    /\ journal'.clearing = journal.clearing + (IF s = "COMPLETED" THEN Net[w] ELSE 0)
    /\ journal'.feeRevenue = journal.feeRevenue + (IF s = "COMPLETED" THEN Fee[w] ELSE 0)

LEMMA LedgerStep ==
    ASSUME TypeOK, Ledger, NEW w \in Withdrawals, NEW s, Moves(w, s)
    PROVE  Ledger'
  <1>1. PICK S, T, U, V : /\ S = OpenWithdrawals /\ T = OpenWithdrawals'
                          /\ U = SettledWithdrawals /\ V = SettledWithdrawals'
    OBVIOUS
  <1>2. op \in [Withdrawals -> OperationStatuses]
    BY DEF TypeOK
  <1>3. /\ S \subseteq Withdrawals /\ T \subseteq Withdrawals /\ S \ {w} = T \ {w}
        /\ (w \in S <=> op[w] \in OpenStatuses) /\ (w \in T <=> s \in OpenStatuses)
    BY <1>1, <1>2 DEF OpenWithdrawals, Moves
  <1>4. /\ U \subseteq Withdrawals /\ V \subseteq Withdrawals /\ U \ {w} = V \ {w}
        /\ w \notin U /\ (w \in V <=> s = "COMPLETED")
    BY <1>1, <1>2 DEF SettledWithdrawals, Moves
  <1>5. /\ IsFiniteSet(S) /\ IsFiniteSet(U) /\ account.frozen = SumOver(Total, S)
        /\ journal.clearing + journal.feeRevenue = SumOver(Total, U)
        /\ journal.feeRevenue = SumOver(Fee, U)
    BY <1>1 DEF Ledger, LedgerBalanced
  <1>6. /\ Total \in [Withdrawals -> Nat] /\ Fee \in [Withdrawals -> Nat]
        /\ Total[w] \in Nat /\ Fee[w] \in Nat /\ Net[w] = Total[w] - Fee[w]
    BY WithdrawalAssumption DEF Net
  <1>7. /\ IsFiniteSet(T) /\ SumOver(Total, S) \in Int /\ SumOver(Total, T) \in Int
        /\ SumOver(Total, T) - (IF w \in T THEN Total[w] ELSE 0)
             = SumOver(Total, S) - (IF w \in S THEN Total[w] ELSE 0)
    BY <1>3, <1>5, <1>6, AmountsMove
  <1>8. /\ IsFiniteSet(V) /\ SumOver(Total, U) \in Int /\ SumOver(Total, V) \in Int
        /\ SumOver(Total, V) - (IF w \in V THEN Total[w] ELSE 0)
             = SumOver(Total, U) - (IF w \in U THEN Total[w] ELSE 0)
    BY <1>4, <1>5, <1>6, AmountsMove
  <1>9. /\ SumOver(Fee, U) \in Int /\ SumOver(Fee, V) \in Int
        /\ SumOver(Fee, V) - (IF w \in V THEN Fee[w] ELSE 0)
             = SumOver(Fee, U) - (IF w \in U THEN Fee[w] ELSE 0)
    BY <1>4, <1>5, <1>6, AmountsMove
  <1>10. journal.clearing \in Int /\ journal.feeRevenue \in Int
    BY DEF TypeOK
  <1>11. account'.frozen = SumOver(Total, T)
    BY <1>3, <1>5, <1>6, <1>7 DEF Moves
  <1>12. /\ journal'.clearing + journal'.feeRevenue = SumOver(Total, V)
         /\ journal'.feeRevenue = SumOver(Fee, V)
    BY <1>4, <1>5, <1>6, <1>8, <1>9, <1>10 DEF Moves
  <1> QED
    BY <1>1, <1>7, <1>8, <1>11, <1>12 DEF Ledger, LedgerBalanced

LEMMA LedgerKept == ASSUME TypeOK, Ledger, [Next]_vars PROVE Ledger'
  <1>1. /\ account \in BalanceType /\ account.frozen \in Int
        /\ journal \in [clearing : Nat, feeRevenue : Nat, converted : Nat]
        /\ journal.clearing \in Int /\ journal.feeRevenue \in Int
        /\ op \in [Withdrawals -> OperationStatuses]
        /\ \A w \in Withdrawals : Total[w] \in Nat /\ Fee[w] \in Nat /\ Net[w] \in Int
    BY NetType, WithdrawalAssumption DEF TypeOK, BalanceType
  <1>2. ASSUME NEW amount \in Conversions, ConvertUsdt(amount) PROVE Ledger'
    <2>1. /\ account'.frozen = account.frozen /\ op' = op
          /\ journal'.clearing = journal.clearing
          /\ journal'.feeRevenue = journal.feeRevenue
      BY <1>1, <1>2 DEF ConvertUsdt, BalanceType
    <2> QED
      BY <2>1 DEF Ledger, LedgerBalanced, OpenWithdrawals, SettledWithdrawals
  <1>3. ASSUME NEW k \in Jobs, NEW w \in Withdrawals, Reserve(k, w) PROVE Ledger'
    <2>1. /\ op[w] = "none" /\ op' = [op EXCEPT ![w] = "SUBMITTED"] /\ journal' = journal
          /\ account' = Freeze(account, Total[w])
      BY <1>3 DEF Reserve, StageChecks
    <2>2. account'.frozen = account.frozen + Total[w]
      BY <1>1, <2>1, MovedAmounts
    <2>3. Moves(w, "SUBMITTED")
      BY <1>1, <2>1, <2>2 DEF Moves, OperationStatuses, OpenStatuses
    <2> QED
      BY <2>3, LedgerStep
  <1>4. ASSUME NEW k \in Jobs, NEW w \in Withdrawals, Approve(k, w) PROVE Ledger'
    <2>1. /\ op[w] = "SUBMITTED" /\ op' = [op EXCEPT ![w] = "PROCESSING"]
          /\ journal' = journal /\ account' = account
      BY <1>4 DEF Approve, StageChecks, moneyVars
    <2>2. Moves(w, "PROCESSING")
      BY <1>1, <2>1 DEF Moves, OperationStatuses, OpenStatuses
    <2> QED
      BY <2>2, LedgerStep
  <1>5. ASSUME NEW k \in Jobs, NEW w \in Withdrawals, ReleaseFunds(k, w) PROVE Ledger'
    <2>1. CASE op[w] = "none"
      BY <1>5, <2>1 DEF ReleaseFunds, Ledger, LedgerBalanced, OpenWithdrawals,
         SettledWithdrawals
    <2>2. CASE op[w] # "none"
      <3>1. op[w] \in OpenStatuses
        BY <1>5, <2>2 DEF ReleaseFunds, StageChecks
      <3>2. PICK s \in {"REJECTED", "FAILED"} : op' = [op EXCEPT ![w] = s]
        BY <1>5, <2>2 DEF ReleaseFunds
      <3>3. account' = Unfreeze(account, Total[w]) /\ journal' = journal
        BY <1>5, <2>2 DEF ReleaseFunds
      <3>4. account'.frozen = account.frozen - Total[w]
        BY <1>1, <3>3, MovedAmounts
      <3>5. Moves(w, s)
        BY <1>1, <3>1, <3>2, <3>3, <3>4 DEF Moves, OperationStatuses, OpenStatuses
      <3> QED
        BY <3>5, LedgerStep
    <2> QED
      BY <2>1, <2>2
  <1>6. ASSUME NEW k \in Jobs, NEW w \in Withdrawals, Settle(k, w) PROVE Ledger'
    <2>1. op[w] = "PROCESSING" /\ op' = [op EXCEPT ![w] = "COMPLETED"]
          /\ account' = Consume(account, Total[w])
      BY <1>6 DEF Settle, StageChecks
    <2>2. /\ journal'.clearing = journal.clearing + Net[w]
          /\ journal'.feeRevenue = journal.feeRevenue + Fee[w]
      BY <1>1, <1>6 DEF Settle
    <2>3. account'.frozen = account.frozen - Total[w]
      BY <1>1, <2>1, MovedAmounts
    <2>4. Moves(w, "COMPLETED")
      BY <1>1, <2>1, <2>2, <2>3 DEF Moves, OperationStatuses, OpenStatuses
    <2> QED
      BY <2>4, LedgerStep
  <1>7. CASE UNCHANGED <<account, op, journal>>
    BY <1>7 DEF Ledger, LedgerBalanced, OpenWithdrawals, SettledWithdrawals
  <1> QED
    BY <1>2, <1>3, <1>4, <1>5, <1>6, <1>7, MoneyOnlyMovesHere, JournalOnlyMovesHere

\* Nothing is open or settled at first.
LEMMA InitLedger == Init => Ledger
  <1> SUFFICES ASSUME Init PROVE Ledger
    OBVIOUS
  <1>1. OpenWithdrawals = {} /\ SettledWithdrawals = {}
    BY DEF Init, OpenWithdrawals, SettledWithdrawals, OpenStatuses
  <1> QED
    BY <1>1, SumEmpty, FS_EmptySet DEF Init, Ledger, LedgerBalanced

\* The frozen balance is the sum of the open reservations, and what was posted to
\* clearing and fee revenue the sum of the settled ones, whatever calls of the
\* accounting worker race, fail or are repeated.
THEOREM LedgerStaysBalanced == Spec => []LedgerBalanced
  <1>2. IInv /\ Ledger /\ [Next]_vars => Ledger'
    BY LedgerKept DEF IInv
  <1>3. Ledger => LedgerBalanced
    BY DEF Ledger
  <1> QED
    BY InitLedger, <1>2, <1>3, Inductive, PTL DEF Spec

-----------------------------------------------------------------------------
(* With the Core's own decisions.  The queue no longer tells how far the    *)
(* Core is, so Lifecycle fails; what remains inductive is that the queue    *)
(* follows the provider's order, and that an approved or paid withdrawal    *)
(* has left SUBMITTED, the only status a rejection accepts.                 *)

\* What the queue status says of the Core records when the Core may decide.
CoreFollows ==
    \A w \in Withdrawals :
        /\ acct[w] \in {"absent", "pending_reservation", "reserving"} =>
              op[w] = "none"
        /\ acct[w] \in {"approved", "pending_settlement", "settling"} =>
              op[w] \in {"PROCESSING", "COMPLETED"}
        /\ acct[w] = "settled" => op[w] = "COMPLETED"
        /\ acct[w] = "released" => op[w] \in {"none", "REJECTED", "FAILED"}

CoreAgrees == /\ OrderNeedsExecution
              /\ QueueMatchesOrder
              /\ CoreFollows
              /\ PaidNeverReleased

CInv == TypeOK /\ MirrorInSync /\ CoreAgrees

\* A decision of the Core keeps the agreement.
LEMMA DecisionAgrees ==
    ASSUME CInv, NEW w \in Withdrawals,
           CoreApprove(w) \/ CoreReject(w) \/ CoreExecute(w)
    PROVE  CoreAgrees'
  <1> USE DEF CInv, CoreAgrees
  <1>1. UNCHANGED <<acct, custody, exec, order>>
    BY DEF CoreApprove, CoreReject, CoreExecute, coreUnchanged, custodyVars, queueVars
  <1>2. OrderNeedsExecution' /\ QueueMatchesOrder'
    BY <1>1 DEF OrderNeedsExecution, QueueMatchesOrder
  <1>3. \E s : /\ op' = [op EXCEPT ![w] = s]
              /\ \/ op[w] = "SUBMITTED" /\ s \in {"PROCESSING", "REJECTED"}
                 \/ op[w] = "PROCESSING" /\ s = "COMPLETED"
    BY DEF CoreApprove, CoreReject, CoreExecute
  <1>4. CoreFollows' /\ PaidNeverReleased'
    BY <1>1, <1>3 DEF CoreFollows, PaidNeverReleased, TypeOK
  <1> QED
    BY <1>2, <1>4

\* So does moving a row within its stage, or to exception.
LEMMA QueueMoveAgrees ==
    ASSUME CInv, NEW w \in Withdrawals, NEW b, SameStage(acct[w], b),
           acct' = [acct EXCEPT ![w] = b],
           UNCHANGED <<custody, op, exec, order>>
    PROVE  CoreAgrees'
  <1> USE DEF CInv, CoreAgrees, TypeOK, SameStage, Stages, PendingStatus,
              ProcessingStatus
  <1>1. OrderNeedsExecution'
    BY DEF OrderNeedsExecution
  <1>2. QueueMatchesOrder'
    BY DEF QueueMatchesOrder
  <1>3. CoreFollows' /\ PaidNeverReleased'
    BY DEF CoreFollows, PaidNeverReleased
  <1> QED
    BY <1>1, <1>2, <1>3

\* And so does every step of handlers, provider, queue and worker.
LEMMA NextAgrees == ASSUME CInv, [Next]_vars PROVE CoreAgrees'
  <1> USE DEF CInv, TypeOK, CoreAgrees, moneyVars, custodyVars, queueVars
  <1>1. ASSUME UNCHANGED <<custody, acct, op, exec, order>> PROVE CoreAgrees'
    BY <1>1 DEF OrderNeedsExecution, QueueMatchesOrder, CoreFollows,
       PaidNeverReleased
  <1>2. ASSUME NEW w \in Withdrawals,
               \/ CreateWithdrawal(w) \/ ApproveWithdrawal(w)
               \/ RejectWithdrawal(w)
        PROVE  CoreAgrees'
    BY <1>2 DEF CreateWithdrawal, ApproveWithdrawal, RejectWithdrawal,
       OrderNeedsExecution, QueueMatchesOrder, CoreFollows, PaidNeverReleased
  <1>3. ASSUME NEW w \in Withdrawals,
               ReconcileCompleted(w) \/ \E c \in Cids : ReconcileSubmitted(w, c)
        PROVE  CoreAgrees'
    BY <1>3 DEF ReconcileCompleted, ReconcileSubmitted, ProviderConfirms,
       OrderNeedsExecution, QueueMatchesOrder, CoreFollows, PaidNeverReleased
  <1>4. ASSUME NEW w \in Withdrawals, ExecuteHandler(w) PROVE CoreAgrees'
    <2>1. CASE StartExecution(w) \/ CheckAddress(w) \/ CallPayout(w)
      BY <2>1 DEF StartExecution, CheckAddress, CallPayout, OrderNeedsExecution,
         QueueMatchesOrder, CoreFollows, PaidNeverReleased
    <2>2. CASE PersistSubmission(w) \/ FailForRelease(w)
      BY <2>2 DEF PersistSubmission, FailForRelease, OrderNeedsExecution,
         QueueMatchesOrder, CoreFollows, PaidNeverReleased
    <2>3. CASE MarkException(w) \/ ExceptionNotWritten(w) \/ LoseHandler(w)
      BY <2>3 DEF MarkException, ExceptionNotWritten, LoseHandler,
         OrderNeedsExecution, QueueMatchesOrder, CoreFollows, PaidNeverReleased
    <2> QED
      BY <1>4, <2>1, <2>2, <2>3 DEF ExecuteHandler
  <1>5. ASSUME NEW w \in Withdrawals, Provider(w) PROVE CoreAgrees'
    <2>1. CASE DecideOrder(w)
      BY <2>1 DEF DecideOrder, FinalStatuses, OrderNeedsExecution,
         QueueMatchesOrder, CoreFollows, PaidNeverReleased
    <2>2. CASE StoreCallback(w)
      BY <2>2 DEF StoreCallback, FinalStatuses, LiveCustody, OrderNeedsExecution,
         QueueMatchesOrder, CoreFollows, PaidNeverReleased
    <2>3. CASE UnboundCallback(w) \/ \E s \in FinalStatuses : InexactCallback(w, s)
      BY <2>3 DEF UnboundCallback, InexactCallback, HoldCallback, LiveCustody,
         FinalStatuses, OrderNeedsExecution, QueueMatchesOrder, CoreFollows,
         PaidNeverReleased
    <2> QED
      BY <1>1, <1>5, <2>1, <2>2, <2>3 DEF Provider, VerifyCallback
  <1>6. ASSUME NEW k \in Jobs, NEW w \in Withdrawals, NEW s \in Stages,
               Claim(k, w, s)
        PROVE  CoreAgrees'
    BY <1>6, QueueMoveAgrees DEF Claim, SameStage
  <1>7. ASSUME NEW k \in Jobs, NEW w \in Withdrawals,
               Reserve(k, w) \/ Approve(k, w)
        PROVE  CoreAgrees'
    BY <1>7 DEF Reserve, Approve, Loaded, StageChecks, ProcessingStatus,
       OrderNeedsExecution, QueueMatchesOrder, CoreFollows, PaidNeverReleased
  <1>8. ASSUME NEW k \in Jobs, NEW w \in Withdrawals, ReleaseFunds(k, w)
        PROVE  CoreAgrees'
    BY <1>8 DEF ReleaseFunds, Loaded, StageChecks, OpenStatuses, ProcessingStatus,
       OrderNeedsExecution, QueueMatchesOrder, CoreFollows, PaidNeverReleased
  <1>9. ASSUME NEW k \in Jobs, NEW w \in Withdrawals, Settle(k, w)
        PROVE  CoreAgrees'
    BY <1>9 DEF Settle, Loaded, StageChecks, ProcessingStatus,
       OrderNeedsExecution, QueueMatchesOrder, CoreFollows, PaidNeverReleased
  <1>10. ASSUME NEW k \in Jobs, FailStage(k) \/ ReadFailure(k) \/ CrashJob(k)
         PROVE  CoreAgrees'
    BY <1>1, <1>10 DEF FailStage, ReadFailure, CrashJob
  <1>11. ASSUME NEW k \in Jobs, WriteFailure(k) \/ ReleaseClaim(k)
         PROVE  CoreAgrees'
    <2>1. /\ job[k].wd \in Withdrawals
          /\ job[k].seen \in Stages /\ job[k].stage \in Stages
      BY <1>11 DEF WriteFailure, ReleaseClaim, JobTypes
    <2>2. UNCHANGED <<custody, op, exec, order>>
      BY <1>11 DEF WriteFailure, ReleaseClaim
    <2>3. \/ acct' = acct
          \/ \E b : /\ SameStage(acct[job[k].wd], b)
                    /\ acct' = [acct EXCEPT ![job[k].wd] = b]
      BY <1>11, <2>1 DEF WriteFailure, ReleaseClaim, SameStage
    <2> QED
      BY <1>1, <2>1, <2>2, <2>3, QueueMoveAgrees
  <1>12. ASSUME NEW w \in Withdrawals, NEW s \in Stages, RequeueStale(w, s)
         PROVE  CoreAgrees'
    BY <1>12, QueueMoveAgrees DEF RequeueStale, SameStage
  <1>13. CASE SetOperational \/ (\E amount \in Conversions : ConvertUsdt(amount))
              \/ UNCHANGED vars
    BY <1>1, <1>13 DEF SetOperational, ConvertUsdt, vars
  <1> QED
    BY <1>2, <1>3, <1>4, <1>5, <1>6, <1>7, <1>8, <1>9, <1>10, <1>11, <1>12, <1>13
       DEF Next, CustomerOrAdmin, AccountingCall

\* A decision of the Core keeps the types, the mirror and the ledger.
LEMMA DecisionMovesMoney ==
    ASSUME CInv, Ledger, NEW w \in Withdrawals,
           CoreApprove(w) \/ CoreReject(w) \/ CoreExecute(w)
    PROVE  TypeOK' /\ MirrorInSync' /\ Ledger'
  <1> USE DEF CInv
  <1>1. /\ account \in BalanceType /\ account.frozen \in Int /\ wallet = account
        /\ journal \in [clearing : Nat, feeRevenue : Nat, converted : Nat]
        /\ journal.clearing \in Nat /\ journal.feeRevenue \in Nat
        /\ op \in [Withdrawals -> OperationStatuses]
        /\ Total[w] \in Nat /\ Fee[w] \in Nat /\ Net[w] \in Nat
    BY NetType, WithdrawalAssumption DEF TypeOK, BalanceType, MirrorInSync
  <1>2. CASE CoreApprove(w)
    <2>1. /\ op[w] = "SUBMITTED" /\ op' = [op EXCEPT ![w] = "PROCESSING"]
          /\ UNCHANGED <<account, wallet, journal>>
      BY <1>2 DEF CoreApprove, moneyVars
    <2>2. Moves(w, "PROCESSING")
      BY <1>1, <2>1 DEF Moves, OperationStatuses, OpenStatuses
    <2> QED
      BY <1>1, <1>2, <2>1, <2>2, LedgerStep DEF CoreApprove, TypeOK, MirrorInSync,
         OperationStatuses, coreUnchanged, custodyVars, queueVars
  <1>3. CASE CoreReject(w)
    <2>1. /\ op[w] = "SUBMITTED" /\ op' = [op EXCEPT ![w] = "REJECTED"]
          /\ account' = Unfreeze(account, Total[w]) /\ wallet' = account'
          /\ journal' = journal /\ account.frozen >= Total[w]
      BY <1>1, <1>3 DEF CoreReject
    <2>2. account' \in BalanceType /\ account'.frozen = account.frozen - Total[w]
      BY <1>1, <2>1, MovedAmounts, BalanceMovement
    <2>3. Moves(w, "REJECTED")
      BY <1>1, <2>1, <2>2 DEF Moves, OperationStatuses, OpenStatuses
    <2> QED
      BY <1>1, <1>3, <2>1, <2>2, <2>3, LedgerStep DEF CoreReject, TypeOK,
         MirrorInSync, OperationStatuses, coreUnchanged, custodyVars, queueVars
  <1>4. CASE CoreExecute(w)
    <2>1. /\ op[w] = "PROCESSING" /\ op' = [op EXCEPT ![w] = "COMPLETED"]
          /\ account' = Consume(account, Total[w]) /\ wallet' = account'
          /\ account.frozen >= Total[w]
      BY <1>1, <1>4 DEF CoreExecute
    <2>2. account' \in BalanceType /\ account'.frozen = account.frozen - Total[w]
      BY <1>1, <2>1, MovedAmounts, BalanceMovement
    <2>3. /\ journal'.clearing = journal.clearing + Net[w]
          /\ journal'.feeRevenue = journal.feeRevenue + Fee[w]
          /\ journal' \in [clearing : Nat, feeRevenue : Nat, converted : Nat]
      <3>1. journal.clearing + Net[w] \in Nat /\ journal.feeRevenue + Fee[w] \in Nat
        BY <1>1
      <3>2. journal' = [journal EXCEPT !.clearing = @ + Net[w],
                                       !.feeRevenue = @ + Fee[w]]
        BY <1>4 DEF CoreExecute
      <3> QED
        BY <1>1, <3>1, <3>2
    <2>4. Moves(w, "COMPLETED")
      BY <1>1, <2>1, <2>2, <2>3 DEF Moves, OperationStatuses, OpenStatuses
    <2> QED
      BY <1>1, <1>4, <2>1, <2>2, <2>3, <2>4, LedgerStep DEF CoreExecute, TypeOK,
         MirrorInSync, OperationStatuses, coreUnchanged, custodyVars, queueVars
  <1> QED
    BY <1>2, <1>3, <1>4

\* CInv, with the ledger, is inductive when the Core may decide too.
LEMMA CoreInductive == SpecWithCore => [](CInv /\ Ledger)
  <1>1. Init => CInv /\ Ledger
    <2>1. Init => MirrorInSync /\ CoreAgrees
      BY DEF Init, MirrorInSync, CoreAgrees, OrderNeedsExecution,
             QueueMatchesOrder, CoreFollows, PaidNeverReleased
    <2> QED
      BY <2>1, InitTypeOK, InitLedger DEF CInv
  <1>2. CInv /\ Ledger /\ [NextWithCore]_vars => (CInv /\ Ledger)'
    <2> SUFFICES ASSUME CInv, Ledger, [NextWithCore]_vars
                 PROVE  CInv' /\ Ledger'
      OBVIOUS
    <2>1. CASE [Next]_vars
      BY <2>1, NextTypeOK, MirrorKept, NextAgrees, LedgerKept DEF CInv, CoreAgrees
    <2>2. ASSUME NEW w \in Withdrawals,
                 CoreApprove(w) \/ CoreReject(w) \/ CoreExecute(w)
          PROVE  CInv' /\ Ledger'
      BY <2>2, DecisionAgrees, DecisionMovesMoney DEF CInv
    <2> QED
      BY <2>1, <2>2 DEF NextWithCore
  <1> QED
    BY <1>1, <1>2, PTL DEF SpecWithCore

\* A completed payout is never given back, although the Core's own endpoints
\* approve, reject and execute the transfers of the custody rail as well.
THEOREM PaidIsNeverReleasedByCore == SpecWithCore => []PaidNeverReleased
  BY CoreInductive, PTL DEF CInv, CoreAgrees

\* With those decisions too, the frozen balance is the sum of the open
\* reservations and the postings are those of the completed operations.
THEOREM LedgerBalancedWithCore == SpecWithCore => []LedgerBalanced
  BY CoreInductive, PTL DEF Ledger

\* The status shown is still final only after the Core moved the money.
THEOREM StatusHonestWithCore == SpecWithCore => []PublicStatusHonest
  <1>1. CInv => PublicStatusHonest
    BY DEF CInv, TypeOK, CoreAgrees, CoreFollows, PublicStatusHonest, PublicStatus
  <1> QED
    BY <1>1, CoreInductive, PTL
=============================================================================
