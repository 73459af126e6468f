---------------------------- MODULE FundsProofs ----------------------------
(***************************************************************************)
(* Proofs about the smaller components that hold money, for every value of *)
(* their constants: the Core's own transfers, the releases of historical   *)
(* withdrawals, the VA opening fee and the provisioning of wallets.        *)
(* The components have nothing to do with one another, and each theorem    *)
(* is about one of them; where two have a variable or a constant of the    *)
(* same name, it is declared once.                                         *)
(***************************************************************************)
EXTENDS Sequences, SumsProofs, TLAPS

CONSTANTS Transfers, Admins, Amounts, Opening
CONSTANTS Withdrawals, NoCid, Total, Reserved, Approvals, Jobs, MaxInexact, MaxTakeovers
CONSTANTS Requests, Channels, Currencies, Numbers, Editors, Patches, Fees, OpeningBalance,
          AdminCreated, None, MaxFeeVersion, MaxPolicy, MaxOther
CONSTANTS Keys, Calls, Syncs, Legacy, Faults, MaxFaults, MaxMinted

VARIABLES transfer, op, wallet, account, posted, tx
VARIABLES custody, cid, order, events, acct, link, approval, job, spent
VARIABLES channel, edit, policy, enabled, shown, request, fee, other, confirmed
VARIABLES row, call, customer, minted, owned, mirror, sync, faults

-----------------------------------------------------------------------------
(* Transfers in the Core. *)

T == INSTANCE CryptoTransfers

LEMMA TransfersSum == ASSUME NEW f, NEW S PROVE T!SumOver(f, S) = SumOver(f, S)
  BY Zenon DEF T!SumOver, SumOver, T!MapThenSumSet, MapThenSumSet, T!MapThenFoldSet,
               MapThenFoldSet

\* Transfer and operation exist together, and decisions are about transfers
\* that exist.
TransfersExist ==
    /\ \A t \in Transfers :
         /\ transfer[t].status = "ABSENT" <=> op[t] = "ABSENT"
         /\ transfer[t].status = "ABSENT" => transfer[t] = T!Absent
    /\ \A a \in Admins : tx[a] # T!NoTx => transfer[tx[a].of].status # "ABSENT"

\* Finitely many transfers have been executed, however many there may be.
TransfersBooked == IsFiniteSet(T!Executed) /\ T!MoneyConserved

TransfersInv ==
    /\ T!TypeOK /\ TransfersExist /\ T!MirrorAgrees /\ T!PostedOnce /\ TransfersBooked

LEMMA TransfersInit ==
    ASSUME T!CryptoTransfersAssumption, T!Init
    PROVE  TransfersInv
  <1>1. T!TypeOK
    BY DEF T!CryptoTransfersAssumption, T!Init, T!TypeOK, T!Balance, T!Absent, T!NoTx
  <1>2. TransfersExist /\ T!MirrorAgrees /\ T!PostedOnce
    BY DEF T!Init, TransfersExist, T!MirrorAgrees, T!PostedOnce, T!Absent, T!NoTx
  <1>3. T!Executed = {}
    BY DEF T!Init, T!Executed
  <1>4. wallet.available = Opening /\ wallet.frozen = 0 /\ Opening \in Nat
    BY DEF T!Init, T!CryptoTransfersAssumption
  <1>5. SumOver(posted, {}) = 0 /\ IsFiniteSet({})
    BY SumEmpty, FS_EmptySet
  <1>6. TransfersBooked
    BY <1>3, <1>4, <1>5, TransfersSum DEF TransfersBooked, T!MoneyConserved
  <1> QED
    BY <1>1, <1>2, <1>6 DEF TransfersInv

\* A step that posts nothing keeps the total of the wallet.
LEMMA TransfersKept ==
    ASSUME TransfersBooked, posted' = posted,
           wallet'.available + wallet'.frozen = wallet.available + wallet.frozen
    PROVE  TransfersBooked'
  BY DEF TransfersBooked, T!MoneyConserved, T!Executed

\* The types of the parts a decision reads.
LEMMA TransferTypes ==
    ASSUME TransfersInv, NEW t \in Transfers
    PROVE  /\ transfer[t] \in [status : {"ABSENT", "SUBMITTED", "PROCESSING", "COMPLETED",
                                         "REJECTED"}, amount : Nat]
           /\ transfer[t].amount \in Nat /\ posted[t] \in Nat
           /\ wallet = account /\ wallet \in T!Balance
           /\ wallet.available \in Nat /\ wallet.frozen \in Nat
           /\ wallet = [available |-> wallet.available, frozen |-> wallet.frozen]
  BY DEF TransfersInv, T!TypeOK, T!Balance, T!MirrorAgrees

\* What the write of a decision does to the row, whatever it has become.
LEMMA WriteMoves ==
    ASSUME TransfersInv, NEW a \in Admins, NEW t \in Transfers, NEW kind, NEW s,
           s \in {"PROCESSING", "COMPLETED", "REJECTED"}, T!Write(a, kind, t, s)
    PROVE  /\ transfer[t].status # "ABSENT"
           /\ transfer' \in [Transfers ->
                [status : {"ABSENT", "SUBMITTED", "PROCESSING", "COMPLETED",
                           "REJECTED"}, amount : Nat]]
           /\ \A x \in Transfers \ {t} : transfer'[x] = transfer[x]
           /\ transfer'[t].status = s /\ transfer'[t].amount = transfer[t].amount
           /\ tx' \in [Admins -> {T!NoTx} \cup [kind : T!Kinds, of : Transfers]]
           /\ \A b \in Admins : tx'[b] # T!NoTx => transfer'[tx'[b].of].status # "ABSENT"
  <1>1. /\ tx[a] = [kind |-> kind, of |-> t] /\ tx' = [tx EXCEPT ![a] = T!NoTx]
        /\ transfer' = [transfer EXCEPT ![t] = [@ EXCEPT !.status = s]]
    BY DEF T!Write
  <1>2. PICK p : p = transfer[t]
    OBVIOUS
  <1>3. p = [status |-> p.status, amount |-> p.amount] /\ p.amount \in Nat
    BY <1>2, TransferTypes
  <1>4. /\ transfer \in [Transfers ->
             [status : {"ABSENT", "SUBMITTED", "PROCESSING", "COMPLETED", "REJECTED"},
              amount : Nat]]
        /\ tx \in [Admins -> {T!NoTx} \cup [kind : T!Kinds, of : Transfers]]
        /\ \A b \in Admins : tx[b] # T!NoTx => transfer[tx[b].of].status # "ABSENT"
    BY DEF TransfersInv, T!TypeOK, TransfersExist
  <1>5. transfer' = [transfer EXCEPT ![t] = [status |-> s, amount |-> p.amount]]
    <2>1. transfer' = [transfer EXCEPT ![t] = [p EXCEPT !.status = s]]
      BY <1>1, <1>2
    <2>2. p \in [status : {"ABSENT", "SUBMITTED", "PROCESSING", "COMPLETED", "REJECTED"},
                 amount : Nat]
      BY <1>2, <1>4
    <2>3. [p EXCEPT !.status = s] = [status |-> s, amount |-> p.amount]
      BY <2>2
    <2> QED
      BY <2>1, <2>3
  <1>6. tx[a] # T!NoTx /\ tx[a].of = t
    BY <1>1, <1>4 DEF T!NoTx
  <1>7. transfer[t].status # "ABSENT"
    BY <1>4, <1>6
  <1>8. tx' \in [Admins -> {T!NoTx} \cup [kind : T!Kinds, of : Transfers]]
    BY <1>1, <1>4
  <1>9. ASSUME NEW b \in Admins, tx'[b] # T!NoTx
        PROVE  transfer'[tx'[b].of].status # "ABSENT"
    <2>1. tx'[b] = tx[b] /\ tx[b].of \in Transfers
      BY <1>1, <1>4, <1>9
    <2> QED
      BY <1>4, <1>5, <1>9, <2>1
  <1> QED
    BY <1>2, <1>3, <1>4, <1>5, <1>7, <1>8, <1>9

\* A decision that leaves the money alone, or moves it between available and frozen.
LEMMA DecisionStep ==
    ASSUME TransfersInv, NEW a \in Admins, NEW t \in Transfers,
           T!Approve(a, t) \/ T!Reject(a, t)
    PROVE  TransfersInv' /\ T!OperationKept
  <1>1. PICK kind, s : /\ s \in {"PROCESSING", "REJECTED"} /\ T!Write(a, kind, t, s)
                       /\ op' = [op EXCEPT ![t] = IF @ = "SUBMITTED" THEN s ELSE @]
    BY DEF T!Approve, T!Reject, T!MoveSubmitted
  <1>2. /\ transfer[t].status # "ABSENT"
        /\ transfer' \in [Transfers ->
             [status : {"ABSENT", "SUBMITTED", "PROCESSING", "COMPLETED", "REJECTED"},
              amount : Nat]]
        /\ \A x \in Transfers \ {t} : transfer'[x] = transfer[x]
        /\ transfer'[t].status = s /\ transfer'[t].amount = transfer[t].amount
        /\ tx' \in [Admins -> {T!NoTx} \cup [kind : T!Kinds, of : Transfers]]
        /\ \A b \in Admins : tx'[b] # T!NoTx => transfer'[tx'[b].of].status # "ABSENT"
    BY <1>1, WriteMoves
  <1>3. posted' = posted
    BY DEF T!Approve, T!Reject
  <1>4. /\ op \in [Transfers -> {"ABSENT", "SUBMITTED", "PROCESSING", "COMPLETED",
                                 "REJECTED"}]
        /\ posted \in [Transfers -> Nat] /\ TransfersExist /\ T!PostedOnce /\ TransfersBooked
    BY DEF TransfersInv, T!TypeOK
  <1>5. /\ op' \in [Transfers -> {"ABSENT", "SUBMITTED", "PROCESSING", "COMPLETED",
                                  "REJECTED"}]
        /\ \A x \in Transfers \ {t} : op'[x] = op[x]
        /\ op'[t] = IF op[t] = "SUBMITTED" THEN s ELSE op[t]
    BY <1>1, <1>4
  <1>6. /\ wallet' = account' /\ wallet' \in T!Balance
        /\ wallet'.available + wallet'.frozen = wallet.available + wallet.frozen
    <2>1. CASE wallet' = wallet /\ account' = account
      BY <2>1, TransferTypes
    <2>2. CASE T!Reject(a, t)
      <3>1. PICK n, x, y : n = transfer[t].amount /\ x = wallet.available /\ y = wallet.frozen
        OBVIOUS
      <3>2. /\ n \in Nat /\ x \in Nat /\ y \in Nat /\ y >= n
            /\ wallet' = [available |-> x + n, frozen |-> y - n] /\ account' = wallet'
        BY <2>2, <3>1, TransferTypes DEF T!Reject, T!Released
      <3>3. x + n \in Nat /\ y - n \in Nat /\ (x + n) + (y - n) = x + y
        BY <3>2
      <3> QED
        BY <3>1, <3>2, <3>3 DEF T!Balance
    <2> QED
      BY <2>1, <2>2 DEF T!Approve
  <1>7. TransfersBooked'
    BY <1>3, <1>4, <1>6, TransfersKept
  <1>8. TransfersExist'
    <2>1. op[t] # "ABSENT"
      BY <1>2, <1>4 DEF TransfersExist
    <2>2. \A x \in Transfers :
            /\ transfer'[x].status = "ABSENT" <=> op'[x] = "ABSENT"
            /\ transfer'[x].status = "ABSENT" => transfer'[x] = T!Absent
      BY <1>1, <1>2, <1>4, <1>5, <2>1 DEF TransfersExist
    <2> QED
      BY <1>2, <2>2 DEF TransfersExist, T!Absent, T!NoTx
  <1>9. T!PostedOnce'
    <2>1. ASSUME NEW x \in Transfers
          PROVE  posted'[x] = IF op'[x] = "COMPLETED" THEN transfer'[x].amount ELSE 0
      <3>1. /\ op'[x] = "COMPLETED" <=> op[x] = "COMPLETED"
            /\ transfer'[x].amount = transfer[x].amount
        BY <1>1, <1>2, <1>5
      <3> QED
        BY <1>3, <1>4, <3>1 DEF T!PostedOnce
    <2> QED
      BY <2>1 DEF T!PostedOnce
  <1>10. T!OperationKept
    BY <1>5 DEF T!OperationKept
  <1> QED
    BY <1>2, <1>3, <1>4, <1>5, <1>6, <1>7, <1>8, <1>9, <1>10
       DEF TransfersInv, T!TypeOK, T!MirrorAgrees, T!Kinds, T!NoTx, T!Balance

\* An execution posts what it takes from the frozen balance.
LEMMA ExecuteStep ==
    ASSUME TransfersInv, NEW a \in Admins, NEW t \in Transfers, T!Execute(a, t)
    PROVE  TransfersInv' /\ T!OperationKept
  <1>1. PICK n, x, y : n = transfer[t].amount /\ x = wallet.available /\ y = wallet.frozen
    OBVIOUS
  <1>2. /\ T!Write(a, "execute", t, "COMPLETED") /\ op' = [op EXCEPT ![t] = "COMPLETED"]
        /\ op[t] \notin {"COMPLETED", "REJECTED"} /\ posted[t] = 0
        /\ posted' = [posted EXCEPT ![t] = @ + n]
    BY <1>1 DEF T!Execute, T!ReferenceIsNew, T!MayComplete
  <1>3. /\ transfer[t].status # "ABSENT"
        /\ transfer' \in [Transfers ->
             [status : {"ABSENT", "SUBMITTED", "PROCESSING", "COMPLETED", "REJECTED"},
              amount : Nat]]
        /\ \A z \in Transfers \ {t} : transfer'[z] = transfer[z]
        /\ transfer'[t].status = "COMPLETED" /\ transfer'[t].amount = transfer[t].amount
        /\ tx' \in [Admins -> {T!NoTx} \cup [kind : T!Kinds, of : Transfers]]
        /\ \A b \in Admins : tx'[b] # T!NoTx => transfer'[tx'[b].of].status # "ABSENT"
    BY <1>2, WriteMoves
  <1>4. /\ op \in [Transfers -> {"ABSENT", "SUBMITTED", "PROCESSING", "COMPLETED",
                                 "REJECTED"}]
        /\ posted \in [Transfers -> Nat] /\ TransfersExist /\ T!PostedOnce /\ TransfersBooked
    BY DEF TransfersInv, T!TypeOK
  <1>5. /\ n \in Nat /\ x \in Nat /\ y \in Nat /\ y >= n
        /\ wallet' = [available |-> x, frozen |-> y - n] /\ account' = wallet'
    <2>1. /\ n \in Nat /\ x \in Nat /\ y \in Nat /\ wallet = account
          /\ wallet = [available |-> x, frozen |-> y]
      BY <1>1, TransferTypes
    <2>2. /\ y >= n /\ wallet' = T!Consumed(wallet, n) /\ account' = T!Consumed(account, n)
      BY <1>1 DEF T!Execute
    <2>3. T!Consumed(wallet, n) = [available |-> x, frozen |-> y - n]
      BY <2>1 DEF T!Consumed
    <2> QED
      BY <2>1, <2>2, <2>3
  <1>6. /\ posted' \in [Transfers -> Nat] /\ posted'[t] = n
        /\ \A z \in Transfers \ {t} : posted'[z] = posted[z]
    BY <1>2, <1>4, <1>5
  <1>7. TransfersBooked'
    <2>1. PICK S, R, f, g : S = T!Executed /\ R = T!Executed' /\ f = posted /\ g = posted'
      OBVIOUS
    <2>2. /\ IsFiniteSet(S) /\ S \ {t} = R \ {t} /\ S \subseteq Transfers /\ R \subseteq Transfers
          /\ t \notin S /\ (t \in R <=> n > 0)
      BY <1>2, <1>4, <1>6, <2>1 DEF TransfersBooked, T!Executed
    <2>3. /\ \A z \in S : f[z] \in Int
          /\ \A z \in R : g[z] \in Int
          /\ \A z \in S \ {t} : f[z] = g[z]
      BY <1>4, <1>6, <2>1, <2>2
    <2>4. /\ IsFiniteSet(R) /\ SumOver(f, S) \in Int /\ SumOver(g, R) \in Int
          /\ Others(g, R, t) = Others(f, S, t)
      BY <2>2, <2>3, SumChange
    <2>5. SumOver(g, R) = SumOver(f, S) + n
      BY <1>5, <1>6, <2>1, <2>2, <2>4 DEF Others
    <2>6. x + y + SumOver(f, S) = Opening
      BY <1>1, <1>4, <2>1, TransfersSum DEF TransfersBooked, T!MoneyConserved
    <2>7. x + (y - n) + SumOver(g, R) = Opening
      BY <1>5, <2>4, <2>5, <2>6
    <2>8. wallet'.available = x /\ wallet'.frozen = y - n
      BY <1>5
    <2>9. SumOver(g, R) = T!SumOver(g, R)
      BY TransfersSum
    <2> QED
      BY <2>1, <2>4, <2>7, <2>8, <2>9 DEF TransfersBooked, T!MoneyConserved
  <1>8. TransfersExist'
    <2>1. \A z \in Transfers :
            /\ transfer'[z].status = "ABSENT" <=> op'[z] = "ABSENT"
            /\ transfer'[z].status = "ABSENT" => transfer'[z] = T!Absent
      BY <1>2, <1>3, <1>4 DEF TransfersExist
    <2> QED
      BY <1>3, <2>1 DEF TransfersExist, T!Absent, T!NoTx
  <1>9. T!PostedOnce'
    BY <1>1, <1>2, <1>3, <1>4, <1>6 DEF T!PostedOnce
  <1>10. T!OperationKept
    BY <1>2, <1>4 DEF T!OperationKept
  <1>11. wallet' \in T!Balance
    BY <1>5 DEF T!Balance
  <1> QED
    BY <1>2, <1>3, <1>4, <1>5, <1>6, <1>7, <1>8, <1>9, <1>10, <1>11
       DEF TransfersInv, T!TypeOK, T!MirrorAgrees, T!Kinds, T!NoTx, T!Balance

LEMMA TransfersStep ==
    ASSUME T!CryptoTransfersAssumption, TransfersInv, [T!Next]_(T!vars)
    PROVE  TransfersInv' /\ T!OperationKept
  <1>1. /\ transfer \in [Transfers ->
             [status : {"ABSENT", "SUBMITTED", "PROCESSING", "COMPLETED", "REJECTED"},
              amount : Nat]]
        /\ op \in [Transfers -> {"ABSENT", "SUBMITTED", "PROCESSING", "COMPLETED",
                                 "REJECTED"}]
        /\ posted \in [Transfers -> Nat] /\ TransfersExist /\ T!PostedOnce /\ TransfersBooked
        /\ tx \in [Admins -> {T!NoTx} \cup [kind : T!Kinds, of : Transfers]]
    BY DEF TransfersInv, T!TypeOK
  <1>2. ASSUME NEW t \in Transfers, NEW n \in Amounts, T!CreateWithdrawal(t, n)
        PROVE  TransfersInv' /\ T!OperationKept
    <2>1. PICK x, y : x = wallet.available /\ y = wallet.frozen
      OBVIOUS
    <2>2. /\ n \in Nat /\ x \in Nat /\ y \in Nat /\ x >= n
          /\ wallet' = [available |-> x - n, frozen |-> y + n] /\ account' = wallet'
      BY <1>2, <2>1, TransferTypes DEF T!CreateWithdrawal, T!CryptoTransfersAssumption
    <2>3. /\ transfer[t] = T!Absent /\ op' = [op EXCEPT ![t] = "SUBMITTED"]
          /\ transfer' = [transfer EXCEPT ![t] = [status |-> "SUBMITTED", amount |-> n]]
          /\ posted' = posted /\ tx' = tx
      BY <1>2 DEF T!CreateWithdrawal
    <2>4. op[t] = "ABSENT"
      BY <1>1, <2>3 DEF TransfersExist, T!Absent
    <2>5. TransfersBooked'
      <3>1. (x - n) + (y + n) = x + y
        BY <2>2
      <3>2. wallet'.available + wallet'.frozen = wallet.available + wallet.frozen
        BY <2>1, <2>2, <3>1
      <3> QED
        BY <1>1, <2>3, <3>2, TransfersKept
    <2>6. wallet' \in T!Balance
      BY <2>2 DEF T!Balance
    <2>7. TransfersExist'
      <3>1. \A z \in Transfers :
              /\ transfer'[z].status = "ABSENT" <=> op'[z] = "ABSENT"
              /\ transfer'[z].status = "ABSENT" => transfer'[z] = T!Absent
        BY <1>1, <2>3 DEF TransfersExist
      <3>2. \A b \in Admins : tx'[b] # T!NoTx => transfer'[tx'[b].of].status # "ABSENT"
        BY <1>1, <2>3 DEF TransfersExist
      <3> QED
        BY <3>1, <3>2 DEF TransfersExist, T!Absent, T!NoTx
    <2>8. T!PostedOnce' /\ T!OperationKept
      BY <1>1, <2>3, <2>4 DEF T!PostedOnce, T!OperationKept
    <2>9. /\ transfer' \in [Transfers ->
               [status : {"ABSENT", "SUBMITTED", "PROCESSING", "COMPLETED", "REJECTED"},
                amount : Nat]]
          /\ op' \in [Transfers -> {"ABSENT", "SUBMITTED", "PROCESSING", "COMPLETED",
                                    "REJECTED"}]
      BY <1>1, <2>2, <2>3
    <2> QED
      BY <1>1, <2>2, <2>3, <2>5, <2>6, <2>7, <2>8, <2>9
         DEF TransfersInv, T!TypeOK, T!MirrorAgrees, T!Kinds, T!NoTx, T!Balance
  <1>3. ASSUME UNCHANGED <<transfer, op, wallet, account, posted>>,
               tx' \in [Admins -> {T!NoTx} \cup [kind : T!Kinds, of : Transfers]],
               \A b \in Admins : tx'[b] # T!NoTx => transfer[tx'[b].of].status # "ABSENT"
        PROVE  TransfersInv' /\ T!OperationKept
    <2>1. T!TypeOK' /\ T!MirrorAgrees' /\ T!PostedOnce' /\ TransfersBooked' /\ T!OperationKept
      BY <1>3 DEF TransfersInv, T!TypeOK, T!MirrorAgrees, T!PostedOnce, TransfersBooked,
         T!MoneyConserved, T!Executed, T!OperationKept, T!Kinds, T!NoTx, T!Balance
    <2>2. TransfersExist'
      BY <1>1, <1>3 DEF TransfersExist, T!Absent, T!NoTx
    <2> QED
      BY <2>1, <2>2 DEF TransfersInv
  <1>4. ASSUME NEW a \in Admins, NEW t \in Transfers, NEW kind \in T!Kinds,
               T!Begin(a, kind, t)
        PROVE  TransfersInv' /\ T!OperationKept
    <2>1. /\ UNCHANGED <<transfer, op, wallet, account, posted>>
          /\ tx' = [tx EXCEPT ![a] = [kind |-> kind, of |-> t]]
          /\ transfer[t].status # "ABSENT"
      BY <1>4 DEF T!Begin
    <2>2. tx' \in [Admins -> {T!NoTx} \cup [kind : T!Kinds, of : Transfers]]
      BY <1>1, <2>1
    <2>3. \A b \in Admins : tx'[b] # T!NoTx => transfer[tx'[b].of].status # "ABSENT"
      BY <1>1, <2>1 DEF TransfersExist
    <2> QED
      BY <1>3, <2>1, <2>2, <2>3
  <1>5. ASSUME NEW a \in Admins, T!RollBack(a)
        PROVE  TransfersInv' /\ T!OperationKept
    <2>1. /\ UNCHANGED <<transfer, op, wallet, account, posted>>
          /\ tx' = [tx EXCEPT ![a] = T!NoTx]
      BY <1>5 DEF T!RollBack
    <2>2. tx' \in [Admins -> {T!NoTx} \cup [kind : T!Kinds, of : Transfers]]
      BY <1>1, <2>1
    <2>3. \A b \in Admins : tx'[b] # T!NoTx => transfer[tx'[b].of].status # "ABSENT"
      BY <1>1, <2>1 DEF TransfersExist
    <2> QED
      BY <1>3, <2>1, <2>2, <2>3
  <1>6. CASE UNCHANGED T!vars
    <2>1. UNCHANGED <<transfer, op, wallet, account, posted>> /\ tx' = tx
      BY <1>6 DEF T!vars
    <2> QED
      BY <1>1, <1>3, <2>1 DEF TransfersExist
  <1> QED
    BY <1>2, <1>4, <1>5, <1>6, DecisionStep, ExecuteStep DEF T!Next

LEMMA TransfersInductive ==
    ASSUME T!CryptoTransfersAssumption PROVE T!Spec => []TransfersInv
  <1>1. T!Init => TransfersInv
    BY TransfersInit
  <1>2. TransfersInv /\ [T!Next]_(T!vars) => TransfersInv'
    BY TransfersStep
  <1> QED
    BY <1>1, <1>2, PTL DEF T!Spec

\* Whatever stale decisions of approve, reject and execute overlap, wallet and mirror
\* account agree, what left the wallet is what the journal posted, and a withdrawal is
\* posted once and only if its operation completed.
THEOREM TransfersAreConserved ==
    ASSUME T!CryptoTransfersAssumption
    PROVE  T!Spec => [](T!TypeOK /\ T!MirrorAgrees /\ T!MoneyConserved /\ T!PostedOnce)
  <1>1. TransfersInv => T!TypeOK /\ T!MirrorAgrees /\ T!MoneyConserved /\ T!PostedOnce
    BY DEF TransfersInv, TransfersBooked
  <1> QED
    BY <1>1, TransfersInductive, PTL

\* guard_operation_transition and the status in updateMany: no decision that read the
\* transfer before it ended reopens its operation.
THEOREM EndedTransfersStay ==
    ASSUME T!CryptoTransfersAssumption PROVE T!Spec => [][T!OperationKept]_(T!vars)
  <1>1. TransfersInv /\ [T!Next]_(T!vars) => [T!OperationKept]_(T!vars)
    BY TransfersStep
  <1> QED
    BY <1>1, TransfersInductive, PTL DEF T!Spec

-----------------------------------------------------------------------------
(* Releases of historical withdrawals. *)

H == INSTANCE HistoricalWithdrawals

LEMMA ReleasesSum == ASSUME NEW f, NEW S PROVE H!SumOver(f, S) = SumOver(f, S)
  BY Zenon DEF H!SumOver, SumOver, H!MapThenSumSet, MapThenSumSet, H!MapThenFoldSet,
               MapThenFoldSet

LEMMA WithdrawalsFinite == ASSUME H!HistoricalAssumption PROVE IsFiniteSet(Withdrawals)
  BY Zenon DEF H!HistoricalAssumption, H!IsFiniteSet, IsFiniteSet

\* From its release on a row has a final custody status and a callback that says it;
\* and a link is to an operation that holds the amount of the row.
ReleaseOK(w) ==
    /\ cid[w] \in {NoCid, w}
    /\ acct[w] \in {"pending_release", "releasing", "released"} =>
         /\ cid[w] = w /\ custody[w] \in {"rejected", "failed"}
         /\ custody[w] \in events[w]
    /\ acct[w] # "absent" /\ link[w] => op[w].amount = Total

ReleasesOK == \A w \in Withdrawals : ReleaseOK(w)

ReleasesInv == H!TypeOK /\ ReleasesOK /\ H!FrozenIsReserved

\* What the open operations hold is a natural number.
LEMMA HeldIsNatural ==
    ASSUME H!HistoricalAssumption,
           \A w \in Withdrawals : op[w].amount \in Nat
    PROVE  /\ IsFiniteSet(H!OpenOps) /\ H!Held \in Nat
           /\ H!Held = SumOver([w \in Withdrawals |-> op[w].amount], H!OpenOps)
  <1>1. PICK S, f : S = H!OpenOps /\ f = [w \in Withdrawals |-> op[w].amount]
    OBVIOUS
  <1>2. S \subseteq Withdrawals /\ \A x \in S : f[x] \in Nat
    BY <1>1 DEF H!OpenOps
  <1>3. IsFiniteSet(S)
    BY <1>2, WithdrawalsFinite, FS_Subset
  <1>4. SumOver(f, S) \in Nat
    BY <1>2, <1>3, SumNat
  <1> QED
    BY <1>1, <1>3, <1>4, ReleasesSum DEF H!Held

LEMMA ReleasesInit ==
    ASSUME H!HistoricalAssumption, H!Init
    PROVE  ReleasesInv
  <1>1. op \in [Withdrawals -> [status : H!Open \cup {"none", "REJECTED", "FAILED"},
                                amount : Nat]]
    BY DEF H!Init, H!HistoricalAssumption
  <1>2. H!Held \in Nat
    BY <1>1, HeldIsNatural
  <1>3. account \in H!Balance /\ wallet \in H!Balance /\ account.frozen = H!Held
    <2>1. account = [available |-> 0, frozen |-> H!Held]
          /\ wallet \in {account, [account EXCEPT !.frozen = 0]}
      BY DEF H!Init
    <2>2. wallet = account \/ wallet = [available |-> 0, frozen |-> 0]
      BY <2>1
    <2> QED
      BY <1>2, <2>1, <2>2 DEF H!Balance
  <1>4. spent \in [inexact : 0 .. MaxInexact, takeovers : 0 .. MaxTakeovers]
    BY DEF H!Init, H!HistoricalAssumption
  <1>5. H!TypeOK
    BY <1>1, <1>3, <1>4 DEF H!Init, H!TypeOK
  <1>6. ReleasesOK
    BY DEF H!Init, ReleasesOK, ReleaseOK
  <1> QED
    BY <1>3, <1>5, <1>6 DEF ReleasesInv, H!FrozenIsReserved

\* withdrawalTerminalResolution finds the one kind of callback that is stored.
LEMMA ResolutionFound ==
    ASSUME NEW w \in Withdrawals, H!Resolution(w) # "blocked"
    PROVE  /\ cid[w] = w /\ H!Resolution(w) \in {"rejected", "failed"}
           /\ events[w] = {H!Resolution(w)}
  <1>1. cid[w] = w /\ events[w] \in {{"rejected"}, {"failed"}}
    BY DEF H!Resolution
  <1>2. PICK s : events[w] = {s} /\ s \in {"rejected", "failed"}
    BY <1>1
  <1>3. (CHOOSE x \in {s} : TRUE) = s
    OBVIOUS
  <1>4. H!Resolution(w) = s
    BY <1>1, <1>2, <1>3 DEF H!Resolution
  <1> QED
    BY <1>1, <1>2, <1>4

\* Steps that leave the Core alone.
LEMMA QuietRelease ==
    ASSUME ReleasesInv, UNCHANGED H!coreVars
    PROVE  /\ H!FrozenIsReserved' /\ op' = op
           /\ op' \in [Withdrawals -> [status : H!Open \cup {"none", "REJECTED", "FAILED"},
                                       amount : Nat]]
           /\ account' \in H!Balance /\ wallet' \in H!Balance
  BY DEF ReleasesInv, H!TypeOK, H!coreVars, H!FrozenIsReserved, H!Held, H!OpenOps,
         H!Open, H!Balance

LEMMA CallbackStep ==
    ASSUME H!HistoricalAssumption, ReleasesInv, NEW w \in Withdrawals,
           \/ H!DecideOrder(w) \/ H!StoreCallback(w)
           \/ \E s \in H!FinalStatuses : H!InexactCallback(w, s)
    PROVE  ReleasesInv' /\ H!ReleaseHasEvidence
  <1>1. UNCHANGED H!coreVars /\ UNCHANGED H!queueVars
    BY DEF H!DecideOrder, H!StoreCallback, H!InexactCallback
  <1>2. H!TypeOK /\ ReleasesOK
    BY DEF ReleasesInv
  <1>3. acct' = acct /\ link' = link /\ approval' = approval /\ job' = job
    BY <1>1 DEF H!queueVars
  <1>4. H!ReleaseHasEvidence
    BY <1>3 DEF H!ReleaseHasEvidence
  <1>5. CASE H!DecideOrder(w)
    <2>1. /\ custody' = custody /\ cid' = cid /\ events' = events /\ spent' = spent
          /\ order' \in [Withdrawals -> {"none", "pending"} \cup H!FinalStatuses]
      BY <1>2, <1>5 DEF H!DecideOrder, H!TypeOK
    <2>2. H!TypeOK'
      BY <1>1, <1>2, <1>3, <2>1, QuietRelease DEF H!TypeOK
    <2>3. ReleasesOK'
      BY <1>2, <1>3, <2>1, QuietRelease, <1>1 DEF ReleasesOK, ReleaseOK
    <2> QED
      BY <1>1, <1>4, <2>2, <2>3, QuietRelease DEF ReleasesInv
  <1>6. CASE H!StoreCallback(w)
    <2>1. /\ custody' = custody /\ order' = order /\ spent' = spent
          /\ events' = [events EXCEPT ![w] = @ \cup {order[w]}] /\ order[w] \in H!FinalStatuses
          /\ cid' = [cid EXCEPT ![w] = IF custody[w] \in H!LiveCustody THEN w ELSE @]
      BY <1>6 DEF H!StoreCallback
    <2>2. /\ events' \in [Withdrawals -> SUBSET H!FinalStatuses]
          /\ cid' \in [Withdrawals -> Withdrawals \cup {NoCid}]
          /\ \A x \in Withdrawals : events[x] \subseteq events'[x]
          /\ \A x \in Withdrawals : cid'[x] = cid[x] \/ cid'[x] = x
      BY <1>2, <2>1 DEF H!TypeOK
    <2>3. H!TypeOK'
      BY <1>1, <1>2, <1>3, <2>1, <2>2, QuietRelease DEF H!TypeOK
    <2>4. ReleasesOK'
      BY <1>1, <1>2, <1>3, <2>1, <2>2, QuietRelease DEF ReleasesOK, ReleaseOK
    <2> QED
      BY <1>1, <1>4, <2>3, <2>4, QuietRelease DEF ReleasesInv
  <1>7. ASSUME NEW s \in H!FinalStatuses, H!InexactCallback(w, s)
        PROVE  ReleasesInv' /\ H!ReleaseHasEvidence
    <2>1. /\ cid' = cid /\ order' = order /\ spent.inexact < MaxInexact
          /\ spent' = [spent EXCEPT !.inexact = @ + 1]
          /\ events' = [events EXCEPT ![w] = @ \cup {s}]
          /\ custody' = [custody EXCEPT ![w] = IF @ \in H!LiveCustody THEN "exception" ELSE @]
      BY <1>7 DEF H!InexactCallback
    <2>2. /\ events' \in [Withdrawals -> SUBSET H!FinalStatuses]
          /\ custody' \in [Withdrawals -> H!LiveCustody \cup H!FinalStatuses]
          /\ \A x \in Withdrawals : events[x] \subseteq events'[x]
          /\ \A x \in Withdrawals : custody[x] \in {"rejected", "failed"} => custody'[x] = custody[x]
      BY <1>2, <2>1 DEF H!TypeOK, H!LiveCustody
    <2>3. spent' \in [inexact : 0 .. MaxInexact, takeovers : 0 .. MaxTakeovers]
      BY <1>2, <2>1 DEF H!TypeOK, H!HistoricalAssumption
    <2>4. H!TypeOK'
      BY <1>1, <1>2, <1>3, <2>1, <2>2, <2>3, QuietRelease DEF H!TypeOK
    <2>5. ReleasesOK'
      BY <1>1, <1>2, <1>3, <2>1, <2>2, QuietRelease DEF ReleasesOK, ReleaseOK
    <2> QED
      BY <1>1, <1>4, <2>4, <2>5, QuietRelease DEF ReleasesInv
  <1> QED
    BY <1>5, <1>6, <1>7

LEMMA CommandStep ==
    ASSUME H!HistoricalAssumption, ReleasesInv, NEW w \in Withdrawals,
           \E a \in Approvals : H!Hold(w, a) \/ H!Release(w, a)
    PROVE  ReleasesInv' /\ H!ReleaseHasEvidence
  <1>1. /\ UNCHANGED H!coreVars
        /\ cid' = cid /\ order' = order /\ events' = events /\ job' = job /\ spent' = spent
    BY DEF H!Hold, H!Release, H!custodyVars
  <1>2. H!TypeOK /\ ReleasesOK
    BY DEF ReleasesInv
  <1>3. H!Releasable(w) /\ H!Resolution(w) # "blocked"
    BY DEF H!Hold, H!Release, H!Releasable
  <1>4. /\ cid[w] = w /\ H!Resolution(w) \in {"rejected", "failed"}
        /\ events[w] = {H!Resolution(w)}
    BY <1>3, ResolutionFound
  <1>5. /\ op' = op /\ H!FrozenIsReserved'
        /\ op' \in [Withdrawals -> [status : H!Open \cup {"none", "REJECTED", "FAILED"},
                                    amount : Nat]]
        /\ account' \in H!Balance /\ wallet' \in H!Balance
    BY <1>1, QuietRelease
  <1>6. ASSUME NEW a \in Approvals, H!Hold(w, a)
        PROVE  ReleasesInv' /\ H!ReleaseHasEvidence
    <2>1. /\ custody' = custody /\ acct' = [acct EXCEPT ![w] = "held"]
          /\ link' = [link EXCEPT ![w] = op[w].status # "none"]
          /\ approval' = [approval EXCEPT ![w] = a]
      BY <1>6 DEF H!Hold, H!custodyVars
    <2>2. op[w].status # "none" => op[w].amount = Total
      BY <1>3 DEF H!Releasable, H!CoreMatches
    <2>3. /\ acct' \in [Withdrawals -> {"absent", "held", "pending_release", "releasing",
                                        "released", "exception"}]
          /\ approval' \in [Withdrawals -> Approvals \cup {H!NoApproval}]
          /\ acct'[w] = "held" /\ \A x \in Withdrawals \ {w} : acct'[x] = acct[x]
      BY <1>2, <2>1 DEF H!TypeOK
    <2>4. /\ link' \in [Withdrawals -> BOOLEAN]
          /\ link'[w] => op[w].status # "none"
          /\ \A x \in Withdrawals \ {w} : link'[x] = link[x]
      BY <1>2, <2>1, Zenon DEF H!TypeOK
    <2>5. H!TypeOK'
      BY <1>1, <1>2, <1>5, <2>1, <2>3, <2>4 DEF H!TypeOK
    <2>6. ASSUME NEW x \in Withdrawals PROVE ReleaseOK(x)'
      <3>1. ReleaseOK(x)
        BY <1>2 DEF ReleasesOK
      <3>2. CASE x = w
        BY <1>1, <1>5, <2>1, <2>2, <2>3, <2>4, <3>1, <3>2 DEF ReleaseOK
      <3>3. CASE x # w
        BY <1>1, <1>5, <2>1, <2>3, <2>4, <3>1, <3>3 DEF ReleaseOK
      <3> QED
        BY <3>2, <3>3
    <2>7. H!ReleaseHasEvidence
      BY <2>3 DEF H!ReleaseHasEvidence
    <2> QED
      BY <1>5, <2>5, <2>6, <2>7 DEF ReleasesInv, ReleasesOK
  <1>7. ASSUME NEW a \in Approvals, H!Release(w, a)
        PROVE  ReleasesInv' /\ H!ReleaseHasEvidence
    <2>1. /\ acct' = [acct EXCEPT ![w] = "pending_release"] /\ acct[w] = "held"
          /\ custody' = [custody EXCEPT ![w] = H!Resolution(w)]
          /\ link' = link /\ approval' = approval
      BY <1>7 DEF H!Release
    <2>2. /\ acct' \in [Withdrawals -> {"absent", "held", "pending_release", "releasing",
                                        "released", "exception"}]
          /\ acct'[w] = "pending_release" /\ \A x \in Withdrawals \ {w} : acct'[x] = acct[x]
      BY <1>2, <2>1 DEF H!TypeOK
    <2>3. /\ custody' \in [Withdrawals -> H!LiveCustody \cup H!FinalStatuses]
          /\ custody'[w] = H!Resolution(w)
          /\ \A x \in Withdrawals \ {w} : custody'[x] = custody[x]
      BY <1>2, <1>4, <2>1 DEF H!TypeOK, H!FinalStatuses
    <2>4. H!TypeOK'
      BY <1>1, <1>2, <1>5, <2>1, <2>2, <2>3 DEF H!TypeOK
    <2>5. ASSUME NEW x \in Withdrawals PROVE ReleaseOK(x)'
      <3>1. ReleaseOK(x)
        BY <1>2 DEF ReleasesOK
      <3>2. CASE x = w
        BY <1>1, <1>4, <1>5, <2>1, <2>2, <2>3, <3>1, <3>2 DEF ReleaseOK
      <3>3. CASE x # w
        BY <1>1, <1>5, <2>1, <2>2, <2>3, <3>1, <3>3 DEF ReleaseOK
      <3> QED
        BY <3>2, <3>3
    <2>6. H!ReleaseHasEvidence
      BY <2>2 DEF H!ReleaseHasEvidence
    <2> QED
      BY <1>5, <2>4, <2>5, <2>6 DEF ReleasesInv, ReleasesOK
  <1> QED
    BY <1>6, <1>7

\* Steps of the worker before and after the money moves.
LEMMA WorkerStep ==
    ASSUME H!HistoricalAssumption, ReleasesInv, NEW w \in Withdrawals, NEW k \in Jobs,
           H!Claim(k, w) \/ H!FailStage(k, w) \/ H!GiveUp(k, w)
    PROVE  ReleasesInv' /\ H!ReleaseHasEvidence
  <1>1. /\ UNCHANGED H!coreVars /\ custody' = custody /\ link' = link /\ approval' = approval
        /\ cid' = cid /\ order' = order /\ events' = events
    BY DEF H!Claim, H!FailStage, H!GiveUp, H!custodyVars
  <1>2. H!TypeOK /\ ReleasesOK
    BY DEF ReleasesInv
  <1>3. PICK s : /\ acct' = [acct EXCEPT ![w] = s]
                 /\ \/ s = acct[w]
                    \/ /\ s \in {"pending_release", "releasing", "exception"}
                       /\ acct[w] \in {"pending_release", "releasing"}
    BY DEF H!Claim, H!FailStage, H!GiveUp
  <1>4. job' \in [Jobs -> Withdrawals \cup {NoCid}]
    BY <1>2 DEF H!Claim, H!FailStage, H!GiveUp, H!TypeOK
  <1>5. spent' \in [inexact : 0 .. MaxInexact, takeovers : 0 .. MaxTakeovers]
    <2>1. CASE spent' = spent
      BY <1>2, <2>1 DEF H!TypeOK
    <2>2. CASE spent.takeovers < MaxTakeovers /\ spent' = [spent EXCEPT !.takeovers = @ + 1]
      BY <1>2, <2>2 DEF H!TypeOK, H!HistoricalAssumption
    <2> QED
      BY <2>1, <2>2 DEF H!Claim, H!FailStage, H!GiveUp
  <1>6. /\ op' = op /\ H!FrozenIsReserved'
        /\ op' \in [Withdrawals -> [status : H!Open \cup {"none", "REJECTED", "FAILED"},
                                    amount : Nat]]
        /\ account' \in H!Balance /\ wallet' \in H!Balance
    BY <1>1, QuietRelease
  <1>7. /\ acct' \in [Withdrawals -> {"absent", "held", "pending_release", "releasing",
                                      "released", "exception"}]
        /\ acct'[w] = s /\ \A x \in Withdrawals \ {w} : acct'[x] = acct[x]
    BY <1>2, <1>3 DEF H!TypeOK
  <1>8. H!TypeOK'
    BY <1>1, <1>2, <1>4, <1>5, <1>6, <1>7 DEF H!TypeOK
  <1>9. ASSUME NEW x \in Withdrawals PROVE ReleaseOK(x)'
    <2>1. ReleaseOK(x)
      BY <1>2 DEF ReleasesOK
    <2>2. CASE x = w
      BY <1>1, <1>3, <1>6, <1>7, <2>1, <2>2 DEF ReleaseOK
    <2>3. CASE x # w
      BY <1>1, <1>6, <1>7, <2>1, <2>3 DEF ReleaseOK
    <2> QED
      BY <2>2, <2>3
  <1>10. H!ReleaseHasEvidence
    BY <1>3, <1>7 DEF H!ReleaseHasEvidence
  <1> QED
    BY <1>6, <1>8, <1>9, <1>10 DEF ReleasesInv, ReleasesOK

\* releaseFunds with a link: the operation that ends held exactly what is unfrozen.
LEMMA UnfreezeStep ==
    ASSUME H!HistoricalAssumption, ReleasesInv, NEW w \in Withdrawals,
           link[w], acct[w] = "releasing", H!HasFunds(w),
           account' = H!Unfreeze(account), wallet' = H!Unfreeze(wallet),
           op' = [op EXCEPT ![w].status =
                    IF @ = "SUBMITTED" THEN "REJECTED" ELSE "FAILED"]
    PROVE  /\ H!FrozenIsReserved' /\ \A x \in Withdrawals : op'[x].amount = op[x].amount
           /\ op' \in [Withdrawals -> [status : H!Open \cup {"none", "REJECTED", "FAILED"},
                                       amount : Nat]]
           /\ account' \in H!Balance /\ wallet' \in H!Balance
  <1>1. H!TypeOK /\ ReleaseOK(w) /\ account.frozen = H!Held /\ Total \in Nat
    BY DEF ReleasesInv, ReleasesOK, H!FrozenIsReserved, H!HistoricalAssumption
  <1>2. op[w].amount = Total /\ op[w].status \in H!Open
    BY <1>1 DEF ReleaseOK, H!HasFunds
  <1>3. PICK a, b, c, d \in Nat : /\ account = [available |-> a, frozen |-> b]
                                 /\ wallet = [available |-> c, frozen |-> d]
    BY <1>1 DEF H!TypeOK, H!Balance
  <1>4. b >= Total /\ d >= Total
    BY <1>3 DEF H!HasFunds
  <1>5. /\ account' = [available |-> a + Total, frozen |-> b - Total]
        /\ wallet' = [available |-> c + Total, frozen |-> d - Total]
    BY <1>3 DEF H!Unfreeze
  <1>6. account' \in H!Balance /\ wallet' \in H!Balance
    BY <1>1, <1>4, <1>5 DEF H!Balance
  <1>7. op \in [Withdrawals -> [status : H!Open \cup {"none", "REJECTED", "FAILED"},
                                amount : Nat]]
    BY <1>1 DEF H!TypeOK
  <1>8. PICK e \in {"REJECTED", "FAILED"} : op' = [op EXCEPT ![w].status = e]
    OBVIOUS
  <1>9. /\ op' \in [Withdrawals -> [status : H!Open \cup {"none", "REJECTED", "FAILED"},
                                    amount : Nat]]
        /\ op'[w].status = e
        /\ \A x \in Withdrawals : op'[x].amount = op[x].amount
        /\ \A x \in Withdrawals \ {w} : op'[x].status = op[x].status
    <2>1. PICK p : p = op[w]
      OBVIOUS
    <2>2. /\ p \in [status : H!Open \cup {"none", "REJECTED", "FAILED"}, amount : Nat]
          /\ [p EXCEPT !.status = e] = [status |-> e, amount |-> p.amount]
      BY <1>7, <2>1
    <2>3. op' = [op EXCEPT ![w] = [status |-> e, amount |-> p.amount]]
      BY <1>8, <2>1, <2>2
    <2> QED
      BY <1>7, <2>1, <2>2, <2>3
  <1>10. PICK S, R, f : /\ S = H!OpenOps /\ R = H!OpenOps'
                        /\ f = [x \in Withdrawals |-> op[x].amount]
    OBVIOUS
  <1>11. R = S \ {w} /\ w \in S /\ f = [x \in Withdrawals |-> op'[x].amount]
    BY <1>2, <1>8, <1>9, <1>10 DEF H!OpenOps, H!Open
  <1>12. /\ IsFiniteSet(S) /\ SumOver(f, S) = b /\ \A x \in S : f[x] \in Int
         /\ f[w] = Total
    <2>1. \A x \in Withdrawals : op[x].amount \in Nat
      BY <1>7
    <2>2. IsFiniteSet(S) /\ H!Held = SumOver(f, S)
      BY <2>1, <1>10, HeldIsNatural
    <2>3. \A x \in S : f[x] \in Int
      BY <1>10, <2>1 DEF H!OpenOps
    <2> QED
      BY <1>1, <1>2, <1>3, <1>10, <2>2, <2>3
  <1>13. SumOver(f, S) = f[w] + SumOver(f, R) /\ SumOver(f, R) \in Int
    <2>1. IsFiniteSet(R) /\ \A x \in R : f[x] \in Int
      BY <1>11, <1>12, FS_Subset
    <2>2. SumOver(f, R) \in Int
      BY <2>1, SumType
    <2>3. SumOver(f, S) = f[w] + SumOver(f, S \ {w})
      BY <1>11, <1>12, SumRemove
    <2> QED
      BY <1>11, <2>2, <2>3
  <1>14. SumOver(f, R) = b - Total
    BY <1>1, <1>3, <1>12, <1>13
  <1>15. H!Held' = SumOver(f, R)
    <2>1. H!Held' = H!SumOver(f, R)
      BY <1>10, <1>11 DEF H!Held
    <2> QED
      BY <2>1, ReleasesSum
  <1>16. H!FrozenIsReserved'
    BY <1>5, <1>14, <1>15 DEF H!FrozenIsReserved
  <1> QED
    BY <1>6, <1>9, <1>16

LEMMA ReleaseStep ==
    ASSUME H!HistoricalAssumption, ReleasesInv, NEW w \in Withdrawals, NEW k \in Jobs,
           H!ReleaseFunds(k, w)
    PROVE  ReleasesInv' /\ H!ReleaseHasEvidence
  <1>1. /\ custody' = custody /\ link' = link /\ approval' = approval
        /\ cid' = cid /\ order' = order /\ events' = events /\ spent' = spent
        /\ acct[w] = "releasing" /\ H!MayRelease(w)
        /\ acct' = [acct EXCEPT ![w] = "released"] /\ job' = [job EXCEPT ![k] = NoCid]
    BY DEF H!ReleaseFunds, H!custodyVars
  <1>2. H!TypeOK /\ ReleasesOK
    BY DEF ReleasesInv
  <1>3. /\ H!FrozenIsReserved' /\ \A x \in Withdrawals : op'[x].amount = op[x].amount
        /\ op' \in [Withdrawals -> [status : H!Open \cup {"none", "REJECTED", "FAILED"},
                                    amount : Nat]]
        /\ account' \in H!Balance /\ wallet' \in H!Balance
    <2>1. CASE link[w]
      BY <1>1, <2>1, UnfreezeStep DEF H!ReleaseFunds
    <2>2. CASE ~link[w]
      <3>1. UNCHANGED H!coreVars
        BY <2>2 DEF H!ReleaseFunds
      <3> QED
        BY <3>1, QuietRelease
    <2> QED
      BY <2>1, <2>2
  <1>4. /\ acct' \in [Withdrawals -> {"absent", "held", "pending_release", "releasing",
                                      "released", "exception"}]
        /\ acct'[w] = "released" /\ \A x \in Withdrawals \ {w} : acct'[x] = acct[x]
    BY <1>1, <1>2 DEF H!TypeOK
  <1>5. job' \in [Jobs -> Withdrawals \cup {NoCid}]
    BY <1>1, <1>2 DEF H!TypeOK
  <1>6. H!TypeOK'
    BY <1>1, <1>2, <1>3, <1>4, <1>5 DEF H!TypeOK
  <1>7. ASSUME NEW x \in Withdrawals PROVE ReleaseOK(x)'
    <2>1. ReleaseOK(x) /\ op'[x].amount = op[x].amount
      BY <1>2, <1>3 DEF ReleasesOK
    <2>2. CASE x = w
      BY <1>1, <1>4, <2>1, <2>2 DEF ReleaseOK
    <2>3. CASE x # w
      BY <1>1, <1>4, <2>1, <2>3 DEF ReleaseOK
    <2> QED
      BY <2>2, <2>3
  <1>8. H!ReleaseHasEvidence
    <2>1. ReleaseOK(w)
      BY <1>2 DEF ReleasesOK
    <2>2. events[w] = {custody[w]}
      BY <1>1, <2>1 DEF ReleaseOK, H!MayRelease
    <2> QED
      BY <1>4, <2>2 DEF H!ReleaseHasEvidence
  <1> QED
    BY <1>3, <1>6, <1>7, <1>8 DEF ReleasesInv, ReleasesOK

LEMMA ReleasesStep ==
    ASSUME H!HistoricalAssumption, ReleasesInv, [H!Next]_(H!vars)
    PROVE  ReleasesInv' /\ [H!ReleaseHasEvidence]_(H!vars)
  <1>1. CASE UNCHANGED H!vars
    <2>1. /\ custody' = custody /\ link' = link /\ approval' = approval /\ acct' = acct
          /\ cid' = cid /\ order' = order /\ events' = events /\ spent' = spent
          /\ job' = job /\ UNCHANGED H!coreVars
      BY <1>1 DEF H!vars, H!coreVars
    <2>2. H!TypeOK /\ ReleasesOK
      BY DEF ReleasesInv
    <2>3. H!TypeOK'
      BY <2>1, <2>2, QuietRelease DEF H!TypeOK
    <2>4. ReleasesOK'
      BY <2>1, <2>2, QuietRelease DEF ReleasesOK, ReleaseOK
    <2> QED
      BY <1>1, <2>1, <2>3, <2>4, QuietRelease DEF ReleasesInv
  <1>2. CASE H!Next
    <2>1. PICK w \in Withdrawals :
            \/ H!DecideOrder(w) \/ H!StoreCallback(w)
            \/ \E s \in H!FinalStatuses : H!InexactCallback(w, s)
            \/ \E a \in Approvals : H!Hold(w, a) \/ H!Release(w, a)
            \/ \E k \in Jobs : \/ H!Claim(k, w) \/ H!ReleaseFunds(k, w)
                               \/ H!FailStage(k, w) \/ H!GiveUp(k, w)
      BY <1>2 DEF H!Next
    <2> QED
      BY <2>1, CallbackStep, CommandStep, WorkerStep, ReleaseStep
  <1> QED
    BY <1>1, <1>2

LEMMA ReleasesInductive ==
    ASSUME H!HistoricalAssumption PROVE H!Spec => []ReleasesInv
  <1>1. H!Init => ReleasesInv
    BY ReleasesInit
  <1>2. ReleasesInv /\ [H!Next]_(H!vars) => ReleasesInv'
    BY ReleasesStep
  <1> QED
    BY <1>1, <1>2, PTL DEF H!Spec

\* hold, release and the worker, with callbacks between them: what is frozen is what
\* the open operations reserved, and no balance goes below zero.
THEOREM ReleasesKeepReservations ==
    ASSUME H!HistoricalAssumption
    PROVE  H!Spec => [](H!TypeOK /\ H!FrozenIsReserved)
  <1>1. ReleasesInv => H!TypeOK /\ H!FrozenIsReserved
    BY DEF ReleasesInv
  <1> QED
    BY <1>1, ReleasesInductive, PTL

\* validateFinalCallbackEvidence: the worker gives money back only while every stored
\* callback agrees with the custody status the command wrote.
THEOREM ReleasesHaveEvidence ==
    ASSUME H!HistoricalAssumption PROVE H!Spec => [][H!ReleaseHasEvidence]_(H!vars)
  <1>1. ReleasesInv /\ [H!Next]_(H!vars) => [H!ReleaseHasEvidence]_(H!vars)
    BY ReleasesStep
  <1> QED
    BY <1>1, ReleasesInductive, PTL DEF H!Spec

\* While every callback repeats the provider's decision: an operation is given back only
\* if that decision was to reject or fail the payout.
PaidInv ==
    \A w \in Withdrawals :
      /\ \A s \in events[w] : s = order[w]
      /\ op[w].status \in {"REJECTED", "FAILED"} => order[w] \in {"rejected", "failed"}

LEMMA PaidStep ==
    ASSUME H!HistoricalAssumption, MaxInexact = 0, ReleasesInv, PaidInv, [H!Next]_(H!vars)
    PROVE  PaidInv'
  <1>1. H!TypeOK /\ ReleasesOK
    BY DEF ReleasesInv
  <1>2. ASSUME events' = events, order' = order, op' = op PROVE PaidInv'
    BY <1>2 DEF PaidInv
  <1>3. CASE UNCHANGED H!vars
    BY <1>2, <1>3 DEF H!vars
  <1>4. CASE H!Next
    <2>1. PICK w \in Withdrawals :
            \/ H!DecideOrder(w) \/ H!StoreCallback(w)
            \/ \E s \in H!FinalStatuses : H!InexactCallback(w, s)
            \/ \E a \in Approvals : H!Hold(w, a) \/ H!Release(w, a)
            \/ \E k \in Jobs : \/ H!Claim(k, w) \/ H!ReleaseFunds(k, w)
                               \/ H!FailStage(k, w) \/ H!GiveUp(k, w)
      BY <1>4 DEF H!Next
    <2>2. CASE H!DecideOrder(w)
      <3>1. /\ order[w] = "pending" /\ events' = events /\ op' = op
            /\ \A x \in Withdrawals \ {w} : order'[x] = order[x]
        BY <1>1, <2>2 DEF H!DecideOrder, H!coreVars, H!TypeOK
      <3>2. events[w] = {} /\ op[w].status \notin {"REJECTED", "FAILED"}
        BY <1>1, <3>1 DEF PaidInv, H!TypeOK, H!FinalStatuses
      <3> QED
        BY <3>1, <3>2 DEF PaidInv
    <2>3. CASE H!StoreCallback(w)
      <3>1. order' = order /\ op' = op /\ events' = [events EXCEPT ![w] = @ \cup {order[w]}]
        BY <2>3 DEF H!StoreCallback, H!coreVars
      <3>2. \A x \in Withdrawals : \A s \in events'[x] : s = order[x]
        BY <1>1, <3>1 DEF PaidInv, H!TypeOK
      <3> QED
        BY <3>1, <3>2 DEF PaidInv
    <2>4. \A s \in H!FinalStatuses : ~H!InexactCallback(w, s)
      BY <1>1 DEF H!InexactCallback, H!TypeOK
    <2>5. CASE \E a \in Approvals : H!Hold(w, a) \/ H!Release(w, a)
      BY <1>2, <2>5 DEF H!Hold, H!Release, H!custodyVars, H!coreVars
    <2>6. CASE \E k \in Jobs : H!Claim(k, w) \/ H!FailStage(k, w) \/ H!GiveUp(k, w)
      BY <1>2, <2>6 DEF H!Claim, H!FailStage, H!GiveUp, H!custodyVars, H!coreVars
    <2>7. ASSUME NEW k \in Jobs, H!ReleaseFunds(k, w) PROVE PaidInv'
      <3>1. /\ events' = events /\ order' = order
            /\ acct[w] = "releasing" /\ H!MayRelease(w)
            /\ \/ op' = op
               \/ op' = [op EXCEPT ![w].status = IF @ = "SUBMITTED" THEN "REJECTED" ELSE "FAILED"]
        BY <2>7 DEF H!ReleaseFunds, H!custodyVars, H!coreVars
      <3>2. ReleaseOK(w)
        BY <1>1 DEF ReleasesOK
      <3>3. order[w] \in {"rejected", "failed"}
        BY <3>1, <3>2 DEF ReleaseOK, H!MayRelease, PaidInv
      <3>4. \A x \in Withdrawals \ {w} : op'[x] = op[x]
        BY <1>1, <3>1 DEF H!TypeOK
      <3> QED
        BY <3>1, <3>3, <3>4 DEF PaidInv
    <2> QED
      BY <2>1, <2>2, <2>3, <2>4, <2>5, <2>6, <2>7
  <1> QED
    BY <1>3, <1>4

\* MaxInexact = 0 says that the order Cregis is queried for is the one the callbacks
\* report: then a payout that took place is never also given back.
THEOREM PaidIsNotGivenBack ==
    ASSUME H!HistoricalAssumption, MaxInexact = 0
    PROVE  H!Spec => []H!PaidStaysFrozen
  <1>1. H!Init => PaidInv
    <2> SUFFICES ASSUME H!Init PROVE PaidInv
      OBVIOUS
    <2>1. \A w \in Withdrawals : events[w] = {} /\ op[w].status \notin {"REJECTED", "FAILED"}
      BY DEF H!Init, H!Open
    <2> QED
      BY <2>1 DEF PaidInv
  <1>2. ReleasesInv /\ PaidInv /\ [H!Next]_(H!vars) => PaidInv'
    BY PaidStep
  <1>3. PaidInv => H!PaidStaysFrozen
    BY DEF PaidInv, H!PaidStaysFrozen
  <1> QED
    BY <1>1, <1>2, <1>3, ReleasesInductive, PTL DEF H!Spec

-----------------------------------------------------------------------------
(* The opening fee of a virtual account. *)

F == INSTANCE VaOpeningFee

LEMMA FeesSum == ASSUME NEW f, NEW S PROVE F!SumOver(f, S) = SumOver(f, S)
  BY Zenon DEF F!SumOver, SumOver, F!MapThenSumSet, MapThenSumSet, F!MapThenFoldSet,
               MapThenFoldSet

\* What an editor's PATCH has read, and the rows of VaFeePolicyEvent.
Edit == [channel : Channels, active : BOOLEAN \cup {None}, ready : BOOLEAN \cup {None},
         fee : Fees \cup {None}, expected : Nat]
PolicyTerms == [internal : BOOLEAN, exempt : BOOLEAN]
PolicyChange == [before : PolicyTerms, after : PolicyTerms]

FeesTyped ==
    /\ F!TypeOK
    /\ edit \in [Editors -> {F!Idle} \cup Edit]
    /\ events \in Seq(PolicyChange)

FeesMoney ==
    /\ IsFiniteSet(F!Held) /\ F!FrozenBacksFees
    /\ IsFiniteSet(F!Charged) /\ F!FeesConserved

\* A request names a channel, and if the channel's fee is still at the version the
\* request recorded, it is the fee the request recorded.
VersionKnown(r) ==
    request[r].status # "ABSENT" =>
      /\ request[r].channel \in Channels
      /\ request[r].version <= channel[request[r].channel].version
      /\ request[r].version = channel[request[r].channel].version =>
           request[r].standard = channel[request[r].channel].fee

VersionsKnown == \A r \in Requests : VersionKnown(r)

FeesInv ==
    /\ FeesTyped /\ FeesMoney /\ VersionsKnown
    /\ F!FeeFollowsRequest /\ F!ChargedAsConfirmed /\ F!PolicyAudit /\ F!VersionNamesFee

LEMMA FeesInit ==
    ASSUME F!VaOpeningFeeAssumption, F!Init
    PROVE  FeesInv
  <1>1. F!Absent \in F!Request /\ F!NoQuote \in F!Quote
    BY DEF F!Absent, F!Request, F!NoQuote, F!Quote
  <1>2. FeesTyped
    BY <1>1 DEF FeesTyped, F!Init, F!TypeOK, F!VaOpeningFeeAssumption, F!Policy,
                F!FeeStatuses, PolicyChange
  <1>3. F!Held = {} /\ F!Charged = {}
    BY DEF F!Init, F!Held, F!Live, F!Absent, F!Charged
  <1>4. FeesMoney
    <2>1. /\ F!SumOver([r \in Requests |-> request[r].fee], {}) = 0
          /\ F!SumOver(posted, {}) = 0
      BY FeesSum, SumEmpty
    <2>2. /\ wallet.frozen = 0 /\ wallet.available = OpeningBalance /\ other = 0
          /\ OpeningBalance \in Nat
      BY DEF F!Init, F!VaOpeningFeeAssumption
    <2> QED
      BY <1>3, <2>1, <2>2, FS_EmptySet DEF FeesMoney, F!FrozenBacksFees, F!FeesConserved
  <1>5. VersionsKnown /\ F!ChargedAsConfirmed /\ F!VersionNamesFee
    BY DEF F!Init, VersionsKnown, VersionKnown, F!ChargedAsConfirmed, F!VersionNamesFee,
           F!Absent
  <1>6. F!FeeFollowsRequest
    BY DEF F!Init, F!FeeFollowsRequest, F!Absent, F!Live, F!NothingDue
  <1>7. F!PolicyAudit
    BY DEF F!Init, F!PolicyAudit
  <1> QED
    BY <1>2, <1>4, <1>5, <1>6, <1>7 DEF FeesInv

\* Steps that touch neither requests nor money.
LEMMA RequestsUntouched ==
    ASSUME FeesInv, UNCHANGED <<request, fee, posted, confirmed>>
    PROVE  /\ F!Held' = F!Held /\ F!Charged' = F!Charged
           /\ F!FeeFollowsRequest' /\ F!ChargedAsConfirmed' /\ F!VersionNamesFee'
           /\ F!DecisionKept
  <1>1. F!Held' = F!Held /\ F!Charged' = F!Charged
    BY DEF F!Held, F!Charged, F!Live, F!NothingDue
  <1>2. F!FeeFollowsRequest' /\ F!ChargedAsConfirmed' /\ F!VersionNamesFee'
    BY DEF FeesInv, F!FeeFollowsRequest, F!ChargedAsConfirmed, F!VersionNamesFee, F!Live,
           F!NothingDue
  <1>3. \A r \in Requests : request'[r] = request[r] /\ request[r] \in F!Request
    BY DEF FeesInv, FeesTyped, F!TypeOK
  <1>4. \A q \in F!Request : q = [q EXCEPT !.status = q.status, !.waived = q.waived,
                                          !.number = q.number]
    BY DEF F!Request
  <1>5. F!DecisionKept
    BY <1>3, <1>4 DEF F!DecisionKept
  <1> QED
    BY <1>1, <1>2, <1>5

LEMMA MoneyUntouched ==
    ASSUME FeesInv, UNCHANGED <<request, posted, wallet, other>>
    PROVE  FeesMoney'
  BY DEF FeesInv, FeesMoney, F!FrozenBacksFees, F!FeesConserved, F!Held, F!Charged, F!Live,
         F!NothingDue

\* The read of a channel, the quote and the customer's status.
LEMMA ReadStep ==
    ASSUME F!VaOpeningFeeAssumption, FeesInv,
           \/ UNCHANGED F!vars
           \/ \E e \in Editors, c \in Channels, p \in Patches :
                F!ReadChannel(e, c, p[1], p[2], p[3])
           \/ F!SyncCustomer
           \/ \E c \in Channels : F!ShowQuote(c)
    PROVE  FeesInv' /\ F!DecisionKept
  <1>1. /\ UNCHANGED <<request, fee, posted, wallet, other, confirmed>>
        /\ channel' = channel /\ policy' = policy /\ events' = events
    BY DEF F!vars, F!ReadChannel, F!SyncCustomer, F!ShowQuote, F!channelVars, F!policyVars,
           F!fundVars
  <1>2. FeesTyped /\ F!TypeOK
    BY DEF FeesInv, FeesTyped
  <1>3. edit' \in [Editors -> {F!Idle} \cup Edit]
    <2>1. CASE edit' = edit
      BY <1>2, <2>1 DEF FeesTyped
    <2>2. ASSUME NEW e \in Editors, NEW c \in Channels, NEW p \in Patches,
                 F!ReadChannel(e, c, p[1], p[2], p[3])
          PROVE  edit' \in [Editors -> {F!Idle} \cup Edit]
      <3>1. PICK w : /\ w = [channel |-> c, active |-> p[1], ready |-> p[2], fee |-> p[3],
                             expected |-> channel[c].version]
                     /\ edit' = [edit EXCEPT ![e] = w]
        BY <2>2 DEF F!ReadChannel
      <3>2. channel[c].version \in Nat
        BY <1>2 DEF F!TypeOK
      <3>3. p[1] \in BOOLEAN \cup {None} /\ p[2] \in BOOLEAN \cup {None} /\ p[3] \in Fees \cup {None}
        BY DEF F!VaOpeningFeeAssumption
      <3>4. w \in Edit
        BY <3>1, <3>2, <3>3 DEF Edit
      <3> QED
        BY <1>2, <3>1, <3>4 DEF FeesTyped
    <2> QED
      BY <2>1, <2>2 DEF F!vars, F!SyncCustomer, F!ShowQuote, F!channelVars
  <1>4. enabled' \in BOOLEAN
    BY <1>2 DEF F!vars, F!ReadChannel, F!SyncCustomer, F!ShowQuote, F!TypeOK
  <1>5. shown' \in F!Quote
    <2>1. CASE shown' = shown
      BY <1>2, <2>1 DEF F!TypeOK
    <2>2. ASSUME NEW c \in Channels, F!ShowQuote(c) PROVE shown' \in F!Quote
      <3>1. channel[c].fee \in Nat /\ channel[c].version \in Nat /\ policy.version \in Nat
        BY <1>2, <2>2 DEF F!ShowQuote, F!TypeOK, F!Policy, F!VaOpeningFeeAssumption
      <3>2. F!EffectiveFee(c) \in Nat
        BY <3>1 DEF F!EffectiveFee
      <3> QED
        BY <2>2, <3>1, <3>2 DEF F!ShowQuote, F!CurrentQuote, F!Quote
    <2> QED
      BY <2>1, <2>2 DEF F!vars, F!ReadChannel, F!SyncCustomer
  <1>6. FeesTyped'
    BY <1>1, <1>2, <1>3, <1>4, <1>5 DEF FeesTyped, F!TypeOK
  <1>7. VersionsKnown' /\ F!PolicyAudit'
    BY <1>1 DEF FeesInv, VersionsKnown, VersionKnown, F!PolicyAudit, F!Terms
  <1> QED
    BY <1>1, <1>6, <1>7, RequestsUntouched, MoneyUntouched DEF FeesInv

\* PATCH of a channel: a new fee takes a new version, so no request that was submitted
\* before is at it.
LEMMA WriteStep ==
    ASSUME F!VaOpeningFeeAssumption, FeesInv, NEW e \in Editors, F!WriteChannel(e)
    PROVE  FeesInv' /\ F!DecisionKept
  <1>1. /\ UNCHANGED <<request, fee, posted, wallet, other, confirmed>>
        /\ policy' = policy /\ events' = events /\ enabled' = enabled /\ shown' = shown
        /\ edit[e] # F!Idle /\ edit' = [edit EXCEPT ![e] = F!Idle]
    BY DEF F!WriteChannel, F!policyVars, F!fundVars
  <1>2. FeesTyped /\ F!TypeOK
    BY DEF FeesInv, FeesTyped
  <1>3. PICK w \in Edit : w = edit[e]
    BY <1>1, <1>2 DEF FeesTyped
  <1>4. PICK c \in Channels : c = w.channel
    BY <1>3 DEF Edit
  <1>5. PICK old : /\ old = channel[c]
                   /\ old \in [fee : Fees \cup {None}, version : Nat, active : BOOLEAN,
                               ready : BOOLEAN]
    BY <1>2, <1>4 DEF F!TypeOK
  <1>6. PICK new : /\ new = [fee |-> IF w.fee = None THEN old.fee ELSE w.fee,
                             version |-> IF w.fee = None THEN old.version ELSE old.version + 1,
                             active |-> IF w.active = None THEN old.active ELSE w.active,
                             ready |-> IF w.ready = None THEN old.ready ELSE w.ready]
    OBVIOUS
  <1>7. channel' = [channel EXCEPT ![c] = new] \/ channel' = channel
    BY <1>3, <1>4, <1>5, <1>6 DEF F!WriteChannel
  <1>8. new \in [fee : Fees \cup {None}, version : Nat, active : BOOLEAN, ready : BOOLEAN]
    <2>1. (IF w.active = None THEN old.active ELSE w.active) \in BOOLEAN
      BY <1>3, <1>5, Zenon DEF Edit
    <2>2. (IF w.ready = None THEN old.ready ELSE w.ready) \in BOOLEAN
      BY <1>3, <1>5, Zenon DEF Edit
    <2>3. (IF w.fee = None THEN old.fee ELSE w.fee) \in Fees \cup {None}
      BY <1>3, <1>5 DEF Edit
    <2>4. (IF w.fee = None THEN old.version ELSE old.version + 1) \in Nat
      BY <1>5
    <2> QED
      BY <1>6, <2>1, <2>2, <2>3, <2>4
  <1>9. /\ channel' \in [Channels -> [fee : Fees \cup {None}, version : Nat,
                                      active : BOOLEAN, ready : BOOLEAN]]
        /\ \A d \in Channels : channel'[d] = channel[d] \/ (d = c /\ channel'[d] = new)
    BY <1>2, <1>7, <1>8 DEF F!TypeOK
  <1>10. \/ new.version = old.version /\ new.fee = old.fee
         \/ new.version = old.version + 1
    BY <1>6
  <1>11. FeesTyped'
    BY <1>1, <1>2, <1>9 DEF FeesTyped, F!TypeOK
  <1>12. ASSUME NEW r \in Requests PROVE VersionKnown(r)'
    <2>1. VersionKnown(r) /\ request'[r] = request[r] /\ request[r].version \in Nat
      BY <1>1, <1>2 DEF FeesInv, VersionsKnown, F!TypeOK, F!Request
    <2>2. SUFFICES ASSUME request[r].status # "ABSENT"
                   PROVE  /\ request[r].version <= channel'[request[r].channel].version
                          /\ request[r].version = channel'[request[r].channel].version =>
                               request[r].standard = channel'[request[r].channel].fee
      BY <2>1 DEF VersionKnown
    <2>3. PICK d \in Channels : d = request[r].channel
      BY <2>1, <2>2 DEF VersionKnown
    <2>4. /\ request[r].version <= channel[d].version
          /\ request[r].version = channel[d].version => request[r].standard = channel[d].fee
      BY <2>1, <2>2, <2>3 DEF VersionKnown
    <2>5. CASE channel'[d] = channel[d]
      BY <2>3, <2>4, <2>5
    <2>6. CASE d = c /\ channel'[d] = new
      BY <1>5, <1>10, <2>1, <2>3, <2>4, <2>6
    <2> QED
      BY <1>9, <2>5, <2>6
  <1>13. F!PolicyAudit'
    BY <1>1 DEF FeesInv, F!PolicyAudit, F!Terms
  <1> QED
    BY <1>1, <1>11, <1>12, <1>13, RequestsUntouched, MoneyUntouched DEF FeesInv, VersionsKnown

\* updateVaFeePolicy: the new event starts where the last one ended.
LEMMA PolicyStep ==
    ASSUME F!VaOpeningFeeAssumption, FeesInv,
           NEW kind \in {"identity", "exemption"}, NEW on \in BOOLEAN, F!UpdatePolicy(kind, on)
    PROVE  FeesInv' /\ F!DecisionKept
  <1>1. /\ UNCHANGED <<request, fee, posted, wallet, other, confirmed>>
        /\ channel' = channel /\ edit' = edit /\ enabled' = enabled /\ shown' = shown
    BY DEF F!UpdatePolicy, F!channelVars, F!fundVars
  <1>2. FeesTyped /\ F!TypeOK /\ F!PolicyAudit
    BY DEF FeesInv, FeesTyped
  <1>3. PICK new : new = F!NewTerms(kind, on)
    OBVIOUS
  <1>4. new \in PolicyTerms /\ ~(new.internal /\ new.exempt)
    BY <1>3, Zenon DEF F!NewTerms, PolicyTerms
  <1>5. PICK old \in PolicyTerms : old = F!Terms(policy)
    <2>1. policy.internal \in BOOLEAN /\ policy.exempt \in BOOLEAN
      BY <1>2, Zenon DEF F!TypeOK, F!Policy
    <2>2. F!Terms(policy) \in PolicyTerms
      BY <2>1, Zenon DEF F!Terms, PolicyTerms
    <2> QED
      BY <2>2
  <1>6. PICK n \in Nat : n = policy.version /\ n = Len(events)
    BY <1>2 DEF F!TypeOK, F!Policy, F!PolicyAudit
  <1>7. /\ policy' = [internal |-> new.internal, exempt |-> new.exempt, version |-> n + 1]
        /\ events' = Append(events, [before |-> old, after |-> new])
    BY <1>3, <1>5, <1>6 DEF F!UpdatePolicy
  <1>8. policy' \in F!Policy
    BY <1>4, <1>7 DEF F!Policy, PolicyTerms
  <1>9. PICK x \in PolicyChange : x = [before |-> old, after |-> new]
    BY <1>4, <1>5 DEF PolicyChange
  <1>10. /\ events' \in Seq(PolicyChange) /\ Len(events') = n + 1
         /\ events'[n + 1] = x /\ \A i \in 1 .. n : events'[i] = events[i]
    BY <1>2, <1>6, <1>7, <1>9 DEF FeesTyped
  <1>11. FeesTyped'
    BY <1>1, <1>2, <1>8, <1>10 DEF FeesTyped, F!TypeOK
  <1>12. F!Terms(policy)' = new
    BY <1>4, <1>7 DEF F!Terms, PolicyTerms
  <1>13. ASSUME NEW i \in 1 .. Len(events') - 1
         PROVE  events'[i].after = events'[i + 1].before
    <2>1. CASE i = n
      BY <1>2, <1>5, <1>6, <1>9, <1>10, <2>1 DEF F!PolicyAudit
    <2>2. CASE i # n
      <3>1. i \in 1 .. n /\ i + 1 \in 1 .. n /\ i \in 1 .. Len(events) - 1
        BY <1>6, <1>10, <2>2
      <3>2. events[i].after = events[i + 1].before
        BY <1>2, <3>1 DEF F!PolicyAudit
      <3>3. events'[i] = events[i] /\ events'[i + 1] = events[i + 1]
        BY <1>10, <3>1
      <3> QED
        BY <3>2, <3>3
    <2> QED
      BY <2>1, <2>2
  <1>14. F!PolicyAudit'
    BY <1>4, <1>6, <1>7, <1>9, <1>10, <1>12, <1>13 DEF F!PolicyAudit
  <1>15. VersionsKnown'
    BY <1>1 DEF FeesInv, VersionsKnown, VersionKnown
  <1> QED
    BY <1>1, <1>11, <1>14, <1>15, RequestsUntouched, MoneyUntouched DEF FeesInv

\* The fees of the requests, as the sum over the held ones takes them.
FeeOf == [r \in Requests |-> request[r].fee]

LEMMA FeeSums ==
    ASSUME FeesInv
    PROVE  /\ IsFiniteSet(F!Held) /\ SumOver(FeeOf, F!Held) \in Nat
           /\ \A r \in Requests : FeeOf[r] \in Nat /\ FeeOf[r] = request[r].fee
           /\ IsFiniteSet(F!Charged) /\ SumOver(posted, F!Charged) \in Nat
           /\ \A r \in Requests : posted[r] \in Nat
           /\ wallet.frozen = other + SumOver(FeeOf, F!Held)
           /\ wallet.available + wallet.frozen + SumOver(posted, F!Charged) = OpeningBalance
  <1>1. /\ \A r \in Requests : FeeOf[r] \in Nat /\ FeeOf[r] = request[r].fee
        /\ \A r \in Requests : posted[r] \in Nat
    BY DEF FeesInv, FeesTyped, F!TypeOK, F!Request, FeeOf
  <1>2. PICK S, C, f : S = F!Held /\ C = F!Charged /\ f = FeeOf
    OBVIOUS
  <1>3. /\ IsFiniteSet(S) /\ \A r \in S : f[r] \in Nat
        /\ IsFiniteSet(C) /\ \A r \in C : posted[r] \in Nat
    BY <1>1, <1>2 DEF FeesInv, FeesMoney, F!Held, F!Charged
  <1>4. SumOver(f, S) \in Nat /\ SumOver(posted, C) \in Nat
    BY <1>3, SumNat
  <1>5. F!SumOver(f, S) = SumOver(f, S) /\ F!SumOver(posted, C) = SumOver(posted, C)
    BY FeesSum
  <1>6. /\ wallet.frozen = other + F!SumOver(f, S)
        /\ wallet.available + wallet.frozen + F!SumOver(posted, C) = OpeningBalance
    BY <1>2 DEF FeesInv, FeesMoney, F!FrozenBacksFees, F!FeesConserved, FeeOf
  <1> QED
    BY <1>1, <1>2, <1>3, <1>4, <1>5, <1>6

\* The same sums after a step, once the sets are known to be finite.
LEMMA FeeSumsAfter ==
    ASSUME NEW S, NEW C, NEW f, NEW p, S = F!Held', C = F!Charged', f = FeeOf', p = posted',
           IsFiniteSet(S), IsFiniteSet(C),
           wallet'.frozen = other' + SumOver(f, S),
           wallet'.available + wallet'.frozen + SumOver(p, C) = OpeningBalance
    PROVE  FeesMoney'
  <1>1. F!SumOver(f, S) = SumOver(f, S) /\ F!SumOver(p, C) = SumOver(p, C)
    BY FeesSum
  <1>2. wallet'.frozen = other' + F!SumOver(f, S)
    BY <1>1
  <1>3. wallet'.available + wallet'.frozen + F!SumOver(p, C) = OpeningBalance
    BY <1>1
  <1>4. F!FrozenBacksFees'
    BY <1>2 DEF F!FrozenBacksFees, FeeOf
  <1>5. F!FeesConserved'
    BY <1>3 DEF F!FeesConserved
  <1> QED
    BY <1>4, <1>5 DEF FeesMoney

\* The holds of other operations: what the fees hold is never taken for them.
LEMMA OtherStep ==
    ASSUME F!VaOpeningFeeAssumption, FeesInv, F!OtherFreeze \/ F!OtherRelease
    PROVE  FeesInv' /\ F!DecisionKept
  <1>1. /\ UNCHANGED <<request, fee, posted, confirmed>>
        /\ channel' = channel /\ edit' = edit /\ enabled' = enabled /\ shown' = shown
        /\ policy' = policy /\ events' = events
    BY DEF F!OtherFreeze, F!OtherRelease, F!channelVars, F!policyVars
  <1>2. FeesTyped /\ F!TypeOK
    BY DEF FeesInv, FeesTyped
  <1>3. PICK a, b, o \in Nat : wallet = [available |-> a, frozen |-> b] /\ o = other
    BY <1>2 DEF F!TypeOK
  <1>4. PICK h \in Nat : h = SumOver(FeeOf, F!Held)
    BY FeeSums
  <1>5. PICK j \in Nat : j = SumOver(posted, F!Charged)
    BY FeeSums
  <1>6. b = o + h /\ a + b + j = OpeningBalance
    BY <1>3, <1>4, <1>5, FeeSums
  <1>7. PICK d \in Int : /\ other' = o + d /\ o + d \in Nat /\ a - d \in Nat
                         /\ wallet' = [available |-> a - d, frozen |-> b + d]
    <2>1. CASE F!OtherFreeze
      BY <1>3, <2>1 DEF F!OtherFreeze
    <2>2. CASE F!OtherRelease
      <3>1. /\ o > 0 /\ other' = o + (-1) /\ -1 \in Int /\ o + (-1) \in Nat /\ a - (-1) \in Nat
            /\ wallet' = [available |-> a - (-1), frozen |-> b + (-1)]
        BY <1>3, <2>2 DEF F!OtherRelease
      <3> QED
        BY <3>1
    <2> QED
      BY <2>1, <2>2
  <1>8. wallet' \in [available : Nat, frozen : Nat] /\ other' \in Nat
    BY <1>6, <1>7
  <1>9. FeesTyped'
    BY <1>1, <1>2, <1>8 DEF FeesTyped, F!TypeOK
  <1>10. /\ wallet'.frozen = other' + h
         /\ wallet'.available + wallet'.frozen + j = OpeningBalance
    BY <1>6, <1>7
  <1>11. FeesMoney'
    <2>1. PICK S, C, f : S = F!Held' /\ C = F!Charged' /\ f = FeeOf'
      OBVIOUS
    <2>2. S = F!Held /\ C = F!Charged /\ f = FeeOf /\ posted' = posted
      BY <1>1, <2>1, RequestsUntouched DEF FeeOf
    <2>3. IsFiniteSet(S) /\ IsFiniteSet(C) /\ h = SumOver(f, S) /\ j = SumOver(posted', C)
      BY <1>4, <1>5, <2>2, FeeSums
    <2> QED
      BY <1>10, <2>1, <2>3, FeeSumsAfter
  <1>12. VersionsKnown' /\ F!PolicyAudit'
    BY <1>1 DEF FeesInv, VersionsKnown, VersionKnown, F!PolicyAudit, F!Terms
  <1> QED
    BY <1>1, <1>9, <1>11, <1>12, RequestsUntouched DEF FeesInv

\* q and p are rows of one request: the snapshot is the same.
SameSnapshot(q, p) ==
    /\ p.channel = q.channel /\ p.currency = q.currency /\ p.fee = q.fee
    /\ p.standard = q.standard /\ p.version = q.version /\ p.policy = q.policy
    /\ p.source = q.source

\* What approve, reject, cancel and waive have in common: a submitted request becomes p,
\* and the fee it holds, if any, is settled or given back.
Decides(r, p) ==
    /\ request[r].status = "SUBMITTED"
    /\ p \in F!Request /\ SameSnapshot(request[r], p) /\ p.status # "ABSENT"
    /\ request' = [request EXCEPT ![r] = p]
    /\ UNCHANGED <<channel, edit, policy, events, enabled, shown, other, confirmed>>
    /\ \/ /\ F!NothingDue(r) /\ UNCHANGED <<fee, posted, wallet>>
          /\ p.waived = request[r].waived /\ p.status \in F!Decided
       \/ /\ ~F!NothingDue(r) /\ F!ReservationValid(r) /\ p.status = "APPROVED" /\ ~p.waived
          /\ wallet' = [wallet EXCEPT !.frozen = @ - request[r].fee]
          /\ posted' = [posted EXCEPT ![r] = @ + request[r].fee]
          /\ fee' = [fee EXCEPT ![r] = "COMPLETED"]
       \/ /\ ~F!NothingDue(r) /\ F!ReservationValid(r)
          /\ \/ p.status \in {"REJECTED", "CANCELLED"} /\ ~p.waived
             \/ p.status = "SUBMITTED" /\ p.waived
          /\ wallet' = [available |-> wallet.available + request[r].fee,
                        frozen |-> wallet.frozen - request[r].fee]
          /\ \E s \in {"REJECTED", "CANCELLED"} :
               fee' = [fee EXCEPT ![r] = s] /\ (p.waived => s = "CANCELLED")
          /\ posted' = posted

LEMMA SnapshotKept ==
    ASSUME NEW q \in F!Request, NEW p \in F!Request, SameSnapshot(q, p)
    PROVE  p = [q EXCEPT !.status = p.status, !.waived = p.waived, !.number = p.number]
  BY DEF F!Request, SameSnapshot

\* The rows.
LEMMA DecidesRows ==
    ASSUME FeesInv, NEW r \in Requests, NEW p, Decides(r, p)
    PROVE  /\ request' \in [Requests -> F!Request] /\ request'[r] = p
           /\ \A x \in Requests \ {r} : /\ request'[x] = request[x] /\ fee'[x] = fee[x]
                                         /\ posted'[x] = posted[x]
           /\ F!ChargedAsConfirmed' /\ F!VersionNamesFee' /\ VersionsKnown' /\ F!DecisionKept
  <1>1. F!TypeOK
    BY DEF FeesInv, FeesTyped
  <1>2. /\ request' \in [Requests -> F!Request] /\ request'[r] = p /\ p \in F!Request
        /\ \A x \in Requests \ {r} : request'[x] = request[x]
        /\ SameSnapshot(request[r], p) /\ request[r].status = "SUBMITTED"
        /\ p.status # "ABSENT" /\ confirmed' = confirmed /\ channel' = channel
    BY <1>1 DEF Decides, F!TypeOK
  <1>3. \A x \in Requests \ {r} : fee'[x] = fee[x] /\ posted'[x] = posted[x]
    BY <1>1 DEF Decides, F!TypeOK
  <1>4. \A x \in Requests : /\ request'[x].channel = request[x].channel
                            /\ request'[x].fee = request[x].fee
                            /\ request'[x].standard = request[x].standard
                            /\ request'[x].version = request[x].version
                            /\ request'[x].policy = request[x].policy
                            /\ request'[x].source = request[x].source
                            /\ request'[x].status # "ABSENT" <=> request[x].status # "ABSENT"
    BY <1>2 DEF SameSnapshot
  <1>5. F!ChargedAsConfirmed'
    BY <1>2, <1>4 DEF FeesInv, F!ChargedAsConfirmed
  <1>6. F!VersionNamesFee'
    BY <1>4 DEF FeesInv, F!VersionNamesFee
  <1>7. VersionsKnown'
    BY <1>2, <1>4 DEF FeesInv, VersionsKnown, VersionKnown
  <1>8. F!DecisionKept
    <2>1. ASSUME NEW x \in Requests, request[x].status = "SUBMITTED"
          PROVE  request'[x] = [request[x] EXCEPT !.status = request'[x].status,
                                                  !.waived = request'[x].waived,
                                                  !.number = request'[x].number]
      <3>1. SameSnapshot(request[x], request'[x])
        BY <1>2 DEF SameSnapshot
      <3>2. request[x] \in F!Request /\ request'[x] \in F!Request
        BY <1>1, <1>2 DEF F!TypeOK
      <3>3. PICK q, t \in F!Request : q = request[x] /\ t = request'[x]
        BY <3>2
      <3>4. t = [q EXCEPT !.status = t.status, !.waived = t.waived, !.number = t.number]
        BY <3>1, <3>3, SnapshotKept
      <3> QED
        BY <3>3, <3>4
    <2>2. ASSUME NEW x \in Requests, request[x].status \in F!Decided
          PROVE  request'[x] = request[x] /\ fee'[x] = fee[x] /\ posted'[x] = posted[x]
      BY <1>2, <1>3, <2>2 DEF F!Decided
    <2> QED
      BY <2>1, <2>2 DEF F!DecisionKept
  <1> QED
    BY <1>2, <1>3, <1>5, <1>6, <1>7, <1>8

\* The reconciliation rules.
LEMMA DecidesFee ==
    ASSUME FeesInv, NEW r \in Requests, NEW p, Decides(r, p)
    PROVE  F!FeeFollowsRequest' /\ fee' \in [Requests -> F!FeeStatuses]
  <1>1. F!TypeOK /\ F!FeeFollowsRequest
    BY DEF FeesInv, FeesTyped
  <1>2. /\ request'[r] = p
        /\ \A x \in Requests \ {r} : /\ request'[x] = request[x] /\ fee'[x] = fee[x]
                                      /\ posted'[x] = posted[x]
    BY DecidesRows
  <1>3. /\ fee' \in [Requests -> F!FeeStatuses]
        /\ p \in F!Request /\ p.fee = request[r].fee /\ p.fee \in Nat
    BY <1>1 DEF Decides, F!TypeOK, F!FeeStatuses, SameSnapshot, F!Request
  <1>4. /\ fee[r] = "NONE" <=> p.fee = 0
        /\ fee[r] = "SUBMITTED" <=> ~F!NothingDue(r)
        /\ fee[r] # "COMPLETED" /\ posted[r] = 0
        /\ request[r].waived => fee[r] = "CANCELLED"
    BY <1>1, <1>3 DEF F!FeeFollowsRequest, F!Live, Decides
  <1>5. F!NothingDue(r) <=> p.fee = 0 \/ request[r].waived
    BY <1>3 DEF F!NothingDue
  <1>6. /\ fee'[r] = "NONE" <=> p.fee = 0
        /\ fee'[r] = "SUBMITTED" <=> p.status = "SUBMITTED" /\ ~(p.fee = 0 \/ p.waived)
        /\ fee'[r] = "COMPLETED" <=> p.status = "APPROVED" /\ ~(p.fee = 0 \/ p.waived)
        /\ posted'[r] = IF fee'[r] = "COMPLETED" THEN p.fee ELSE 0
        /\ p.waived => fee'[r] = "CANCELLED"
    <2>1. CASE /\ F!NothingDue(r) /\ UNCHANGED <<fee, posted, wallet>>
               /\ p.waived = request[r].waived /\ p.status \in F!Decided
      BY <1>4, <1>5, <2>1 DEF F!Decided
    <2>2. CASE /\ ~F!NothingDue(r) /\ p.status = "APPROVED" /\ ~p.waived
               /\ posted' = [posted EXCEPT ![r] = @ + request[r].fee]
               /\ fee' = [fee EXCEPT ![r] = "COMPLETED"]
      <3>1. fee'[r] = "COMPLETED" /\ posted'[r] = p.fee
        BY <1>1, <1>3, <1>4, <2>2 DEF F!TypeOK
      <3> QED
        BY <1>5, <2>2, <3>1
    <2>3. CASE /\ ~F!NothingDue(r)
               /\ \/ p.status \in {"REJECTED", "CANCELLED"} /\ ~p.waived
                  \/ p.status = "SUBMITTED" /\ p.waived
               /\ \E s \in {"REJECTED", "CANCELLED"} :
                    fee' = [fee EXCEPT ![r] = s] /\ (p.waived => s = "CANCELLED")
               /\ posted' = posted
      <3>1. fee'[r] \in {"REJECTED", "CANCELLED"} /\ (p.waived => fee'[r] = "CANCELLED")
        BY <1>1, <2>3 DEF F!TypeOK
      <3> QED
        BY <1>4, <1>5, <2>3, <3>1
    <2> QED
      BY <2>1, <2>2, <2>3 DEF Decides
  <1>7. ASSUME NEW x \in Requests
        PROVE  /\ fee'[x] = "NONE" <=> request'[x].fee = 0
               /\ fee'[x] = "SUBMITTED" <=> F!Live(x)'
               /\ fee'[x] = "COMPLETED" <=> request'[x].status = "APPROVED" /\ ~F!NothingDue(x)'
               /\ posted'[x] = IF fee'[x] = "COMPLETED" THEN request'[x].fee ELSE 0
               /\ request'[x].waived => fee'[x] = "CANCELLED"
    <2>1. CASE x = r
      BY <1>2, <1>6, <2>1 DEF F!Live, F!NothingDue
    <2>2. CASE x # r
      BY <1>1, <1>2, <2>2 DEF F!FeeFollowsRequest, F!Live, F!NothingDue
    <2> QED
      BY <2>1, <2>2
  <1> QED
    BY <1>3, <1>7 DEF F!FeeFollowsRequest

\* The money: a due fee leaves the hold, to the journal or back to the customer.
LEMMA DecidesMoney ==
    ASSUME FeesInv, NEW r \in Requests, NEW p, Decides(r, p)
    PROVE  /\ FeesMoney' /\ wallet' \in [available : Nat, frozen : Nat]
           /\ posted' \in [Requests -> Nat]
  <1>1. F!TypeOK /\ F!FeeFollowsRequest
    BY DEF FeesInv, FeesTyped
  <1>2. /\ request'[r] = p /\ p.fee = request[r].fee
        /\ \A x \in Requests \ {r} : request'[x] = request[x] /\ posted'[x] = posted[x]
    BY DecidesRows DEF Decides, SameSnapshot
  <1>3. PICK a, b \in Nat : wallet = [available |-> a, frozen |-> b]
    BY <1>1 DEF F!TypeOK
  <1>4. PICK n \in Nat : n = request[r].fee
    BY <1>1 DEF F!TypeOK, F!Request
  <1>5. PICK S, C, f : S = F!Held /\ C = F!Charged /\ f = FeeOf
    OBVIOUS
  <1>6. PICK R, D : R = F!Held' /\ D = F!Charged'
    OBVIOUS
  <1>7. /\ IsFiniteSet(S) /\ SumOver(f, S) \in Nat /\ \A x \in S : f[x] \in Int
        /\ IsFiniteSet(C) /\ SumOver(posted, C) \in Nat /\ \A x \in C : posted[x] \in Int
        /\ b = other + SumOver(f, S) /\ a + b + SumOver(posted, C) = OpeningBalance
        /\ f[r] = n /\ S \subseteq Requests /\ C \subseteq Requests
    BY <1>3, <1>4, <1>5, FeeSums DEF F!Held, F!Charged
  <1>8. f = FeeOf'
    BY <1>2, <1>5 DEF FeeOf
  <1>9. R = S \ {r}
    <2>1. \A x \in Requests \ {r} : F!Live(x)' <=> F!Live(x)
      BY <1>2 DEF F!Live, F!NothingDue
    <2>2. ~F!Live(r)'
      BY <1>2 DEF Decides, F!Live, F!NothingDue, F!Decided
    <2> QED
      BY <1>5, <1>6, <2>1, <2>2 DEF F!Held
  <1>10. IsFiniteSet(R) /\ other' = other /\ other \in Nat
    BY <1>1, <1>7, <1>9, FS_Subset DEF Decides, F!TypeOK
  <1>11. r \in S <=> ~F!NothingDue(r)
    BY <1>5 DEF Decides, F!Held, F!Live
  <1>12. CASE F!NothingDue(r) /\ UNCHANGED <<fee, posted, wallet>>
    <2>1. R = S /\ D = C
      BY <1>5, <1>6, <1>9, <1>11, <1>12 DEF F!Charged
    <2>2. /\ wallet'.frozen = other' + SumOver(f, R)
          /\ wallet'.available + wallet'.frozen + SumOver(posted', D) = OpeningBalance
      BY <1>3, <1>7, <1>10, <1>12, <2>1
    <2>3. FeesMoney'
      BY <1>6, <1>7, <1>8, <1>10, <2>1, <2>2, FeeSumsAfter
    <2> QED
      BY <1>1, <1>12, <2>3 DEF F!TypeOK
  <1>13. ASSUME ~F!NothingDue(r), F!ReservationValid(r)
         PROVE  /\ SumOver(f, R) \in Nat /\ SumOver(f, S) = n + SumOver(f, R) /\ b >= n
                /\ posted[r] = 0 /\ r \notin C /\ n > 0
    <2>1. SumOver(f, S) = f[r] + SumOver(f, S \ {r})
      BY <1>7, <1>11, <1>13, SumRemove
    <2>2. \A x \in R : f[x] \in Nat
      BY <1>5, <1>7, <1>9, FeeSums
    <2>3. SumOver(f, R) \in Nat
      BY <1>10, <2>2, SumNat
    <2>4. b >= n
      BY <1>3, <1>4, <1>13 DEF F!ReservationValid
    <2>5. posted[r] = 0 /\ n > 0
      BY <1>1, <1>4, <1>13 DEF F!FeeFollowsRequest, F!ReservationValid, F!NothingDue
    <2> QED
      BY <1>5, <1>7, <1>9, <2>1, <2>3, <2>4, <2>5 DEF F!Charged
  <1>14. CASE /\ ~F!NothingDue(r) /\ F!ReservationValid(r)
              /\ wallet' = [wallet EXCEPT !.frozen = @ - request[r].fee]
              /\ posted' = [posted EXCEPT ![r] = @ + request[r].fee]
    <2>1. wallet' = [available |-> a, frozen |-> b - n]
      BY <1>3, <1>4, <1>14
    <2>2. posted' \in [Requests -> Nat] /\ posted'[r] = n
      BY <1>1, <1>4, <1>13, <1>14 DEF F!TypeOK
    <2>3. D = C \cup {r}
      BY <1>2, <1>5, <1>6, <1>13, <1>14, <2>2 DEF F!Charged
    <2>4. PICK g : g = posted'
      OBVIOUS
    <2>5. /\ C \ {r} = D \ {r} /\ r \in D /\ g[r] = n
          /\ \A x \in D : g[x] \in Int
          /\ \A x \in C \ {r} : posted[x] = g[x]
      BY <1>2, <1>7, <2>2, <2>3, <2>4
    <2>6. /\ IsFiniteSet(D) /\ SumOver(posted, C) \in Int /\ SumOver(g, D) \in Int
          /\ Others(g, D, r) = Others(posted, C, r)
      BY <1>7, <2>5, SumChange
    <2>7. SumOver(g, D) = SumOver(posted, C) + n
      BY <1>13, <1>14, <2>5, <2>6 DEF Others
    <2>8. wallet'.frozen = other' + SumOver(f, R)
      BY <1>7, <1>10, <1>13, <1>14, <2>1
    <2>9. wallet'.available + wallet'.frozen + SumOver(g, D) = OpeningBalance
      BY <1>7, <2>1, <2>7
    <2>10. FeesMoney'
      BY <1>6, <1>8, <1>10, <2>4, <2>6, <2>8, <2>9, FeeSumsAfter
    <2>11. b - n \in Nat
      BY <1>13, <1>14
    <2> QED
      BY <2>1, <2>2, <2>10, <2>11
  <1>15. CASE /\ ~F!NothingDue(r) /\ F!ReservationValid(r) /\ posted' = posted
              /\ wallet' = [available |-> wallet.available + request[r].fee,
                            frozen |-> wallet.frozen - request[r].fee]
    <2>1. wallet' = [available |-> a + n, frozen |-> b - n]
      BY <1>3, <1>4, <1>15
    <2>2. D = C
      BY <1>5, <1>6, <1>15 DEF F!Charged
    <2>3. wallet'.frozen = other' + SumOver(f, R)
      BY <1>7, <1>10, <1>13, <1>15, <2>1
    <2>4. wallet'.available + wallet'.frozen + SumOver(posted', D) = OpeningBalance
      BY <1>7, <1>15, <2>1, <2>2
    <2>5. FeesMoney'
      BY <1>6, <1>7, <1>8, <1>10, <2>2, <2>3, <2>4, FeeSumsAfter
    <2> QED
      BY <1>1, <1>13, <1>15, <2>1, <2>5 DEF F!TypeOK
  <1> QED
    BY <1>12, <1>14, <1>15 DEF Decides

LEMMA DecidesStep ==
    ASSUME FeesInv, NEW r \in Requests, NEW p, Decides(r, p)
    PROVE  FeesInv' /\ F!DecisionKept
  <1>1. FeesTyped'
    BY DecidesRows, DecidesFee, DecidesMoney DEF FeesInv, FeesTyped, F!TypeOK, Decides
  <1>2. F!PolicyAudit'
    BY DEF FeesInv, Decides, F!PolicyAudit, F!Terms
  <1> QED
    BY <1>1, <1>2, DecidesRows, DecidesFee, DecidesMoney DEF FeesInv

\* Approve, reject, cancel and waive are such decisions.
LEMMA DecisionsDecide ==
    ASSUME FeesInv, NEW r \in Requests,
           \/ \E number \in Numbers : F!Approve(r, number)
           \/ F!Reject(r) \/ F!Cancel(r) \/ F!Waive(r)
    PROVE  \E p : Decides(r, p)
  <1>1. PICK q \in F!Request : q = request[r]
    BY DEF FeesInv, FeesTyped, F!TypeOK
  <1>2. /\ q.status = "SUBMITTED"
        /\ UNCHANGED <<channel, edit, policy, events, enabled, shown, other, confirmed>>
    BY <1>1 DEF F!Approve, F!Reject, F!Cancel, F!Waive, F!channelVars, F!policyVars
  <1>3. F!NothingDue(r) <=> q.fee = 0 \/ q.waived
    BY <1>1 DEF F!NothingDue
  <1>4. ASSUME NEW number \in Numbers, F!Approve(r, number) PROVE \E p : Decides(r, p)
    <2>1. PICK p : p = [q EXCEPT !.status = "APPROVED", !.number = number]
      OBVIOUS
    <2>2. /\ p \in F!Request /\ SameSnapshot(q, p)
          /\ p.status = "APPROVED" /\ p.waived = q.waived
      BY <2>1 DEF F!Request, SameSnapshot, F!Decided
    <2>3. request' = [request EXCEPT ![r] = p] /\ F!SettleFee(r)
      BY <1>1, <1>4, <2>1 DEF F!Approve
    <2>4. Decides(r, p)
      BY <1>1, <1>2, <1>3, <2>2, <2>3 DEF Decides, F!SettleFee, F!Decided
    <2> QED
      BY <2>4
  <1>5. ASSUME NEW s \in {"REJECTED", "CANCELLED"}, F!ReleaseFee(r, s),
               request' = [request EXCEPT ![r] = [@ EXCEPT !.status = s]]
        PROVE  \E p : Decides(r, p)
    <2>1. PICK p : p = [q EXCEPT !.status = s]
      OBVIOUS
    <2>2. p \in F!Request /\ SameSnapshot(q, p) /\ p.status = s /\ p.waived = q.waived
      BY <2>1 DEF F!Request, SameSnapshot, F!Decided
    <2>3. request' = [request EXCEPT ![r] = p]
      BY <1>1, <1>5, <2>1
    <2>4. CASE F!NothingDue(r)
      BY <1>1, <1>2, <1>5, <2>2, <2>3, <2>4 DEF Decides, F!ReleaseFee, F!Decided
    <2>5. CASE ~F!NothingDue(r)
      BY <1>1, <1>2, <1>3, <1>5, <2>2, <2>3, <2>5 DEF Decides, F!ReleaseFee
    <2> QED
      BY <2>4, <2>5
  <1>6. ASSUME F!Waive(r) PROVE \E p : Decides(r, p)
    <2>1. PICK p : p = [q EXCEPT !.waived = TRUE]
      OBVIOUS
    <2>2. /\ p \in F!Request /\ SameSnapshot(q, p)
          /\ p.status = "SUBMITTED" /\ p.waived
      BY <1>2, <2>1 DEF F!Request, SameSnapshot
    <2>3. /\ request' = [request EXCEPT ![r] = p] /\ F!ReleaseFee(r, "CANCELLED")
          /\ ~F!NothingDue(r)
      BY <1>1, <1>3, <1>6, <2>1 DEF F!Waive, F!Request
    <2>4. Decides(r, p)
      BY <1>1, <1>2, <2>2, <2>3 DEF Decides, F!ReleaseFee
    <2> QED
      BY <2>4
  <1>7. CASE F!Reject(r)
    BY <1>5, <1>7 DEF F!Reject
  <1>8. CASE F!Cancel(r)
    BY <1>5, <1>8 DEF F!Cancel
  <1> QED
    BY <1>4, <1>6, <1>7, <1>8

\* requestVirtualAccount: the new row carries the channel's fee and version as they are.
LEMMA RequestStep ==
    ASSUME F!VaOpeningFeeAssumption, FeesInv, NEW r \in Requests, NEW c \in Channels,
           NEW cur \in Currencies, NEW source \in {"ADMIN", "CUSTOMER"},
           NEW quote \in {shown, F!NoQuote}, F!RequestAccount(r, c, cur, source, quote)
    PROVE  FeesInv' /\ F!DecisionKept
  <1>1. F!TypeOK /\ F!FeeFollowsRequest
    BY DEF FeesInv, FeesTyped
  <1>2. /\ UNCHANGED <<channel, edit, policy, events, enabled, shown, posted, other>>
        /\ request[r].status = "ABSENT" /\ channel[c].fee # None
        /\ source = "CUSTOMER" => quote = F!CurrentQuote(c)
        /\ confirmed' = [confirmed EXCEPT ![r] = quote]
    BY DEF F!RequestAccount, F!channelVars, F!policyVars, F!QuoteHolds
  <1>3. PICK v, w, y \in Nat : v = channel[c].fee /\ w = channel[c].version /\ y = policy.version
    BY <1>1, <1>2 DEF F!TypeOK, F!Policy, F!VaOpeningFeeAssumption
  <1>4. PICK n \in Nat : n = F!EffectiveFee(c)
    BY <1>3 DEF F!EffectiveFee
  <1>5. PICK a, b \in Nat : wallet = [available |-> a, frozen |-> b]
    BY <1>1 DEF F!TypeOK
  <1>6. PICK p : p = [status |-> "SUBMITTED", channel |-> c, currency |-> cur, fee |-> n,
                      standard |-> v, version |-> w, policy |-> y, source |-> source,
                      waived |-> FALSE, number |-> None]
    OBVIOUS
  <1>7. p \in F!Request
    BY <1>6 DEF F!Request
  <1>8. request' = [request EXCEPT ![r] = p]
    BY <1>3, <1>4, <1>6, Zenon DEF F!RequestAccount
  <1>9. /\ request' \in [Requests -> F!Request] /\ request'[r] = p
        /\ \A x \in Requests \ {r} : request'[x] = request[x]
    BY <1>1, <1>7, <1>8 DEF F!TypeOK
  <1>10. /\ wallet' = [available |-> a - n, frozen |-> b + n] /\ (n > 0 => a >= n)
    BY <1>4, <1>5 DEF F!RequestAccount, F!CanFreeze
  <1>11. PICK s \in {"SUBMITTED", "NONE"} : /\ fee' = [fee EXCEPT ![r] = s]
                                            /\ s = "NONE" <=> n = 0
    <2>1. fee' = [fee EXCEPT ![r] = IF n > 0 THEN "SUBMITTED" ELSE "NONE"]
      BY <1>4, Zenon DEF F!RequestAccount
    <2>2. CASE n > 0
      BY <2>1, <2>2
    <2>3. CASE n = 0
      BY <2>1, <2>3
    <2> QED
      BY <2>2, <2>3
  <1>12. /\ fee' \in [Requests -> F!FeeStatuses] /\ fee'[r] = s
         /\ \A x \in Requests \ {r} : fee'[x] = fee[x]
    BY <1>1, <1>11 DEF F!TypeOK, F!FeeStatuses
  <1>13. /\ confirmed' \in [Requests -> F!Quote] /\ confirmed'[r] = quote
         /\ \A x \in Requests \ {r} : confirmed'[x] = confirmed[x]
    <2>1. quote \in F!Quote
      BY <1>1 DEF F!TypeOK, F!NoQuote, F!Quote
    <2> QED
      BY <1>1, <1>2, <2>1 DEF F!TypeOK
  <1>14. a - n \in Nat
    BY <1>10
  <1>15. FeesTyped'
    <2>1. wallet' \in [available : Nat, frozen : Nat]
      BY <1>10, <1>14
    <2> QED
      BY <1>2, <1>9, <1>12, <1>13, <2>1 DEF FeesInv, FeesTyped, F!TypeOK
  <1>16. FeesMoney'
    <2>1. PICK S, C, f : S = F!Held /\ C = F!Charged /\ f = FeeOf
      OBVIOUS
    <2>2. PICK R, D, g : R = F!Held' /\ D = F!Charged' /\ g = FeeOf'
      OBVIOUS
    <2>3. /\ IsFiniteSet(S) /\ SumOver(f, S) \in Nat
          /\ IsFiniteSet(C) /\ SumOver(posted, C) \in Nat
          /\ b = other + SumOver(f, S) /\ a + b + SumOver(posted, C) = OpeningBalance
          /\ S \subseteq Requests /\ other' = other /\ other \in Nat /\ D = C
      BY <1>1, <1>2, <1>5, <2>1, <2>2, FeeSums DEF F!Held, F!Charged, F!TypeOK
    <2>4. /\ r \notin S /\ S \ {r} = R \ {r} /\ (r \in R <=> n # 0)
      <3>1. \A x \in Requests \ {r} : F!Live(x)' <=> F!Live(x)
        BY <1>9 DEF F!Live, F!NothingDue
      <3>2. ~F!Live(r) /\ (F!Live(r)' <=> n # 0)
        BY <1>2, <1>6, <1>9 DEF F!Live, F!NothingDue
      <3> QED
        BY <2>1, <2>2, <3>1, <3>2 DEF F!Held
    <2>5. /\ \A x \in S : f[x] \in Int
          /\ \A x \in R : g[x] \in Int
          /\ \A x \in S \ {r} : f[x] = g[x]
          /\ g[r] = n
      <3>1. g[r] = n /\ \A x \in Requests : g[x] \in Nat
        BY <1>6, <1>9, <2>2 DEF FeeOf, F!Request
      <3>2. \A x \in Requests \ {r} : f[x] = g[x]
        BY <1>9, <2>1, <2>2 DEF FeeOf
      <3>3. \A x \in Requests : f[x] \in Nat
        BY <2>1, FeeSums
      <3>4. S \subseteq Requests /\ R \subseteq Requests
        BY <2>1, <2>2 DEF F!Held
      <3> QED
        BY <3>1, <3>2, <3>3, <3>4
    <2>6. /\ IsFiniteSet(R) /\ SumOver(f, S) \in Int /\ SumOver(g, R) \in Int
          /\ Others(g, R, r) = Others(f, S, r)
      BY <2>3, <2>4, <2>5, SumChange
    <2>7. SumOver(g, R) = SumOver(f, S) + n
      BY <2>4, <2>5, <2>6 DEF Others
    <2>8. wallet'.frozen = other' + SumOver(g, R)
      BY <1>10, <2>3, <2>7
    <2>9. wallet'.available + wallet'.frozen + SumOver(posted', D) = OpeningBalance
      BY <1>2, <1>10, <2>3
    <2> QED
      BY <2>2, <2>3, <2>6, <2>8, <2>9, FeeSumsAfter
  <1>17. F!FeeFollowsRequest'
    <2>1. ASSUME NEW x \in Requests
          PROVE  /\ fee'[x] = "NONE" <=> request'[x].fee = 0
                 /\ fee'[x] = "SUBMITTED" <=> F!Live(x)'
                 /\ fee'[x] = "COMPLETED" <=> request'[x].status = "APPROVED" /\ ~F!NothingDue(x)'
                 /\ posted'[x] = IF fee'[x] = "COMPLETED" THEN request'[x].fee ELSE 0
                 /\ request'[x].waived => fee'[x] = "CANCELLED"
      <3>1. CASE x = r
        <4>1. posted[r] = 0
          BY <1>1, <1>2 DEF F!FeeFollowsRequest
        <4> QED
          BY <1>2, <1>6, <1>9, <1>11, <1>12, <3>1, <4>1 DEF F!Live, F!NothingDue
      <3>2. CASE x # r
        BY <1>1, <1>2, <1>9, <1>12, <3>2 DEF F!FeeFollowsRequest, F!Live, F!NothingDue
      <3> QED
        BY <3>1, <3>2
    <2> QED
      BY <2>1 DEF F!FeeFollowsRequest
  <1>18. F!ChargedAsConfirmed'
    <2>1. source = "CUSTOMER" => quote = [channel |-> c, fee |-> n, version |-> w, policy |-> y]
      BY <1>2, <1>3, <1>4 DEF F!CurrentQuote
    <2>2. ASSUME NEW x \in Requests, request'[x].source = "CUSTOMER", request'[x].status # "ABSENT"
          PROVE  confirmed'[x] = [channel |-> request'[x].channel, fee |-> request'[x].fee,
                                  version |-> request'[x].version, policy |-> request'[x].policy]
      <3>1. CASE x = r
        BY <1>6, <1>9, <1>13, <2>1, <2>2, <3>1
      <3>2. CASE x # r
        BY <1>9, <1>13, <2>2, <3>2 DEF FeesInv, F!ChargedAsConfirmed
      <3> QED
        BY <3>1, <3>2
    <2> QED
      BY <2>2 DEF F!ChargedAsConfirmed
  <1>19. VersionsKnown'
    <2>1. ASSUME NEW x \in Requests PROVE VersionKnown(x)'
      <3>1. CASE x = r
        BY <1>2, <1>3, <1>6, <1>9, <3>1 DEF VersionKnown
      <3>2. CASE x # r
        <4>1. VersionKnown(x) /\ request'[x] = request[x]
          BY <1>9, <3>2 DEF FeesInv, VersionsKnown
        <4> QED
          BY <1>2, <4>1 DEF VersionKnown
      <3> QED
        BY <3>1, <3>2
    <2> QED
      BY <2>1 DEF VersionsKnown
  <1>20. F!VersionNamesFee'
    <2>1. ASSUME NEW x \in Requests, request[x].status # "ABSENT",
                 request[x].channel = c, request[x].version = w
          PROVE  request[x].standard = v
      <3>1. VersionKnown(x)
        BY DEF FeesInv, VersionsKnown
      <3> QED
        BY <1>3, <2>1, <3>1 DEF VersionKnown
    <2>2. F!VersionNamesFee
      BY DEF FeesInv
    <2> QED
      BY <1>6, <1>9, <2>1, <2>2 DEF F!VersionNamesFee
  <1>21. F!PolicyAudit'
    BY <1>2 DEF FeesInv, F!PolicyAudit, F!Terms
  <1>22. F!DecisionKept
    <2>1. ASSUME NEW x \in Requests, request[x].status # "ABSENT"
          PROVE  /\ request'[x] = request[x] /\ fee'[x] = fee[x] /\ posted'[x] = posted[x]
                 /\ request[x] \in F!Request
      BY <1>1, <1>2, <1>9, <1>12, <2>1 DEF F!TypeOK
    <2>2. \A q \in F!Request : q = [q EXCEPT !.status = q.status, !.waived = q.waived,
                                            !.number = q.number]
      BY DEF F!Request
    <2> QED
      BY <2>1, <2>2 DEF F!DecisionKept, F!Decided
  <1> QED
    BY <1>15, <1>16, <1>17, <1>18, <1>19, <1>20, <1>21, <1>22 DEF FeesInv

LEMMA FeesStep ==
    ASSUME F!VaOpeningFeeAssumption, FeesInv, [F!Next]_(F!vars)
    PROVE  FeesInv' /\ F!DecisionKept
  <1>1. CASE \E r \in Requests : \/ \E number \in Numbers : F!Approve(r, number)
                                 \/ F!Reject(r) \/ F!Cancel(r) \/ F!Waive(r)
    BY <1>1, DecisionsDecide, DecidesStep
  <1>2. CASE \E r \in Requests, c \in Channels, cur \in Currencies :
               \/ F!RequestAccount(r, c, cur, "CUSTOMER", shown)
               \/ \E q \in {shown, F!NoQuote} : F!RequestAccount(r, c, cur, "ADMIN", q)
    <2>1. PICK r \in Requests, c \in Channels, cur \in Currencies,
               source \in {"ADMIN", "CUSTOMER"}, q \in {shown, F!NoQuote} :
                 F!RequestAccount(r, c, cur, source, q)
      BY <1>2
    <2> QED
      BY <2>1, RequestStep
  <1>3. CASE \E kind \in {"identity", "exemption"}, on \in BOOLEAN : F!UpdatePolicy(kind, on)
    BY <1>3, PolicyStep
  <1>4. CASE \E e \in Editors : F!WriteChannel(e)
    BY <1>4, WriteStep
  <1>5. CASE F!OtherFreeze \/ F!OtherRelease
    BY <1>5, OtherStep
  <1>6. CASE \/ UNCHANGED F!vars
             \/ \E e \in Editors, c \in Channels, p \in Patches :
                  F!ReadChannel(e, c, p[1], p[2], p[3])
             \/ F!SyncCustomer
             \/ \E c \in Channels : F!ShowQuote(c)
    BY <1>6, ReadStep
  <1> QED
    BY <1>1, <1>2, <1>3, <1>4, <1>5, <1>6 DEF F!Next

LEMMA FeesInductive ==
    ASSUME F!VaOpeningFeeAssumption PROVE F!Spec => []FeesInv
  <1>1. F!Init => FeesInv
    BY FeesInit
  <1>2. FeesInv /\ [F!Next]_(F!vars) => FeesInv'
    BY FeesStep
  <1> QED
    BY <1>1, <1>2, PTL DEF F!Spec

\* settleVaOpeningFee and releaseVaOpeningFee: in whatever order requests are approved,
\* rejected, cancelled and waived, what is frozen is what the undecided requests and the
\* other operations hold, what left the customer is what the journal credited, and
\* request, operation and journal tell one story.
THEOREM OpeningFeesAreConserved ==
    ASSUME F!VaOpeningFeeAssumption
    PROVE  F!Spec => [](F!TypeOK /\ F!FrozenBacksFees /\ F!FeesConserved /\ F!FeeFollowsRequest)
  <1>1. FeesInv => F!TypeOK /\ F!FrozenBacksFees /\ F!FeesConserved /\ F!FeeFollowsRequest
    BY DEF FeesInv, FeesTyped, FeesMoney
  <1> QED
    BY <1>1, FeesInductive, PTL

\* requestVirtualAccount, updateVaFeePolicy and PATCH of a channel: a customer is charged
\* by the quote he confirmed, a fee version names one fee though two editors overlap, and
\* the policy's log has one event per version, each starting where the last one ended.
THEOREM OpeningFeesAreAsQuoted ==
    ASSUME F!VaOpeningFeeAssumption
    PROVE  F!Spec => [](F!ChargedAsConfirmed /\ F!VersionNamesFee /\ F!PolicyAudit)
  <1>1. FeesInv => F!ChargedAsConfirmed /\ F!VersionNamesFee /\ F!PolicyAudit
    BY DEF FeesInv
  <1> QED
    BY <1>1, FeesInductive, PTL

\* A decided request never changes again, and an undecided one keeps its snapshot.
THEOREM OpeningDecisionsStand ==
    ASSUME F!VaOpeningFeeAssumption PROVE F!Spec => [][F!DecisionKept]_(F!vars)
  <1>1. FeesInv /\ [F!Next]_(F!vars) => [F!DecisionKept]_(F!vars)
    BY FeesStep
  <1> QED
    BY <1>1, FeesInductive, PTL DEF F!Spec

-----------------------------------------------------------------------------
(* Wallet provisioning. *)

W == INSTANCE WalletProvisioning

LEMMA WalletsCount == ASSUME NEW S PROVE W!Cardinality(S) = Cardinality(S)
  BY Zenon DEF W!Cardinality, Cardinality

\* The address a request activates, and the addresses a sync has read, are the project's.
OwnedCall(c) == call[c].pc = "activate" => call[c].addr \in owned
OwnedSync(s) == sync[s].pc = "write" => sync[s].wallets \subseteq owned
OwnedRow(k) == W!Usable(row[k]) => row[k].addr \in owned

WalletsInv ==
    /\ W!TypeOK
    /\ \A c \in Calls : OwnedCall(c)
    /\ \A s \in Syncs : OwnedSync(s)
    /\ \A k \in Keys : OwnedRow(k)
    /\ shown \subseteq owned /\ mirror \in owned \cup {0}

LEMMA WalletsInit ==
    ASSUME W!WalletProvisioningAssumption, W!Init
    PROVE  WalletsInv
  <1>1. /\ 0 \in W!Addresses /\ 1 \in W!Addresses /\ 0 \in 0 .. MaxMinted
        /\ 1 \in 0 .. MaxMinted /\ 0 \in 0 .. MaxFaults
    BY DEF W!WalletProvisioningAssumption, W!Addresses, W!NoAddress
  <1>2. /\ row \in [Keys -> [status : {"none", "creating", "active", "error"},
                             addr : W!Addresses, verified : BOOLEAN]]
        /\ \A k \in Keys : ~W!Usable(row[k])
    <2>1. W!NoRow \in [status : {"none", "creating", "active", "error"},
                       addr : W!Addresses, verified : BOOLEAN] /\ ~W!Usable(W!NoRow)
      BY <1>1 DEF W!NoRow, W!NoAddress, W!Usable
    <2>2. PICK old : old = [status |-> "active", addr |-> 1, verified |-> FALSE]
      OBVIOUS
    <2>3. old \in [status : {"none", "creating", "active", "error"},
                   addr : W!Addresses, verified : BOOLEAN] /\ ~W!Usable(old)
      BY <1>1, <2>2 DEF W!Usable
    <2>4. \/ row = [k \in Keys |-> W!NoRow]
          \/ \E k \in Keys : row = [j \in Keys |-> IF j = k THEN old ELSE W!NoRow]
      BY <2>2 DEF W!Init
    <2> QED
      BY <2>1, <2>3, <2>4
  <1>3. /\ minted \in 0 .. MaxMinted /\ owned \subseteq 1 .. minted
        /\ shown = {} /\ mirror = 0 /\ faults = 0 /\ customer \in W!CustomerStatuses
        /\ mirror \in 0 .. minted
    <2>1. \/ minted = 0 /\ owned = {}
          \/ minted = 1 /\ owned \in {{}, {1}}
      BY DEF W!Init
    <2>2. shown = {} /\ mirror = 0 /\ faults = 0 /\ customer \in W!CustomerStatuses
      BY DEF W!Init, W!NoAddress, W!CustomerStatuses
    <2>3. minted \in 0 .. MaxMinted /\ owned \subseteq 1 .. minted /\ mirror \in 0 .. minted
      BY <1>1, <2>1, <2>2
    <2> QED
      BY <2>2, <2>3
  <1>4. /\ \A c \in Calls : call[c] = W!Idle
        /\ \A s \in Syncs : sync[s] = W!NoSync
    BY DEF W!Init
  <1>5. W!TypeOK
    BY <1>1, <1>2, <1>3, <1>4 DEF W!Init, W!TypeOK
  <1>6. /\ \A c \in Calls : OwnedCall(c)
        /\ \A s \in Syncs : OwnedSync(s)
        /\ \A k \in Keys : OwnedRow(k)
    BY <1>2, <1>4 DEF OwnedCall, OwnedSync, OwnedRow, W!Idle, W!NoSync
  <1> QED
    BY <1>3, <1>5, <1>6 DEF WalletsInv

\* What a request is about, by the step it is at.
Started == [pc : {"reserve"}, key : Keys]
Running == [pc : {"reset", "create", "verify", "activate"}, key : Keys, addr : W!Addresses]
WalletRow == [status : {"none", "creating", "active", "error"}, addr : W!Addresses,
              verified : BOOLEAN]

LEMMA CallTypes ==
    ASSUME W!TypeOK, NEW c \in Calls
    PROVE  /\ call[c].pc = "idle" => call[c] = W!Idle
           /\ call[c].pc = "reserve" => call[c] \in Started
           /\ call[c].pc \in {"reset", "create", "verify", "activate"} => call[c] \in Running
           /\ call[c].pc \notin {"idle", "reserve"} => call[c] \in Running
           /\ W!Idle.pc = "idle"
  BY DEF W!TypeOK, W!Idle, Started, Running

\* One request moves to q, others stay.
LEMMA CallMoves ==
    ASSUME W!TypeOK, NEW c \in Calls, NEW q \in {W!Idle} \cup Started \cup Running,
           call' = [call EXCEPT ![c] = q]
    PROVE  /\ call' \in [Calls -> {W!Idle} \cup Started \cup Running] /\ call'[c] = q
           /\ \A d \in Calls \ {c} : call'[d] = call[d]
  BY DEF W!TypeOK, Started, Running

LEMMA RowMoves ==
    ASSUME W!TypeOK, NEW k \in Keys, NEW q \in WalletRow, row' = [row EXCEPT ![k] = q]
    PROVE  /\ row' \in [Keys -> WalletRow] /\ row'[k] = q
           /\ \A j \in Keys \ {k} : row'[j] = row[j]
  BY DEF W!TypeOK, WalletRow

\* The types after a step that adds at most one address.
LEMMA WalletTypes ==
    ASSUME W!WalletProvisioningAssumption, W!TypeOK,
           row' \in [Keys -> WalletRow],
           call' \in [Calls -> {W!Idle} \cup Started \cup Running],
           customer' \in W!CustomerStatuses, minted' \in 0 .. MaxMinted, minted <= minted',
           owned' \subseteq 1 .. minted', shown' \subseteq owned', mirror' \in owned' \cup {0},
           sync' \in [Syncs -> {W!NoSync} \cup [pc : {"write"}, wallets : SUBSET (1 .. minted')]],
           faults' \in 0 .. MaxFaults
    PROVE  W!TypeOK'
  <1>1. shown' \subseteq 1 .. minted' /\ mirror' \in 0 .. minted'
    OBVIOUS
  <1> QED
    BY <1>1 DEF W!TypeOK, WalletRow, Started, Running

\* Mint and Fault, or neither.
LEMMA MintMoves ==
    ASSUME W!WalletProvisioningAssumption, W!TypeOK,
           W!Mint \/ UNCHANGED <<minted, owned>>
    PROVE  /\ minted' \in 0 .. MaxMinted /\ minted <= minted' /\ owned \subseteq owned'
           /\ owned' \subseteq 1 .. minted' /\ minted' \in W!Addresses
           /\ sync \in [Syncs -> {W!NoSync} \cup [pc : {"write"}, wallets : SUBSET (1 .. minted')]]
           /\ W!Mint => minted' = minted + 1 /\ minted + 1 \in owned' /\ minted + 1 \in W!Addresses
  <1>1. PICK m \in Nat : m = minted
    BY DEF W!TypeOK, W!WalletProvisioningAssumption
  <1>2. /\ minted' \in 0 .. MaxMinted /\ minted <= minted' /\ owned \subseteq owned'
        /\ owned' \subseteq 1 .. minted' /\ minted' \in W!Addresses
        /\ W!Mint => minted' = minted + 1 /\ minted + 1 \in owned' /\ minted + 1 \in W!Addresses
    <2>1. CASE W!Mint
      <3>1. minted' = m + 1 /\ owned' = owned \cup {m + 1} /\ m + 1 \in 0 .. MaxMinted
        BY <1>1, <2>1 DEF W!Mint, W!WalletProvisioningAssumption
      <3>2. owned \subseteq 1 .. m
        BY <1>1 DEF W!TypeOK
      <3> QED
        BY <1>1, <3>1, <3>2 DEF W!Addresses, W!NoAddress
    <2>2. CASE ~W!Mint /\ UNCHANGED <<minted, owned>>
      BY <1>1, <2>2 DEF W!TypeOK, W!Addresses, W!NoAddress, W!WalletProvisioningAssumption
    <2> QED
      BY <2>1, <2>2
  <1>3. 1 .. minted \subseteq 1 .. minted'
    BY <1>1, <1>2
  <1>4. PICK A, B : A = 1 .. minted /\ B = 1 .. minted'
    OBVIOUS
  <1>5. /\ A \subseteq B
        /\ sync \in [Syncs -> {W!NoSync} \cup [pc : {"write"}, wallets : SUBSET A]]
    BY <1>3, <1>4 DEF W!TypeOK
  <1>6. sync \in [Syncs -> {W!NoSync} \cup [pc : {"write"}, wallets : SUBSET B]]
    BY <1>5
  <1> QED
    BY <1>2, <1>4, <1>6

\* What the actions of a request have to show.
LEMMA WalletsKept ==
    ASSUME W!WalletProvisioningAssumption, WalletsInv,
           row' \in [Keys -> WalletRow],
           call' \in [Calls -> {W!Idle} \cup Started \cup Running],
           customer' \in W!CustomerStatuses, minted' \in 0 .. MaxMinted, minted <= minted',
           owned \subseteq owned', owned' \subseteq 1 .. minted', shown' \subseteq owned',
           sync \in [Syncs -> {W!NoSync} \cup [pc : {"write"}, wallets : SUBSET (1 .. minted')]],
           faults' \in 0 .. MaxFaults, mirror' = mirror, sync' = sync,
           \A c \in Calls : call'[c] = call[c] \/ OwnedCall(c)',
           \A k \in Keys : row'[k] = row[k] \/ OwnedRow(k)'
    PROVE  WalletsInv'
  <1>1. W!TypeOK /\ mirror' \in owned' \cup {0}
    BY DEF WalletsInv
  <1>2. W!TypeOK'
    BY <1>1, WalletTypes
  <1>3. \A c \in Calls : OwnedCall(c)'
    BY DEF WalletsInv, OwnedCall
  <1>4. \A s \in Syncs : OwnedSync(s)'
    BY DEF WalletsInv, OwnedSync
  <1>5. \A k \in Keys : OwnedRow(k)'
    BY DEF WalletsInv, OwnedRow, W!Usable
  <1> QED
    BY <1>1, <1>2, <1>3, <1>4, <1>5 DEF WalletsInv

\* With one request at a time: while it runs no wallet is usable, so it never takes one
\* back; every address that was read or returned is that of the one usable row; and the
\* request's row holds the address the request works on, or none.
OneCall == \A c, d \in Calls : c = d

RowShows(a) == \E k \in Keys : W!Usable(row[k]) /\ row[k].addr = a

CallKnows(c) ==
    /\ call[c].pc # "idle" => \A k \in Keys : ~W!Usable(row[k])
    /\ call[c].pc = "reset" => row[call[c].key].addr = call[c].addr
    /\ call[c].pc \in {"create", "verify", "activate"} =>
         /\ row[call[c].key].status = "creating"
         /\ row[call[c].key].addr \in {0, call[c].addr}
    /\ call[c].pc = "create" => call[c].addr = 0

Known(a) == \/ \E k \in Keys : row[k].addr = a
            \/ \E c \in Calls : call[c].pc \in {"verify", "activate"} /\ call[c].addr = a

Orphans == {a \in 1 .. minted : ~Known(a)}

SerialInv ==
    /\ \A c \in Calls : CallKnows(c)
    /\ \A j, k \in Keys : W!Usable(row[j]) /\ W!Usable(row[k]) => j = k
    /\ \A a \in shown : RowShows(a)
    /\ mirror # 0 => RowShows(mirror)
    /\ \A s \in Syncs : sync[s].pc = "write" => \A a \in sync[s].wallets : RowShows(a)
    /\ IsFiniteSet(Orphans) /\ Cardinality(Orphans) <= faults

\* A step that loses no address, or one address by a fault.
LEMMA OrphansCounted ==
    ASSUME W!TypeOK, SerialInv,
           \/ Orphans' \subseteq Orphans /\ faults' \in Int /\ faults <= faults'
           \/ (\E z : Orphans' \subseteq Orphans \cup {z}) /\ faults' = faults + 1
    PROVE  IsFiniteSet(Orphans') /\ Cardinality(Orphans') <= faults'
  <1>1. PICK O, P, n, m : O = Orphans /\ P = Orphans' /\ n = faults /\ m = faults'
    OBVIOUS
  <1>2. IsFiniteSet(O) /\ Cardinality(O) <= n /\ n \in Int
    BY <1>1 DEF SerialInv, W!TypeOK
  <1>3. Cardinality(O) \in Nat
    BY <1>2, FS_CardinalityType
  <1>4. CASE P \subseteq O /\ m \in Int /\ n <= m
    <2>1. IsFiniteSet(P) /\ Cardinality(P) <= Cardinality(O)
      BY <1>2, <1>4, FS_Subset
    <2>2. Cardinality(P) \in Nat
      BY <2>1, FS_CardinalityType
    <2>3. Cardinality(P) <= m
      BY <1>2, <1>3, <1>4, <2>1, <2>2
    <2> QED
      BY <1>1, <2>1, <2>3
  <1>5. ASSUME NEW z, P \subseteq O \cup {z}, m = n + 1
        PROVE  IsFiniteSet(Orphans') /\ Cardinality(Orphans') <= faults'
    <2>1. PICK Q : Q = O \cup {z}
      OBVIOUS
    <2>2. IsFiniteSet(Q) /\ Cardinality(Q) \in Nat /\ Cardinality(Q) <= Cardinality(O) + 1
      <3>1. IsFiniteSet(Q) /\ (Cardinality(Q) = Cardinality(O) \/ Cardinality(Q) = Cardinality(O) + 1)
        BY <1>2, <2>1, FS_AddElement
      <3> QED
        BY <1>3, <3>1
    <2>3. IsFiniteSet(P) /\ Cardinality(P) <= Cardinality(Q)
      BY <1>5, <2>1, <2>2, FS_Subset
    <2>4. Cardinality(P) \in Nat
      BY <2>3, FS_CardinalityType
    <2>5. Cardinality(P) <= m
      BY <1>2, <1>3, <1>5, <2>2, <2>3, <2>4
    <2> QED
      BY <1>1, <2>3, <2>5
  <1> QED
    BY <1>1, <1>4, <1>5

\* A step after which the usable wallets are the same.
LEMMA SerialKept ==
    ASSUME W!TypeOK, SerialInv,
           \A k \in Keys : /\ W!Usable(row'[k]) <=> W!Usable(row[k])
                           /\ W!Usable(row[k]) => row'[k].addr = row[k].addr,
           \A a \in shown' : a \in shown \/ RowShows(a),
           mirror' # 0 => RowShows(mirror'),
           \A s \in Syncs : sync'[s].pc = "write" => \A a \in sync'[s].wallets : RowShows(a),
           \A c \in Calls : CallKnows(c)',
           \/ Orphans' \subseteq Orphans /\ faults' \in Int /\ faults <= faults'
           \/ (\E z : Orphans' \subseteq Orphans \cup {z}) /\ faults' = faults + 1
    PROVE  SerialInv'
  <1>1. \A j, k \in Keys : W!Usable(row'[j]) /\ W!Usable(row'[k]) => j = k
    BY DEF SerialInv
  <1>2. ASSUME NEW a, RowShows(a) PROVE RowShows(a)'
    BY <1>2 DEF RowShows
  <1>3. \A a \in shown' : RowShows(a)'
    BY <1>2 DEF SerialInv
  <1>4. mirror' # 0 => \E k \in Keys : W!Usable(row'[k]) /\ row'[k].addr = mirror'
    BY DEF RowShows
  <1>5. \A s \in Syncs : sync'[s].pc = "write" => \A a \in sync'[s].wallets : RowShows(a)'
    BY <1>2
  <1>6. IsFiniteSet(Orphans') /\ Cardinality(Orphans') <= faults'
    BY OrphansCounted
  <1>7. (\A j, k \in Keys : W!Usable(row[j]) /\ W!Usable(row[k]) => j = k)'
    BY <1>1 DEF W!Usable
  <1>8. (mirror # 0 => RowShows(mirror))'
    BY <1>4 DEF RowShows, W!Usable
  <1> QED
    BY <1>3, <1>5, <1>6, <1>7, <1>8 DEF SerialInv

\* One request moved to q and the row of key k to x; the addresses may have grown.
Moves(c, q, k, x) ==
    /\ q \in {W!Idle} \cup Started \cup Running /\ x \in WalletRow
    /\ call' \in [Calls -> {W!Idle} \cup Started \cup Running]
    /\ call'[c] = q /\ \A d \in Calls \ {c} : call'[d] = call[d]
    /\ row' \in [Keys -> WalletRow]
    /\ row'[k] = x /\ \A j \in Keys \ {k} : row'[j] = row[j]
    /\ customer' = customer /\ mirror' = mirror /\ sync' = sync
    /\ W!Mint \/ UNCHANGED <<minted, owned>>
    /\ faults' \in 0 .. MaxFaults

LEMMA MovesSafely ==
    ASSUME W!WalletProvisioningAssumption, WalletsInv, NEW c \in Calls, NEW k \in Keys,
           NEW q, NEW x, Moves(c, q, k, x), shown' \subseteq owned',
           q.pc = "activate" => q.addr \in owned',
           x = row[k] \/ (W!Usable(x) => x.addr \in owned')
    PROVE  WalletsInv'
  <1>1. W!TypeOK
    BY DEF WalletsInv
  <1>2. /\ minted' \in 0 .. MaxMinted /\ minted <= minted' /\ owned \subseteq owned'
        /\ owned' \subseteq 1 .. minted'
        /\ sync \in [Syncs -> {W!NoSync} \cup [pc : {"write"}, wallets : SUBSET (1 .. minted')]]
    BY <1>1, MintMoves DEF Moves
  <1>3. \A d \in Calls : call'[d] = call[d] \/ OwnedCall(d)'
    BY DEF Moves, OwnedCall
  <1>4. \A j \in Keys : row'[j] = row[j] \/ OwnedRow(j)'
    BY DEF Moves, OwnedRow, W!Usable
  <1>5. customer' \in W!CustomerStatuses
    BY <1>1 DEF Moves, W!TypeOK
  <1> QED
    BY <1>2, <1>3, <1>4, <1>5, WalletsKept DEF Moves

LEMMA MovesSerially ==
    ASSUME W!WalletProvisioningAssumption, WalletsInv, NEW c \in Calls, NEW k \in Keys,
           NEW q, NEW x, Moves(c, q, k, x), OneCall, SerialInv,
           W!Usable(x) <=> W!Usable(row[k]), W!Usable(row[k]) => x.addr = row[k].addr,
           \A a \in shown' : a \in shown \/ RowShows(a),
           CallKnows(c)',
           \/ Orphans' \subseteq Orphans /\ faults' = faults
           \/ (\E z : Orphans' \subseteq Orphans \cup {z}) /\ faults' = faults + 1
    PROVE  SerialInv'
  <1>1. W!TypeOK /\ faults \in Int /\ faults <= faults
    BY DEF WalletsInv, W!TypeOK
  <1>2. \A j \in Keys : /\ W!Usable(row'[j]) <=> W!Usable(row[j])
                        /\ W!Usable(row[j]) => row'[j].addr = row[j].addr
    BY DEF Moves
  <1>3. \A d \in Calls : CallKnows(d)'
    BY DEF OneCall
  <1>4. /\ mirror' # 0 => RowShows(mirror')
        /\ \A s \in Syncs : sync'[s].pc = "write" => \A a \in sync'[s].wallets : RowShows(a)
    BY DEF SerialInv, Moves
  <1> QED
    BY <1>1, <1>2, <1>3, <1>4, SerialKept

\* What is known stays known when no row's address changes, but for the address of the
\* request that moved.
LEMMA MovesKnown ==
    ASSUME NEW c \in Calls, NEW k \in Keys, NEW q, NEW x, Moves(c, q, k, x), OneCall,
           x.addr = row[k].addr \/ (row[k].addr = 0 /\ minted \in Nat), NEW a \in 1 .. minted, Known(a)
    PROVE  \/ Known(a)'
           \/ call[c].pc \in {"verify", "activate"} /\ call[c].addr = a
  <1>1. CASE \E j \in Keys : row[j].addr = a
    <2>1. PICK j \in Keys : row[j].addr = a
      BY <1>1
    <2>2. j = k => x.addr = row[k].addr
      BY <2>1
    <2>3. row'[j].addr = a
      BY <2>1, <2>2 DEF Moves
    <2> QED
      BY <2>3 DEF Known
  <1>2. CASE \E d \in Calls : call[d].pc \in {"verify", "activate"} /\ call[d].addr = a
    BY <1>2 DEF OneCall
  <1> QED
    BY <1>1, <1>2 DEF Known

\* Both invariants, the second for one request at a time.
WalletsKeep == WalletsInv' /\ (OneCall /\ SerialInv => SerialInv')

LEMMA RowTypes ==
    ASSUME W!TypeOK, NEW k \in Keys
    PROVE  /\ row[k] \in WalletRow /\ row[k].addr \in W!Addresses /\ row \in [Keys -> WalletRow]
           /\ call \in [Calls -> {W!Idle} \cup Started \cup Running]
           /\ faults \in 0 .. MaxFaults /\ minted \in Nat /\ shown \subseteq 1 .. minted
           /\ 0 \notin owned
  BY DEF W!TypeOK, WalletRow, Started, Running

\* The look for a verified wallet.
LEMMA BeginStep ==
    ASSUME W!WalletProvisioningAssumption, WalletsInv, NEW c \in Calls, NEW k \in Keys,
           W!Begin(c, k)
    PROVE  WalletsKeep
  <1>1. W!TypeOK /\ shown \subseteq owned /\ \A j \in Keys : OwnedRow(j)
    BY DEF WalletsInv
  <1>2. /\ row' = row /\ customer' = customer /\ minted' = minted /\ owned' = owned
        /\ mirror' = mirror /\ sync' = sync /\ faults' = faults /\ call[c].pc = "idle"
    BY DEF W!Begin
  <1>3. call[c] = W!Idle /\ W!Idle.pc = "idle"
    BY <1>1, <1>2, CallTypes
  <1>4. CASE /\ call' = call
             /\ \E j \in W!UsableKeys : shown' = shown \cup {row[j].addr}
    <2>1. PICK j \in Keys : W!Usable(row[j]) /\ shown' = shown \cup {row[j].addr}
      BY <1>4 DEF W!UsableKeys
    <2>2. Moves(c, W!Idle, k, row[k])
      BY <1>1, <1>2, <1>3, <1>4, RowTypes DEF Moves
    <2>3. shown' \subseteq owned'
      BY <1>1, <1>2, <2>1 DEF OwnedRow
    <2>4. WalletsInv'
      BY <1>3, <2>2, <2>3, MovesSafely
    <2>5. ASSUME OneCall, SerialInv PROVE SerialInv'
      <3>1. \A a \in shown' : a \in shown \/ RowShows(a)
        BY <2>1 DEF RowShows
      <3>2. CallKnows(c)'
        BY <1>3, <1>4 DEF CallKnows
      <3>3. Orphans' = Orphans
        BY <1>2, <1>4 DEF Orphans, Known
      <3> QED
        BY <1>2, <2>2, <2>5, <3>1, <3>2, <3>3, MovesSerially
    <2> QED
      BY <2>4, <2>5 DEF WalletsKeep
  <1>5. CASE /\ W!UsableKeys = {} /\ shown' = shown
             /\ call' = [call EXCEPT ![c] = [pc |-> "reserve", key |-> k]]
    <2>1. PICK q \in Started : q = [pc |-> "reserve", key |-> k]
      BY DEF Started
    <2>2. Moves(c, q, k, row[k])
      <3>1. /\ call' \in [Calls -> {W!Idle} \cup Started \cup Running] /\ call'[c] = q
            /\ \A d \in Calls \ {c} : call'[d] = call[d]
        BY <1>1, <1>5, <2>1, CallMoves
      <3> QED
        BY <1>1, <1>2, <3>1, RowTypes DEF Moves
    <2>3. WalletsInv'
      BY <1>1, <1>2, <1>5, <2>1, <2>2, MovesSafely
    <2>4. ASSUME OneCall, SerialInv PROVE SerialInv'
      <3>1. CallKnows(c)'
        BY <1>2, <1>5, <2>1, <2>2 DEF CallKnows, Moves, W!UsableKeys, W!Usable
      <3>2. Orphans' = Orphans
        <4>1. \A a : Known(a)' <=> Known(a)
          BY <1>2, <1>3, <2>1, <2>2 DEF Known, Moves
        <4> QED
          BY <1>2, <4>1 DEF Orphans
      <3> QED
        BY <1>2, <1>5, <2>2, <2>4, <3>1, <3>2, MovesSerially
    <2> QED
      BY <2>3, <2>4 DEF WalletsKeep
  <1> QED
    BY <1>4, <1>5 DEF W!Begin

\* The row of the idempotency key.
LEMMA ReserveStep ==
    ASSUME W!WalletProvisioningAssumption, WalletsInv, NEW c \in Calls, W!Reserve(c)
    PROVE  WalletsKeep
  <1>1. W!TypeOK /\ shown \subseteq owned /\ \A j \in Keys : OwnedRow(j)
    BY DEF WalletsInv
  <1>2. /\ customer' = customer /\ minted' = minted /\ owned' = owned
        /\ mirror' = mirror /\ sync' = sync /\ faults' = faults /\ call[c].pc = "reserve"
    BY DEF W!Reserve
  <1>3. PICK k \in Keys : k = call[c].key
    BY <1>1, <1>2, CallTypes DEF Started
  <1>4. PICK o \in WalletRow : o = row[k]
    BY <1>1, RowTypes
  <1>5. /\ 0 \in W!Addresses /\ W!Idle.pc = "idle" /\ row \in [Keys -> WalletRow]
        /\ faults \in 0 .. MaxFaults
    BY <1>1, <1>4, CallTypes, RowTypes DEF W!Addresses, W!NoAddress, W!WalletProvisioningAssumption
  <1>6. CASE /\ o = W!NoRow /\ row' = [row EXCEPT ![k].status = "creating"] /\ shown' = shown
             /\ call' = [call EXCEPT ![c] = [pc |-> "create", key |-> k, addr |-> W!NoAddress]]
    <2>1. PICK q \in Running : q = [pc |-> "create", key |-> k, addr |-> 0]
      BY <1>5 DEF Running
    <2>2. PICK x \in WalletRow : x = [status |-> "creating", addr |-> 0, verified |-> FALSE]
      BY <1>5 DEF WalletRow
    <2>3. row' = [row EXCEPT ![k] = x]
      <3>1. [o EXCEPT !.status = "creating"] =
              [status |-> "creating", addr |-> o.addr, verified |-> o.verified]
        BY DEF WalletRow
      <3>2. o.addr = 0 /\ o.verified = FALSE
        BY <1>6, Zenon DEF W!NoRow, W!NoAddress
      <3>3. [o EXCEPT !.status = "creating"] = x
        BY <2>2, <3>1, <3>2, Zenon
      <3> QED
        BY <1>4, <1>6, <3>3
    <2>4. Moves(c, q, k, x)
      <3>1. /\ call' \in [Calls -> {W!Idle} \cup Started \cup Running] /\ call'[c] = q
            /\ \A d \in Calls \ {c} : call'[d] = call[d]
        BY <1>1, <1>6, <2>1, CallMoves DEF W!NoAddress
      <3>2. row' \in [Keys -> WalletRow] /\ row'[k] = x /\ \A j \in Keys \ {k} : row'[j] = row[j]
        BY <1>1, <2>3, RowMoves
      <3> QED
        BY <1>2, <1>5, <3>1, <3>2 DEF Moves
    <2>5. ~W!Usable(x) /\ ~W!Usable(o) /\ o.addr = 0
      BY <1>6, <2>2 DEF W!Usable, W!NoRow, W!NoAddress
    <2>6. WalletsInv'
      BY <1>1, <1>2, <1>6, <2>1, <2>4, <2>5, MovesSafely
    <2>7. ASSUME OneCall, SerialInv PROVE SerialInv'
      <3>1. \A j \in Keys : ~W!Usable(row[j])
        BY <1>2, <2>7 DEF SerialInv, CallKnows
      <3>2. CallKnows(c)'
        BY <2>1, <2>2, <2>4, <2>5, <3>1 DEF CallKnows, Moves, W!Usable
      <3>3. Orphans' = Orphans
        <4>1. \A a : Known(a)' <=> Known(a)
          BY <1>2, <1>4, <2>1, <2>2, <2>4, <2>5 DEF Known, Moves
        <4> QED
          BY <1>2, <4>1 DEF Orphans
      <3> QED
        BY <1>2, <1>4, <1>6, <2>4, <2>5, <2>7, <3>2, <3>3, MovesSerially
    <2> QED
      BY <2>6, <2>7 DEF WalletsKeep
  <1>7. CASE /\ W!Usable(o) /\ shown' = shown \cup {o.addr} /\ row' = row
             /\ call' = [call EXCEPT ![c] = W!Idle]
    <2>1. Moves(c, W!Idle, k, o)
      <3>1. /\ call' \in [Calls -> {W!Idle} \cup Started \cup Running] /\ call'[c] = W!Idle
            /\ \A d \in Calls \ {c} : call'[d] = call[d]
        BY <1>1, <1>7, CallMoves
      <3> QED
        BY <1>2, <1>4, <1>5, <1>7, <3>1 DEF Moves
    <2>2. shown' \subseteq owned'
      BY <1>1, <1>2, <1>4, <1>7 DEF OwnedRow
    <2>3. WalletsInv'
      BY <1>4, <1>5, <2>1, <2>2, MovesSafely
    <2>4. ASSUME OneCall, SerialInv PROVE SerialInv'
      BY <1>2, <1>4, <1>7, <2>4 DEF SerialInv, CallKnows
    <2> QED
      BY <2>3, <2>4 DEF WalletsKeep
  <1>8. CASE /\ ~W!Usable(o) /\ row' = row /\ shown' = shown
             /\ \E q \in {[pc |-> "reset", key |-> k, addr |-> o.addr], W!Idle} :
                  call' = [call EXCEPT ![c] = q]
    <2>1. PICK q : /\ q = [pc |-> "reset", key |-> k, addr |-> o.addr] \/ q = W!Idle
                   /\ call' = [call EXCEPT ![c] = q]
      BY <1>8
    <2>2. q \in {W!Idle} \cup Started \cup Running /\ q.pc \in {"reset", "idle"}
      BY <1>4, <1>5, <2>1 DEF Running, WalletRow
    <2>3. Moves(c, q, k, o)
      <3>1. /\ call' \in [Calls -> {W!Idle} \cup Started \cup Running] /\ call'[c] = q
            /\ \A d \in Calls \ {c} : call'[d] = call[d]
        BY <1>1, <2>1, <2>2, CallMoves
      <3> QED
        BY <1>2, <1>4, <1>5, <1>8, <2>2, <3>1 DEF Moves
    <2>4. WalletsInv'
      BY <1>1, <1>2, <1>4, <1>8, <2>2, <2>3, MovesSafely
    <2>5. ASSUME OneCall, SerialInv PROVE SerialInv'
      <3>1. \A j \in Keys : ~W!Usable(row[j])
        BY <1>2, <2>5 DEF SerialInv, CallKnows
      <3>2. CallKnows(c)'
        <4>1. call'[c] = q /\ \A j \in Keys : ~W!Usable(row'[j])
          BY <1>8, <2>3, <3>1 DEF Moves
        <4>2. CASE q = W!Idle
          BY <1>5, <4>1, <4>2 DEF CallKnows
        <4>3. CASE q = [pc |-> "reset", key |-> k, addr |-> o.addr]
          BY <1>4, <1>8, <4>1, <4>3 DEF CallKnows
        <4> QED
          BY <2>1, <4>2, <4>3
      <3>3. Orphans' = Orphans
        <4>1. \A a : Known(a)' <=> Known(a)
          BY <1>2, <1>8, <2>2, <2>3 DEF Known, Moves
        <4> QED
          BY <1>2, <4>1 DEF Orphans
      <3> QED
        BY <1>2, <1>4, <1>8, <2>3, <2>5, <3>2, <3>3, MovesSerially
    <2> QED
      BY <2>4, <2>5 DEF WalletsKeep
  <1> QED
    BY <1>3, <1>4, <1>6, <1>7, <1>8 DEF W!Reserve

\* A running request, its key, its copy of the address and its row.
LEMMA RunningCall ==
    ASSUME W!TypeOK, NEW c \in Calls,
           call[c].pc \in {"reset", "create", "verify", "activate"}
    PROVE  \E k \in Keys, b \in W!Addresses, o \in WalletRow :
             /\ call[c] = [pc |-> call[c].pc, key |-> k, addr |-> b] /\ o = row[k]
             /\ call[c].key = k /\ call[c].addr = b
  <1>1. PICK p \in Running : p = call[c]
    BY CallTypes
  <1>2. p = [pc |-> p.pc, key |-> p.key, addr |-> p.addr] /\ p.key \in Keys /\ p.addr \in W!Addresses
    BY DEF Running
  <1>3. row[p.key] \in WalletRow
    BY <1>2, RowTypes
  <1> QED
    BY <1>1, <1>2, <1>3

LEMMA PcMoves ==
    ASSUME NEW c \in Calls, NEW t, call[c] \in Running, call' = [call EXCEPT ![c].pc = t]
    PROVE  call' = [call EXCEPT ![c] = [pc |-> t, key |-> call[c].key, addr |-> call[c].addr]]
  <1>1. PICK p \in Running : p = call[c]
    OBVIOUS
  <1>2. [p EXCEPT !.pc = t] = [pc |-> t, key |-> p.key, addr |-> p.addr]
    BY DEF Running
  <1> QED
    BY <1>1, <1>2

LEMMA StatusMoves ==
    ASSUME NEW k \in Keys, NEW t \in {"none", "creating", "active", "error"}, W!TypeOK,
           row' = [row EXCEPT ![k].status = t]
    PROVE  row' = [row EXCEPT ![k] = [status |-> t, addr |-> row[k].addr, verified |-> row[k].verified]]
           /\ [status |-> t, addr |-> row[k].addr, verified |-> row[k].verified] \in WalletRow
  <1>1. PICK o \in WalletRow : o = row[k]
    BY RowTypes
  <1>2. [o EXCEPT !.status = t] = [status |-> t, addr |-> o.addr, verified |-> o.verified]
    BY DEF WalletRow
  <1>3. [status |-> t, addr |-> o.addr, verified |-> o.verified] \in WalletRow
    BY DEF WalletRow
  <1> QED
    BY <1>1, <1>2, <1>3

\* The row is taken back to 'creating'.
LEMMA ResetStep ==
    ASSUME W!WalletProvisioningAssumption, WalletsInv, NEW c \in Calls, W!Reset(c)
    PROVE  WalletsKeep
  <1>1. W!TypeOK /\ shown \subseteq owned /\ \A j \in Keys : OwnedRow(j)
    BY DEF WalletsInv
  <1>2. /\ customer' = customer /\ minted' = minted /\ owned' = owned /\ shown' = shown
        /\ mirror' = mirror /\ sync' = sync /\ faults' = faults /\ call[c].pc = "reset"
    BY DEF W!Reset
  <1>3. PICK k \in Keys, b \in W!Addresses, o \in WalletRow :
          /\ call[c] = [pc |-> "reset", key |-> k, addr |-> b] /\ o = row[k]
          /\ call[c].key = k /\ call[c].addr = b
    BY <1>1, <1>2, RunningCall
  <1>4. W!Idle.pc = "idle" /\ row \in [Keys -> WalletRow] /\ faults \in 0 .. MaxFaults
    BY <1>1, CallTypes, RowTypes
  <1>5. CASE row' = row /\ call' = [call EXCEPT ![c] = W!Idle]
    <2>1. Moves(c, W!Idle, k, o)
      <3>1. /\ call' \in [Calls -> {W!Idle} \cup Started \cup Running] /\ call'[c] = W!Idle
            /\ \A d \in Calls \ {c} : call'[d] = call[d]
        BY <1>1, <1>5, CallMoves
      <3> QED
        BY <1>2, <1>3, <1>4, <1>5, <3>1 DEF Moves
    <2>2. WalletsInv'
      BY <1>1, <1>2, <1>3, <1>4, <2>1, MovesSafely
    <2>3. ASSUME OneCall, SerialInv PROVE SerialInv'
      <3>1. CallKnows(c)'
        BY <1>4, <2>1 DEF CallKnows, Moves
      <3>2. Orphans' = Orphans
        <4>1. \A a : Known(a)' <=> Known(a)
          BY <1>2, <1>4, <1>5, <2>1 DEF Known, Moves
        <4> QED
          BY <1>2, <4>1 DEF Orphans
      <3> QED
        BY <1>2, <1>3, <2>1, <2>3, <3>1, <3>2, MovesSerially
    <2> QED
      BY <2>2, <2>3 DEF WalletsKeep
  <1>6. CASE /\ row' = [row EXCEPT ![k].status = "creating"]
             /\ call' = [call EXCEPT ![c].pc = IF b = W!NoAddress THEN "create" ELSE "verify"]
    <2>1. PICK t \in {"create", "verify"} : /\ call' = [call EXCEPT ![c].pc = t]
                                            /\ t = "create" <=> b = 0
      BY <1>6 DEF W!NoAddress
    <2>2. PICK q \in Running : q = [pc |-> t, key |-> k, addr |-> b]
      BY DEF Running
    <2>3. PICK x \in WalletRow : /\ x = [status |-> "creating", addr |-> o.addr, verified |-> o.verified]
                                 /\ row' = [row EXCEPT ![k] = x]
      <3>1. /\ row' = [row EXCEPT ![k] = [status |-> "creating", addr |-> row[k].addr,
                                          verified |-> row[k].verified]]
            /\ [status |-> "creating", addr |-> row[k].addr, verified |-> row[k].verified] \in WalletRow
        BY <1>1, <1>6, StatusMoves
      <3> QED
        BY <1>3, <3>1
    <2>4. Moves(c, q, k, x)
      <3>1. call' = [call EXCEPT ![c] = q]
        <4>1. call[c] \in Running
          BY <1>1, <1>2, CallTypes
        <4>2. call' = [call EXCEPT ![c] = [pc |-> t, key |-> call[c].key, addr |-> call[c].addr]]
          BY <2>1, <4>1, PcMoves
        <4> QED
          BY <1>3, <2>2, <4>2
      <3>2. /\ call' \in [Calls -> {W!Idle} \cup Started \cup Running] /\ call'[c] = q
            /\ \A d \in Calls \ {c} : call'[d] = call[d]
        BY <1>1, <3>1, CallMoves
      <3>3. row' \in [Keys -> WalletRow] /\ row'[k] = x /\ \A j \in Keys \ {k} : row'[j] = row[j]
        BY <1>1, <2>3, RowMoves
      <3> QED
        BY <1>2, <1>4, <3>2, <3>3 DEF Moves
    <2>5. ~W!Usable(x)
      BY <2>3 DEF W!Usable
    <2>6. WalletsInv'
      BY <1>1, <1>2, <2>2, <2>4, <2>5, MovesSafely
    <2>7. ASSUME OneCall, SerialInv PROVE SerialInv'
      <3>1. CallKnows(c) /\ \A j \in Keys : ~W!Usable(row[j])
        BY <1>2, <2>7 DEF SerialInv, CallKnows
      <3>2. o.addr = b
        BY <1>3, <3>1 DEF CallKnows
      <3>3. \A j \in Keys : ~W!Usable(row'[j])
        BY <2>4, <2>5, <3>1 DEF Moves
      <3>4. call'[c] = q /\ row'[k] = x
        BY <2>4 DEF Moves
      <3>5. CallKnows(c)'
        BY <2>1, <2>2, <2>3, <3>2, <3>3, <3>4 DEF CallKnows
      <3>6. Orphans' \subseteq Orphans
        <4>1. ASSUME NEW a \in 1 .. minted, Known(a) PROVE Known(a)'
          BY <1>2, <1>3, <2>3, <2>4, <2>7, <4>1, MovesKnown
        <4> QED
          BY <1>2, <4>1 DEF Orphans
      <3> QED
        BY <1>2, <1>3, <2>4, <2>5, <2>7, <3>1, <3>5, <3>6, MovesSerially
    <2> QED
      BY <2>6, <2>7 DEF WalletsKeep
  <1> QED
    BY <1>3, <1>5, <1>6 DEF W!Reset

\* address/create and address/inner, answered.
LEMMA AnswerStep ==
    ASSUME W!WalletProvisioningAssumption, WalletsInv, NEW c \in Calls,
           W!CreateAddress(c) \/ W!VerifyOwnership(c)
    PROVE  WalletsKeep
  <1>1. W!TypeOK /\ shown \subseteq owned
    BY DEF WalletsInv
  <1>2. /\ row' = row /\ customer' = customer /\ shown' = shown
        /\ mirror' = mirror /\ sync' = sync /\ faults' = faults
    BY DEF W!CreateAddress, W!VerifyOwnership
  <1>3. PICK k \in Keys, b \in W!Addresses, o \in WalletRow :
          /\ call[c] = [pc |-> call[c].pc, key |-> k, addr |-> b] /\ o = row[k]
          /\ call[c].key = k /\ call[c].addr = b
    BY <1>1, RunningCall DEF W!CreateAddress, W!VerifyOwnership
  <1>4. row \in [Keys -> WalletRow] /\ faults \in 0 .. MaxFaults /\ minted \in Nat
    BY <1>1, <1>3, RowTypes
  <1>5. CASE W!CreateAddress(c)
    <2>1. /\ call[c].pc = "create" /\ W!Mint
          /\ call' = [call EXCEPT ![c] = [pc |-> "verify", key |-> @.key, addr |-> minted + 1]]
      BY <1>5 DEF W!CreateAddress
    <2>2. PICK n \in W!Addresses : n = minted + 1 /\ minted' = n /\ owned \subseteq owned'
      BY <1>1, <2>1, MintMoves
    <2>3. PICK q \in Running : q = [pc |-> "verify", key |-> k, addr |-> n]
      BY DEF Running
    <2>4. call' = [call EXCEPT ![c] = q]
      BY <1>3, <2>1, <2>2, <2>3
    <2>5. Moves(c, q, k, o)
      <3>1. /\ call' \in [Calls -> {W!Idle} \cup Started \cup Running] /\ call'[c] = q
            /\ \A d \in Calls \ {c} : call'[d] = call[d]
        BY <1>1, <2>4, CallMoves
      <3> QED
        BY <1>2, <1>3, <1>4, <2>1, <3>1 DEF Moves
    <2>6. WalletsInv'
      BY <1>1, <1>2, <1>3, <2>2, <2>3, <2>5, MovesSafely
    <2>7. ASSUME OneCall, SerialInv PROVE SerialInv'
      <3>1. CallKnows(c)
        BY <2>7 DEF SerialInv
      <3>2. CallKnows(c)'
        BY <1>2, <1>3, <2>1, <2>3, <2>5, <3>1 DEF CallKnows, Moves
      <3>3. Orphans' \subseteq Orphans
        <4>1. ASSUME NEW a \in 1 .. minted, Known(a) PROVE Known(a)'
          BY <1>3, <2>1, <2>5, <2>7, <4>1, MovesKnown
        <4>2. Known(n)'
          BY <2>3, <2>5 DEF Known, Moves
        <4>3. \A a \in 1 .. minted' : a \in 1 .. minted \/ a = n
          BY <1>4, <2>2
        <4> QED
          BY <4>1, <4>2, <4>3 DEF Orphans
      <3> QED
        BY <1>2, <1>3, <2>5, <2>7, <3>2, <3>3, MovesSerially
    <2> QED
      BY <2>6, <2>7 DEF WalletsKeep
  <1>6. CASE W!VerifyOwnership(c)
    <2>1. /\ call[c].pc = "verify" /\ b \in owned /\ minted' = minted /\ owned' = owned
          /\ call' = [call EXCEPT ![c].pc = "activate"]
      BY <1>3, <1>6 DEF W!VerifyOwnership
    <2>2. PICK q \in Running : q = [pc |-> "activate", key |-> k, addr |-> b]
      BY DEF Running
    <2>3. Moves(c, q, k, o)
      <3>1. call' = [call EXCEPT ![c] = q]
        <4>1. call[c] \in Running
          BY <1>1, <2>1, CallTypes
        <4>2. call' = [call EXCEPT ![c] = [pc |-> "activate", key |-> call[c].key,
                                           addr |-> call[c].addr]]
          BY <2>1, <4>1, PcMoves
        <4> QED
          BY <1>3, <2>2, <4>2
      <3>2. /\ call' \in [Calls -> {W!Idle} \cup Started \cup Running] /\ call'[c] = q
            /\ \A d \in Calls \ {c} : call'[d] = call[d]
        BY <1>1, <3>1, CallMoves
      <3> QED
        BY <1>2, <1>3, <1>4, <2>1, <3>2 DEF Moves
    <2>4. WalletsInv'
      BY <1>1, <1>2, <1>3, <2>1, <2>2, <2>3, MovesSafely
    <2>5. ASSUME OneCall, SerialInv PROVE SerialInv'
      <3>1. CallKnows(c)
        BY <2>5 DEF SerialInv
      <3>2. CallKnows(c)'
        BY <1>2, <1>3, <2>1, <2>2, <2>3, <3>1 DEF CallKnows, Moves
      <3>3. Orphans' \subseteq Orphans
        <4>1. ASSUME NEW a \in 1 .. minted, Known(a) PROVE Known(a)'
          <5>1. b = a => Known(a)'
            BY <2>2, <2>3 DEF Known, Moves
          <5> QED
            BY <1>3, <2>3, <2>5, <4>1, <5>1, MovesKnown
        <4> QED
          BY <2>1, <4>1 DEF Orphans
      <3> QED
        BY <1>2, <1>3, <2>3, <2>5, <3>2, <3>3, MovesSerially
    <2> QED
      BY <2>4, <2>5 DEF WalletsKeep
  <1> QED
    BY <1>5, <1>6

LEMMA FaultCounts ==
    ASSUME W!WalletProvisioningAssumption, W!TypeOK, NEW kind, W!Fault(kind)
    PROVE  faults' = faults + 1 /\ faults' \in 0 .. MaxFaults
  BY DEF W!Fault, W!TypeOK, W!WalletProvisioningAssumption

\* A request ends: the row x it leaves is not usable unless it was, and an address it
\* takes with it is one fault's.
LEMMA RequestEnds ==
    ASSUME W!WalletProvisioningAssumption, WalletsInv, NEW c \in Calls, NEW k \in Keys,
           NEW x, Moves(c, W!Idle, k, x), shown' = shown,
           x = row[k] \/ (~W!Usable(x) /\ ~W!Usable(row[k])),
           OneCall /\ SerialInv =>
             \/ Orphans' \subseteq Orphans /\ faults' = faults
             \/ (\E z : Orphans' \subseteq Orphans \cup {z}) /\ faults' = faults + 1
    PROVE  WalletsKeep
  <1>1. W!TypeOK /\ shown \subseteq owned /\ W!Idle.pc = "idle"
    BY CallTypes DEF WalletsInv
  <1>2. owned \subseteq owned'
    BY <1>1, MintMoves DEF Moves
  <1>3. WalletsInv'
    BY <1>1, <1>2, MovesSafely
  <1>4. ASSUME OneCall, SerialInv PROVE SerialInv'
    <2>1. CallKnows(c)'
      BY <1>1 DEF CallKnows, Moves
    <2>2. \A a \in shown' : a \in shown \/ RowShows(a)
      OBVIOUS
    <2>3. W!Usable(x) <=> W!Usable(row[k])
      OBVIOUS
    <2>4. W!Usable(row[k]) => x.addr = row[k].addr
      OBVIOUS
    <2> QED
      BY <1>4, <2>1, <2>2, <2>3, <2>4, MovesSerially
  <1> QED
    BY <1>3, <1>4 DEF WalletsKeep

\* What such an end leaves unknown: the address the request worked on, or the one Cregis
\* made for it.
LEMMA EndOrphans ==
    ASSUME W!WalletProvisioningAssumption, WalletsInv, NEW c \in Calls, NEW k \in Keys,
           NEW x, Moves(c, W!Idle, k, x), OneCall, faults' = faults + 1,
           x.addr = row[k].addr \/ row[k].addr = 0,
           call[c].pc \in {"verify", "activate"} => UNCHANGED <<minted, owned>>
    PROVE  (\E z : Orphans' \subseteq Orphans \cup {z}) /\ faults' = faults + 1
  <1>1. W!TypeOK /\ minted \in Nat
    BY RowTypes DEF WalletsInv
  <1>2. ASSUME NEW a \in 1 .. minted, Known(a)
        PROVE  Known(a)' \/ (call[c].pc \in {"verify", "activate"} /\ call[c].addr = a)
    BY <1>1, <1>2, MovesKnown
  <1>3. CASE call[c].pc \in {"verify", "activate"}
    <2>1. Orphans' \subseteq Orphans \cup {call[c].addr}
      BY <1>2, <1>3 DEF Orphans
    <2> QED
      BY <2>1
  <1>4. CASE call[c].pc \notin {"verify", "activate"}
    <2>1. PICK n : n = minted + 1
      OBVIOUS
    <2>2. \A a \in 1 .. minted' : a \in 1 .. minted \/ a = n
      BY <1>1, <2>1 DEF Moves, W!Mint
    <2>3. Orphans' \subseteq Orphans \cup {n}
      BY <1>2, <1>4, <2>2 DEF Orphans
    <2> QED
      BY <2>3
  <1> QED
    BY <1>3, <1>4

\* address/create fails.
LEMMA CreateFailsStep ==
    ASSUME W!WalletProvisioningAssumption, WalletsInv, NEW c \in Calls, W!CreateFails(c)
    PROVE  WalletsKeep
  <1>1. W!TypeOK
    BY DEF WalletsInv
  <1>2. /\ customer' = customer /\ shown' = shown /\ mirror' = mirror /\ sync' = sync
        /\ W!Mint \/ UNCHANGED <<minted, owned>>
        /\ call[c].pc = "create" /\ call' = [call EXCEPT ![c] = W!Idle]
    BY DEF W!CreateFails
  <1>3. PICK k \in Keys, b \in W!Addresses, o \in WalletRow :
          /\ call[c] = [pc |-> "create", key |-> k, addr |-> b] /\ o = row[k]
          /\ call[c].key = k /\ call[c].addr = b
    BY <1>1, <1>2, RunningCall
  <1>4. faults' = faults + 1 /\ faults' \in 0 .. MaxFaults
    BY <1>1, FaultCounts DEF W!CreateFails
  <1>5. PICK t : /\ t = IF o.status = "creating" THEN "error" ELSE o.status
                 /\ row' = [row EXCEPT ![k].status = t]
    BY <1>3 DEF W!CreateFails
  <1>6. t \in {"none", "creating", "active", "error"}
    BY <1>5 DEF WalletRow
  <1>7. PICK x \in WalletRow : /\ x = [status |-> t, addr |-> o.addr, verified |-> o.verified]
                               /\ row' = [row EXCEPT ![k] = x]
    <2>1. /\ row' = [row EXCEPT ![k] = [status |-> t, addr |-> row[k].addr,
                                        verified |-> row[k].verified]]
          /\ [status |-> t, addr |-> row[k].addr, verified |-> row[k].verified] \in WalletRow
      BY <1>1, <1>5, <1>6, StatusMoves
    <2> QED
      BY <1>3, <2>1
  <1>8. Moves(c, W!Idle, k, x)
    <2>1. /\ call' \in [Calls -> {W!Idle} \cup Started \cup Running] /\ call'[c] = W!Idle
          /\ \A d \in Calls \ {c} : call'[d] = call[d]
      BY <1>1, <1>2, CallMoves
    <2>2. row' \in [Keys -> WalletRow] /\ row'[k] = x /\ \A j \in Keys \ {k} : row'[j] = row[j]
      BY <1>1, <1>7, RowMoves
    <2> QED
      BY <1>2, <1>4, <2>1, <2>2 DEF Moves
  <1>9. x = row[k] \/ (~W!Usable(x) /\ ~W!Usable(row[k]))
    <2>1. CASE o.status = "creating"
      BY <1>3, <1>5, <1>7, <2>1 DEF W!Usable
    <2>2. CASE o.status # "creating"
      <3>1. o = [status |-> o.status, addr |-> o.addr, verified |-> o.verified]
        BY DEF WalletRow
      <3> QED
        BY <1>3, <1>5, <1>7, <2>2, <3>1
    <2> QED
      BY <2>1, <2>2
  <1>10. x.addr = row[k].addr
    BY <1>3, <1>7
  <1>11. OneCall => (\E z : Orphans' \subseteq Orphans \cup {z}) /\ faults' = faults + 1
    BY <1>2, <1>4, <1>8, <1>10, EndOrphans
  <1> QED
    BY <1>2, <1>8, <1>9, <1>11, RequestEnds

\* The request is lost.
LEMMA AbandonStep ==
    ASSUME W!WalletProvisioningAssumption, WalletsInv, NEW c \in Calls, W!Abandon(c)
    PROVE  WalletsKeep
  <1>1. W!TypeOK
    BY DEF WalletsInv
  <1>2. /\ row' = row /\ customer' = customer /\ shown' = shown /\ mirror' = mirror
        /\ sync' = sync /\ call[c].pc # "idle" /\ call' = [call EXCEPT ![c] = W!Idle]
        /\ \/ call[c].pc = "create" /\ W!Mint
           \/ UNCHANGED <<minted, owned>>
    BY DEF W!Abandon
  <1>3. PICK k \in Keys : k = call[c].key
    BY <1>1, <1>2, CallTypes DEF Started, Running
  <1>4. faults' = faults + 1 /\ faults' \in 0 .. MaxFaults
    BY <1>1, FaultCounts DEF W!Abandon
  <1>5. Moves(c, W!Idle, k, row[k])
    <2>1. /\ call' \in [Calls -> {W!Idle} \cup Started \cup Running] /\ call'[c] = W!Idle
          /\ \A d \in Calls \ {c} : call'[d] = call[d]
      BY <1>1, <1>2, CallMoves
    <2>2. row \in [Keys -> WalletRow] /\ row[k] \in WalletRow
      BY <1>1, RowTypes
    <2> QED
      BY <1>2, <1>4, <2>1, <2>2 DEF Moves
  <1>6. OneCall => (\E z : Orphans' \subseteq Orphans \cup {z}) /\ faults' = faults + 1
    BY <1>2, <1>4, <1>5, EndOrphans
  <1> QED
    BY <1>2, <1>5, <1>6, RequestEnds

\* address/inner fails or answers no: the row keeps the address.
LEMMA OwnershipFailsStep ==
    ASSUME W!WalletProvisioningAssumption, WalletsInv, NEW c \in Calls, W!OwnershipFails(c)
    PROVE  WalletsKeep
  <1>1. W!TypeOK
    BY DEF WalletsInv
  <1>2. /\ customer' = customer /\ shown' = shown /\ mirror' = mirror /\ sync' = sync
        /\ minted' = minted /\ owned' = owned
        /\ call[c].pc = "verify" /\ call' = [call EXCEPT ![c] = W!Idle]
    BY DEF W!OwnershipFails
  <1>3. PICK k \in Keys, b \in W!Addresses, o \in WalletRow :
          /\ call[c] = [pc |-> "verify", key |-> k, addr |-> b] /\ o = row[k]
          /\ call[c].key = k /\ call[c].addr = b
    BY <1>1, <1>2, RunningCall
  <1>4. faults' \in 0 .. MaxFaults /\ faults' \in {faults, faults + 1}
    <2>1. CASE faults' = faults
      BY <1>1, <1>3, <2>1, RowTypes
    <2>2. CASE W!Fault("provider")
      BY <1>1, <2>2, FaultCounts
    <2> QED
      BY <2>1, <2>2 DEF W!OwnershipFails
  <1>5. PICK x : /\ x = IF o.status = "creating"
                         THEN [status |-> "error", addr |-> b, verified |-> o.verified] ELSE o
                 /\ row' = [row EXCEPT ![k] = x]
    BY <1>3 DEF W!OwnershipFails
  <1>6. x \in WalletRow
    BY <1>5 DEF WalletRow
  <1>7. Moves(c, W!Idle, k, x)
    <2>1. /\ call' \in [Calls -> {W!Idle} \cup Started \cup Running] /\ call'[c] = W!Idle
          /\ \A d \in Calls \ {c} : call'[d] = call[d]
      BY <1>1, <1>2, CallMoves
    <2>2. row' \in [Keys -> WalletRow] /\ row'[k] = x /\ \A j \in Keys \ {k} : row'[j] = row[j]
      BY <1>1, <1>5, <1>6, RowMoves
    <2> QED
      BY <1>2, <1>4, <1>6, <2>1, <2>2 DEF Moves
  <1>8. x = row[k] \/ (~W!Usable(x) /\ ~W!Usable(row[k]))
    BY <1>3, <1>5 DEF W!Usable
  <1>9. ASSUME OneCall, SerialInv PROVE Orphans' \subseteq Orphans
    <2>1. o.status = "creating" /\ o.addr \in {0, b} /\ minted \in Nat
      BY <1>1, <1>2, <1>3, <1>9, RowTypes DEF SerialInv, CallKnows
    <2>2. x.addr = b
      BY <1>5, <2>1
    <2>3. ASSUME NEW a \in 1 .. minted, Known(a) PROVE Known(a)'
      <3>1. b = a => Known(a)'
        BY <1>7, <2>2 DEF Known, Moves
      <3>2. x.addr = row[k].addr \/ (row[k].addr = 0 /\ minted \in Nat)
        BY <1>3, <2>1, <2>2
      <3> QED
        BY <1>3, <1>7, <1>9, <2>3, <3>1, <3>2, MovesKnown
    <2> QED
      BY <1>2, <2>3 DEF Orphans
  <1>10. OneCall /\ SerialInv =>
           \/ Orphans' \subseteq Orphans /\ faults' = faults
           \/ (\E z : Orphans' \subseteq Orphans \cup {z}) /\ faults' = faults + 1
    BY <1>4, <1>9
  <1> QED
    BY <1>2, <1>7, <1>8, <1>10, RequestEnds

\* The row becomes the customer's wallet.
LEMMA ActivateStep ==
    ASSUME W!WalletProvisioningAssumption, WalletsInv, NEW c \in Calls, W!Activate(c)
    PROVE  WalletsKeep
  <1>1. W!TypeOK /\ shown \subseteq owned /\ OwnedCall(c) /\ 0 \notin owned
    BY DEF WalletsInv, W!TypeOK
  <1>2. /\ customer' = customer /\ mirror' = mirror /\ sync' = sync /\ faults' = faults
        /\ minted' = minted /\ owned' = owned
        /\ call[c].pc = "activate" /\ call' = [call EXCEPT ![c] = W!Idle]
    BY DEF W!Activate
  <1>3. PICK k \in Keys, b \in W!Addresses, o \in WalletRow :
          /\ call[c] = [pc |-> "activate", key |-> k, addr |-> b] /\ o = row[k]
          /\ call[c].key = k /\ call[c].addr = b
    BY <1>1, <1>2, RunningCall
  <1>4. /\ b \in owned /\ W!Idle.pc = "idle" /\ row \in [Keys -> WalletRow]
        /\ faults \in 0 .. MaxFaults
    BY <1>1, <1>2, <1>3, CallTypes, RowTypes DEF OwnedCall
  <1>5. /\ call' \in [Calls -> {W!Idle} \cup Started \cup Running] /\ call'[c] = W!Idle
        /\ \A d \in Calls \ {c} : call'[d] = call[d]
    BY <1>1, <1>2, CallMoves
  <1>6. CASE /\ o.status = "creating" /\ shown' = shown \cup {b}
             /\ row' = [row EXCEPT ![k] = [status |-> "active", addr |-> b, verified |-> TRUE]]
    <2>1. PICK x \in WalletRow : x = [status |-> "active", addr |-> b, verified |-> TRUE]
      BY DEF WalletRow
    <2>2. Moves(c, W!Idle, k, x)
      <3>1. row' \in [Keys -> WalletRow] /\ row'[k] = x /\ \A j \in Keys \ {k} : row'[j] = row[j]
        BY <1>1, <1>6, <2>1, RowMoves
      <3> QED
        BY <1>2, <1>4, <1>5, <3>1 DEF Moves
    <2>3. x.addr = b /\ W!Usable(x)
      <3>1. b # 0
        BY <1>1, <1>4
      <3> QED
        BY <2>1, <3>1 DEF W!Usable, W!NoAddress
    <2>4. WalletsInv'
      BY <1>1, <1>2, <1>4, <1>6, <2>2, <2>3, MovesSafely
    <2>5. ASSUME OneCall, SerialInv PROVE SerialInv'
      <3>1. (\A j \in Keys : ~W!Usable(row[j])) /\ o.addr \in {0, b} /\ minted \in Nat
        BY <1>1, <1>2, <1>3, <2>5, RowTypes DEF SerialInv, CallKnows
      <3>2. \A a : ~RowShows(a)
        BY <3>1 DEF RowShows
      <3>3. /\ shown = {} /\ mirror = 0
            /\ \A s \in Syncs : sync[s].pc = "write" => sync[s].wallets = {}
        BY <2>5, <3>2 DEF SerialInv
      <3>4. row'[k] = x /\ \A j \in Keys \ {k} : row'[j] = row[j]
        BY <2>2 DEF Moves
      <3>5. RowShows(b)' /\ shown' = {b}
        BY <1>6, <2>3, <3>3, <3>4 DEF RowShows
      <3>6. (\A i, j \in Keys : W!Usable(row[i]) /\ W!Usable(row[j]) => i = j)'
        BY <3>1, <3>4 DEF W!Usable
      <3>7. \A d \in Calls : CallKnows(d)'
        BY <1>4, <1>5, <2>5 DEF CallKnows, OneCall
      <3>8. Orphans' \subseteq Orphans
        <4>1. ASSUME NEW a \in 1 .. minted, Known(a) PROVE Known(a)'
          <5>1. b = a => Known(a)'
            BY <2>2, <2>3 DEF Known, Moves
          <5>2. x.addr = row[k].addr \/ (row[k].addr = 0 /\ minted \in Nat)
            BY <1>3, <2>3, <3>1
          <5> QED
            BY <1>3, <2>2, <2>5, <4>1, <5>1, <5>2, MovesKnown
        <4> QED
          BY <1>2, <4>1 DEF Orphans
      <3>9. IsFiniteSet(Orphans') /\ Cardinality(Orphans') <= faults'
        <4>1. faults' \in Int /\ faults <= faults'
          BY <1>2, <1>4
        <4> QED
          BY <1>1, <2>5, <3>8, <4>1, OrphansCounted
      <3> QED
        BY <1>2, <3>3, <3>5, <3>6, <3>7, <3>9 DEF SerialInv
    <2> QED
      BY <2>4, <2>5 DEF WalletsKeep
  <1>7. CASE o.status # "creating" /\ row' = row /\ shown' = shown
    <2>1. Moves(c, W!Idle, k, o)
      BY <1>2, <1>3, <1>4, <1>5, <1>7 DEF Moves
    <2>2. ~(OneCall /\ SerialInv)
      BY <1>2, <1>3, <1>7 DEF SerialInv, CallKnows
    <2> QED
      BY <1>3, <1>7, <2>1, <2>2, RequestEnds
  <1> QED
    BY <1>3, <1>6, <1>7 DEF W!Activate

\* The syncs, the approval and the setup, and steps of the other components.
LEMMA SyncStep ==
    ASSUME W!WalletProvisioningAssumption, WalletsInv,
           \/ W!Approve \/ W!CompleteSetup \/ UNCHANGED W!vars
           \/ \E s \in Syncs : W!SyncRead(s) \/ W!SyncWrite(s)
    PROVE  WalletsKeep
  <1>1. /\ W!TypeOK /\ shown \subseteq owned /\ mirror \in owned \cup {0}
        /\ (\A j \in Keys : OwnedRow(j)) /\ (\A s \in Syncs : OwnedSync(s))
    BY DEF WalletsInv
  <1>2. /\ row' = row /\ call' = call /\ minted' = minted /\ owned' = owned /\ shown' = shown
        /\ faults' = faults
    BY DEF W!Approve, W!CompleteSetup, W!vars, W!SyncRead, W!SyncWrite
  <1>3. customer' \in W!CustomerStatuses
    BY <1>1 DEF W!Approve, W!CompleteSetup, W!vars, W!SyncRead, W!SyncWrite, W!TypeOK,
                W!CustomerStatuses
  <1>4. \A s \in Syncs : \/ sync'[s] = sync[s] \/ sync'[s] = W!NoSync
                         \/ /\ sync'[s] = [pc |-> "write", wallets |-> {row[k].addr : k \in W!UsableKeys}]
    BY <1>1 DEF W!Approve, W!CompleteSetup, W!vars, W!SyncRead, W!SyncWrite, W!TypeOK
  <1>5. PICK A : A = {row[k].addr : k \in W!UsableKeys}
    OBVIOUS
  <1>6. A \subseteq owned /\ A \subseteq 1 .. minted /\ \A a \in A : RowShows(a)
    BY <1>1, <1>5 DEF W!UsableKeys, OwnedRow, RowShows, W!TypeOK
  <1>7. /\ sync' \in [Syncs -> {W!NoSync} \cup [pc : {"write"}, wallets : SUBSET (1 .. minted)]]
    <2>1. DOMAIN sync' = Syncs /\ sync' = [s \in Syncs |-> sync'[s]]
      BY <1>1 DEF W!Approve, W!CompleteSetup, W!vars, W!SyncRead, W!SyncWrite, W!TypeOK
    <2>2. \A s \in Syncs : sync[s] \in {W!NoSync} \cup [pc : {"write"}, wallets : SUBSET (1 .. minted)]
      BY <1>1 DEF W!TypeOK
    <2>3. PICK u : u = [pc |-> "write", wallets |-> A]
      OBVIOUS
    <2>4. u \in [pc : {"write"}, wallets : SUBSET (1 .. minted)]
      BY <1>6, <2>3
    <2>5. \A s \in Syncs : sync'[s] = sync[s] \/ sync'[s] = W!NoSync \/ sync'[s] = u
      BY <1>4, <1>5, <2>3
    <2> QED
      BY <2>1, <2>2, <2>4, <2>5
  <1>8. mirror' = mirror \/ \E s \in Syncs : sync[s].pc = "write" /\ mirror' \in sync[s].wallets
    <2>1. ASSUME NEW s \in Syncs, W!SyncWrite(s), mirror' # mirror
          PROVE  sync[s].pc = "write" /\ mirror' \in sync[s].wallets
      <3>1. PICK V : V = sync[s].wallets
        OBVIOUS
      <3>2. W!Cardinality(V) = 1 /\ mirror' = CHOOSE a \in V : TRUE
        BY <2>1, <3>1 DEF W!SyncWrite
      <3>3. Cardinality(V) = 1
        BY <3>2, WalletsCount
      <3>4. V # {}
        BY <3>3, FS_EmptySet
      <3>5. mirror' \in V
        BY <3>2, <3>4
      <3> QED
        BY <2>1, <3>1, <3>5 DEF W!SyncWrite
    <2> QED
      BY <2>1 DEF W!Approve, W!CompleteSetup, W!vars, W!SyncRead, W!SyncWrite
  <1>9. mirror' \in owned \cup {0}
    BY <1>1, <1>8 DEF OwnedSync
  <1>10. W!TypeOK'
    BY <1>1, <1>2, <1>3, <1>7, <1>9 DEF W!TypeOK
  <1>11. \A s \in Syncs : OwnedSync(s)'
    <2>1. PICK u : u = [pc |-> "write", wallets |-> A]
      OBVIOUS
    <2>2. \A s \in Syncs : sync'[s] = sync[s] \/ sync'[s] = W!NoSync \/ sync'[s] = u
      BY <1>4, <1>5, <2>1
    <2>3. W!NoSync.pc # "write" /\ u.wallets \subseteq owned
      BY <1>6, <2>1 DEF W!NoSync
    <2> QED
      BY <1>1, <1>2, <2>2, <2>3 DEF OwnedSync
  <1>12. WalletsInv'
    <2>1. (\A j \in Keys : OwnedRow(j)') /\ (\A c \in Calls : OwnedCall(c)')
      BY <1>2 DEF WalletsInv, OwnedRow, OwnedCall, W!Usable
    <2> QED
      BY <1>1, <1>2, <1>9, <1>10, <1>11, <2>1 DEF WalletsInv
  <1>13. ASSUME OneCall, SerialInv PROVE SerialInv'
    <2>1. mirror' # 0 => RowShows(mirror')
      BY <1>8, <1>13 DEF SerialInv
    <2>2. ASSUME NEW s \in Syncs, sync'[s].pc = "write", NEW a \in sync'[s].wallets
          PROVE  RowShows(a)
      <3>1. CASE sync'[s] = sync[s]
        BY <1>13, <2>2, <3>1 DEF SerialInv
      <3>2. CASE sync'[s] = W!NoSync
        BY <2>2, <3>2 DEF W!NoSync
      <3>3. CASE sync'[s] = [pc |-> "write", wallets |-> A]
        <4>1. a \in A
          BY <2>2, <3>3
        <4> QED
          BY <1>6, <4>1
      <3> QED
        BY <1>4, <1>5, <3>1, <3>2, <3>3
    <2>3. Orphans' = Orphans
      BY <1>2 DEF Orphans, Known
    <2>4. \A c \in Calls : CallKnows(c)'
      BY <1>2, <1>13 DEF SerialInv, CallKnows, W!Usable
    <2>5. row' = row /\ shown' = shown /\ faults' = faults
      BY <1>2
    <2>6. (\A j, k \in Keys : W!Usable(row[j]) /\ W!Usable(row[k]) => j = k)'
      BY <1>13, <2>5 DEF SerialInv, W!Usable
    <2>7. ASSUME NEW a, RowShows(a) PROVE RowShows(a)'
      BY <2>5, <2>7 DEF RowShows, W!Usable
    <2>8. (\A a \in shown : RowShows(a))'
      BY <1>13, <2>5, <2>7 DEF SerialInv
    <2>9. PICK m : m = mirror'
      OBVIOUS
    <2>10. m # 0 => RowShows(m)'
      BY <2>1, <2>7, <2>9
    <2>11. (mirror # 0 => RowShows(mirror))'
      BY <2>9, <2>10 DEF RowShows
    <2>12. (\A s \in Syncs : sync[s].pc = "write" => \A a \in sync[s].wallets : RowShows(a))'
      BY <2>2, <2>7
    <2>13. (IsFiniteSet(Orphans) /\ Cardinality(Orphans) <= faults)'
      BY <1>13, <2>3, <2>5 DEF SerialInv
    <2> QED
      BY <2>4, <2>6, <2>8, <2>11, <2>12, <2>13 DEF SerialInv
  <1> QED
    BY <1>12, <1>13 DEF WalletsKeep

LEMMA WalletsStep ==
    ASSUME W!WalletProvisioningAssumption, WalletsInv, [W!Next]_(W!vars)
    PROVE  WalletsKeep
  <1>1. CASE \/ W!Approve \/ W!CompleteSetup \/ UNCHANGED W!vars
             \/ \E s \in Syncs : W!SyncRead(s) \/ W!SyncWrite(s)
    BY <1>1, SyncStep
  <1>2. ASSUME NEW c \in Calls, (\E k \in Keys : W!Begin(c, k)) \/ W!Step(c) \/ W!Abandon(c)
        PROVE  WalletsKeep
    BY <1>2, BeginStep, ReserveStep, ResetStep, AnswerStep, CreateFailsStep,
       OwnershipFailsStep, ActivateStep, AbandonStep DEF W!Step
  <1> QED
    BY <1>1, <1>2 DEF W!Next

LEMMA WalletsInductive ==
    ASSUME W!WalletProvisioningAssumption PROVE W!Spec => []WalletsInv
  <1>1. W!Init => WalletsInv
    BY WalletsInit
  <1>2. WalletsInv /\ [W!Next]_(W!vars) => WalletsInv'
    BY WalletsStep DEF WalletsKeep
  <1> QED
    BY <1>1, <1>2, PTL DEF W!Spec

\* createWallet and the sync, for any number of overlapping and failing requests: every
\* address that was returned, is reusable or reached the Core is one address/inner
\* confirmed as the project's.
THEOREM AddressesAreTheProjects ==
    ASSUME W!WalletProvisioningAssumption PROVE W!Spec => [](W!TypeOK /\ W!ExposedIsOwned)
  <1>1. WalletsInv => W!TypeOK /\ W!ExposedIsOwned
    BY DEF WalletsInv, W!ExposedIsOwned, W!UsableKeys, OwnedRow, W!NoAddress
  <1> QED
    BY <1>1, WalletsInductive, PTL

\* Of the addresses Cregis made before, the legacy row knows the one.
LEMMA SerialInit ==
    ASSUME W!WalletProvisioningAssumption, W!Init
    PROVE  SerialInv
  <1>1. WalletsInv /\ W!TypeOK
    BY WalletsInit DEF WalletsInv
  <1>2. /\ shown = {} /\ mirror = 0 /\ faults = 0
        /\ \A c \in Calls : call[c] = W!Idle
        /\ \A s \in Syncs : sync[s] = W!NoSync
    BY DEF W!Init, W!NoAddress
  <1>3. \A k \in Keys : ~W!Usable(row[k])
    BY DEF W!Init, W!Usable, W!NoRow
  <1>4. Orphans = {}
    <2>1. CASE minted = 0
      BY <2>1 DEF Orphans
    <2>2. CASE \E k \in Keys : minted = 1 /\ row[k].addr = 1
      <3>1. Known(1)
        BY <2>2 DEF Known
      <3>2. \A a \in 1 .. minted : a = 1
        BY <2>2
      <3> QED
        BY <3>1, <3>2 DEF Orphans
    <2> QED
      BY <2>1, <2>2 DEF W!Init
  <1>5. IsFiniteSet(Orphans) /\ Cardinality(Orphans) <= faults
    BY <1>2, <1>4, FS_EmptySet
  <1>6. \A c \in Calls : CallKnows(c)
    BY <1>2 DEF CallKnows, W!Idle
  <1> QED
    BY <1>2, <1>3, <1>5, <1>6 DEF SerialInv, W!NoSync

\* createWallet, one request at a time, however it fails: there is one usable wallet at
\* most, a returned address keeps its row, the Core never disagrees, and an address is
\* wasted only by a fault.
THEOREM SerialRequestsWasteNothing ==
    ASSUME W!WalletProvisioningAssumption, \A c, d \in Calls : c = d
    PROVE  W!Spec => [](/\ W!SingleUsable /\ W!ShownIsKept
                        /\ W!OrphansNeedFaults /\ W!MirrorAgrees)
  <1>1. W!Init => SerialInv
    BY SerialInit
  <1>2. WalletsInv /\ SerialInv /\ [W!Next]_(W!vars) => SerialInv'
    BY WalletsStep DEF WalletsKeep, OneCall
  <1>3. SerialInv => /\ W!SingleUsable /\ W!ShownIsKept /\ W!OrphansNeedFaults /\ W!MirrorAgrees
    <2> SUFFICES ASSUME SerialInv
                 PROVE  W!SingleUsable /\ W!ShownIsKept /\ W!OrphansNeedFaults /\ W!MirrorAgrees
      OBVIOUS
    <2>1. W!SingleUsable
      <3>1. PICK U : U = W!UsableKeys
        OBVIOUS
      <3>2. \A j, k \in U : j = k
        BY <3>1 DEF SerialInv, W!UsableKeys
      <3>3. CASE U = {}
        BY <3>1, <3>3, FS_EmptySet, WalletsCount DEF W!SingleUsable
      <3>4. CASE U # {}
        <4>1. PICK k : U = {k}
          BY <3>2, <3>4
        <4>2. Cardinality(U) = 1
          BY <4>1, FS_Singleton, Zenon
        <4> QED
          BY <3>1, <4>2, WalletsCount DEF W!SingleUsable
      <3> QED
        BY <3>3, <3>4
    <2>2. W!ShownIsKept
      BY DEF SerialInv, W!ShownIsKept, RowShows, W!NoAddress
    <2>3. W!OrphansNeedFaults
      <3>1. PICK D : D = {row[k].addr : k \in Keys}
                         \cup {call[c].addr : c \in {d \in Calls :
                                                 call[d].pc \in {"verify", "activate"}}}
        OBVIOUS
      <3>2. (1 .. minted) \ D = Orphans
        BY <3>1 DEF Orphans, Known
      <3>3. W!Cardinality((1 .. minted) \ D) <= faults
        BY <3>2, WalletsCount DEF SerialInv
      <3> QED
        BY <3>1, <3>3 DEF W!OrphansNeedFaults
    <2>4. W!MirrorAgrees
      BY DEF SerialInv, W!MirrorAgrees, RowShows, W!NoAddress, W!UsableKeys
    <2> QED
      BY <2>1, <2>2, <2>3, <2>4
  <1> QED
    BY <1>1, <1>2, <1>3, WalletsInductive, PTL DEF W!Spec

\* A row without an entry is empty, and one that is being created has a request at work
\* on it.
AtWork(k) ==
    \E c \in Calls : call[c].pc \in {"create", "verify", "activate"} /\ call[c].key = k
RetryInv ==
    \A k \in Keys : /\ row[k].status = "none" => row[k] = W!NoRow
                    /\ row[k].status = "creating" => AtWork(k)

LEMMA RetryStep ==
    ASSUME W!TypeOK, RetryInv, "lost" \notin Faults, [W!Next]_(W!vars)
    PROVE  RetryInv'
  <1>1. CASE row' = row /\ call' = call
    BY <1>1 DEF RetryInv, AtWork, W!NoRow
  <1>2. ASSUME NEW c \in Calls, NEW k \in Keys, row' = row,
               \/ W!Begin(c, k) /\ call[c].pc = "idle"
               \/ W!CreateAddress(c) \/ W!VerifyOwnership(c)
        PROVE  RetryInv'
    <2>1. call[c].pc \in {"create", "verify", "activate"} =>
             call'[c].pc \in {"create", "verify", "activate"} /\ call'[c].key = call[c].key
      <3>1. CASE W!Begin(c, k)
        BY <3>1 DEF W!Begin
      <3>2. CASE W!CreateAddress(c)
        BY <3>2 DEF W!CreateAddress, W!TypeOK
      <3>3. CASE W!VerifyOwnership(c)
        <4>1. call[c] \in Running /\ call' = [call EXCEPT ![c].pc = "activate"]
          BY <3>3, CallTypes DEF W!VerifyOwnership
        <4>2. call'[c] = [call[c] EXCEPT !.pc = "activate"]
          BY <4>1 DEF W!TypeOK
        <4> QED
          BY <4>1, <4>2 DEF Running
      <3> QED
        BY <1>2, <3>1, <3>2, <3>3
    <2>2. \A d \in Calls \ {c} : call'[d] = call[d]
      BY <1>2 DEF W!Begin, W!CreateAddress, W!VerifyOwnership, W!TypeOK
    <2>3. \A j \in Keys : AtWork(j) => AtWork(j)'
      BY <2>1, <2>2 DEF AtWork
    <2> QED
      BY <1>2, <2>3 DEF RetryInv, W!NoRow
  <1>3. ASSUME NEW c \in Calls, W!Reserve(c) \/ W!Reset(c) PROVE RetryInv'
    <2>1. call[c].pc \in {"reserve", "reset"} /\ call[c].key \in Keys
      BY <1>3, CallTypes DEF W!Reserve, W!Reset, Started, Running
    <2>2. \A d \in Calls \ {c} : call'[d] = call[d]
      BY <1>3 DEF W!Reserve, W!Reset, W!TypeOK
    <2>3. \A j \in Keys : AtWork(j) => AtWork(j)'
      BY <2>1, <2>2 DEF AtWork
    <2>4. PICK k \in Keys : k = call[c].key
      BY <2>1
    <2>5. \/ row' = row
          \/ /\ row' = [row EXCEPT ![k].status = "creating"]
             /\ \/ call' = [call EXCEPT ![c] = [pc |-> "create", key |-> k,
                                               addr |-> W!NoAddress]]
                \/ call' = [call EXCEPT ![c].pc = IF call[c].addr = W!NoAddress
                                                  THEN "create" ELSE "verify"]
      BY <1>3, <2>4 DEF W!Reserve, W!Reset
    <2>6. CASE row' = row
      BY <2>3, <2>6 DEF RetryInv, W!NoRow
    <2>7. CASE row' # row
      <3>1. row' = [row EXCEPT ![k].status = "creating"]
        BY <2>5, <2>7
      <3>2. (\A j \in Keys \ {k} : row'[j] = row[j]) /\ row'[k].status = "creating"
        BY <3>1, RowTypes DEF WalletRow
      <3>3. CASE call' = [call EXCEPT ![c] = [pc |-> "create", key |-> k,
                                              addr |-> W!NoAddress]]
        <4>1. call'[c].pc = "create" /\ call'[c].key = k
          BY <3>3 DEF W!TypeOK
        <4>2. AtWork(k)'
          BY <4>1 DEF AtWork
        <4> QED
          BY <2>3, <3>2, <4>2 DEF RetryInv, W!NoRow
      <3>4. CASE call' = [call EXCEPT ![c].pc = IF call[c].addr = W!NoAddress
                                                THEN "create" ELSE "verify"]
                 /\ W!Reset(c)
        <4>1. call[c] \in Running
          BY <3>4, CallTypes DEF W!Reset
        <4>2. PICK p \in {"create", "verify"} : call' = [call EXCEPT ![c].pc = p]
          BY <3>4
        <4>3. call'[c] = [call[c] EXCEPT !.pc = p]
          BY <4>2 DEF W!TypeOK
        <4>4. call'[c].pc = p /\ call'[c].key = k
          BY <2>4, <4>1, <4>3 DEF Running
        <4>5. AtWork(k)'
          BY <4>4 DEF AtWork
        <4> QED
          BY <2>3, <3>2, <4>5 DEF RetryInv, W!NoRow
      <3> QED
        BY <1>3, <2>4, <2>7, <3>3, <3>4 DEF W!Reserve, W!Reset
    <2> QED
      BY <2>6, <2>7
  <1>4. ASSUME NEW c \in Calls, W!CreateFails(c) \/ W!OwnershipFails(c) \/ W!Activate(c)
        PROVE  RetryInv'
    <2>1. call[c].key \in Keys
      BY <1>4, CallTypes DEF W!CreateFails, W!OwnershipFails, W!Activate, Running
    <2>2. \A d \in Calls \ {c} : call'[d] = call[d]
      BY <1>4 DEF W!CreateFails, W!OwnershipFails, W!Activate, W!TypeOK
    <2>3. \A j \in Keys \ {call[c].key} : row'[j] = row[j] /\ (AtWork(j) => AtWork(j)')
      BY <1>4, <2>2 DEF W!CreateFails, W!OwnershipFails, W!Activate, W!TypeOK, AtWork
    <2>4. \/ row[call[c].key].status # "creating" /\ row'[call[c].key] = row[call[c].key]
          \/ row'[call[c].key].status \in {"error", "active"}
      BY <1>4, <2>1 DEF W!CreateFails, W!OwnershipFails, W!Activate, W!TypeOK
    <2> QED
      BY <2>1, <2>3, <2>4 DEF RetryInv, W!NoRow
  <1>5. CASE \/ W!Approve \/ W!CompleteSetup \/ UNCHANGED W!vars
             \/ \E s \in Syncs : W!SyncRead(s) \/ W!SyncWrite(s)
    BY <1>1, <1>5 DEF W!Approve, W!CompleteSetup, W!vars, W!SyncRead, W!SyncWrite
  <1>6. ASSUME NEW c \in Calls PROVE ~W!Abandon(c)
    BY DEF W!Abandon, W!Fault
  <1>7. ASSUME NEW c \in Calls, NEW k \in Keys, W!Begin(c, k) PROVE RetryInv'
    BY <1>2, <1>7 DEF W!Begin
  <1>8. ASSUME NEW c \in Calls, W!CreateAddress(c) \/ W!VerifyOwnership(c) PROVE RetryInv'
    <2>1. call[c].key \in Keys /\ row' = row
      BY <1>8, CallTypes DEF W!CreateAddress, W!VerifyOwnership, Running
    <2> QED
      BY <1>2, <1>8, <2>1
  <1> QED
    BY <1>3, <1>4, <1>5, <1>6, <1>7, <1>8 DEF W!Next, W!Step

\* createWallet, for any number of overlapping requests none of which dies: whatever
\* Cregis refuses, a wallet row that is not usable is being worked on or open to the next
\* request with its key.
THEOREM FailedWalletsCanBeRetried ==
    ASSUME W!WalletProvisioningAssumption, "lost" \notin Faults
    PROVE  W!Spec => []W!RetryIsOpen
  <1>1. W!Init => RetryInv
    <2>1. PICK old : old = [status |-> "active", addr |-> 1, verified |-> FALSE]
      OBVIOUS
    <2>2. W!Init => \A k \in Keys : row[k] = W!NoRow \/ row[k] = old
      BY <2>1 DEF W!Init
    <2>3. W!NoRow.status = "none" /\ old.status = "active"
      BY <2>1 DEF W!NoRow
    <2> QED
      BY <2>2, <2>3 DEF RetryInv
  <1>2. WalletsInv /\ RetryInv /\ [W!Next]_(W!vars) => RetryInv'
    BY RetryStep DEF WalletsInv
  <1>3. WalletsInv /\ RetryInv => W!RetryIsOpen
    BY DEF WalletsInv, W!TypeOK, RetryInv, AtWork, W!RetryIsOpen, W!CanRetryOwnership
  <1> QED
    BY <1>1, <1>2, <1>3, WalletsInductive, PTL DEF W!Spec

=============================================================================
