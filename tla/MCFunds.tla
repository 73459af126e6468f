------------------------------ MODULE MCFunds ------------------------------
(***************************************************************************)
(* The smaller components that hold money, or decide where it may go.      *)
(* They share no state, so a behaviour runs one of them, or the same one   *)
(* with other constants; the variables of the others are None throughout.  *)
(***************************************************************************)
EXTENDS Integers, TLC

CONSTANTS None, r1, r2, r3, s1, s2, t1, t2, k1, k2, d1, d2

VARIABLES
  part,   \* the component that runs
  channel, edit, policy, feeEvents, enabled, quote, request, fee, feePosted,
  usd, other, confirmed,
  transfer, transferOp, coreWallet, coreAccount, posted, tx,
  custody, cid, order, events, acct, link, approval, op, account, wallet, job,
  spent,
  attempts, journal, exec, verified, operational,
  row, call, customer, minted, owned, shown, mirror, sync, faults,
  version, sess, token, addr, bank, lock, now, req, grants, paid

-----------------------------------------------------------------------------
(* The instances.                                                          *)

\* Two requests, while an editor opens the channel and changes its fee.
F == INSTANCE VaOpeningFee WITH
       events <- feeEvents, shown <- quote, posted <- feePosted, wallet <- usd,
       Requests <- {r1, r2}, Channels <- {k1}, Currencies <- {d1, d2},
       Numbers <- {t1, t2}, Editors <- {s1},
       Patches <- {<<TRUE, TRUE, 1>>, <<None, None, 2>>}, Fees <- {1, 2},
       OpeningBalance <- 3, AdminCreated <- TRUE, MaxFeeVersion <- 2,
       MaxPolicy <- 0, MaxOther <- 1

\* One request, while the customer's policy and the channel change.
FPolicy == INSTANCE VaOpeningFee WITH
       events <- feeEvents, shown <- quote, posted <- feePosted, wallet <- usd,
       Requests <- {r1}, Channels <- {k1}, Currencies <- {d1}, Numbers <- {t1},
       Editors <- {s1},
       Patches <- {<<TRUE, TRUE, 1>>, <<None, None, 2>>, <<FALSE, None, None>>},
       Fees <- {1, 2}, OpeningBalance <- 3, AdminCreated <- TRUE,
       MaxFeeVersion <- 2, MaxPolicy <- 3, MaxOther <- 0

\* Two administrators decide three transfers that one wallet pays for.
T == INSTANCE CryptoTransfers WITH
       op <- transferOp, wallet <- coreWallet, account <- coreAccount,
       Transfers <- {r1, r2, r3}, Admins <- {s1, s2}, Amounts <- {1, 2},
       Opening <- 4

\* Two releases with two workers, and a callback that does not match its order.
H == INSTANCE HistoricalWithdrawals WITH
       NoCid <- None, Withdrawals <- {r1, r2}, Approvals <- {k1},
       Jobs <- {s1, s2}, Total <- 2, Reserved <- {2, 3}, MaxInexact <- 1,
       MaxTakeovers <- 1

\* Every stored callback matches its order.
HExact == INSTANCE HistoricalWithdrawals WITH
       NoCid <- None, Withdrawals <- {r1, r2}, Approvals <- {k1, k2},
       Jobs <- {s1}, Total <- 2, Reserved <- {2, 3}, MaxInexact <- 0,
       MaxTakeovers <- 0

\* A custody withdrawal that is also decided through the Core's own endpoints, while
\* one accounting call overtakes another.
C == INSTANCE CregisWithdrawal WITH
       Withdrawals <- {t1}, NoCid <- None, OtherCid <- r3, Jobs <- {s1, s2},
       Total <- (t1 :> 3), Fee <- (t1 :> 1), OpeningBalance <- 3,
       Conversions <- {}, MaxAttempts <- 2, MaxTakeovers <- 1, MaxInexact <- 1,
       MaxCrashes <- 0

\* Two requests for a wallet at once.
W == INSTANCE WalletProvisioning WITH
       Keys <- {k1, k2}, Calls <- {r1, r2}, Syncs <- {s1},
       Legacy <- {"none", "owned", "foreign"}, Faults <- {"provider", "lost"},
       MaxFaults <- 2, MaxMinted <- 4

\* One request at a time, and two readers that sync the Core.
WSerial == INSTANCE WalletProvisioning WITH
       Keys <- {k1, k2}, Calls <- {r1}, Syncs <- {s1, s2},
       Legacy <- {"none", "owned", "foreign"}, Faults <- {"provider", "lost"},
       MaxFaults <- 3, MaxMinted <- 5

\* Two requests with one key at once; Cregis fails, no request dies.
WRetry == INSTANCE WalletProvisioning WITH
       Keys <- {k1}, Calls <- {r1, r2}, Syncs <- {},
       Legacy <- {"none", "owned", "foreign"}, Faults <- {"provider"},
       MaxFaults <- 3, MaxMinted <- 4

\* Overlapping changes of the two allowlists.
L == INSTANCE WithdrawalControls WITH
       Requests <- {r1, r2}, Sessions <- {s1}, Tokens <- {t1, t2},
       Rows <- {k1, k2}, Keys <- {k1, k2}, Dests <- {d1},
       Endpoints <- {"address", "bank"}, Cooling <- 1, MaxFlight <- 1,
       MaxTime <- 0, MaxVersion <- 2

\* Changes of the allowlists during withdrawals and payouts.
LPaid == INSTANCE WithdrawalControls WITH
       Requests <- {r1, r2}, Sessions <- {s1}, Tokens <- {t1, t2}, Rows <- {k1},
       Keys <- {k1}, Dests <- {d1, d2},
       Endpoints <- {"address", "bank", "withdraw", "payout"}, Cooling <- 1,
       MaxFlight <- 1, MaxTime <- 0, MaxVersion <- 2

\* Locks and unlocks during payouts.
LLock == INSTANCE WithdrawalControls WITH
       Requests <- {r1, r2}, Sessions <- {s1}, Tokens <- {t1}, Rows <- {k1},
       Keys <- {k1}, Dests <- {d1}, Endpoints <- {"lock", "bank", "payout"},
       Cooling <- 1, MaxFlight <- 1, MaxTime <- 1, MaxVersion <- 1

\* Three overlapping locks and unlocks, with time to cool.
LCool == INSTANCE WithdrawalControls WITH
       Requests <- {r1, r2, r3}, Sessions <- {s1}, Tokens <- {}, Rows <- {k1},
       Keys <- {k1}, Dests <- {d1}, Endpoints <- {"lock"}, Cooling <- 2,
       MaxFlight <- 1, MaxTime <- 4, MaxVersion <- 1

ASSUME Instances ==
  /\ F!VaOpeningFeeAssumption /\ FPolicy!VaOpeningFeeAssumption
  /\ T!CryptoTransfersAssumption
  /\ H!HistoricalAssumption /\ HExact!HistoricalAssumption
  /\ C!WithdrawalAssumption
  /\ W!WalletProvisioningAssumption /\ WSerial!WalletProvisioningAssumption
  /\ WRetry!WalletProvisioningAssumption
  /\ L!ControlsAssumption /\ LPaid!ControlsAssumption
  /\ LLock!ControlsAssumption /\ LCool!ControlsAssumption

-----------------------------------------------------------------------------
(* One behaviour runs one instance.                                        *)

feesVars == <<channel, edit, policy, feeEvents, enabled, quote, request, fee,
              feePosted, usd, other, confirmed>>
transfersVars == <<transfer, transferOp, coreWallet, coreAccount, posted, tx>>
\* The custody withdrawals of C and of H share these.
custodyVars == <<custody, cid, order, events, acct, op, account, wallet, job, spent>>
releasesVars == <<link, approval>>
stagesVars == <<attempts, journal, exec, verified, operational>>
withdrawalsVars == <<custodyVars, releasesVars, stagesVars>>
walletsVars == <<row, call, customer, minted, owned, shown, mirror, sync, faults>>
controlsVars == <<version, sess, token, addr, bank, lock, now, req, grants, paid>>
vars == <<part, feesVars, transfersVars, withdrawalsVars, walletsVars, controlsVars>>

NoFees ==
  /\ channel = None /\ edit = None /\ policy = None /\ feeEvents = None
  /\ enabled = None /\ quote = None /\ request = None /\ fee = None
  /\ feePosted = None /\ usd = None /\ other = None /\ confirmed = None
NoTransfers ==
  /\ transfer = None /\ transferOp = None /\ coreWallet = None
  /\ coreAccount = None /\ posted = None /\ tx = None
NoCustody ==
  /\ custody = None /\ cid = None /\ order = None /\ events = None
  /\ acct = None /\ op = None /\ account = None /\ wallet = None
  /\ job = None /\ spent = None
NoReleases == link = None /\ approval = None
NoStages ==
  /\ attempts = None /\ journal = None /\ exec = None /\ verified = None
  /\ operational = None
NoWallets ==
  /\ row = None /\ call = None /\ customer = None /\ minted = None
  /\ owned = None /\ shown = None /\ mirror = None /\ sync = None
  /\ faults = None
NoControls ==
  /\ version = None /\ sess = None /\ token = None /\ addr = None
  /\ bank = None /\ lock = None /\ now = None /\ req = None /\ grants = None
  /\ paid = None

NoWithdrawals == NoCustody /\ NoReleases /\ NoStages
FeesInit == NoTransfers /\ NoWithdrawals /\ NoWallets /\ NoControls
TransfersInit == NoFees /\ NoWithdrawals /\ NoWallets /\ NoControls
ReleasesInit == NoFees /\ NoTransfers /\ NoStages /\ NoWallets /\ NoControls
StagesInit == NoFees /\ NoTransfers /\ NoReleases /\ NoWallets /\ NoControls
WalletsInit == NoFees /\ NoTransfers /\ NoWithdrawals /\ NoControls
ControlsInit == NoFees /\ NoTransfers /\ NoWithdrawals /\ NoWallets

Init ==
  \/ part = "fees" /\ F!Init /\ FeesInit
  \/ part = "fee policy" /\ FPolicy!Init /\ FeesInit
  \/ part = "transfers" /\ T!Init /\ TransfersInit
  \/ part = "releases" /\ H!Init /\ ReleasesInit
  \/ part = "exact releases" /\ HExact!Init /\ ReleasesInit
  \/ part = "stages" /\ C!Init /\ StagesInit
  \/ part = "wallets" /\ W!Init /\ WalletsInit
  \/ part = "serial wallets" /\ WSerial!Init /\ WalletsInit
  \/ part = "wallet retries" /\ WRetry!Init /\ WalletsInit
  \/ part = "allowlists" /\ L!Init /\ ControlsInit
  \/ part = "payments" /\ LPaid!Init /\ ControlsInit
  \/ part = "lock" /\ LLock!Init /\ ControlsInit
  \/ part = "cooling" /\ LCool!Init /\ ControlsInit

Next ==
  /\ part' = part
  /\ \/ /\ \/ part = "fees" /\ F!Next
           \/ part = "fee policy" /\ FPolicy!Next
        /\ UNCHANGED <<transfersVars, withdrawalsVars, walletsVars, controlsVars>>
     \/ /\ \/ part = "transfers" /\ T!Next
        /\ UNCHANGED <<feesVars, withdrawalsVars, walletsVars, controlsVars>>
     \/ /\ \/ part = "releases" /\ H!Next
           \/ part = "exact releases" /\ HExact!Next
        /\ UNCHANGED <<feesVars, transfersVars, stagesVars, walletsVars, controlsVars>>
     \/ /\ part = "stages" /\ C!NextWithCore
        /\ UNCHANGED <<feesVars, transfersVars, releasesVars, walletsVars, controlsVars>>
     \/ /\ \/ part = "wallets" /\ W!Next
           \/ part = "serial wallets" /\ WSerial!Next
           \/ part = "wallet retries" /\ WRetry!Next
        /\ UNCHANGED <<feesVars, transfersVars, withdrawalsVars, controlsVars>>
     \/ /\ \/ part = "allowlists" /\ L!Next
           \/ part = "payments" /\ LPaid!Next
           \/ part = "lock" /\ LLock!Next
           \/ part = "cooling" /\ LCool!Next
        /\ UNCHANGED <<feesVars, transfersVars, withdrawalsVars, walletsVars>>

Spec == Init /\ [][Next]_vars

-----------------------------------------------------------------------------
\* The opening fee of a virtual account (customers.service.ts, channels.controller.ts).
\* What is frozen on the USD account is what the undecided, unwaived requests and the
\* other operations hold; what the customer no longer has is what the journal credited
\* to FEE_REVENUE; request, operation and journal tell one story; an undecided request
\* can always be rejected; a fee version names one fee; a customer is charged by the one
\* quote he confirmed; and the log of his policy has no gap.
FeesAreHeldOnce ==
  /\ part = "fees" =>
       /\ F!TypeOK /\ F!FrozenBacksFees /\ F!FeesConserved /\ F!FeeFollowsRequest
       /\ F!RequestsCanEnd /\ F!VersionNamesFee
  /\ part = "fee policy" =>
       /\ FPolicy!FrozenBacksFees /\ FPolicy!FeesConserved /\ FPolicy!FeeFollowsRequest
       /\ FPolicy!ChargedAsConfirmed /\ FPolicy!PolicyAudit

\* Transfers in the Core and releases of historical withdrawals.  Whatever stale
\* decisions and second workers do, wallet and mirror account agree, what left them is
\* what the journal posted, and what is frozen is what the open operations reserved.
\* A payout the provider completed is not also given back, as long as every stored
\* callback matched its order.  The same holds of the custody withdrawals of the present,
\* whose reservations and journal stay balanced and whose public status does not run
\* ahead of the money, when administrators also decide them through the Core.
FrozenIsReserved ==
  /\ part = "transfers" =>
       T!TypeOK /\ T!MirrorAgrees /\ T!MoneyConserved /\ T!PostedOnce
  /\ part = "releases" => H!TypeOK /\ H!FrozenIsReserved
  /\ part = "exact releases" => HExact!PaidStaysFrozen
  /\ part = "stages" =>
       C!LedgerBalanced /\ C!PaidNeverReleased /\ C!PublicStatusHonest

\* createWallet and the sync of customers.  Every address that was returned, is reusable
\* or reached the Core belongs to the project, whatever requests overlap and fail.
\* Requests one after the other leave one usable wallet, keep the row of every address
\* they returned, waste an address only by a fault, and never contradict the Core.
\* Failures of Cregis leave no row that a repeated request cannot finish.
AddressesAreOwned ==
  /\ part = "wallets" => W!TypeOK /\ W!ExposedIsOwned
  /\ part = "serial wallets" =>
       /\ WSerial!ExposedIsOwned /\ WSerial!SingleUsable /\ WSerial!ShownIsKept
       /\ WSerial!OrphansNeedFaults /\ WSerial!MirrorAgrees
  /\ part = "wallet retries" => WRetry!RetryIsOpen

\* The withdrawal allowlists and the withdrawal lock.  A step-up token authorises one
\* change, of the kind it was issued for; overlapping additions list a destination once;
\* a destination revoked on the way is not paid; and no payout is created after the
\* customer locked withdrawals, whatever the custody API had read before.
ControlsHold ==
  /\ part = "allowlists" => L!ControlsHold
  /\ part = "payments" => LPaid!ControlsHold
  /\ part = "lock" => LLock!ControlsHold

\* What a late request may not undo.  A decided account request and an ended operation
\* stay as they are; a withdrawal is released only while the stored callbacks agree with
\* the status the command wrote; and a lock is lifted no sooner than the cooling period
\* after it was last set, but for the time one request takes.
DecisionsStand ==
  [][/\ part = "fees" => F!DecisionKept
     /\ part = "transfers" => T!OperationKept
     /\ part = "releases" => H!ReleaseHasEvidence
     /\ part = "cooling" => LCool!UnlockHasCooled]_vars

Symmetry == Permutations({r1, r2}) \cup Permutations({s1, s2})
             \cup Permutations({d1, d2}) \cup Permutations({k1, k2})
=============================================================================
