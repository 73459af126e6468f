---------------------------- MODULE DepositCredit ----------------------------
(***************************************************************************)
(* What a deposit promises about the customer's money, without callbacks,  *)
(* intents or workers (docs/CREGIS_DEPOSIT_ACCOUNTING.md): a transfer that *)
(* the chain confirmed is credited at most once, with its exact amount,    *)
(* and one transaction hash is credited for one deposit only.              *)
(***************************************************************************)
EXTENDS Naturals

CONSTANTS Deposits, TxOf, Amount

VARIABLES
    confirmed,  \* transfers the chain completed
    credited,   \* deposits that were credited
    balance     \* the customer's balance

vars == <<confirmed, credited, balance>>

Init ==
    /\ confirmed \subseteq Deposits
    /\ credited = {}
    /\ balance = 0

Confirm(d) ==
    /\ d \notin confirmed
    /\ confirmed' = confirmed \cup {d}
    /\ UNCHANGED <<credited, balance>>

Credit(d) ==
    /\ d \in confirmed \ credited
    /\ \A e \in credited : TxOf[e] # TxOf[d]
    /\ credited' = credited \cup {d}
    /\ balance' = balance + Amount[d]
    /\ UNCHANGED confirmed

Next == \E d \in Deposits : Confirm(d) \/ Credit(d)

Spec == Init /\ [][Next]_vars
=============================================================================
