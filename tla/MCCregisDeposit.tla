-------------------------- MODULE MCCregisDeposit --------------------------
(***************************************************************************)
(* Small instances of CregisDeposit: d1 and d2 are two transfers of one    *)
(* transaction, d3 has its own.                                            *)
(***************************************************************************)
EXTENDS CregisDeposit, TLC

CONSTANTS d1, d2, d3, t1, t3

MCTxOf == [d \in Deposits |-> IF d = d3 THEN t3 ELSE t1]
MCAmount == [d \in Deposits |-> IF d = d1 THEN 2 ELSE 1]

JobSymmetry == Permutations(Jobs)
=============================================================================
