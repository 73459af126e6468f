------------------------- MODULE MCCregisWithdrawal -------------------------
(***************************************************************************)
(* Small instances of CregisWithdrawal.  The first withdrawal is larger    *)
(* than the second, every fee is one, and accounting calls are             *)
(* interchangeable.                                                        *)
(***************************************************************************)
EXTENDS CregisWithdrawal, TLC

CONSTANTS w1, w2

MCTotal == [w \in Withdrawals |-> IF w = w1 THEN 3 ELSE 2]
MCFee == [w \in Withdrawals |-> 1]

JobSymmetry == Permutations(Jobs)
=============================================================================
