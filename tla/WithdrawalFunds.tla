--------------------------- MODULE WithdrawalFunds --------------------------
(***************************************************************************)
(* What a withdrawal promises about the customer's money, without queues,  *)
(* handlers or callbacks (docs/CREGIS_WITHDRAWAL_ACCOUNTING.md, acceptance *)
(* invariants): a withdrawal reserves its total once; the provider pays it *)
(* out only while it is reserved; a reservation ends once, given back if   *)
(* the payout did not happen and consumed if it did.                       *)
(***************************************************************************)
EXTENDS Naturals

CONSTANTS Withdrawals, Total, OpeningBalance, Conversions

VARIABLES
    fund,       \* per withdrawal: none, reserved, released or settled
    paid,       \* withdrawals whose payout reached the chain
    available,
    frozen

vars == <<fund, paid, available, frozen>>

Init ==
    /\ fund = [w \in Withdrawals |-> "none"]
    /\ paid = {}
    /\ available = OpeningBalance
    /\ frozen = 0

Reserve(w) ==
    /\ fund[w] = "none"
    /\ available >= Total[w]
    /\ fund' = [fund EXCEPT ![w] = "reserved"]
    /\ available' = available - Total[w]
    /\ frozen' = frozen + Total[w]
    /\ UNCHANGED paid

Pay(w) ==
    /\ fund[w] = "reserved"
    /\ w \notin paid
    /\ paid' = paid \cup {w}
    /\ UNCHANGED <<fund, available, frozen>>

Release(w) ==
    /\ fund[w] = "reserved"
    /\ w \notin paid
    /\ fund' = [fund EXCEPT ![w] = "released"]
    /\ available' = available + Total[w]
    /\ frozen' = frozen - Total[w]
    /\ UNCHANGED paid

Settle(w) ==
    /\ fund[w] = "reserved"
    /\ w \in paid
    /\ fund' = [fund EXCEPT ![w] = "settled"]
    /\ frozen' = frozen - Total[w]
    /\ UNCHANGED <<paid, available>>

Convert(amount) ==
    /\ available >= amount
    /\ available' = available - amount
    /\ UNCHANGED <<fund, paid, frozen>>

Next ==
    \/ \E w \in Withdrawals : Reserve(w) \/ Pay(w) \/ Release(w) \/ Settle(w)
    \/ \E amount \in Conversions : Convert(amount)

Spec == Init /\ [][Next]_vars
=============================================================================
