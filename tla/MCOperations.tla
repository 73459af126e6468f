---------------------------- MODULE MCOperations ----------------------------
(***************************************************************************)
(* Small instances of Operations: one customer with two fiat accounts and  *)
(* the USDT account.                                                       *)
(***************************************************************************)
EXTENDS Operations, TLC

CONSTANTS usd, hkd, usdt, USD, HKD

MCCurrencyOf == (usd :> USD) @@ (hkd :> HKD) @@ (usdt :> USDT)
MCOpening == (usd :> 2) @@ (hkd :> 0) @@ (usdt :> 2)

\* Targets the operator's form offers: accounts of the chosen currency.
FormTargets == {<<USD, usd>>, <<HKD, hkd>>}

\* Targets the service accepts: any account of the customer.
AnyTargets == {USD, HKD} \X {usd, hkd, usdt}

OpSymmetry == Permutations(Ops)
=============================================================================
