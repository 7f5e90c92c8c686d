--------------------------- MODULE MCCreditLedger ---------------------------
(***************************************************************************)
(* CreditLedger for TLC: three rows, one of them gift credits of two.      *)
(***************************************************************************)
EXTENDS CreditLedger, TLC

MCKindOf == (1 :> "daily_free") @@ (2 :> "credits_purchase") @@ (3 :> "membership_grant")
MCGranted == (1 :> 1) @@ (2 :> 1) @@ (3 :> 2)

Symmetry == Permutations(Tasks)
=============================================================================
