-------------------------- MODULE MCPaymentEvents --------------------------
(***************************************************************************)
(* PaymentEvents for TLC: servers are interchangeable.                     *)
(***************************************************************************)
EXTENDS PaymentEvents, TLC

Symmetry == Permutations(Servers)
=============================================================================
