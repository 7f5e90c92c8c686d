---------------------------- MODULE TaskPayment ----------------------------
(***************************************************************************)
(* What a picture task promises to the user who pays for it.  Each run of  *)
(* the task is charged for; the charge of the latest run ends in a refund  *)
(* or in a delivered result, once, and never in both.  A new run is only   *)
(* charged for when the latest one has not delivered.                      *)
(***************************************************************************)
EXTENDS Naturals

CONSTANT MaxCharges    \* bound: runs of the task

VARIABLES charges,     \* runs charged for so far
          refunds,     \* refunds made of each charge
          delivered    \* charges whose result the user got

payment == <<charges, refunds, delivered>>

Open(c) == c = charges /\ refunds[c] = 0 /\ c \notin delivered

Init ==
    /\ charges = 1
    /\ refunds = [c \in 1..MaxCharges |-> 0]
    /\ delivered = {}

Charge ==
    /\ charges < MaxCharges /\ charges \notin delivered
    /\ charges' = charges + 1
    /\ UNCHANGED <<refunds, delivered>>

Refund(c) ==
    /\ Open(c)
    /\ refunds' = [refunds EXCEPT ![c] = 1]
    /\ UNCHANGED <<charges, delivered>>

Deliver(c) ==
    /\ Open(c)
    /\ delivered' = delivered \cup {c}
    /\ UNCHANGED <<charges, refunds>>

Next == Charge \/ \E c \in 1..MaxCharges : Refund(c) \/ Deliver(c)

Spec == Init /\ [][Next]_payment
=============================================================================
