---------------------------- MODULE CreditGrants ----------------------------
(***************************************************************************)
(* What the credit table promises of payment events: an event grants its   *)
(* credits at most once, and only if the payment service announced it      *)
(* (UserAmount.SourceID: "the unique identifier of the event that granted  *)
(* these credits; it makes the grant idempotent").                         *)
(***************************************************************************)
EXTENDS Naturals

CONSTANT Events

VARIABLES announced,  \* events the payment service has announced
          rows        \* rows of va_user_amount that carry the event's id

Init ==
    /\ announced = {}
    /\ rows = [e \in Events |-> 0]

Announce(e) ==
    /\ announced' = announced \cup {e}
    /\ UNCHANGED rows

Grant(e) ==
    /\ e \in announced
    /\ rows[e] = 0
    /\ rows' = [rows EXCEPT ![e] = 1]
    /\ UNCHANGED announced

Next == \E e \in Events : Announce(e) \/ Grant(e)

Spec == Init /\ [][Next]_<<announced, rows>>
=============================================================================
