--------------------------- MODULE MCCreditLedger ---------------------------
(* Two users: u1 owns a video and a render and two orders, u2 owns another
   video and an order, so that work of one user interleaves with itself, with
   grants, and with another user's rows.                                   *)
EXTENDS CreditLedger

CONSTANTS u1, u2, v1, r1, v2, o1, o2, o3

MCUsers == {u1, u2}
MCSubjects == {v1, r1, v2}
MCOrders == {o1, o2, o3}
MCUserOf == [x \in MCSubjects \cup MCOrders |-> IF x \in {v2, o3} THEN u2 ELSE u1]
=============================================================================
