----------------------------- MODULE OrderIntake -----------------------------
(***************************************************************************)
(* What the intake of orders promises: an order that a client places       *)
(* becomes one booking, complete with its lines, and stays it.             *)
(***************************************************************************)
CONSTANT Orders

VARIABLE orders

Init == orders = [o \in Orders |-> "none"]

Place(o) ==
    /\ orders[o] = "none"
    /\ orders' = [orders EXCEPT ![o] = "placed"]

Book(o) ==
    /\ orders[o] = "placed"
    /\ orders' = [orders EXCEPT ![o] = "booked"]

Next == \E o \in Orders : Place(o) \/ Book(o)

Spec == Init /\ [][Next]_orders
=============================================================================
