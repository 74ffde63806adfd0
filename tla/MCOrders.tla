------------------------------ MODULE MCOrders ------------------------------
(* Orders on small instances. *)
EXTENDS Orders, TLC

CONSTANTS o1, o2, p1, p2

\* Both products in either order of lines.
Crossed ==
    o1 :> <<[product |-> p1, quantity |-> 1], [product |-> p2, quantity |-> 1]>> @@
    o2 :> <<[product |-> p2, quantity |-> 1], [product |-> p1, quantity |-> 1]>>

OneUp == {1}
=============================================================================
