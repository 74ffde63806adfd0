--------------------------- MODULE MCStockLedger ---------------------------
(* StockLedger on small instances. *)
EXTENDS StockLedger, TLC

CONSTANTS p1, p2, w1, w2

\* Adjustments only bring stock: half a transfer or half an order is then no
\* adjustment, and cannot pass for one.
OneUnit == {1}

\* Both products, against the order of the delivery below; a line that is
\* truncated to zero; a product on two lines.
Orders ==
    {<<[product |-> p2, quantity |-> 1], [product |-> p1, quantity |-> 1]>>,
     <<[product |-> p1, quantity |-> 1], [product |-> p1, quantity |-> 0]>>,
     <<[product |-> p1, quantity |-> 1], [product |-> p1, quantity |-> 1]>>}

\* Both products in one warehouse, one in another.
Suppliers ==
    {<<[product |-> p1, warehouse |-> w1, quantity |-> 1],
       [product |-> p2, warehouse |-> w1, quantity |-> 1]>>,
     <<[product |-> p1, warehouse |-> w2, quantity |-> 1]>>}
=============================================================================
