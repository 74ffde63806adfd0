--------------------------- MODULE StockMovements ---------------------------
(***************************************************************************)
(* What the inventory service promises about stock: every request that     *)
(* succeeds moves all of what it asked for at one instant, against the     *)
(* quantities of that instant, and a request that fails moves nothing.     *)
(* Module StockLedger implements it with row locks and transactions.       *)
(***************************************************************************)
EXTENDS Integers, Sequences, Functions

CONSTANTS Product, Warehouse, MaxInt,
          AdjustChange, TransferQuantity, OrderLines, Deliveries

Row == Product \X Warehouse
Quantity == 0 .. MaxInt

VARIABLES exists, stock

Init ==
    /\ exists \in SUBSET Row
    /\ stock \in [Row -> Quantity]
    /\ \A r \in Row \ exists : stock[r] = 0

Adjust(r, change) ==
    /\ change # 0
    /\ stock[r] + change \in Quantity
    /\ stock' = [stock EXCEPT ![r] = @ + change]
    /\ exists' = exists \cup {r}

Transfer(p, from, to, quantity) ==
    /\ from # to
    /\ quantity > 0
    /\ stock[<<p, from>>] >= quantity
    /\ stock[<<p, to>>] + quantity \in Quantity
    /\ stock' = [stock EXCEPT ![<<p, from>>] = @ - quantity,
                              ![<<p, to>>] = @ + quantity]
    /\ exists' = exists \cup {<<p, to>>}

\* What the lines of a request that concern a stock row take of it, or bring.
Total(lines, concerned) ==
    SumFunctionOnSet([i \in DOMAIN lines |-> lines[i].quantity], concerned)

\* All lines of an order come out of one warehouse.
Reserve(lines, w) ==
    /\ stock' = [r \in Row |->
          IF r[2] = w
          THEN stock[r] - Total(lines, {i \in DOMAIN lines : lines[i].product = r[1]})
          ELSE stock[r]]
    /\ \A r \in Row : stock'[r] \in Quantity
    /\ UNCHANGED exists

\* A delivery arrives with all its lines, each at its own warehouse.
Receive(lines) ==
    /\ stock' = [r \in Row |->
          stock[r] + Total(lines, {i \in DOMAIN lines :
                                      <<lines[i].product, lines[i].warehouse>> = r})]
    /\ \A r \in Row : stock'[r] \in Quantity
    /\ exists' = exists \cup
          {<<lines[i].product, lines[i].warehouse>> : i \in DOMAIN lines}

Next ==
    \/ \E r \in Row, change \in AdjustChange : Adjust(r, change)
    \/ \E p \in Product, from, to \in Warehouse, q \in TransferQuantity :
          Transfer(p, from, to, q)
    \/ \E lines \in OrderLines, w \in Warehouse : Reserve(lines, w)
    \/ \E lines \in Deliveries : Receive(lines)

Spec == Init /\ [][Next]_<<exists, stock>>
=============================================================================
