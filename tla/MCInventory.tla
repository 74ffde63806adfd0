----------------------------- MODULE MCInventory -----------------------------
(* Inventory on small instances. *)
EXTENDS MCStockLedger, Inventory

\* The first warehouse has no lead time and no factor of its own yet; its
\* supplier loses its dominance by one delivery of the other, and then a third
\* counts, from whom an order is under way.  A sale is two units, and at most
\* three count.
FourEach == [r \in {"w1", "w2"} |-> 4]
DefaultDays == [x \in {"a", "b", "c"} |-> CASE x = "a" -> 3 [] x = "b" -> 0 [] x = "c" -> 4]
SoldOn(days) == [i \in DOMAIN days |-> [at |-> days[i], units |-> 1]]
SoldBefore == [r \in {"w1", "w2"} |-> IF r = "w1" THEN SoldOn(<<9, 10>>)
                                                 ELSE SoldOn(<<10, 10, 10>>)]
OneDelivery == <<[row |-> "w1", supplier |-> "a", took |-> 2, on |-> 8]>>
OtherSupplier == {[row |-> "w1", supplier |-> "b", took |-> 1]}
UnderWay == {<<"w1", "c">>}
Planned(factor, lead, cycle) ==
    [point |-> 0, factor |-> factor, lead |-> lead, policy |-> "continuous",
     target |-> 0, horizon |-> 0, cycle |-> cycle, coming |-> 0]
AtFirst == {[r \in {"w1", "w2"} |-> IF r = "w1" THEN Planned(0, 0, 1)
                                                ELSE Planned(1, 1, 0)]}
TurnManual == {[row |-> "w1", body |-> [c \in {"policy"} |-> "manual"]]}

\* Some movements are older than the lookback of the usage.
OneEach == [r \in {"w1", "w2"} |-> 1]
Moved(day, change, sale) == [at |-> day, change |-> change, sale |-> sale]
MovedBefore == [r \in {"w1", "w2"} |->
                   IF r = "w1" THEN <<Moved(7, 2, FALSE), Moved(8, -1, TRUE)>>
                               ELSE <<Moved(9, 1, FALSE)>>]

UpOrDown == {-1, 1}
=============================================================================
