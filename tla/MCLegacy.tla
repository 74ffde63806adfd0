------------------------------- MODULE MCLegacy -------------------------------
(***************************************************************************)
(* The legacy import on small exports.                                     *)
(***************************************************************************)
EXTENDS Legacy, TLC

\* Purchase headers and their details, whose table comes first by name, of two
\* exports: details of the second refer to a header that it lacks.
Tables == <<"tbscust", "tbsslipdtj", "tbsslipj">>
AllOrPurchases == {<< >>, <<"tbsslipj", "tbsslipdtj">>}
Files == {"tbscust", "tbsslipdtj", "tbsslipj"} \X {"good", "orphans"}
OneKey == [td \in Files |-> {1}]
OneOrphan == [td \in Files |-> IF td = <<"tbsslipdtj", "orphans">> THEN {1, 2} ELSE {1}]

Person(c, t, tax, n) == [code |-> c, type |-> t, taxId |-> tax, number |-> n]
Product(c, k, f) == [code |-> c, kind |-> k, fits |-> f]
Shelf(p, w, q) == [product |-> p, warehouse |-> w, tenths |-> q]
Sale(d, c, ls) ==
    [doc |-> d, customer |-> c, status |-> "2", lines |-> ls, price |-> 3,
     original |-> 4, ratio |-> 75, tax |-> 1]
Bill(d, s, ls) ==
    [doc |-> d, supplier |-> s, lines |-> ls, tax |-> 2, subtotal |-> 4, mustPay |-> 1,
     date |-> 1, received |-> NoDate, warehouse |-> "A", product |-> "p9"]
Pay(n, t) == [number |-> n, table |-> t, party |-> 2, date |-> 1, amount |-> 1]

\* The second export lacks a customer, which it has for the sale; the sale has
\* lost a line and the bill some.  It has the product the first one lacked and
\* one payment less.
Exported == [
    first |->
        [parties |-> {Person(1, "2", 0, 7), Person(2, "1", 0, 8), Person(3, "2", 7, 9)},
         products |-> {Product("p1", "1", {"code-prefix-v-belts"})},
         stock |-> {Shelf("p1", "A", 25)},
         sales |-> {Sale("s1", 1, <<"p1", "p9">>)}, bills |-> {Bill("b1", 2, <<1, 1, 1, 1>>)},
         payments |-> {Pay("n1", "tbsspay"), Pay("n2", "tbsprepay")}],
    second |->
        [parties |-> {Person(1, "2", 0, 7), Person(2, "1", 0, 8)},
         products |-> {Product("p1", "1", {"code-prefix-v-belts"}), Product("p9", "1", {})},
         stock |-> {Shelf("p1", "A", 25)},
         sales |-> {Sale("s1", 3, <<"p9">>)}, bills |-> {Bill("b1", 2, <<1, 1>>)},
         payments |-> {Pay("n1", "tbsspay")}]]

\* Everything, or only the sales.
Selections == {Table, {"tbsslipx"}}

Symmetry == Permutations(Importer) \cup Permutations(Process)
=============================================================================
