--------------------------- MODULE MCReceivables ---------------------------
(* Receivables on small instances. *)
EXTENDS Receivables, TLC

\* Two customers: invoices 1 and 2 and payments 11 to 13 are c1's, the rest c2's.
TwoCustomers == [i \in Invoice |-> IF i \in {1, 2} THEN "c1" ELSE "c2"]
TwoPayers == [p \in Payment |-> IF p \in 11 .. 13 THEN "c1" ELSE "c2"]

\* Invoice 1 asks for two units, the others for one.
TwoAndOne == [i \in Invoice |-> IF i = 1 THEN 2 ELSE 1]
OneUnit == [p \in Payment |-> 1]
Ones == [i \in Invoice |-> 1]

\* Payment 11 brings one unit, the others two.
OneAndTwo == [p \in Payment |-> IF p = 11 THEN 1 ELSE 2]

\* Invoice 2 is nearer to every payment; invoice 1 is too far from payment 12.
Near == [p \in Payment |-> [i \in Invoice |->
            IF i = 2 THEN 30 ELSE IF p = 12 THEN 120 ELSE 60]]
=============================================================================
