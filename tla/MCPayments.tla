------------------------------ MODULE MCPayments ------------------------------
(* The two days on small instances, and the days the reports are read on. *)
EXTENDS MCReceivables, Payments

\* The quiet day: two invoices of one customer, payments of one unit of two.  Both
\* invoices are overdue on the last day, one of them has no order and so no terms.
BilledOnDay == [i \in Invoice |-> IF i = 1 THEN 190 ELSE 100]
PaidOnDay == [p \in Payment |-> IF p = 12 THEN 70 ELSE 130]
DaysApart == [p \in Payment |-> [i \in Invoice |->
                LET gap == PaidOnDay[p] - BilledOnDay[i]
                IN  IF gap < 0 THEN -gap ELSE gap]]
TermsOfOne == [i \in Invoice |-> IF i = 1 THEN NoTerms ELSE 100]
OneCostUnknown == [i \in Invoice |-> IF i = 1 THEN <<1, NoCost>> ELSE <<1>>]
TwoBills == {[date |-> 190, open |-> 2], [date |-> 150, open |-> 1]}
OnePaidOut == {[date |-> 100, amount |-> 2]}
TwoUnits == [c \in Customer |-> 2]

\* The busy day: two amounts for one invoice.
BusyBilled == [i \in BusyInvoice |-> "c1"]
BusyPayer == [p \in BusyPayment |-> "c1"]
BusyTwo == [i \in BusyInvoice |-> 2]
BusyOneAndTwo == [p \in BusyPayment |-> IF p = 11 THEN 1 ELSE 2]
BusyNear == [p \in BusyPayment |-> [i \in BusyInvoice |-> IF p = 11 THEN 60 ELSE 120]]
=============================================================================
