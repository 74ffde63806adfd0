\* A payment is matched while a reconciliation runs.
CONSTANTS
    Session = {s1, s2}
    NoSession = NoSession
    NoRow = NoRow
    Invoice = {1, 2}
    Payment = {11, 12}
    Customer = {"c1", "c2"}
    BilledTo <- TwoCustomers
    PaidBy <- TwoPayers
    Total <- TwoAndOne
    Amount <- OneUnit
    Distance <- Near
    Window = 90
    Exclusive = FALSE
SPECIFICATION Spec
PROPERTY MatchIsFinal
