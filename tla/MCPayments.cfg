\* Quiet: two invoices of one customer.  Busy: one invoice, two amounts.
CONSTANTS
    Session = {s1, s2}
    NoSession = NoSession
    NoRow = NoRow
    Invoice = {1, 2}
    Payment = {11, 12, 14}
    Customer = {"c1", "c2"}
    BilledTo <- TwoCustomers
    PaidBy <- TwoPayers
    Total <- TwoAndOne
    Amount <- OneUnit
    Distance <- DaysApart
    Window = 90
    Exclusive = TRUE
    InvoiceDate <- BilledOnDay
    PaymentDate <- PaidOnDay
    Terms <- TermsOfOne
    NoTerms = NoTerms
    UnitCosts <- OneCostUnknown
    NoCost = NoCost
    Bills <- TwoBills
    PaidOut <- OnePaidOut
    CreditLimit <- TwoUnits
    Days = {190, 191, 200, 201, 231, 262, 312}
    BusyInvoice = {1}
    BusyPayment = {11, 12}
    BusyBilledTo <- BusyBilled
    BusyPaidBy <- BusyPayer
    BusyTotal <- BusyTwo
    BusyAmount <- BusyOneAndTwo
    BusyDistance <- BusyNear
SPECIFICATION DaysSpec
INVARIANTS TypeOK VoidedHasNoPayments Settled ReportsAgree
PROPERTIES BookingsAreAtomic VoidIsFinal BusyDay
