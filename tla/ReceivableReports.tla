-------------------------- MODULE ReceivableReports --------------------------
(***************************************************************************)
(* What the program says of invoices and payments.  Each place adds them   *)
(* up with a query of its own: the invoice list and its status filter, a   *)
(* customer's outstanding summary, statement and analytics                 *)
(* (domains/invoices/service.py, domains/customers/service.py), the aging  *)
(* reports (domains/reports/services.py), and the indicators, margin, cash *)
(* flow and best customers of the owner dashboard                          *)
(* (domains/dashboard/services.py).  The answers are operators of the      *)
(* committed rows; their steps are those of module Receivables.            *)
(*                                                                         *)
(* Abstracted: the tenant; one currency; paging, search and the order of   *)
(* rows; months have 30 days; a ratio is compared instead of rounded.      *)
(* Supplier invoices and payments come from imports and do not change.     *)
(***************************************************************************)
EXTENDS Integers, FiniteSets, FiniteSetsExt

CONSTANTS
    Invoice, Payment, Customer,
    BilledTo, Total, Amount,
    InvoiceDate, PaymentDate,
    Terms, NoTerms,     \* payment_terms_days of the invoice's order, if it has one
    UnitCosts, NoCost,  \* the unit costs on the lines of each invoice, one unit each
    Bills,              \* supplier invoices: [date, open], what is left to pay
    PaidOut,            \* supplier payments: [date, amount]
    CreditLimit         \* of each customer

VARIABLES status, payments

ReportsAssumption ==
    /\ IsFiniteSet(Invoice) /\ IsFiniteSet(Payment) /\ IsFiniteSet(Customer)
    /\ BilledTo \in [Invoice -> Customer]
    /\ Total \in [Invoice -> Nat] /\ Amount \in [Payment -> Nat]
    /\ InvoiceDate \in [Invoice -> Nat] /\ PaymentDate \in [Payment -> Nat]
    /\ Terms \in [Invoice -> Nat \cup {NoTerms}] /\ NoTerms \notin Nat
    /\ NoCost \notin Nat
    /\ IsFiniteSet(Bills) /\ \A x \in Bills : x.date \in Nat /\ x.open \in Nat
    /\ CreditLimit \in [Customer -> Nat]

\* The weights of the members of S, added up.
SumOf(w, S) == MapThenSumSet(LAMBDA x : w[x], S)
Received(ps) == SumOf(Amount, ps)
Billed(is) == SumOf(Total, is)
InvoicesOf(c) == {i \in Invoice : BilledTo[i] = c}
NotVoided == {i \in Invoice : status[i] # "voided"}
Matched == {p \in Payment : payments[p].match = "matched"}
Settling(i) == {p \in Matched : payments[p].invoice = i}
-----------------------------------------------------------------------------
(* Payment status of an invoice *)

DueDate(i) == InvoiceDate[i] + (IF Terms[i] = NoTerms THEN 30 ELSE Terms[i])

AmountPaid(i) == Received(Settling(i))
OutstandingBalance(i) ==
    IF AmountPaid(i) > Total[i] THEN 0 ELSE Total[i] - AmountPaid(i)
Owing(is) == SumOf([i \in Invoice |-> OutstandingBalance(i)], is)

PaymentStatus(i, today) ==
    IF status[i] = "voided" THEN "voided"
    ELSE IF status[i] = "paid" \/ AmountPaid(i) >= Total[i] THEN "paid"
    ELSE IF today > DueDate(i) THEN "overdue"
    ELSE IF AmountPaid(i) > 0 THEN "partial"
    ELSE "unpaid"

DaysOverdue(i, today) ==
    IF OutstandingBalance(i) > 0 /\ today > DueDate(i) THEN today - DueDate(i) ELSE 0

\* compute_invoice_payment_summary, and each row of enrich_invoices.
Summary(i, today) ==
    [paid |-> AmountPaid(i), outstanding |-> OutstandingBalance(i),
     status |-> PaymentStatus(i, today), due |-> DueDate(i),
     overdue |-> DaysOverdue(i, today)]

\* The clauses of the list's status filter, written in SQL.
Unsettled_Any(i) == OutstandingBalance(i) > 0  \* mutant: voided invoices too
Unsettled(i) == OutstandingBalance(i) > 0 /\ status[i] \notin {"voided", "paid"}
FilterClause(i, s, today) ==
    CASE s = "paid" ->
           status[i] # "voided" /\ (status[i] = "paid" \/ OutstandingBalance(i) = 0)
      [] s = "unpaid" -> Unsettled(i) /\ AmountPaid(i) = 0 /\ DueDate(i) >= today
      [] s = "partial" -> Unsettled(i) /\ AmountPaid(i) > 0 /\ DueDate(i) >= today
      [] s = "overdue" -> Unsettled(i) /\ DueDate(i) < today

\* list_invoices: a customer's or all, by date and status, each with its summary.
ListInvoices(is, from, to, s, today) ==
    {[invoice |-> i, summary |-> Summary(i, today)] :
        i \in {x \in is : InvoiceDate[x] \in from .. to /\ FilterClause(x, s, today)}}

\* get_customer_outstanding.
CustomerOutstanding(c, today) ==
    LET mine == InvoicesOf(c) \cap NotVoided
        late == {i \in mine : PaymentStatus(i, today) = "overdue"}
    IN  [outstanding |-> Owing(mine),
         overdue |-> Owing(late),
         overdueCount |-> Cardinality({i \in late : OutstandingBalance(i) > 0}),
         invoices |-> Cardinality(mine)]
-----------------------------------------------------------------------------
(* Aging *)

Buckets == {"0-30", "31-60", "61-90", "90+"}
InBucket(b, age) == CASE b = "0-30" -> age =< 30
                      [] b = "31-60" -> age > 30 /\ age =< 60
                      [] b = "61-90" -> age > 60 /\ age =< 90
                      [] b = "90+" -> age > 90

\* get_ar_aging_report: by days past the due date.
ArAging(today) ==
    LET open == {i \in Invoice : status[i] \notin {"voided", "paid"}}
        Late(b) == {i \in open : /\ today > DueDate(i) /\ InBucket(b, today - DueDate(i))
                                 /\ OutstandingBalance(i) > 0}
    IN  [amount |-> [b \in Buckets |-> Owing(Late(b))],
         count |-> [b \in Buckets |-> Cardinality(Late(b))],
         outstanding |-> Owing(open),
         overdue |-> Owing({i \in open : today > DueDate(i)})]

\* get_ap_aging_report: by days since the date of the bill.  The first bucket's
\* amount includes the bills of today, its count does not.
ApAging(today) ==
    LET open == {x \in Bills : x.open > 0}
        Of(b, first) == {x \in open : /\ today - x.date >= first
                                      /\ InBucket(b, today - x.date)}
        Sum(xs) == SumOf([x \in Bills |-> x.open], xs)
    IN  [amount |-> [b \in Buckets |-> Sum(Of(b, 0))],
         count |-> [b \in Buckets |-> Cardinality(Of(b, 1))],
         outstanding |-> Sum(open),
         overdue |-> Sum({x \in open : today > x.date})]
-----------------------------------------------------------------------------
(* The owner dashboard *)

\* _sum_revenue_for_date and the revenue of get_revenue_summary.
RevenueOn(d) == Billed({i \in NotVoided : InvoiceDate[i] = d})

\* What the owner and the customer's page call open: whatever names an invoice is
\* subtracted from it.
Naming(i) == {p \in Payment : payments[p].invoice = i}
Unpaid(is) == SumOf([i \in Invoice |-> Total[i] - Received(Naming(i))], is)

\* get_kpi_summary: an overdue invoice counts in full.
KpiSummary(today) ==
    LET issued == {i \in Invoice : status[i] = "issued"}
    IN  [today |-> RevenueOn(today), yesterday |-> RevenueOn(today - 1),
         openCount |-> Cardinality(issued),
         open |-> Unpaid(issued),
         overdue |-> Billed({i \in issued : DueDate(i) < today})]

\* _get_gross_margin_period: the costs known of the lines, and whether all are.
GrossMargin(from, to) ==
    LET period == {i \in NotVoided : InvoiceDate[i] \in from .. to}
        Known(i) == {k \in DOMAIN UnitCosts[i] : UnitCosts[i][k] # NoCost}
        cogs == SumOf([i \in period |-> SumOf(UnitCosts[i], Known(i))], period)
    IN  [revenue |-> Billed(period), cogs |-> cogs, margin |-> Billed(period) - cogs,
         available |-> /\ \E i \in period : DOMAIN UnitCosts[i] # {}
                       /\ \A i \in period : Known(i) = DOMAIN UnitCosts[i]]

\* get_top_customers of a month, quarter or year.
TopCustomers(from, to) ==
    LET Their(c) == {i \in InvoicesOf(c) : /\ InvoiceDate[i] \in from .. to
                                           /\ status[i] \in {"paid", "issued"}}
    IN  [c \in {x \in Customer : Their(x) # {}} |->
            [revenue |-> Billed(Their(c)), invoices |-> Cardinality(Their(c)),
             last |-> Max({InvoiceDate[i] : i \in Their(c)})]]

\* get_cash_flow: the days of the range with what came in, what went out and the
\* running balance.
CameIn(from, to) == {p \in Matched : PaymentDate[p] \in from .. to}
WentOut(from, to) ==
    SumOf([x \in PaidOut |-> x.amount], {x \in PaidOut : x.date \in from .. to})
CashFlow(from, to) ==
    [inflows |-> Received(CameIn(from, to)), outflows |-> WentOut(from, to),
     net |-> Received(CameIn(from, to)) - WentOut(from, to),
     balance |-> [d \in from .. to |-> Received(CameIn(from, d)) - WentOut(from, d)]]
-----------------------------------------------------------------------------
(* Customers *)

\* get_customer_statement, from and to a day: nothing at all when no invoice of
\* the customer is dated in between.
StatementOf(c, from, to) ==
    LET mine == InvoicesOf(c) \cap NotVoided
        listed == {i \in mine : InvoiceDate[i] \in from .. to}
        earlier == {i \in mine : InvoiceDate[i] < from}
        Payments(is) == UNION {Settling(i) : i \in is}
        paid == {p \in Payments(listed) : PaymentDate[p] \in from .. to}
        opening == Billed(earlier) - Received(Payments(earlier))
    IN  IF listed = {} THEN [opening |-> 0, lines |-> {}, closing |-> 0]
        ELSE [opening |-> opening,
              lines |-> {[date |-> InvoiceDate[i], row |-> i] : i \in listed}
                        \cup {[date |-> PaymentDate[p], row |-> p] : p \in paid},
              closing |-> opening + Billed(listed) - Received(paid)]

\* get_customer_analytics_summary.  An average of days is rounded to a tenth.
AverageAtMost(total, n, days) == 20 * total =< (20 * days + 1) * n
PaymentScore(c, today) ==
    LET paid == {p \in Matched : /\ payments[p].invoice \in InvoicesOf(c)
                                 /\ status[payments[p].invoice] = "paid"
                                 /\ PaymentDate[p] >= today - 365}
        total == SumOf([p \in paid |-> PaymentDate[p] - InvoiceDate[payments[p].invoice]], paid)
        Within(days) == paid # {} /\ AverageAtMost(total, Cardinality(paid), days)
    IN  IF Within(15) THEN "excellent" ELSE IF Within(30) THEN "prompt"
        ELSE IF Within(60) THEN "late" ELSE "at_risk"
Analytics(c, today) ==
    LET issued == {i \in InvoicesOf(c) : status[i] = "issued"}
        year == {i \in InvoicesOf(c) : /\ InvoiceDate[i] \in today - 365 .. today
                                       /\ status[i] \in {"paid", "issued"}}
        outstanding == Unpaid(issued)
    IN  [revenue |-> Billed(year), invoices |-> Cardinality(year),
         outstanding |-> outstanding,
         overLimit |-> CreditLimit[c] > 0 /\ outstanding > CreditLimit[c],
         score |-> PaymentScore(c, today)]

\* get_customer_revenue_trend: the months that are over.
MonthStart(d) == 30 * (d \div 30)
CustomerTrend(c, months, today) ==
    LET Revenue(m) == Billed({i \in InvoicesOf(c) : /\ status[i] \in {"paid", "issued"}
                                                    /\ MonthStart(InvoiceDate[i]) = m})
        first == MonthStart(today) \div 30 - months
    IN  [m \in {30 * k : k \in first .. MonthStart(today) \div 30 - 1} |-> Revenue(m)]
-----------------------------------------------------------------------------
(* Properties *)

\* On any day all places tell the same: an invoice is listed under the status
\* shown beside it and no other; what customers owe is what is aging, what the
\* dashboard calls open, what their analytics show and what their statements
\* close at; what is late adds up over the customers, the buckets and the
\* report, and the dashboard never shows less.  So do the buckets of the bills.
ReportsAgreeOn(today) ==
    LET aging == ArAging(today)
        kpi == KpiSummary(today)
        Owed(c) == CustomerOutstanding(c, today)
        EveryBucket(f) == SumOf(f, Buckets)
    IN  /\ \A s \in {"paid", "unpaid", "partial", "overdue"} :
              ListInvoices(Invoice, 0, today, s, today) =
                {[invoice |-> i, summary |-> Summary(i, today)] : i \in
                    {x \in Invoice : InvoiceDate[x] =< today /\ PaymentStatus(x, today) = s}}
        /\ aging.outstanding = kpi.open
        /\ aging.outstanding = SumOf([c \in Customer |-> Owed(c).outstanding], Customer)
        /\ \A c \in Customer :
              LET mine == Analytics(c, today)
              IN  /\ mine.outstanding = Owed(c).outstanding
                  /\ StatementOf(c, 0, today).closing = Owed(c).outstanding
                  /\ mine.score # "at_risk" => \E i \in InvoicesOf(c) : status[i] = "paid"
        /\ aging.overdue = SumOf([c \in Customer |-> Owed(c).overdue], Customer)
        /\ aging.overdue = EveryBucket(aging.amount)
        /\ EveryBucket(aging.count) = SumOf([c \in Customer |-> Owed(c).overdueCount], Customer)
        /\ aging.overdue =< kpi.overdue
        /\ LET payable == ApAging(today)
           IN  /\ EveryBucket(payable.amount) = payable.outstanding
               /\ payable.overdue =< payable.outstanding

\* What was billed has been paid or is owed, whoever adds it up: the revenue of
\* a period, by customer or in all, is the cash that came in for its invoices
\* plus what of them is aging, and the days of the cash flow lead to its net.
BilledIsPaidOrOwedOn(today) ==
    LET margin == GrossMargin(0, today)
        top == TopCustomers(0, today)
        cash == CashFlow(0, today)
        kpi == KpiSummary(today)
    IN  /\ margin.revenue = cash.inflows + ArAging(today).outstanding
        /\ margin.revenue = SumOf([c \in DOMAIN top |-> top[c].revenue], DOMAIN top)
        /\ cash.balance[today] = cash.net
        /\ \A c \in DOMAIN top :
              LET trend == CustomerTrend(c, 12, today)
                  this == {i \in InvoicesOf(c) \cap NotVoided :
                              InvoiceDate[i] \in MonthStart(today) .. today}
              IN  /\ SumOf(trend, DOMAIN trend) + Billed(this) = top[c].revenue
                  /\ Analytics(c, today).revenue = top[c].revenue
        /\ GrossMargin(today - 1, today).revenue = kpi.today + kpi.yesterday
=============================================================================
