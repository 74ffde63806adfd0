-------------------------------- MODULE Sales --------------------------------
(***************************************************************************)
(* Sales: orders and their invoices, what the desk is told of them, the    *)
(* chart the owner looks at, the costs of the invoices' lines, and the     *)
(* desktop's watch over the invoices' submissions.  A behaviour is one of  *)
(* them, chosen at the start; the others rest in their first state.        *)
(* Orders is extended, the others are instantiated on variables of their   *)
(* own.                                                                    *)
(***************************************************************************)
EXTENDS Orders

CONSTANTS
    Customer, Article, Sale, TypeOf, BuyerOf, Charged, Category, Excluded,
    NoCategory, Listed, AnchorCustomers, SharedCustomers, PastDays, Today,
    ClockEnd, Moves, Refreshed,                                    \* insight
    ChartDay, Week, Month, PageDays, WeekMonths, PageMonths, MaxSold,
    MaxRequests, Patient,                                          \* trend
    InvoiceLine, DateOf, OwnCost, NoCost, Purchase, Backfill, BatchSize, \* costs
    Invoice, First, Following                                      \* watch

VARIABLES
    part,
    sales, category, today, table, answer,                 \* insight
    sold, period, items, hasMore, asked, underway,         \* trend
    purchases, cost, draft, runs, after, last, decided, undisturbed, \* costs
    server, visible, tracked, cycle, state, left, invoice, status, changed,
    told, shown, standing                                  \* watch

Part == {"orders", "insight", "trend", "costs", "watch"}

Insight == INSTANCE SalesInsight WITH
    Product <- Article, Order <- Sale, orders <- sales, LastDay <- ClockEnd

Trend == INSTANCE RevenueTrend WITH Today <- ChartDay

Costs == INSTANCE UnitCosts WITH pc <- runs

Watch == INSTANCE EguiMonitor WITH
    pc <- cycle, todo <- left, asked <- invoice, answer <- status

ASSUME SalesAssumption ==
    /\ Insight!InsightAssumption /\ Trend!TrendAssumption
    /\ Costs!CostAssumption /\ Watch!MonitorAssumption

insight == <<sales, category, today, table, answer>>
trend == <<sold, period, items, hasMore, asked, underway>>
costs == <<purchases, cost, draft, runs, after, last, decided, undisturbed>>
watch == <<server, visible, tracked, cycle, state, left, invoice, status, changed,
           told, shown, standing>>
all == <<part, vars, insight, trend, costs, watch>>

AllInit ==
    /\ part \in Part
    /\ Init /\ (part # "orders" => keyed /\ stock = [p \in Product |-> 0])
    /\ \/ part = "insight" /\ Insight!Init
       \/ /\ part # "insight"
          /\ sales = <<>> /\ category = <<>> /\ today = 0 /\ table = {}
          /\ answer = Insight!NoAnswer
    /\ \/ part = "trend" /\ Trend!Init
       \/ /\ part # "trend"
          /\ sold = {} /\ period = "day" /\ items = <<>> /\ hasMore = FALSE
          /\ asked = 1 /\ underway = {}
    /\ Costs!Init
    /\ Watch!Init /\ (part # "watch" => invoice = CHOOSE i \in Invoice : TRUE)

Others(p) ==
    /\ UNCHANGED part
    /\ IF p = "orders" THEN TRUE ELSE UNCHANGED vars
    /\ IF p = "insight" THEN TRUE ELSE UNCHANGED insight
    /\ IF p = "trend" THEN TRUE ELSE UNCHANGED trend
    /\ IF p = "costs" THEN TRUE ELSE UNCHANGED costs
    /\ IF p = "watch" THEN TRUE ELSE UNCHANGED watch

OrderSteps == part = "orders" /\ Next /\ Others("orders")
InsightSteps == part = "insight" /\ Insight!Next /\ Others("insight")
TrendSteps == part = "trend" /\ Trend!Next /\ Others("trend")
CostSteps == part = "costs" /\ Costs!Next /\ Others("costs")
WatchSteps == part = "watch" /\ Watch!Next /\ Others("watch")
AllNext == OrderSteps \/ InsightSteps \/ TrendSteps \/ CostSteps \/ WatchSteps

AllSpec == AllInit /\ [][AllNext]_all
-----------------------------------------------------------------------------
(* Properties: those of Orders, and of the others under their names here. *)

AllTypeOK ==
    /\ part \in Part
    /\ TypeOK
    /\ part = "insight" => Insight!TypeOK
    /\ part = "trend" => Trend!TypeOK
    /\ part = "costs" => Costs!TypeOK
    /\ part = "watch" => Watch!TypeOK

\* The single queries see the market only, and every market is met with no
\* answer under way: nobody has to ask for one.
JustLooking == part = "insight" /\ answer = Insight!NoAnswer

\* Figures of different queries add up, and the risk list, a customer's profile
\* and the prospects agree about everybody.
FiguresFitTogether ==
    JustLooking => Insight!FiguresFitTogether /\ Insight!CustomersAreSeenAlike

\* Answers that are read in several transactions stay true: new and end-of-life
\* products are, whatever the monthly table holds, and the drivers of a change
\* of revenue add up to it.
AnswersTellTheTruth ==
    part = "insight" => Insight!StagesTellTheTruth /\ Insight!DriversAddUp

\* Pages of days and months of the chart join without a gap or an overlap.
PagesJoin == Trend!PagesJoin

\* A known cost of an issued line never changes; one that is filled in is the
\* price of a purchase by the date of the invoice, an undisturbed backfill
\* leaves no such line out, and the product page shows the cost of today.
CostsAreFinal ==
    Costs!CostsAreFinal /\ Costs!NothingIsLeftOut /\ []Costs!PageShowsTheCost

\* A notification of the desktop brings news, and an invoice stays watched, as
\* long as no cycle of the monitor disturbs what is remembered of the invoice.
NewsIsNew == Watch!NewsIsNew /\ []Watch!StaysTracked
=============================================================================
