---------------------------- MODULE SalesInsight ----------------------------
(***************************************************************************)
(* What src/backend/domains/intelligence/service.py tells the sales desk   *)
(* of customers, categories and products, over orders that are confirmed   *)
(* and cancelled, products that change category and months that end.  Most *)
(* answers are one query over the committed orders and are operators of    *)
(* the state; revenue diagnosis and product performance are put together   *)
(* from several transactions, between which anything may happen, and read  *)
(* the monthly table (module SalesMonthly, one refresh being a step here). *)
(*                                                                         *)
(* Time is in days, a month is 30 of them and a year twelve months.        *)
(* Abstracted: names, order of equal rows and limits of the answers;       *)
(* confirmed, shipped and fulfilled orders count alike and are "confirmed" *)
(* here; amounts are whole units, and a ratio is compared, not rounded; a  *)
(* line is one unit of a product.                                          *)
(***************************************************************************)
EXTENDS Integers, FiniteSets, FiniteSetsExt

CONSTANTS
    Customer, Product, Order,
    TypeOf,             \* dealer, end user ... of each customer
    BuyerOf, Charged,   \* the customer of an order, and what it pays for each product on it
    Category, Excluded, \* product categories, and those that are no merchandise
    NoCategory,
    Listed,             \* the first category of each product
    AnchorCustomers, SharedCustomers, \* what a cross-selling pair needs (5, 3)
    PastDays,           \* when the orders of the past were made
    Today, LastDay,     \* the clock
    Moves, Refreshed    \* bounds: categories products move to, months refreshed

InsightAssumption ==
    /\ IsFiniteSet(Customer) /\ IsFiniteSet(Product) /\ IsFiniteSet(Order)
    /\ IsFiniteSet(Category)
    /\ TypeOf \in [Customer -> STRING] /\ BuyerOf \in [Order -> Customer]
    /\ \A o \in Order : /\ DOMAIN Charged[o] \subseteq Product
                        /\ Charged[o] \in [DOMAIN Charged[o] -> Nat]
    /\ Excluded \subseteq Category /\ NoCategory \notin Category
    /\ Listed \in [Product -> Category]
    /\ {AnchorCustomers, SharedCustomers} \subseteq Nat \ {0}
    /\ {Today, LastDay} \subseteq Nat /\ PastDays \subseteq 0 .. Today /\ Today =< LastDay
    /\ Moves \subseteq Product \X Category /\ Refreshed \subseteq Nat

NoDay == -1
Uncategorised == [p \in Product |-> NoCategory]

VARIABLES
    orders,    \* status, created_at, confirmed_at and the categories on the lines
    category,  \* the category of each product
    today,
    table,     \* the rows of sales_monthly
    answer     \* the answer that is being put together, or the last one

market == <<orders, category, today, table>>
vars == <<market, answer>>

OrderRow == [status : {"pending", "confirmed", "cancelled"}, created : 0 .. LastDay,
             confirmed : NoDay .. LastDay,
             snapshot : [Product -> Category \cup {NoCategory}]]

MonthOf(d) == d \div 30
Anchor == MonthOf(today)

\* coalesce(confirmed_at, created_at).
At(row) == IF row.confirmed = NoDay THEN row.created ELSE row.confirmed
Countable == {o \in Order : orders[o].status = "confirmed"}
ProductsOf(o) == DOMAIN Charged[o]
SumOf(w, S) == MapThenSumSet(LAMBDA x : w[x], S)
Amount(o) == SumOf(Charged[o], ProductsOf(o))
Paid(os) == SumOf([o \in os |-> Amount(o)], os)
Earned(p, os) == SumOf([o \in os |-> Charged[o][p]], os)
Buyers(os) == {BuyerOf[o] : o \in os}
-----------------------------------------------------------------------------
(* sales_monthly *)

\* The points of one month: lines with a category, by product and category.
SoldIn(m, p, c) ==
    {o \in Countable : /\ MonthOf(At(orders[o])) = m
                       /\ p \in ProductsOf(o) /\ orders[o].snapshot[p] = c}
Points(m) ==
    {[month |-> m, product |-> pc[1], category |-> pc[2],
      units |-> Cardinality(SoldIn(m, pc[1], pc[2])),
      revenue |-> Earned(pc[1], SoldIn(m, pc[1], pc[2]))]
     : pc \in {x \in Product \X Category : SoldIn(m, x[1], x[2]) # {}}}

\* read_sales_monthly_range: the table for months that are over, the orders for
\* the current one.
ReadRange(from, to) ==
    {x \in table : x.month \in from .. to /\ x.month < Anchor}
        \cup (IF Anchor \in from .. to THEN Points(Anchor) ELSE {})
-----------------------------------------------------------------------------
(* One query over the orders *)

\* The current and the prior window of a period, by created_at.
Between(from, to) == {o \in Countable : orders[o].created \in from .. to}
Current(n) == Between(today - n, today)
Prior(n) == Between(today - 2 * n, today - n - 1)

\* get_category_trends.
Merchandise == Category \ Excluded
In(os, c) == {o \in os : \E p \in ProductsOf(o) : category[p] = c}
Spent(os, c) ==
    SumOf([o \in os |-> SumOf(Charged[o], {p \in ProductsOf(o) : category[p] = c})], os)
NewCustomers_Window(n, c) ==  \* mutant: only the two windows are looked at
    Buyers(In(Current(n), c))
NewCustomers(n, c) ==
    {b \in Buyers(In(Countable, c)) :
        \A o \in In(Countable, c) : BuyerOf[o] = b => o \in Current(n)}
ChurnedCustomers(n, c) == Buyers(In(Prior(n), c)) \ Buyers(In(Current(n), c))
Trend(n, c) ==
    LET now == Spent(In(Current(n), c), c)
        before == Spent(In(Prior(n), c), c)
    IN  [revenue |-> now, prior |-> before,
         orders |-> Cardinality(In(Current(n), c)),
         customers |-> Cardinality(Buyers(In(Current(n), c))),
         priorCustomers |-> Cardinality(Buyers(In(Prior(n), c))),
         new |-> Cardinality(NewCustomers(n, c)),
         churned |-> Cardinality(ChurnedCustomers(n, c)),
         trend |-> IF before > 0 /\ 10 * now > 11 * before THEN "growing"
                   ELSE IF before > 0 /\ 10 * now < 9 * before THEN "declining"
                   ELSE "stable"]
Trends(n) ==
    [c \in {x \in Merchandise : In(Current(n) \cup Prior(n), x) # {}} |-> Trend(n, c)]

\* get_market_opportunities.
ByCustomer(os, b) == {o \in os : BuyerOf[o] = b}
Concentrated(n) ==
    {b \in Customer : LET whole == Paid(Current(n)) IN
        whole > 0 /\ 10 * Paid(ByCustomer(Current(n), b)) > 3 * whole}
GrowthSignals(n) ==
    {c \in DOMAIN Trends(n) : LET t == Trends(n)[c] IN
        t.trend = "growing" /\ t.customers >= 2 /\ t.orders >= 2}

\* get_customer_risk_signals: twelve months against the twelve before.
Created(os) == {orders[o].created : o \in os}
RiskStatus(b) ==
    LET all == ByCustomer(Countable, b)
        now == Paid(ByCustomer(Between(today - 360, today), b))
        before == Paid(ByCustomer(Between(today - 720, today - 361), b))
    IN  IF all = {} \/ today - Max(Created(all)) > 60 THEN "dormant"
        ELSE IF today - Min(Created(all)) =< 90 THEN "new"
        ELSE IF before > 0 /\ 5 * now >= 6 * before THEN "growing"
        ELSE IF before > 0 /\ 5 * now =< 4 * before THEN "at_risk"
        ELSE "stable"
Categories(os) == {category[p] : p \in UNION {ProductsOf(o) : o \in os}} \cap Merchandise
Risk(b) ==
    LET now == ByCustomer(Between(today - 360, today), b)
        before == ByCustomer(Between(today - 720, today - 361), b)
    IN  [status |-> RiskStatus(b), revenue |-> Paid(now), prior |-> Paid(before),
         orders |-> Cardinality(now), priorOrders |-> Cardinality(before),
         expanded |-> IF before = {} THEN {} ELSE Categories(now) \ Categories(before),
         contracted |-> IF before = {} THEN {} ELSE Categories(before) \ Categories(now)]

\* get_top_products: units and revenue of each product of the last n days.
TopProducts(n) ==
    [p \in UNION {ProductsOf(o) : o \in Current(n)} |->
        LET os == {o \in Current(n) : p \in ProductsOf(o)}
        IN  [units |-> Cardinality(os), revenue |-> Earned(p, os)]]

\* get_customer_product_profile.
NewCategories(b) ==
    {c \in Category : LET os == In(ByCustomer(Countable, b), c) IN
        os # {} /\ Min(Created(os)) >= today - 90}
Change(now, before, tenths) ==
    IF before = 0 THEN IF now > 0 THEN "increasing" ELSE "stable"
    ELSE IF 10 * now > (10 + tenths) * before THEN "increasing"
    ELSE IF 10 * now < (10 - tenths) * before THEN "declining" ELSE "stable"
Average(total, n) == IF n = 0 THEN 0 ELSE total \div n
Dormant(all) == all = {} \/ today - Max(Created(all)) > 60
Profile(b) ==
    LET all == ByCustomer(Countable, b)
        Recent(n) == ByCustomer(Between(today - n, today), b)
        Earlier(n) == ByCustomer(Between(today - 2 * n, today - n - 1), b)
        AverageOf(os) == Average(Paid(os), Cardinality(os))
    IN  [revenue |-> Paid(Recent(360)), orders |-> Cardinality(Recent(360)),
         priorOrders |-> Cardinality(Earlier(360)),
         prior |-> Paid(Earlier(360)),
         frequency |-> Change(Cardinality(Recent(90)), Cardinality(Earlier(90)), 2),
         value |-> Change(AverageOf(Recent(360)), AverageOf(Earlier(360)), 1),
         categories |-> [c \in {category[p] : p \in UNION {ProductsOf(o) : o \in Recent(360)}}
                               \ {NoCategory} |-> Spent(In(Recent(360), c), c)],
         new |-> NewCategories(b),
         dormant |-> Dormant(all)]

\* get_prospect_gaps, for customers of one type or of all.
OfType(t) == {b \in Customer : t = "all" \/ TypeOf[b] = t}
Available(t) == Categories({o \in Countable : BuyerOf[o] \in OfType(t)})
ExistingBuyers(t, c) == Buyers(In(Countable, c)) \cap OfType(t)
Prospects(t, c) ==
    IF c \notin Available(t) THEN {}
    ELSE {b \in OfType(t) \ ExistingBuyers(t, c) : Categories(ByCustomer(Countable, b)) # {}}
\* Within 0.3 of the buyers' average, itself a fraction.
Similar(value, values(_), S) ==
    LET total == SumOf([b \in S |-> values(b)], S)
        gap == value * Cardinality(S) - total
    IN  total > 0 /\ 10 * (IF gap < 0 THEN -gap ELSE gap) =< 3 * total
RecentOrders(b) == Cardinality(ByCustomer(Between(today - 360, today), b))
Breadth(b) == Cardinality(Categories(ByCustomer(Between(today - 360, today), b)))
Adjacent(t, c) ==
    Categories(In({o \in Countable : BuyerOf[o] \in OfType(t)}, c)) \ {c}
ProspectReasons(t, c, b) ==
    LET all == ByCustomer(Countable, b)
        idle == today - Max(Created(all))
    IN  {r \in {"frequency_match", "breadth_match", "adjacent_category_support",
                "recent_activity"} :
           CASE r = "frequency_match" ->
                    Similar(RecentOrders(b), RecentOrders, ExistingBuyers(t, c))
             [] r = "breadth_match" -> Similar(Breadth(b), Breadth, ExistingBuyers(t, c))
             [] r = "adjacent_category_support" -> Categories(all) \cap Adjacent(t, c) # {}
             [] r = "recent_activity" -> idle =< 90}
\* The best fifth of the customers, one at least.
HighValue(t, b) ==
    LET buyers == Buyers(Countable) \cap OfType(t)
        value == Paid(ByCustomer(Countable, b))
        better == {x \in buyers : Paid(ByCustomer(Countable, x)) > value}
        fifth == Cardinality(buyers) \div 5
    IN  value > 0 /\ Cardinality(better) < (IF fifth = 0 THEN 1 ELSE fifth)
ProspectTags(t, c, b) ==
    LET created == Created(ByCustomer(Countable, b))
    IN  {r \in {"dormant", "high_value", "adjacent_category", "new_customer"} :
           CASE r = "dormant" -> today - Max(created) > 90
             [] r = "high_value" -> HighValue(t, b)
             [] r = "adjacent_category" ->
                    Categories(ByCustomer(Countable, b)) \cap Adjacent(t, c) # {}
             [] r = "new_customer" -> today - Min(created) =< 90}

\* get_product_affinity_map: pairs of products with enough customers in common,
\* and the customers of each.
CustomersOf(p) == Buyers({o \in Countable : p \in ProductsOf(o)})
AffinityPairs(minShared) ==
    {[pair |-> {pq[1], pq[2]},
      shared |-> Cardinality(CustomersOf(pq[1]) \cap CustomersOf(pq[2])),
      either |-> Cardinality(CustomersOf(pq[1])) + Cardinality(CustomersOf(pq[2]))
                   - Cardinality(CustomersOf(pq[1]) \cap CustomersOf(pq[2]))]
     : pq \in {x \in Product \X Product :
                 /\ x[1] # x[2]
                 /\ Cardinality(CustomersOf(x[1]) \cap CustomersOf(x[2])) >= minShared}}

\* get_customer_buying_behavior of a window of months, by analytics timestamp
\* and the categories on the lines.
BehaviourLines(t, from, to) ==
    {op \in Order \X Product :
        /\ op[1] \in Countable /\ op[2] \in ProductsOf(op[1])
        /\ BuyerOf[op[1]] \in OfType(t)
        /\ MonthOf(At(orders[op[1]])) \in from .. to
        /\ orders[op[1]].snapshot[op[2]] \in Merchandise}
LineRevenue(ops) == SumOf([op \in ops |-> Charged[op[1]][op[2]]], ops)
BuyingPattern(t, from, to) ==
    [m \in from .. to |->
        LineRevenue({op \in BehaviourLines(t, from, to) : MonthOf(At(orders[op[1]])) = m})]
BuyingCategories(t, from, to) ==
    [c \in Merchandise |->
        LineRevenue({op \in BehaviourLines(t, from, to) : orders[op[1]].snapshot[op[2]] = c})]
\* Customers of the segment that buy both categories, and the pairs that enough
\* of them buy.
BuyersOfBoth(t, from, to, c, d) ==
    {b \in Customer : \A x \in {c, d} : \E op \in BehaviourLines(t, from, to) :
        BuyerOf[op[1]] = b /\ orders[op[1]].snapshot[op[2]] = x}
CrossSell(t, from, to) ==
    {cd \in Merchandise \X Merchandise :
        /\ cd[1] # cd[2]
        /\ Cardinality(BuyersOfBoth(t, from, to, cd[1], cd[1])) >= AnchorCustomers
        /\ Cardinality(BuyersOfBoth(t, from, to, cd[1], cd[2])) >= SharedCustomers}
-----------------------------------------------------------------------------
(* Answers put together from several reads *)

NoAnswer == [kind |-> "none", step |-> "idle", anchor |-> 0, from |-> 0, to |-> 0,
             now |-> {}, before |-> {}, rows |-> {}]

OfProduct(points, p) == {x \in points : x.product = p}
Revenue(points) == SumOf([x \in points |-> x.revenue], points)
Units(points) == SumOf([x \in points |-> x.units], points)

\* The revenue drivers.  A price is an average, rounded.
UnitPrice(points) == IF Units(points) > 0 THEN Revenue(points) \div Units(points) ELSE 0
Drivers(now, before) == {x.product : x \in now \cup before}
Driver(now, before, p) ==
    LET n == OfProduct(now, p)
        b == OfProduct(before, p)
        both == Units(n) > 0 /\ Units(b) > 0
        price == IF both THEN (UnitPrice(n) - UnitPrice(b)) * Units(n) ELSE 0
        volume == IF both THEN ((Units(now) - Units(before)) * Units(b) * UnitPrice(b))
                                    \div Units(before)
                  ELSE 0
    IN  [product |-> p, price |-> price, volume |-> volume,
         mix |-> Revenue(n) - Revenue(b) - price - volume,
         delta |-> Revenue(n) - Revenue(b)]

\* The lifecycle stage of a product.
Cutoff_Late(anchor) == anchor - 5  \* mutant: counts a month too few
Cutoff(anchor) == anchor - 6
Stage(now, before, first, last, from, anchor) ==
    IF now > 0 /\ before = 0 /\ first >= from THEN "new"
    ELSE IF now = 0 /\ before > 0 /\ last =< Cutoff(anchor) THEN "end_of_life"
    ELSE IF before > 0 /\ (now = 0 \/ 10 * now < 8 * before) THEN "declining"
    ELSE IF before > 0 /\ 10 * now >= 12 * before THEN "growing"
    ELSE IF now > 0 /\ before > 0 /\ last - first + 1 >= 24 THEN "mature"
    ELSE "stable"

\* The months in which a product was sold, whether its lines carry a category
\* or not.
SaleMonths(p) == {MonthOf(At(orders[o])) : o \in {x \in Countable : p \in ProductsOf(x)}}
Evidence(points, p) ==
    IF SaleMonths(p) # {} THEN SaleMonths(p) ELSE {x.month : x \in OfProduct(points, p)}
PerformanceRow(a, p) ==
    LET months == Evidence(a.now \cup a.before, p)
    IN  [product |-> p,
         stage |-> Stage(Revenue(OfProduct(a.now, p)), Revenue(OfProduct(a.before, p)),
                         Min(months), Max(months), a.from, a.anchor)]

\* GET /intelligence/product-performance, without or with the current month, and
\* /revenue-diagnosis of n months up to now: the windows are computed first.
AskPerformance(withCurrent) ==
    LET to == IF withCurrent THEN Anchor ELSE Anchor - 1
    IN  /\ answer.step = "idle"
        /\ answer' = [NoAnswer EXCEPT !.kind = "performance", !.step = "now",
                          !.anchor = Anchor, !.from = to - 11, !.to = to]
        /\ UNCHANGED market
AskDiagnosis(n) ==
    /\ answer.step = "idle"
    /\ answer' = [NoAnswer EXCEPT !.kind = "diagnosis", !.step = "now",
                      !.anchor = Anchor, !.from = Anchor - n + 1, !.to = Anchor]
    /\ UNCHANGED market

\* The current window, then the prior one of the same length, in a transaction
\* each.
ReadCurrent ==
    /\ answer.step = "now"
    /\ answer' = [answer EXCEPT !.now = ReadRange(answer.from, answer.to), !.step = "before"]
    /\ UNCHANGED market
ReadPrior ==
    LET length == answer.to - answer.from + 1
    IN  /\ answer.step = "before"
        /\ answer' = [answer EXCEPT
              !.before = ReadRange(answer.from - length, answer.from - 1), !.step = "rows"]
        /\ UNCHANGED market

\* The drivers of the diagnosis, or the evidence and the rows.
Conclude ==
    LET products == Drivers(answer.now, answer.before)
    IN  /\ answer.step = "rows"
        /\ answer' = [answer EXCEPT !.step = "idle", !.rows =
              IF answer.kind = "diagnosis"
              THEN {Driver(answer.now, answer.before, p) : p \in products}
              ELSE {PerformanceRow(answer, p) : p \in products}]
        /\ UNCHANGED market
-----------------------------------------------------------------------------
(* What changes meanwhile *)

ConfirmOrder(o) ==
    /\ orders[o].status = "pending"
    /\ orders' = [orders EXCEPT ![o].status = "confirmed", ![o].confirmed = today,
                      ![o].snapshot = [p \in Product |-> IF p \in ProductsOf(o) THEN category[p]
                                                         ELSE NoCategory]]
    /\ UNCHANGED <<category, today, table, answer>>
CancelOrder(o) ==
    /\ orders[o].status = "pending"
    /\ orders' = [orders EXCEPT ![o].status = "cancelled"]
    /\ UNCHANGED <<category, today, table, answer>>
UpdateCategory(p, c) ==
    /\ category[p] # c
    /\ category' = [category EXCEPT ![p] = c]
    /\ UNCHANGED <<orders, today, table, answer>>
MonthPasses ==
    /\ today + 30 =< LastDay
    /\ today' = today + 30
    /\ UNCHANGED <<orders, category, table, answer>>
RefreshSalesMonthly(m) ==
    /\ m < Anchor
    /\ table' = {x \in table : x.month # m} \cup Points(m)
    /\ UNCHANGED <<orders, category, today, answer>>

\* Orders of the past, confirmed then or imported without a confirmation, and
\* some still pending; the table is complete or has never been filled.
Init ==
    /\ today = Today
    /\ category = Listed
    /\ orders \in [Order -> {[status |-> "pending", created |-> Today,
                              confirmed |-> NoDay, snapshot |-> Uncategorised]}
                    \cup {[status |-> "confirmed", created |-> d, confirmed |-> NoDay,
                           snapshot |-> Listed] : d \in PastDays}]
    /\ table \in {{}, UNION {Points(m) : m \in {MonthOf(d) : d \in PastDays} \ {Anchor}}}
    /\ answer = NoAnswer

Reader ==
    \/ \E b \in BOOLEAN : AskPerformance(b)
    \/ \E n \in {1, 12} : AskDiagnosis(n)
    \/ ReadCurrent \/ ReadPrior \/ Conclude

Next ==
    \/ Reader
    \/ \E o \in Order : ConfirmOrder(o) \/ CancelOrder(o)
    \/ \E move \in Moves : UpdateCategory(move[1], move[2])
    \/ MonthPasses
    \/ \E m \in Refreshed : RefreshSalesMonthly(m)

Spec == Init /\ [][Next]_vars
-----------------------------------------------------------------------------
(* Properties *)

TypeOK ==
    /\ orders \in [Order -> OrderRow]
    /\ category \in [Product -> Category \cup {NoCategory}]
    /\ today \in Today .. LastDay
    /\ answer.step \in {"idle", "now", "before", "rows"}

\* What the risk list says of a customer is what the customer's profile says,
\* which is computed apart: who is dormant, the orders and the revenue of this
\* year and the last.  A category the profile calls new is one the risk list
\* says the customer expanded into, when there is a last year to compare with.
\* A prospect's tags agree with both: who is tagged dormant is, and a new account
\* is new in the risk list unless it is dormant already.
CustomersAreSeenAlike == \A b \in Customer :
    LET risk == Risk(b)
        profile == Profile(b)
    IN  /\ risk.status = "dormant" <=> profile.dormant
        /\ risk.revenue = profile.revenue /\ risk.prior = profile.prior
        /\ risk.orders = profile.orders /\ risk.priorOrders = profile.priorOrders
        /\ risk.priorOrders > 0 => profile.new \cap Merchandise \subseteq risk.expanded
        /\ risk.expanded \subseteq DOMAIN profile.categories
        /\ \A c \in Available("all") : b \in Prospects("all", c) =>
              LET tags == ProspectTags("all", c, b)
              IN  /\ "dormant" \in tags => profile.dormant
                  /\ risk.status = "new" <=> "new_customer" \in tags /\ ~profile.dormant
                  /\ "dormant" \in tags <=>
                        "recent_activity" \notin ProspectReasons("all", c, b)

\* Figures taken by different queries fit together: a current customer of a
\* category is new or was there before, and who was there before has stayed or
\* churned; every customer who buys merchandise has either bought a category or
\* is a prospect for it; what customers bought this month is, by month and by
\* category, what the monthly figures say was sold; the customers of all types
\* buy what those of each type do; what the products of a window brought in is
\* what its orders paid; two products all of whose customers are shared have the
\* same customers.
FiguresFitTogether ==
    /\ \A n \in {30, 90, 365} : \A c \in DOMAIN Trends(n) :
          LET t == Trends(n)[c]
          IN  /\ t.new + (t.priorCustomers - t.churned) =< t.customers
              /\ t.customers =< Cardinality(ExistingBuyers("all", c))
              /\ c \in GrowthSignals(n) => t.revenue > t.prior
    /\ \A n \in {30, 90, 365} :
          /\ Concentrated(n) \subseteq Buyers(Current(n))
          /\ LET top == TopProducts(n)
             IN  SumOf([p \in DOMAIN top |-> top[p].revenue], DOMAIN top) = Paid(Current(n))
    /\ \A c \in Available("all") :
          /\ ExistingBuyers("all", c) \cup Prospects("all", c)
                = {b \in Customer : Categories(ByCustomer(Countable, b)) # {}}
    /\ LET pattern == BuyingPattern("all", Anchor - 11, Anchor)
           byCategory == BuyingCategories("all", Anchor, Anchor)
       IN  /\ pattern[Anchor] = SumOf(byCategory, Merchandise)
           /\ pattern[Anchor] =
                Revenue({x \in ReadRange(Anchor, Anchor) : x.category \in Merchandise})
          /\ \A t \in {TypeOf[b] : b \in Customer} :
                CrossSell(t, Anchor - 11, Anchor) \subseteq CrossSell("all", Anchor - 11, Anchor)
    /\ \A a \in AffinityPairs(1) : a.shared = a.either <=>
          \A p, q \in a.pair : CustomersOf(p) = CustomersOf(q)

\* A product called new was first sold in the window, and one called
\* end-of-life has not been sold for months, however stale the monthly table
\* is and whatever happens between the three reads the answer is made of.
StagesTellTheTruth ==
    answer.kind = "performance" => \A r \in answer.rows :
        /\ r.stage = "new" => \A m \in SaleMonths(r.product) : m >= answer.from
        /\ r.stage = "end_of_life" => \A m \in SaleMonths(r.product) :
              m =< answer.anchor - 6 \/ m >= answer.anchor

\* The drivers of a diagnosis add up to the change it explains.
DriversAddUp ==
    answer.kind = "diagnosis" /\ answer.step = "idle" =>
        SumOf([r \in answer.rows |-> r.price + r.volume + r.mix], answer.rows)
            = Revenue(answer.now) - Revenue(answer.before)
-----------------------------------------------------------------------------
(* The inductive invariant *)

Point == [month : Nat, product : Product, category : Category, units : Nat, revenue : Nat]
ArePoints(points) == points \subseteq Point /\ IsFiniteSet(points)

\* What has been read are rows of the monthly table or of the orders; an answer has
\* rows when it is finished, and its windows do not lie ahead of the clock.
AnswerFits ==
    /\ ArePoints(answer.now) /\ ArePoints(answer.before)
    /\ {answer.anchor, answer.from, answer.to} \subseteq Int
    /\ answer.step # "idle" => answer.rows = {}
    /\ answer.kind = "performance" => answer.from =< answer.anchor /\ answer.anchor =< Anchor

MadeByNow == \A o \in Order : orders[o].created =< today

IInv ==
    /\ TypeOK
    /\ MadeByNow
    /\ ArePoints(table)
    /\ DOMAIN answer = DOMAIN NoAnswer /\ AnswerFits
    /\ StagesTellTheTruth /\ DriversAddUp
=============================================================================
