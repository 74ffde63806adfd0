\* The ledger: two requests at once over two products in two warehouses; they may
\* deadlock.  The alerts: a stock of 0 to 2 units around a reorder point of 1.
\* Planning and the page: two warehouses; the months of a year that is a little
\* over one of them long.
CONSTANTS
    p1 = p1  p2 = p2  w1 = w1  w2 = w2
    Session = {s1, s2}
    NoSession = NoSession
    Product = {p1, p2}
    Warehouse = {w1, w2}
    MaxInt = 1
    AdjustChange <- OneUnit
    TransferQuantity <- OneUnit
    OrderLines <- Orders
    Deliveries <- Suppliers
    MaxQuantity = 2
    Delta <- UpOrDown
    Point = {0, 1}
    StockRow = {"w1", "w2"}
    DemandDays = 2
    Today = 10
    Opening <- FourEach
    Supplier = {"a", "b", "c"}
    Active = {"a", "c"}
    Default <- DefaultDays
    BusinessDefault = 5
    LeadDays = 3
    PastSales <- SoldBefore
    Delivered <- OneDelivery
    Delivery <- OtherSupplier
    Ordered <- UnderWay
    First <- AtFirst
    Patch <- TurnManual
    Factor = {2}
    Selection = {{"w1", "w2"}}
    Lot = {2}
    LastDay = 10
    MaxSales = 3
    PageOpening <- OneEach
    MonthDays = 3
    YearDays = 4
    PastMoves <- MovedBefore
    LastPageDay = 11
    MaxMoves = 3
SPECIFICATION AllSpec
INVARIANTS AllTypeOK LedgerBalanced NoStaleWrite AlertFollowsStock PlansSettle HistoryIsTrue
PROPERTIES MovesAreAtomic EveryRequestEnds
