\* Orders: two requests at once; two orders for two products in opposite order,
\* two invoice numbers.  Insight: the past reaches back over two years.  Trend:
\* pages of four days, of a month of weeks and of two months, over two weeks.
\* Costs: two backfills in batches of one line.  Watch: two invoices.
CONSTANTS
    o1 = o1  o2 = o2  p1 = p1  p2 = p2
    Session = {s1, s2}
    NoSession = NoSession
    Order = {o1, o2}
    Product = {p1, p2}
    NoOrder = NoOrder
    NumberRange = NumberRange
    Lines <- Crossed
    Last = 2
    MaxStock = 1
    AdjustChange <- OneUp
    Customer = {1, 2}
    Article = {1, 2}
    Sale = {1, 2, 3}
    TypeOf <- Types
    BuyerOf <- Buyer
    Charged <- Prices
    Category = {"tools", "parts", "freight"}
    Excluded = {"freight"}
    NoCategory = "none"
    Listed <- AtFirst
    AnchorCustomers = 1
    SharedCustomers = 1
    PastDays = {150, 510, 750, 840}
    Today = 900
    ClockEnd = 930
    Moves <- Turns
    Refreshed = {17, 30}
    ChartDay = 13
    Week = 2
    Month = 3
    PageDays = 4
    WeekMonths = 1
    PageMonths = 2
    MaxSold = 4
    MaxRequests = 4
    Patient = TRUE
    InvoiceLine = {2, 5, 7}
    DateOf <- Dates
    OwnCost <- OneBrought
    NoCost = 0
    Purchase <- Bought
    Backfill = {1, 2}
    BatchSize = 1
    Invoice = {1, 2}
    First = "QUEUED"
    Following <- SentOnce
SPECIFICATION AllSpec
INVARIANTS AllTypeOK NumbersAreGapless ConfirmedIsBooked DeadlocksNeedAnInvoice FiguresFitTogether AnswersTellTheTruth PagesJoin
PROPERTIES MovesForward CostsAreFinal NewsIsNew
CHECK_DEADLOCK FALSE
