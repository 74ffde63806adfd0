\* Two sessions at once, in each part.
CONSTANTS
    Session = {s1, s2}
    NoSession = NoSession
    StockRow = StockRow
    Request = {1, 2}
    Change <- LargeChanges
    Threshold = 1
    MaxInt = 4
    Opening = 4
    ActorType = {"agent"}
    TheRow = TheRow
    l1 = l1
    l2 = l2
    otherLine = otherLine
    External = {"FAILED"}
    Line = {l1, l2}
    Ordered <- TwoLines
    OtherLine = otherLine
    Receipt <- Receipts
    Customer = {c1, c2}
    Number = {n1, n2}
    NoCustomer = NoCustomer
    MaxVersion = 2
    Key = {1, 2}
    MaxSold = 1
SPECIFICATION DeskSpec
INVARIANTS DeskTypeOK ApprovedIsExecuted DeliveriesAreBooked CreationIsAnswered
PROPERTIES ExecutesOnApproval EveryRequestEnds Settles MonthSettles
CHECK_DEADLOCK FALSE
