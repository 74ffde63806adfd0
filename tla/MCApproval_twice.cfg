\* Two people approve the same request at once.
CONSTANTS
    Session = {s1, s2}
    NoSession = NoSession
    StockRow = StockRow
    Request = {1}
    Change <- LargeChanges
    Threshold = 1
    MaxInt = 4
    Opening = 4
    ActorType = {"agent"}
SPECIFICATION Spec
INVARIANT ExecutedIffApproved
CHECK_DEADLOCK FALSE
