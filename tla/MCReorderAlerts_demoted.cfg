\* Two requests at once; a stock of 0 to 2 units around a reorder point of 1.
CONSTANTS
    Session = {s1, s2}
    NoSession = NoSession
    MaxQuantity = 2
    Delta <- UpAndDown
    Point = {0, 1}
SPECIFICATION Spec
PROPERTY AcknowledgedStays
