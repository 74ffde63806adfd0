\* Pages of four days, of a month of weeks and of two months, over two weeks.
CONSTANTS
    Today = 13
    Week = 2
    Month = 3
    PageDays = 4
    WeekMonths = 1
    PageMonths = 2
    MaxSold = 4
    MaxRequests = 4
    Patient = FALSE
SPECIFICATION Spec
INVARIANT ShownAsAsked
CHECK_DEADLOCK FALSE
