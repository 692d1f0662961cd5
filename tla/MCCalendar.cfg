SPECIFICATION Spec
CONSTANTS
    Starts <- AllStarts
    Months <- SomeMonths
INVARIANTS
    DateOfPoint
    PointOfDate
    NthWeekday
    MonthsAddUp
    DaysAddUp
CHECK_DEADLOCK FALSE
