CONSTANTS
    Ticks = 8
    Months = 2
    Days = 4
    MonthStart <- MCMonthStart
    DayStart <- MCDayStart
    MonthOf <- MCMonthOf
    DayOf <- MCDayOf
    Clock = {0, 1, 2, 3, 4, 5, 6, 7}
    TimeText <- MCTimeText
    Words <- MCWords
    Written <- MCWritten
    Queries <- MCQueries
    CountWidth = 100
    Inline = 5
SPECIFICATION Spec
CHECK_DEADLOCK FALSE
INVARIANTS TypeOK OmittedPartsAreFirst TargetsCoverPeriod CountIsRight FoundIsRight FoundViewsOwn
PROPERTY SearchEnds
