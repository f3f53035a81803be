\* Four hundred years, from a day to the next.
SPECIFICATION Spec
CONSTANTS
    FirstYear = 1900
    LastYear = 2299
    DayOffsets <- MCDayOffsets
    YearOffsets <- MCYearOffsets
    MonthOffsets <- MCMonthOffsets
CHECK_DEADLOCK FALSE
INVARIANTS
    DaysAreAdded
    MonthsCarry
    WeeksAreIso
PROPERTIES
    WalksTheCalendar
