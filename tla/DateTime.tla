------------------------------ MODULE DateTime ------------------------------
(***************************************************************************)
(* The days of lib_date_time.lua: a date is a day number, and all a        *)
(* program knows of it is what the conversions say. The program walks from *)
(* day to day (toSecondsFromDayEnd adds one); under numToDate this is      *)
(* Calendar. The time of day, the fraction of the code's numbers, is left  *)
(* out: a number here is what modf makes of it.                            *)
(***************************************************************************)
EXTENDS Integers

CONSTANTS
    FirstYear,     \* the year that is walked from
    LastYear,      \* bound: the walk ends with this year
    DayOffsets,    \* what daysAdd is given
    YearOffsets,   \* what ymdAdd is given
    MonthOffsets

ASSUME DateTimeAssumption ==
    /\ FirstYear \in Int /\ LastYear \in Int
    /\ DayOffsets \subseteq Int
    /\ YearOffsets \subseteq Int /\ MonthOffsets \subseteq Int

VARIABLE num

\* A month that has a day too many before it: rounded up, not down.
dateToNum_mutant(year, month, day) ==
    LET a == (14 - month) \div 12
        y == year + 4800 - a
        m == month + 12 * a - 3
    IN  day + (153 * m + 3) \div 5 + 365 * y
          + y \div 4 - y \div 100 + y \div 400 - 32045

\* The Julian day number of a date. Months are counted from March.
dateToNum(year, month, day) ==
    LET a == (14 - month) \div 12
        y == year + 4800 - a
        m == month + 12 * a - 3
    IN  day + (153 * m + 2) \div 5 + 365 * y
          + y \div 4 - y \div 100 + y \div 400 - 32045

\* The month ends a day early.
numToDate_mutant(n) ==
    LET a == n + 32044
        b == (4 * a + 3) \div 146097
        c == a - (146097 * b) \div 4
        d == (4 * c + 3) \div 1461
        e == c - (1461 * d) \div 4
        m == (5 * e + 3) \div 153
    IN  <<100 * b + d - 4800 + m \div 10,
          m + 3 - 12 * (m \div 10),
          e - (153 * m + 2) \div 5 + 1>>

\* <<year, month, day>>
numToDate(n) ==
    LET a == n + 32044
        b == (4 * a + 3) \div 146097
        c == a - (146097 * b) \div 4
        d == (4 * c + 3) \div 1461
        e == c - (1461 * d) \div 4
        m == (5 * e + 2) \div 153
    IN  <<100 * b + d - 4800 + m \div 10,
          m + 3 - 12 * (m \div 10),
          e - (153 * m + 2) \div 5 + 1>>

\* The last day of a leap year is not kept in it.
numToWeek_mutant(n) ==
    LET d4 == (((n + 31741 - (n % 7)) % 146097) % 36524) % 1461
    IN  (d4 % 365) \div 7 + 1

numToWeek(n) ==
    LET d4 == (((n + 31741 - (n % 7)) % 146097) % 36524) % 1461
        L == d4 \div 1460
        d1 == ((d4 - L) % 365) + L
    IN  d1 \div 7 + 1

\* Months are only added within the year.
ymdAdd_mutant(n, y, m, d) ==
    LET date == numToDate(n)
    IN  dateToNum(date[1] + y, ((date[2] + m - 1) % 12) + 1, date[3] + d)

ymdAdd(n, y, m, d) ==
    LET date == numToDate(n)
    IN  dateToNum(date[1] + y, date[2] + m, date[3] + d)

\* A day that is not in the month is brought into it.
daysAdd_mutant(n, d) ==
    LET date == numToDate(n)
    IN  dateToNum(date[1], date[2], IF date[3] + d > 31 THEN date[3] + d - 31
                                    ELSE date[3] + d)

daysAdd(n, d) ==
    LET date == numToDate(n)
    IN  dateToNum(date[1], date[2], date[3] + d)

-----------------------------------------------------------------------------

Init == num = dateToNum(FirstYear, 1, 1)

\* daysAdd(time, 1) in toSecondsFromDayEnd
Tomorrow ==
    /\ numToDate(num)[1] <= LastYear
    /\ num' = daysAdd(num, 1)

Spec == Init /\ [][Tomorrow]_num

-----------------------------------------------------------------------------
(* Properties *)

Date == numToDate(num)

DayOfYear == num - dateToNum(Date[1], 1, 1) + 1

\* The number is the Julian day number, whose day 0 was a Monday (numToWeek).
Weekday == num % 7

Cal == INSTANCE Calendar WITH
         year <- Date[1], month <- Date[2], day <- Date[3],
         yday <- DayOfYear, weekday <- Weekday

\* Adding one day over and over walks through the Gregorian calendar: all
\* the months, the leap years and the centuries, without a day left out,
\* doubled or misnumbered (numToDate, dateToNum, daysAdd).
WalksTheCalendar == Cal!Spec

\* dateToNum is the inverse of numToDate. A run has it as DaysAreAdded with
\* 0 among its days.
NumbersComeBack == dateToNum(Date[1], Date[2], Date[3]) = num

\* daysAdd, which hands dateToNum days that no month has, negative ones and
\* ones past its end, moves by that many days.
DaysAreAdded == \A d \in DayOffsets : daysAdd(num, d) = num + d

\* ymdAdd, which hands dateToNum months that no year has, lands in the month
\* that is that far away, on the same day when that month has it; otherwise,
\* and when days are added too, the days are counted on from that month's
\* first: a month after 31 January is the 2nd or 3rd of March.
MonthsCarry ==
    \A y \in YearOffsets, m \in MonthOffsets :
        LET there == 12 * (Date[1] + y) + Date[2] - 1 + m
            year == there \div 12
            month == (there % 12) + 1
        IN  /\ \A d \in DayOffsets :
                  ymdAdd(num, y, m, d) = dateToNum(year, month, 1) + Date[3] - 1 + d
            /\ Date[3] <= Cal!DaysInMonth(year, month) =>
                  numToDate(ymdAdd(num, y, m, 0)) = <<year, month, Date[3]>>

\* numToWeek is the number of the ISO week, over all ends of years.
WeeksAreIso == numToWeek(num) = Cal!IsoWeek(Date[1], DayOfYear, Weekday)
=============================================================================
