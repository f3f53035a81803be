------------------------------ MODULE Calendar ------------------------------
(***************************************************************************)
(* The Gregorian calendar, day by day: what the day numbers of             *)
(* lib_date_time.lua stand for. Nothing here is translated from the code.  *)
(***************************************************************************)
EXTENDS Integers

CONSTANT FirstYear   \* the year that is walked from

VARIABLES year, month, day,
    yday,      \* the day of the year, from 1
    weekday    \* from 0, which is Monday

vars == <<year, month, day, yday, weekday>>

LeapYear(y) == y % 4 = 0 /\ (y % 100 # 0 \/ y % 400 = 0)

DaysInMonth(y, m) ==
    IF m = 2 THEN (IF LeapYear(y) THEN 29 ELSE 28)
    ELSE IF m \in {4, 6, 9, 11} THEN 30 ELSE 31

DaysInYear(y) == IF LeapYear(y) THEN 366 ELSE 365

IsDate(y, m, d) == y \in Int /\ m \in 1 .. 12 /\ d \in 1 .. DaysInMonth(y, m)

\* ISO 8601: a week belongs to the year its Thursday is in. This is the week
\* of the n-th day of year y, when its weekday is w.
IsoWeek(y, n, w) ==
    LET thursday == n + 3 - w
        inItsYear == IF thursday < 1 THEN thursday + DaysInYear(y - 1)
                     ELSE IF thursday > DaysInYear(y)
                     THEN thursday - DaysInYear(y)
                     ELSE thursday
    IN  (inItsYear - 1) \div 7 + 1

-----------------------------------------------------------------------------

Init ==
    /\ year = FirstYear
    /\ month = 1
    /\ day = 1
    /\ yday = 1
    /\ weekday \in 0 .. 6

NextDay ==
    /\ day < DaysInMonth(year, month)
    /\ day' = day + 1
    /\ yday' = yday + 1
    /\ UNCHANGED <<year, month>>

NextMonth ==
    /\ day = DaysInMonth(year, month)
    /\ month < 12
    /\ month' = month + 1
    /\ day' = 1
    /\ yday' = yday + 1
    /\ UNCHANGED year

NextYear ==
    /\ day = DaysInMonth(year, month)
    /\ month = 12
    /\ year' = year + 1
    /\ month' = 1
    /\ day' = 1
    /\ yday' = 1

Next ==
    /\ NextDay \/ NextMonth \/ NextYear
    /\ weekday' = (weekday + 1) % 7

Spec == Init /\ [][Next]_vars
=============================================================================
