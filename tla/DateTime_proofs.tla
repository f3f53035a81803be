-------------------------- MODULE DateTime_proofs --------------------------
(***************************************************************************)
(* Theorems about DateTime, for every day and every year.                  *)
(*                                                                         *)
(* Both dateToNum and numToDate count years that begin in March: a leap    *)
(* day is the last day of its year, and a century's and a cycle's last day *)
(* too. The lemmas undo numToDate one division at a time, from the cycle   *)
(* of 400 years down to the day of the month. numToWeek does the same with *)
(* years that begin in January.                                            *)
(***************************************************************************)
EXTENDS DateTime, TLAPS

\* The days of the first y years of the cycle.
DaysBefore(y) == 365 * y + y \div 4 - y \div 100 + y \div 400

\* The k-th day (from 0) of a year y whose leap day, when it has one, is its
\* last: year y is then the last of four.
DayInYear(y, k) == y \in Int /\ k \in 0 .. 365 /\ (k = 365 => Cal!LeapYear(y + 1))

-----------------------------------------------------------------------------
(* numToDate undoes dateToNum *)

\* The first division of numToDate finds the century.
LEMMA CenturyFound ==
    ASSUME NEW y, NEW k, DayInYear(y, k)
    PROVE  (4 * (k + DaysBefore(y)) + 3) \div 146097 = y \div 100
  BY SMTT(60) DEF DayInYear, DaysBefore, Cal!LeapYear

\* What is left is the day within its century.
LEMMA CenturyTaken ==
    ASSUME NEW y, NEW k, DayInYear(y, k), NEW n, n = k + DaysBefore(y)
    PROVE  n - (146097 * (y \div 100)) \div 4
             = k + 365 * (y % 100) + (y % 100) \div 4
  BY SMTT(60) DEF DayInYear, DaysBefore

\* The second division finds the year of the century, and leaves the day of
\* the year.
LEMMA YearFound ==
    ASSUME NEW y, NEW k, DayInYear(y, k),
           NEW c, c = k + 365 * (y % 100) + (y % 100) \div 4
    PROVE  /\ (4 * c + 3) \div 1461 = y % 100
           /\ c - (1461 * (y % 100)) \div 4 = k
  BY SMTT(60) DEF DayInYear, Cal!LeapYear

\* The third finds the month, counted from March, and the day in it: the
\* months' 31 and 30 days are the steps of 153 days in five.
LEMMA MonthFound ==
    ASSUME NEW m \in 0 .. 11, NEW d \in Int, d >= 1,
           d <= (153 * (m + 1) + 2) \div 5 - (153 * m + 2) \div 5,
           NEW e, e = d - 1 + (153 * m + 2) \div 5
    PROVE  /\ (5 * e + 2) \div 153 = m
           /\ e - (153 * m + 2) \div 5 + 1 = d
  BY SMTT(60)

\* A date as dateToNum counts it: year and month from March.
LEMMA MarchDate ==
    ASSUME NEW y, NEW m, NEW d, Cal!IsDate(y, m, d)
    PROVE  LET a == (14 - m) \div 12
               yy == y + 4800 - a
               mm == m + 12 * a - 3
               k == d - 1 + (153 * mm + 2) \div 5
           IN  /\ mm \in 0 .. 11
               /\ DayInYear(yy, k)
               /\ d <= (153 * (mm + 1) + 2) \div 5 - (153 * mm + 2) \div 5
               /\ dateToNum(y, m, d) = k + DaysBefore(yy) - 32044
               /\ mm + 3 - 12 * (mm \div 10) = m
               /\ yy - 4800 + mm \div 10 = y
  BY SMTT(60) DEF Cal!IsDate, Cal!DaysInMonth, Cal!LeapYear, DayInYear,
                  dateToNum, DaysBefore

\* The intermediate results of numToDate.
Century(n) == (4 * (n + 32044) + 3) \div 146097
DayOfCentury(n) == n + 32044 - (146097 * Century(n)) \div 4
YearOfCentury(n) == (4 * DayOfCentury(n) + 3) \div 1461
DayFromMarch(n) == DayOfCentury(n) - (1461 * YearOfCentury(n)) \div 4
MonthFromMarch(n) == (5 * DayFromMarch(n) + 2) \div 153

\* numToDate, division by division.
LEMMA Divisions ==
    ASSUME NEW n \in Int
    PROVE  /\ Century(n) \in Int /\ DayOfCentury(n) \in Int
           /\ YearOfCentury(n) \in Int /\ DayFromMarch(n) \in Int
           /\ MonthFromMarch(n) \in Int
           /\ numToDate(n) =
                <<100 * Century(n) + YearOfCentury(n) - 4800 + MonthFromMarch(n) \div 10,
                  MonthFromMarch(n) + 3 - 12 * (MonthFromMarch(n) \div 10),
                  DayFromMarch(n) - (153 * MonthFromMarch(n) + 2) \div 5 + 1>>
  BY DEF numToDate, Century, DayOfCentury, YearOfCentury, DayFromMarch,
         MonthFromMarch

\* numToDate gives back the date a number was made from.
LEMMA DateOfNum ==
    ASSUME NEW y, NEW m, NEW d, Cal!IsDate(y, m, d)
    PROVE  numToDate(dateToNum(y, m, d)) = <<y, m, d>>
  <1> SUFFICES ASSUME NEW n, n = dateToNum(y, m, d)
               PROVE  numToDate(n) = <<y, m, d>>
    OBVIOUS
  <1> DEFINE a == (14 - m) \div 12
             yy == y + 4800 - a
             mm == m + 12 * a - 3
             k == d - 1 + (153 * mm + 2) \div 5
             s == n + 32044
  <1>1. /\ mm \in 0 .. 11
        /\ DayInYear(yy, k)
        /\ d <= (153 * (mm + 1) + 2) \div 5 - (153 * mm + 2) \div 5
        /\ n = k + DaysBefore(yy) - 32044
        /\ mm + 3 - 12 * (mm \div 10) = m
        /\ yy - 4800 + mm \div 10 = y
    BY MarchDate
  <1>2. y \in Int /\ m \in Int /\ d \in Int /\ d >= 1
    BY DEF Cal!IsDate, Cal!DaysInMonth
  <1>3. k = d - 1 + (153 * mm + 2) \div 5
    OBVIOUS
  <1> HIDE DEF yy, mm, k
  <1>4. yy \in Int /\ k \in Int
    BY <1>1 DEF DayInYear
  <1>5. n \in Int /\ s = k + DaysBefore(yy)
    BY <1>1, <1>4 DEF DaysBefore
  <1> HIDE DEF s
  <1>6. Century(n) = yy \div 100
    BY <1>1, <1>5, CenturyFound DEF Century, s
  <1>7. s - (146097 * (yy \div 100)) \div 4 = k + 365 * (yy % 100) + (yy % 100) \div 4
    BY <1>1, <1>5, CenturyTaken
  <1>8. DayOfCentury(n) = k + 365 * (yy % 100) + (yy % 100) \div 4
    BY <1>4, <1>5, <1>6, <1>7 DEF DayOfCentury, s
  <1>9. YearOfCentury(n) = yy % 100
    BY <1>1, <1>8, YearFound DEF YearOfCentury
  <1>10. DayFromMarch(n) = k
    BY <1>1, <1>8, <1>9, YearFound DEF DayFromMarch
  <1>11. (5 * k + 2) \div 153 = mm /\ k - (153 * mm + 2) \div 5 + 1 = d
    BY <1>1, <1>2, <1>3, MonthFound
  <1>12. MonthFromMarch(n) = mm
    BY <1>10, <1>11 DEF MonthFromMarch
  <1>13. 100 * Century(n) + YearOfCentury(n) - 4800 + MonthFromMarch(n) \div 10 = y
    BY <1>1, <1>4, <1>6, <1>9, <1>12
  <1>14. MonthFromMarch(n) + 3 - 12 * (MonthFromMarch(n) \div 10) = m
    <2>1. mm \in 0 .. 11 /\ mm + 3 - 12 * (mm \div 10) = m
      BY <1>1
    <2> QED
      BY <2>1, <1>2, <1>12
  <1>15. DayFromMarch(n) - (153 * MonthFromMarch(n) + 2) \div 5 + 1 = d
    BY <1>10, <1>11, <1>12
  <1> QED
    BY <1>5, <1>13, <1>14, <1>15, Divisions

-----------------------------------------------------------------------------
(* dateToNum undoes numToDate *)

\* What numToDate gives is a date of the calendar.
LEMMA DateIsDate ==
    ASSUME NEW n \in Int
    PROVE  Cal!IsDate(numToDate(n)[1], numToDate(n)[2], numToDate(n)[3])
  BY SMTT(100) DEF numToDate, Cal!IsDate, Cal!DaysInMonth, Cal!LeapYear

\* dateToNum gives back the number a date was made from.
LEMMA NumOfDate ==
    ASSUME NEW n \in Int
    PROVE  dateToNum(numToDate(n)[1], numToDate(n)[2], numToDate(n)[3]) = n
  BY SMTT(60) DEF dateToNum, numToDate

\* numToDate gives three integers.
LEMMA DateType ==
    ASSUME NEW n \in Int
    PROVE  /\ numToDate(n)[1] \in Int
           /\ numToDate(n)[2] \in 1 .. 12
           /\ numToDate(n)[3] \in 1 .. 31
           /\ numToDate(n) = <<numToDate(n)[1], numToDate(n)[2], numToDate(n)[3]>>
  BY DateIsDate DEF numToDate, Cal!IsDate, Cal!DaysInMonth

\* daysAdd adds days: dateToNum counts the days that it is given, whether the
\* month has them or not.
LEMMA DaysAdded ==
    ASSUME NEW n \in Int, NEW k \in Int
    PROVE  daysAdd(n, k) = n + k
  <1>1. daysAdd(n, k) = dateToNum(numToDate(n)[1], numToDate(n)[2], numToDate(n)[3] + k)
    BY Zenon DEF daysAdd
  <1>2. dateToNum(numToDate(n)[1], numToDate(n)[2], numToDate(n)[3] + k)
          = dateToNum(numToDate(n)[1], numToDate(n)[2], numToDate(n)[3]) + k
    BY DateType DEF dateToNum
  <1> QED
    BY <1>1, <1>2, NumOfDate

\* The sum of dateToNum, of a year and a month from March.
MarchToNum(y, m, d) ==
    d + (153 * m + 2) \div 5 + 365 * y + y \div 4 - y \div 100 + y \div 400 - 32045

LEMMA FromMarch ==
    ASSUME NEW y, NEW m, NEW d
    PROVE  dateToNum(y, m, d) = MarchToNum(y + 4800 - (14 - m) \div 12,
                                           m + 12 * ((14 - m) \div 12) - 3, d)
  BY DEF dateToNum, MarchToNum

\* Months that a year does not have are months of later or earlier years:
\* what dateToNum makes of them, the year and month from March, is the same.
LEMMA MonthsCount ==
    ASSUME NEW y \in Int, NEW m \in Int, NEW d \in Int
    PROVE  dateToNum(y, m, d)
             = dateToNum((12 * y + m - 1) \div 12, ((12 * y + m - 1) % 12) + 1, d)
  <1> DEFINE there == 12 * y + m - 1
             y2 == there \div 12
             m2 == (there % 12) + 1
  <1>1. /\ y2 \in Int /\ m2 \in Int
        /\ 12 * y + m = 12 * y2 + m2
    OBVIOUS
  <1> HIDE DEF y2, m2
  <1>2. PICK q \in Int : y2 = y + q /\ m = m2 + 12 * q
    BY <1>1
  <1>3. (14 - m) \div 12 = (14 - m2) \div 12 - q
    BY <1>1, <1>2
  <1>4. /\ y + 4800 - (14 - m) \div 12 = y2 + 4800 - (14 - m2) \div 12
        /\ m + 12 * ((14 - m) \div 12) - 3 = m2 + 12 * ((14 - m2) \div 12) - 3
    BY <1>1, <1>2, <1>3
  <1>5. dateToNum(y, m, d) = dateToNum(y2, m2, d)
    <2>1. dateToNum(y, m, d) = MarchToNum(y + 4800 - (14 - m) \div 12,
                                          m + 12 * ((14 - m) \div 12) - 3, d)
      BY FromMarch, Zenon
    <2>2. dateToNum(y2, m2, d) = MarchToNum(y2 + 4800 - (14 - m2) \div 12,
                                            m2 + 12 * ((14 - m2) \div 12) - 3, d)
      BY FromMarch, Zenon
    <2> QED
      BY <1>1, <1>4, <2>1, <2>2
  <1> QED
    BY <1>5 DEF y2, m2

\* ymdAdd adds months and years.
LEMMA MonthsAdded ==
    ASSUME NEW n \in Int, NEW y \in Int, NEW m \in Int,
           NEW there, there = 12 * (numToDate(n)[1] + y) + numToDate(n)[2] - 1 + m,
           numToDate(n)[3] <= Cal!DaysInMonth(there \div 12, (there % 12) + 1)
    PROVE  numToDate(ymdAdd(n, y, m, 0))
             = <<there \div 12, (there % 12) + 1, numToDate(n)[3]>>
  <1> DEFINE date == numToDate(n)
  <1>1. date[1] \in Int /\ date[2] \in 1 .. 12 /\ date[3] \in 1 .. 31
    BY DateType
  <1> HIDE DEF date
  <1>2. there = 12 * (date[1] + y) + (date[2] + m) - 1
    BY <1>1 DEF date
  <1>3. ymdAdd(n, y, m, 0) = dateToNum(date[1] + y, date[2] + m, date[3])
    BY <1>1 DEF ymdAdd, date
  <1>4. dateToNum(date[1] + y, date[2] + m, date[3])
          = dateToNum(there \div 12, (there % 12) + 1, date[3])
    <2> DEFINE yy == date[1] + y
               mm == date[2] + m
               dd == date[3]
    <2>1. yy \in Int /\ mm \in Int /\ dd \in Int
      BY <1>1
    <2>2. there = 12 * yy + mm - 1
      BY <1>2
    <2> HIDE DEF yy, mm, dd
    <2>3. dateToNum(yy, mm, dd) = dateToNum((12 * yy + mm - 1) \div 12,
                                            ((12 * yy + mm - 1) % 12) + 1, dd)
      BY <2>1, MonthsCount
    <2> QED
      BY <2>2, <2>3 DEF yy, mm, dd
  <1>5. Cal!IsDate(there \div 12, (there % 12) + 1, date[3])
    <2>1. there \div 12 \in Int /\ (there % 12) + 1 \in 1 .. 12
      BY <1>1, <1>2
    <2> QED
      BY <2>1, <1>1 DEF Cal!IsDate, Cal!DaysInMonth, date
  <1> QED
    BY <1>3, <1>4, <1>5, DateOfNum DEF date

\* Days are counted on from the first of the month that is reached.
LEMMA DaysCountOn ==
    ASSUME NEW n \in Int, NEW y \in Int, NEW m \in Int, NEW k \in Int,
           NEW there, there = 12 * (numToDate(n)[1] + y) + numToDate(n)[2] - 1 + m
    PROVE  ymdAdd(n, y, m, k)
             = dateToNum(there \div 12, (there % 12) + 1, 1) + numToDate(n)[3] - 1 + k
  <1> DEFINE date == numToDate(n)
  <1>1. date[1] \in Int /\ date[2] \in 1 .. 12 /\ date[3] \in 1 .. 31
    BY DateType
  <1>2. ymdAdd(n, y, m, k) = dateToNum(date[1] + y, date[2] + m, date[3] + k)
    BY DEF ymdAdd
  <1> HIDE DEF date
  <1>3. there = 12 * (date[1] + y) + (date[2] + m) - 1 /\ there \in Int
    BY <1>1 DEF date
  <1>4. dateToNum(date[1] + y, date[2] + m, date[3] + k)
          = dateToNum(there \div 12, (there % 12) + 1, date[3] + k)
    <2> DEFINE yy == date[1] + y
               mm == date[2] + m
               dd == date[3] + k
    <2>1. yy \in Int /\ mm \in Int /\ dd \in Int
      BY <1>1
    <2>2. there = 12 * yy + mm - 1
      BY <1>3
    <2> HIDE DEF yy, mm, dd
    <2>3. dateToNum(yy, mm, dd) = dateToNum((12 * yy + mm - 1) \div 12,
                                            ((12 * yy + mm - 1) % 12) + 1, dd)
      BY <2>1, MonthsCount
    <2> QED
      BY <2>2, <2>3 DEF yy, mm, dd
  <1>5. \A u, v, w \in Int :
           /\ dateToNum(u, v, 1) \in Int
           /\ dateToNum(u, v, w) = dateToNum(u, v, 1) + w - 1
    BY SMT DEF dateToNum
  <1>6. there \div 12 \in Int /\ (there % 12) + 1 \in Int /\ date[3] + k \in Int
    BY <1>1, <1>3
  <1>7. /\ dateToNum(there \div 12, (there % 12) + 1, 1) \in Int
        /\ dateToNum(there \div 12, (there % 12) + 1, date[3] + k)
             = dateToNum(there \div 12, (there % 12) + 1, 1) + (date[3] + k) - 1
    BY <1>5, <1>6
  <1>8. ymdAdd(n, y, m, k)
          = dateToNum(there \div 12, (there % 12) + 1, 1) + (date[3] + k) - 1
    BY <1>2, <1>4, <1>7
  <1> QED
    BY <1>1, <1>7, <1>8 DEF date

-----------------------------------------------------------------------------
(* Years and weeks *)

\* A year has its number of days.
LEMMA YearLength ==
    ASSUME NEW y \in Int
    PROVE  /\ dateToNum(y, 1, 1) = DaysBefore(y + 4799) - 31738
           /\ dateToNum(y + 1, 1, 1) = dateToNum(y, 1, 1) + Cal!DaysInYear(y)
  BY SMTT(60) DEF dateToNum, DaysBefore, Cal!DaysInYear, Cal!LeapYear

\* A date is within its year.
LEMMA DateInYear ==
    ASSUME NEW y, NEW m, NEW d, Cal!IsDate(y, m, d)
    PROVE  dateToNum(y, m, d) - dateToNum(y, 1, 1) \in 0 .. Cal!DaysInYear(y) - 1
  BY SMTT(60) DEF dateToNum, Cal!IsDate, Cal!DaysInMonth, Cal!DaysInYear, Cal!LeapYear

\* numToWeek takes cycles of 400 years away (<1>2, <1>3), then centuries
\* (<1>5), then fours of years (<1>6). The remainder by the century would take
\* the last day of a cycle, which its fourth century has more than the others,
\* for a first; but that is never a Thursday.
LEMMA FoursTaken ==
    ASSUME NEW y, NEW k, DayInYear(y, k), (k + DaysBefore(y)) % 7 = 3
    PROVE  (((k + DaysBefore(y)) % 146097) % 36524) % 1461 = k + 365 * (y % 4)
  <1> DEFINE q == y \div 400
             r == y % 400
             x == k + 365 * r + r \div 4 - r \div 100
             c == r \div 100
             s == r % 100
             w == k + 365 * s + s \div 4
  <1>1. /\ q \in Int /\ r \in 0 .. 399 /\ y = 400 * q + r /\ k \in 0 .. 365
        /\ k = 365 => Cal!LeapYear(y + 1)
    BY SMT DEF DayInYear
  <1> HIDE DEF q, r
  <1>2. /\ k + DaysBefore(y) = 146097 * q + x
        /\ k + DaysBefore(y) = 7 * (20871 * q) + x
        /\ x \in Int
    <2>1. y \div 4 = 100 * q + r \div 4
      BY <1>1, SMT
    <2>2. y \div 100 = 4 * q + r \div 100
      BY <1>1, SMT
    <2>3. y \div 400 = q
      BY <1>1, SMT
    <2> QED
      BY <1>1, <2>1, <2>2, <2>3, SMT DEF DaysBefore
  <1>3. (k + DaysBefore(y)) % 146097 = x /\ x % 7 = 3
    <2> DEFINE a == r \div 4
    <2>1. a \in 0 .. 99 /\ c \in 0 .. 3 /\ c <= a /\ (c = 3 \/ r < 300)
      BY <1>1, SMT
    <2>2. x = k + 365 * r + a - c
      BY <1>1, SMT
    <2> HIDE DEF a, c
    <2>3. 0 <= x /\ x <= 146096
      BY <1>1, <2>1, <2>2, SMT
    <2> HIDE DEF x
    <2>4. (146097 * q + x) % 146097 = x /\ (7 * (20871 * q) + x) % 7 = x % 7
      BY <1>1, <1>2, <2>3, SMT
    <2> QED
      BY <1>2, <2>4, SMT
  <1>4. k = 365 => (r + 1) % 4 = 0 /\ ((r + 1) % 100 # 0 \/ (r + 1) % 400 = 0)
    <2>1. (y + 1) % 4 = (r + 1) % 4 /\ (y + 1) % 100 = (r + 1) % 100
      BY <1>1, SMT
    <2>2. (y + 1) % 400 = (r + 1) % 400
      BY <1>1, SMT
    <2> QED
      BY <1>1, <2>1, <2>2, SMT DEF Cal!LeapYear
  <1>5. x % 36524 = w
    <2>1. s \in 0 .. 99 /\ c \in 0 .. 3 /\ s \div 4 \in 0 .. 24
      BY <1>1, SMT
    <2>2. x = 36524 * c + w
      BY <1>1, SMT
    <2>3. (s = 99 /\ k = 365) => c = 3
      BY <1>1, <1>4, SMT
    <2> HIDE DEF c, s
    <2>4. w \in Int /\ 0 <= w /\ w <= 36524 /\ (w = 36524 => s = 99 /\ k = 365)
      BY <1>1, <2>1, SMT
    <2> HIDE DEF w, x
    <2> QED
      BY <1>3, <2>1, <2>2, <2>3, <2>4, SMT
  <1>6. w % 1461 = k + 365 * (s % 4)
    <2>1. s \in 0 .. 99 /\ (k = 365 => (s + 1) % 4 = 0)
      BY <1>1, <1>4, SMT
    <2> HIDE DEF s
    <2> QED
      BY <1>1, <2>1, SMT
  <1>7. s % 4 = y % 4
    BY <1>1, SMT
  <1> HIDE DEF x, w, s
  <1> QED
    BY <1>3, <1>5, <1>6, <1>7, SMT

\* What is left is the day of the year, the 366th of a leap year too.
LEMMA YearsTaken ==
    ASSUME NEW y, NEW k, DayInYear(y, k), NEW d4, d4 = k + 365 * (y % 4)
    PROVE  LET L == d4 \div 1460 IN ((d4 - L) % 365) + L = k
  BY SMTT(60) DEF DayInYear, Cal!LeapYear

\* The week that numToWeek gives is that of the n-th day's Thursday.
LEMMA WeekOfThursday ==
    ASSUME NEW n \in Int, NEW y \in Int, NEW k \in 0 .. Cal!DaysInYear(y) - 1,
           n - (n % 7) + 3 = dateToNum(y, 1, 1) + k
    PROVE  numToWeek(n) = k \div 7 + 1
  <1> DEFINE yy == y + 4799
             d4 == k + 365 * (yy % 4)
             L == d4 \div 1460
  <1>1. yy \in Int /\ k \in Int /\ DayInYear(yy, k)
    BY DEF DayInYear, Cal!DaysInYear, Cal!LeapYear
  <1>2. DaysBefore(yy) \in Int
    BY <1>1 DEF DaysBefore
  <1>3. n + 31741 - (n % 7) = k + DaysBefore(yy)
    BY <1>1, <1>2, YearLength
  <1>4. (k + DaysBefore(yy)) % 7 = 3
    BY <1>1, <1>2, <1>3
  <1>5. (((n + 31741 - (n % 7)) % 146097) % 36524) % 1461 = d4
    BY <1>1, <1>3, <1>4, FoursTaken
  <1>6. ((d4 - L) % 365) + L = k
    BY <1>1, YearsTaken
  <1> HIDE DEF d4
  <1> QED
    BY <1>5, <1>6 DEF numToWeek

\* numToWeek is the ISO week.
LEMMA WeekIsIso ==
    ASSUME NEW n \in Int, NEW y \in Int, NEW j \in 0 .. Cal!DaysInYear(y) - 1,
           n = dateToNum(y, 1, 1) + j
    PROVE  numToWeek(n) = Cal!IsoWeek(y, j + 1, n % 7)
  <1> DEFINE t == j + 4 - (n % 7)
  <1>1. ASSUME NEW z \in Int
        PROVE  /\ Cal!DaysInYear(z) \in Int
               /\ 365 <= Cal!DaysInYear(z) /\ Cal!DaysInYear(z) <= 366
               /\ dateToNum(z, 1, 1) \in Int
    BY SMT DEF Cal!DaysInYear, dateToNum
  <1>2. y - 1 \in Int /\ y + 1 \in Int /\ (y - 1) + 1 = y
    BY SMT
  <1> DEFINE len == Cal!DaysInYear(y)
             lenBefore == Cal!DaysInYear(y - 1)
             lenAfter == Cal!DaysInYear(y + 1)
             first == dateToNum(y, 1, 1)
             firstBefore == dateToNum(y - 1, 1, 1)
             firstAfter == dateToNum(y + 1, 1, 1)
  <1>3. firstAfter = first + len /\ first = firstBefore + lenBefore
    BY <1>2, YearLength
  <1>4. /\ len \in Int /\ lenBefore \in Int /\ lenAfter \in Int
        /\ 365 <= lenBefore /\ 365 <= lenAfter /\ 365 <= len
        /\ first \in Int /\ firstBefore \in Int
    BY <1>1, <1>2
  <1>5. n = first + j /\ j \in 0 .. len - 1
    OBVIOUS
  <1>6. Cal!IsoWeek(y, j + 1, n % 7) =
          LET thursday == j + 1 + 3 - (n % 7)
              inItsYear == IF thursday < 1 THEN thursday + lenBefore
                           ELSE IF thursday > len THEN thursday - len
                           ELSE thursday
          IN  (inItsYear - 1) \div 7 + 1
    BY DEF Cal!IsoWeek
  <1> HIDE DEF len, lenBefore, lenAfter, first, firstBefore, firstAfter
  <1>7. /\ n % 7 \in 0 .. 6 /\ j \in Int /\ 0 <= j /\ j < len /\ t \in Int
        /\ n - (n % 7) + 3 = first + t - 1
        /\ (j + 1) + 3 - (n % 7) = t
    BY <1>4, <1>5, SMT
  <1> HIDE DEF t
  <1>8. CASE t < 1
    <2> DEFINE k == t - 1 + lenBefore
    <2>1. k \in 0 .. lenBefore - 1
      BY <1>4, <1>7, <1>8, SMT
    <2>2. n - (n % 7) + 3 = firstBefore + k
      BY <1>3, <1>4, <1>7, SMT
    <2>3. Cal!IsoWeek(y, j + 1, n % 7) = k \div 7 + 1
      BY <1>4, <1>6, <1>7, <1>8, SMT
    <2> HIDE DEF k
    <2> QED
      BY <1>2, <2>1, <2>2, <2>3, WeekOfThursday DEF lenBefore, firstBefore
  <1>9. CASE t > len
    <2> DEFINE k == t - 1 - len
    <2>1. k \in 0 .. lenAfter - 1
      BY <1>4, <1>7, <1>9, SMT
    <2>2. n - (n % 7) + 3 = firstAfter + k
      BY <1>3, <1>4, <1>7, SMT
    <2>3. Cal!IsoWeek(y, j + 1, n % 7) = k \div 7 + 1
      <3>1. t - len - 1 = t - 1 - len /\ ~(t < 1)
        BY <1>4, <1>9, <1>7, SMT
      <3> QED
        BY <1>6, <1>9, <1>7, <3>1, SMT
    <2> HIDE DEF k
    <2> QED
      BY <1>2, <2>1, <2>2, <2>3, WeekOfThursday DEF lenAfter, firstAfter
  <1>10. CASE 1 <= t /\ t <= len
    <2> DEFINE k == t - 1
    <2>1. k \in 0 .. len - 1
      BY <1>4, <1>7, <1>10, SMT
    <2>2. n - (n % 7) + 3 = first + k
      BY <1>4, <1>7, SMT
    <2>3. Cal!IsoWeek(y, j + 1, n % 7) = k \div 7 + 1
      BY <1>4, <1>6, <1>7, <1>10, SMT
    <2> HIDE DEF k
    <2> QED
      BY <2>1, <2>2, <2>3, WeekOfThursday DEF len, first
  <1> QED
    BY <1>4, <1>7, <1>8, <1>9, <1>10, SMT

-----------------------------------------------------------------------------
(* The walk *)

\* The date of the next number is the next date.
LEMMA NextDate ==
    ASSUME NEW y, NEW m, NEW d, Cal!IsDate(y, m, d), NEW n, n = dateToNum(y, m, d)
    PROVE  /\ n \in Int
           /\ d < Cal!DaysInMonth(y, m) => numToDate(n + 1) = <<y, m, d + 1>>
           /\ d = Cal!DaysInMonth(y, m) /\ m < 12 => numToDate(n + 1) = <<y, m + 1, 1>>
           /\ d = Cal!DaysInMonth(y, m) /\ m = 12 =>
                /\ numToDate(n + 1) = <<y + 1, 1, 1>>
                /\ dateToNum(y + 1, 1, 1) = n + 1
  <1>1. n \in Int
    BY SMT DEF Cal!IsDate, Cal!DaysInMonth, dateToNum
  <1>2. ASSUME d < Cal!DaysInMonth(y, m)
        PROVE  numToDate(n + 1) = <<y, m, d + 1>>
    <2>1. dateToNum(y, m, d + 1) = n + 1
      BY SMT DEF Cal!IsDate, Cal!DaysInMonth, dateToNum
    <2>2. Cal!IsDate(y, m, d + 1)
      BY <1>2, SMT DEF Cal!IsDate, Cal!DaysInMonth
    <2> QED
      BY <2>1, <2>2, DateOfNum
  <1>3. ASSUME d = Cal!DaysInMonth(y, m), m < 12
        PROVE  numToDate(n + 1) = <<y, m + 1, 1>>
    <2>1. dateToNum(y, m + 1, 1) = n + 1
      BY <1>3, SMTT(60) DEF Cal!IsDate, Cal!DaysInMonth, Cal!LeapYear, dateToNum
    <2>2. Cal!IsDate(y, m + 1, 1)
      BY <1>3, SMT DEF Cal!IsDate, Cal!DaysInMonth
    <2> QED
      BY <2>1, <2>2, DateOfNum
  <1>4. ASSUME d = Cal!DaysInMonth(y, m), m = 12
        PROVE  /\ numToDate(n + 1) = <<y + 1, 1, 1>>
               /\ dateToNum(y + 1, 1, 1) = n + 1
    <2>1. dateToNum(y + 1, 1, 1) = n + 1
      BY <1>4, SMTT(60) DEF Cal!IsDate, Cal!DaysInMonth, Cal!LeapYear, dateToNum
    <2>2. Cal!IsDate(y + 1, 1, 1)
      BY SMT DEF Cal!IsDate, Cal!DaysInMonth
    <2> QED
      BY <2>1, <2>2, DateOfNum
  <1> QED
    BY <1>1, <1>2, <1>3, <1>4

\* The number is an integer.
LEMMA NumType == Spec => [](num \in Int)
  <1>1. Init => num \in Int
    BY DateTimeAssumption, SMT DEF Init, dateToNum
  <1>2. num \in Int /\ [Tomorrow]_num => (num \in Int)'
    BY DaysAdded, SMT DEF Tomorrow
  <1> QED
    BY <1>1, <1>2, PTL DEF Spec

\* The walk begins on the first of January.
LEMMA CalInit == Init => Cal!Init
  <1> SUFFICES ASSUME Init PROVE Cal!Init
    OBVIOUS
  <1>1. Cal!IsDate(FirstYear, 1, 1)
    BY DateTimeAssumption, SMT DEF Cal!IsDate, Cal!DaysInMonth
  <1>2. numToDate(num) = <<FirstYear, 1, 1>>
    BY <1>1, DateOfNum DEF Init
  <1>3. num \in Int
    BY DateTimeAssumption, SMT DEF Init, dateToNum
  <1>4. Date[1] = FirstYear /\ Date[2] = 1 /\ Date[3] = 1
    BY <1>2 DEF Date
  <1>5. DayOfYear = 1
    BY <1>3, <1>4, SMT DEF Init, DayOfYear
  <1>6. Weekday \in 0 .. 6
    BY <1>3, SMT DEF Weekday
  <1> QED
    BY <1>4, <1>5, <1>6 DEF Cal!Init

\* A step of the walk is a step of the calendar.
LEMMA CalNext == num \in Int /\ Tomorrow => Cal!Next
  <1> SUFFICES ASSUME num \in Int, Tomorrow PROVE Cal!Next
    OBVIOUS
  <1> DEFINE y == Date[1]
             m == Date[2]
             d == Date[3]
  <1>1. num' = num + 1
    BY DaysAdded, SMT DEF Tomorrow
  <1>2. Date' = numToDate(num + 1)
    BY <1>1 DEF Date
  <1>3. /\ Cal!IsDate(y, m, d) /\ num = dateToNum(y, m, d)
        /\ y \in Int /\ m \in 1 .. 12 /\ d \in 1 .. Cal!DaysInMonth(y, m)
    BY DateIsDate, NumOfDate DEF Date, Cal!IsDate
  <1>4. Weekday' = (Weekday + 1) % 7
    BY <1>1, SMT DEF Weekday
  <1>5. /\ DayOfYear = num - dateToNum(y, 1, 1) + 1
        /\ DayOfYear' = num' - dateToNum(Date[1]', 1, 1) + 1
    BY DEF DayOfYear
  <1>6. dateToNum(y, 1, 1) \in Int /\ Cal!DaysInMonth(y, m) \in Int
    BY <1>3, SMT DEF dateToNum, Cal!DaysInMonth
  <1>7. CASE d < Cal!DaysInMonth(y, m)
    <2>1. Date' = <<y, m, d + 1>>
      BY <1>2, <1>3, <1>7, NextDate
    <2>2. DayOfYear' = DayOfYear + 1
      BY <1>1, <1>5, <1>6, <2>1
    <2> QED
      BY <1>4, <1>7, <2>1, <2>2 DEF Cal!Next, Cal!NextDay
  <1>8. CASE d = Cal!DaysInMonth(y, m) /\ m < 12
    <2>1. Date' = <<y, m + 1, 1>>
      BY <1>2, <1>3, <1>8, NextDate
    <2>2. DayOfYear' = DayOfYear + 1
      BY <1>1, <1>5, <1>6, <2>1
    <2> QED
      BY <1>4, <1>8, <2>1, <2>2 DEF Cal!Next, Cal!NextMonth
  <1>9. CASE d = Cal!DaysInMonth(y, m) /\ m = 12
    <2>1. Date' = <<y + 1, 1, 1>> /\ dateToNum(y + 1, 1, 1) = num + 1
      BY <1>2, <1>3, <1>9, NextDate
    <2>2. DayOfYear' = 1
      BY <1>1, <1>5, <2>1
    <2> QED
      BY <1>4, <1>9, <2>1, <2>2 DEF Cal!Next, Cal!NextYear
  <1> QED
    BY <1>3, <1>6, <1>7, <1>8, <1>9

-----------------------------------------------------------------------------
(* Theorems *)

\* For every year to begin with and to end with, adding one day over and over
\* walks through the Gregorian calendar, days of the year and of the week
\* included (numToDate, dateToNum, daysAdd).
THEOREM CalendarIsWalked == Spec => WalksTheCalendar
  <1>1. UNCHANGED num => UNCHANGED Cal!vars
    BY DEF Cal!vars, Date, DayOfYear, Weekday
  <1>2. num \in Int /\ [Tomorrow]_num => [Cal!Next]_(Cal!vars)
    BY <1>1, CalNext
  <1> QED
    BY <1>2, CalInit, NumType, PTL DEF Spec, WalksTheCalendar, Cal!Spec

\* On every day dateToNum undoes numToDate.
THEOREM DatesComeBack == Spec => []NumbersComeBack
  <1>1. num \in Int => NumbersComeBack
    BY NumOfDate DEF NumbersComeBack, Date
  <1> QED
    BY <1>1, NumType, PTL

\* On every day, daysAdd moves by as many days as it is told.
THEOREM DaysAreAddedAlways == Spec => []DaysAreAdded
  <1>1. num \in Int => DaysAreAdded
    BY DaysAdded, DateTimeAssumption DEF DaysAreAdded
  <1> QED
    BY <1>1, NumType, PTL

\* On every day, ymdAdd lands in the month that is as far away as it is told,
\* on the same day if that month has it, and counts days on from its first.
THEOREM MonthsCarryAlways == Spec => []MonthsCarry
  <1>1. ASSUME num \in Int, NEW y \in YearOffsets, NEW m \in MonthOffsets,
               NEW there, there = 12 * (Date[1] + y) + Date[2] - 1 + m
        PROVE  /\ \A d \in DayOffsets :
                     ymdAdd(num, y, m, d)
                       = dateToNum(there \div 12, (there % 12) + 1, 1) + Date[3] - 1 + d
               /\ Date[3] <= Cal!DaysInMonth(there \div 12, (there % 12) + 1) =>
                     numToDate(ymdAdd(num, y, m, 0))
                       = <<there \div 12, (there % 12) + 1, Date[3]>>
    <2>1. y \in Int /\ m \in Int /\ \A d \in DayOffsets : d \in Int
      BY DateTimeAssumption
    <2>2. \A d \in DayOffsets :
             ymdAdd(num, y, m, d)
               = dateToNum(there \div 12, (there % 12) + 1, 1) + Date[3] - 1 + d
      BY <1>1, <2>1, DaysCountOn DEF Date
    <2>3. Date[3] <= Cal!DaysInMonth(there \div 12, (there % 12) + 1) =>
             numToDate(ymdAdd(num, y, m, 0))
               = <<there \div 12, (there % 12) + 1, Date[3]>>
      BY <1>1, <2>1, MonthsAdded DEF Date
    <2> QED
      BY <2>2, <2>3
  <1>2. num \in Int => MonthsCarry
    BY <1>1 DEF MonthsCarry
  <1> QED
    BY <1>2, NumType, PTL

\* On every day, numToWeek is the ISO week.
THEOREM WeeksAreRight == Spec => []WeeksAreIso
  <1>1. ASSUME num \in Int PROVE WeeksAreIso
    <2> DEFINE y == Date[1]
               j == num - dateToNum(y, 1, 1)
    <2>1. y \in Int /\ Cal!IsDate(y, Date[2], Date[3])
          /\ num = dateToNum(y, Date[2], Date[3])
      BY <1>1, DateIsDate, NumOfDate DEF Date, Cal!IsDate
    <2>2. j \in 0 .. Cal!DaysInYear(y) - 1
      BY <2>1, DateInYear
    <2>3. dateToNum(y, 1, 1) \in Int
      BY <2>1, SMT DEF dateToNum
    <2>4. num = dateToNum(y, 1, 1) + j /\ DayOfYear = j + 1
      BY <1>1, <2>3 DEF DayOfYear
    <2> HIDE DEF y, j
    <2>5. numToWeek(num) = Cal!IsoWeek(y, j + 1, num % 7)
      BY <1>1, <2>1, <2>2, <2>4, WeekIsIso
    <2> QED
      BY <2>4, <2>5 DEF WeeksAreIso, Weekday, y
  <1> QED
    BY <1>1, NumType, PTL
=============================================================================
