----------------------------- MODULE MCDateTime -----------------------------
EXTENDS DateTime

\* All that can happen to days within four hundred years, the calendar's
\* period, does.
MCDayOffsets == {-366, -1, 0, 31}
MCYearOffsets == {0, 100}
MCMonthOffsets == {-25, -12, -1, 1, 11, 13}
=============================================================================
