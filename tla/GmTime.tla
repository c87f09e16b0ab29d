------------------------------- MODULE GmTime -------------------------------
(***************************************************************************)
(* The calendar arithmetic of the firmware: avr-libc's gmtime_r() and      *)
(* mk_gmtime() as libs/time compiles them for this board, and the          *)
(* operations of DateTime and Period that a rule's periods are computed    *)
(* with.  An instant is a midnight, counted in days since 2000-01-01; the  *)
(* time of day is carried along unchanged by everything below.             *)
(***************************************************************************)
EXTENDS Integers, SequencesExt

\* The last whole day that 2^32 seconds reach, in February 2136.
LastDay == 49709
Days == 0 .. LastDay
\* EMPTY_TIME, the greatest value of dt_time_t.
Empty == LastDay + 1

\* Month (from 0) and day of the month (from 1) of a day of the year.
MonthDay(yday, leap) ==
  LET n == 59 + leap
      d == yday - n
      half == d % 153
      pair == half % 61
  IN IF yday < n
     THEN [mon |-> yday \div 31, mday |-> (yday % 31) + 1]
     ELSE [mon |-> 2 + 5 * (d \div 153) + 2 * (half \div 61) + pair \div 31,
           mday |-> (pair % 31) + 1]

\* gmtime_r() as it would be without the correction for the years after 2100.
GmTimeNoCentury(days) ==
  LET first == 4 * (days \div 1461)
      d == days % 1461
      later == d > 365
      monthDay == IF later THEN MonthDay((d - 1) % 365, 0) ELSE MonthDay(d, 1)
  IN [year |-> 2000 + first + (IF later THEN (d - 1) \div 365 ELSE 0),
      mon |-> monthDay.mon, mday |-> monthDay.mday, wday |-> (days + 6) % 7]

\* gmtime_r(): the date of a day.
GmTime(days) ==
  LET rest == days % 36525
      first == 100 * (days \div 36525) + 4 * (rest \div 1461)
      d == (rest % 1461) + (IF first > 100 THEN 1 ELSE 0)
      leap == IF first = 100 THEN 0 ELSE 1
      later == d > 364 + leap
      monthDay == IF later THEN MonthDay((d - leap) % 365, 0) ELSE MonthDay(d, leap)
  IN [year |-> 2000 + first + (IF later THEN (d - leap) \div 365 ELSE 0),
      mon |-> monthDay.mon, mday |-> monthDay.mday, wday |-> (days + 6) % 7]

IsLeap(year) == year % 4 = 0 /\ (year % 100 # 0 \/ year % 400 = 0)

\* The month index folded by 5 before its half year is told.
MonthStartFolded(year, mon) ==
  LET n == (mon - 2) % 5
  IN IF mon < 2 THEN IF mon = 0 THEN 0 ELSE 31
     ELSE 59 + (IF IsLeap(year) THEN 1 ELSE 0) + 61 * (n \div 2) + 31 * (n % 2)

\* Days from the first of January to the first of a month.  Nothing stops mon
\* from being 12 or more: mk_gmtime() does not normalise its argument.
MonthStart(year, mon) ==
  LET n == mon - 2
  IN IF mon < 2 THEN IF mon = 0 THEN 0 ELSE 31
     ELSE 59 + (IF IsLeap(year) THEN 1 ELSE 0) + (IF n > 4 THEN 153 ELSE 0)
            + 61 * ((n % 5) \div 2) + 31 * ((n % 5) % 2)

\* mk_gmtime(): the day of a date.
MkTime(tm) ==
  LET n == tm.year - 2000
      leaps == IF n = 0 THEN 0 ELSE (n - 1) \div 4 - (n - 1) \div 100 + 1
  IN 365 * n + leaps + MonthStart(tm.year, tm.mon) + tm.mday - 1

\* The constructor from year, month and day (both from 1).
Date(year, month, day) == MkTime([year |-> year, mon |-> month - 1, mday |-> day])

\* The bound of the years since 1900, applied to a year of the calendar.
CapYearSince1900(year) == IF year >= 236 THEN 236 ELSE year

\* setTimePtrYears(): dt_tm's year stops at 2136.
CapYear(year) == IF year >= 2136 THEN 2136 ELSE IF year <= 1900 THEN 1900 ELSE year

PlusYears(t, n) == MkTime([GmTime(t) EXCEPT !.year = CapYear(@ + n)])

\* C divides towards zero; the month is not carried into the year.
PlusMonths(t, n) ==
  LET years == IF n < 0 THEN -((-n) \div 12) ELSE n \div 12
  IN MkTime([GmTime(t) EXCEPT !.year = CapYear(@ + years), !.mon = @ + n - 12 * years])

\* The cast of a field's value to int16_t.
Narrow(n) == ((n + 32768) % 65536) - 32768

\* A period is a sequence of fields [type, value]; an empty one is infinite.
FieldTypes == {"years", "months", "weeks", "days"}

PlusField(t, field) ==
  LET n == Narrow(field.value)
  IN CASE field.type = "years"  -> PlusYears(t, n)
       [] field.type = "months" -> PlusMonths(t, n)
       [] field.type = "weeks"  -> t + 7 * n
       [] field.type = "days"   -> t + n

\* operator+: the fields are added one after another, in the order they have.
Plus(t, period) == FoldLeft(PlusField, t, period)

HasField(period, type) == \E i \in DOMAIN period : period[i].type = type

\* The week counted from Sunday.
WeekStartSunday(now) == now - GmTime(now).wday

\* The Monday of the week, where Sunday is day 0 and so one day before it.
WeekStart(now) == now - (GmTime(now).wday - 1)

\* updateInitialStartOfCurrentPeriod(): the start of the year, month, week or
\* day that holds now, by the longest field of the period.
PeriodStart(now, period) ==
  LET tm == GmTime(now)
  IN CASE HasField(period, "years") -> Date(tm.year, 1, 1)
       [] HasField(period, "months") /\ ~HasField(period, "years") ->
            Date(tm.year, tm.mon + 1, 1)
       [] HasField(period, "weeks") /\ ~HasField(period, "months")
            /\ ~HasField(period, "years") -> WeekStart(now)
       [] OTHER -> now
=============================================================================
