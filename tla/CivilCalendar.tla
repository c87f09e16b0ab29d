--------------------------- MODULE CivilCalendar ---------------------------
(***************************************************************************)
(* The Gregorian calendar as everybody knows it: a date that turns at      *)
(* midnight.  Nothing here divides days; it is what the arithmetic of      *)
(* libs/time promises.                                                     *)
(***************************************************************************)
EXTENDS Integers

VARIABLE date

LeapYear(y) == \/ y % 400 = 0
               \/ y % 4 = 0 /\ y % 100 # 0

\* month_length.c: days of a month, counted from 0.
Length(year, mon) == CASE mon = 1 -> IF LeapYear(year) THEN 29 ELSE 28
                       [] mon \in {3, 5, 8, 10} -> 30
                       [] OTHER -> 31

LastOfMonth == date.mday = Length(date.year, date.mon)
LastOfYear == date.mon = 11 /\ LastOfMonth

\* The first of January 2000 was a Saturday.
Init == date = [year |-> 2000, mon |-> 0, mday |-> 1, wday |-> 6]

Midnight ==
  date' = [year |-> IF LastOfYear THEN date.year + 1 ELSE date.year,
           mon  |-> IF LastOfYear THEN 0 ELSE IF LastOfMonth THEN date.mon + 1 ELSE date.mon,
           mday |-> IF LastOfMonth THEN 1 ELSE date.mday + 1,
           wday |-> (date.wday + 1) % 7]

Spec == Init /\ [][Midnight]_date
=============================================================================
