--------------------------- MODULE ClockRegisters ---------------------------
(***************************************************************************)
(* The date as the real-time clock keeps it: a byte of two decimal digits  *)
(* each for day, month and year, the century in a bit of the month's.      *)
(* DS3232SN writes and reads them; the chip counts them by a calendar of   *)
(* its own.  (Seconds, minutes and hours are converted the same way.)      *)
(***************************************************************************)
EXTENDS GmTime

Register == 0 .. 255
Century  == 128

dec2bcd(n) == (n + 6 * (n \div 10)) % 256
bcd2dec(n) == (n - 6 * (n \div 16)) % 256

\* The registers after writeTime() of a day.
WriteTime(day) ==
  LET tm == GmTime(day)
  IN [mday |-> dec2bcd(tm.mday), mon |-> dec2bcd(tm.mon + 1),
      year |-> dec2bcd(tm.year - 2000)]

\* The month and the year changed over, both from 1.
ReadTimeMonthFromOne(r) ==
  MkTime([year |-> 2000 + bcd2dec(r.year), mon |-> bcd2dec(r.mon % Century),
          mday |-> bcd2dec(r.mday)])

\* readTime() and get(): the day in the registers, the century bit left out.
ReadTime(r) ==
  MkTime([year |-> 2000 + bcd2dec(r.year), mon |-> bcd2dec(r.mon % Century) - 1,
          mday |-> bcd2dec(r.mday)])

\* The date register of an alarm: setAlarm() with ALM1_MATCH_DATE.
AlarmDate(day) == dec2bcd(GmTime(day).mday)

-----------------------------------------------------------------------------
(* The chip: every fourth year is a leap year; the alarm compares registers. *)

NextDigits(b) == IF b % 16 = 9 THEN b + 7 ELSE b + 1

LastOfMonth(r) ==
  LET mon == bcd2dec(r.mon % Century)
  IN dec2bcd(CASE mon = 2 -> IF bcd2dec(r.year) % 4 = 0 THEN 29 ELSE 28
               [] mon \in {4, 6, 9, 11} -> 30
               [] OTHER -> 31)

TurnDay(r) ==
  LET lastDay == r.mday = LastOfMonth(r)
      lastMonth == lastDay /\ r.mon % Century = dec2bcd(12)
      lastYear == lastMonth /\ r.year = dec2bcd(99)
      century == IF lastYear THEN Century - (r.mon \div Century) * Century
                 ELSE (r.mon \div Century) * Century
  IN [mday |-> IF lastDay THEN 1 ELSE NextDigits(r.mday),
      mon  |-> century + (IF lastMonth THEN 1
                          ELSE IF lastDay THEN NextDigits(r.mon % Century) ELSE r.mon % Century),
      year |-> IF lastYear THEN 0 ELSE IF lastMonth THEN NextDigits(r.year) ELSE r.year]
=============================================================================
