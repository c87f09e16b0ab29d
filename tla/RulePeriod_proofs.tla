-------------------------- MODULE RulePeriod_proofs --------------------------
(***************************************************************************)
(* Proofs about RulePeriod: that gmtime_r() and mk_gmtime() are inverse to *)
(* each other and keep the Gregorian calendar, that the clock's registers  *)
(* give the day that has come, and that a rule's periods keep the          *)
(* calendar's, hold the present when a pass is over and only go forward.   *)
(*                                                                         *)
(* Nothing is computed for all of the 49710 days: a day is written as a    *)
(* day of a year after the days of the years before (IsYearDay), found by  *)
(* induction from one day to the next, and a year by its place among four. *)
(***************************************************************************)
EXTENDS RulePeriod, SetInduction, TLAPS

(* Years: a day is a day of the year after the days of the years before.   *)

Leap(year) == IF IsLeap(year) THEN 1 ELSE 0

\* The days before a year.
Before(year) ==
  LET n == year - 2000
  IN 365 * n + (IF n = 0 THEN 0 ELSE (n - 1) \div 4 - (n - 1) \div 100 + 1)

DateOf(year, yday) ==
  [year |-> year, mon |-> MonthDay(yday, Leap(year)).mon,
   mday |-> MonthDay(yday, Leap(year)).mday, wday |-> (Before(year) + yday + 6) % 7]

IsYearDay(day, year, yday) ==
  /\ year \in Nat /\ 2000 <= year /\ year <= 2136
  /\ yday \in Nat /\ yday <= 364 + Leap(year)
  /\ day = Before(year) + yday

LEMMA LeapYears ==
  ASSUME NEW n \in Nat, n <= 136
  PROVE  IsLeap(2000 + n) <=> n % 4 = 0 /\ n # 100
  BY DEF IsLeap

\* The years before 2100 and the ones from then on, by their place among four.
LEMMA EarlyYears ==
  ASSUME NEW q \in Nat, q <= 24, NEW k \in 0 .. 3
  PROVE  /\ Leap(2000 + (4 * q + k)) = IF k = 0 THEN 1 ELSE 0
         /\ Before(2000 + (4 * q + k)) = 1461 * q + (IF k = 0 THEN 0 ELSE 365 * k + 1)
  <1>1. 4 * q + k \in Nat /\ 4 * q + k < 100
    OBVIOUS
  <1>2. (4 * q + k) % 4 = k
    OBVIOUS
  <1>3. 4 * q + k # 0 => (4 * q + k - 1) \div 100 = 0
    BY <1>1
  <1>4. k = 0 /\ q # 0 => (4 * q + k - 1) \div 4 = q - 1
    OBVIOUS
  <1>5. k # 0 => (4 * q + k - 1) \div 4 = q
    OBVIOUS
  <1>6. IsLeap(2000 + (4 * q + k)) <=> k = 0
    BY <1>1, <1>2, LeapYears
  <1>7. 4 * q + k = 0 <=> q = 0 /\ k = 0
    OBVIOUS
  <1>8. (2000 + (4 * q + k)) - 2000 = 4 * q + k
    OBVIOUS
  <1>9. QED
    BY <1>3, <1>4, <1>5, <1>6, <1>7, <1>8 DEF Leap, Before

LEMMA LateYears ==
  ASSUME NEW q \in Nat, q <= 9, NEW k \in 0 .. 3, q < 9 \/ k = 0
  PROVE  /\ Leap(2100 + (4 * q + k)) = IF k = 0 /\ q # 0 THEN 1 ELSE 0
         /\ Before(2100 + (4 * q + k)) =
              36525 + 1461 * q + 365 * k + (IF k = 0 /\ q # 0 THEN -1 ELSE 0)
  <1> DEFINE m == 4 * q + k
  <1>1. m \in Nat /\ m <= 36 /\ m % 4 = k
    OBVIOUS
  <1>2. k = 0 /\ q # 0 => (m + 99) \div 4 = q + 24
    OBVIOUS
  <1>3. k # 0 => (m + 99) \div 4 = q + 25
    OBVIOUS
  <1>4. m = 0 <=> q = 0 /\ k = 0
    OBVIOUS
  <1>5. m = 4 * q + k
    OBVIOUS
  <1> HIDE DEF m
  <1>6. (m + 99) \div 100 = IF m = 0 THEN 0 ELSE 1
    BY <1>1
  <1>7. m = 0 => (m + 99) \div 4 = 24
    OBVIOUS
  <1>8. IsLeap(2100 + m) <=> k = 0 /\ q # 0
    <2>1. m + 100 \in Nat /\ m + 100 <= 136 /\ (m + 100) % 4 = k /\ 2000 + (m + 100) = 2100 + m
      BY <1>1
    <2>2. IsLeap(2000 + (m + 100)) <=> (m + 100) % 4 = 0 /\ m + 100 # 100
      BY <2>1, LeapYears
    <2>3. QED
      BY <1>1, <1>4, <2>1, <2>2
  <1>9. (2100 + m) - 2000 = m + 100 /\ m + 100 # 0 /\ (m + 100) - 1 = m + 99
    BY <1>1
  <1>10. Before(2100 + m) = 365 * (m + 100) + ((m + 99) \div 4 - (m + 99) \div 100 + 1)
    BY <1>9 DEF Before
  <1>11. Leap(2100 + m) = IF k = 0 /\ q # 0 THEN 1 ELSE 0
    BY <1>8 DEF Leap
  <1>12. CASE k # 0
    BY <1>3, <1>4, <1>5, <1>6, <1>10, <1>11, <1>12 DEF m
  <1>13. CASE k = 0 /\ q # 0
    BY <1>2, <1>4, <1>5, <1>6, <1>10, <1>11, <1>13 DEF m
  <1>14. CASE k = 0 /\ q = 0
    BY <1>7, <1>4, <1>5, <1>6, <1>10, <1>11, <1>14 DEF m
  <1>15. QED
    BY <1>12, <1>13, <1>14

\* Months: a date of the year and back again.
LEMMA MonthOfDay ==
  ASSUME NEW leap \in {0, 1}, NEW yday \in 0 .. 364 + leap
  PROVE  MonthDay(yday, leap).mon \in 0 .. 11 /\ MonthDay(yday, leap).mday \in 1 .. 31
  BY DEF MonthDay

LEMMA MonthBack ==
  ASSUME NEW year, NEW yday \in Nat, yday <= 364 + Leap(year)
  PROVE  LET m == MonthDay(yday, Leap(year)) IN MonthStart(year, m.mon) + m.mday - 1 = yday
  <1>1. CASE IsLeap(year)
    BY <1>1 DEF Leap, MonthDay, MonthStart
  <1>2. CASE ~IsLeap(year)
    BY <1>2 DEF Leap, MonthDay, MonthStart
  <1>3. QED
    BY <1>1, <1>2

-----------------------------------------------------------------------------
(* gmtime_r()'s divisions find the day's place: the century, the four      *)
(* years of it, the year and the day of the year.                          *)

LEMMA Divide ==
  ASSUME NEW q \in Nat, NEW r \in Nat
  PROVE  /\ r < 36525 => (36525 * q + r) \div 36525 = q /\ (36525 * q + r) % 36525 = r
         /\ r < 1461 => (1461 * q + r) \div 1461 = q /\ (1461 * q + r) % 1461 = r
         /\ r < 365 => (365 * q + r) \div 365 = q /\ (365 * q + r) % 365 = r
  OBVIOUS

\* A day is the r-th of the q-th four years of a century.
IsPlace(day, c, q, r) ==
  /\ c \in {0, 1} /\ q \in Nat /\ q <= 24 /\ r \in Nat /\ r < 1461
  /\ day = 36525 * c + (1461 * q + r) /\ 1461 * q + r < 36525

\* Its date, if the first of the four is a leap year or not.
DateFrom(day, first, d, leap) ==
  LET later == d > 364 + leap
      monthDay == IF later THEN MonthDay((d - leap) % 365, 0) ELSE MonthDay(d, leap)
  IN [year |-> 2000 + first + (IF later THEN (d - leap) \div 365 ELSE 0),
      mon |-> monthDay.mon, mday |-> monthDay.mday, wday |-> (day + 6) % 7]

\* What gmtime_r() makes of a day: the first of four years, the day from there, and whether
\* the first is a leap year.
FirstOf(day) == 100 * (day \div 36525) + 4 * ((day % 36525) \div 1461)
DayOf(day)   == ((day % 36525) % 1461) + (IF FirstOf(day) > 100 THEN 1 ELSE 0)
LeapOf(day)  == IF FirstOf(day) = 100 THEN 0 ELSE 1

LEMMA GmTimeFrom ==
  ASSUME NEW day, NEW c, NEW q, NEW r, IsPlace(day, c, q, r)
  PROVE  LET first == 100 * c + 4 * q
         IN GmTime(day) = DateFrom(day, first, r + (IF first > 100 THEN 1 ELSE 0),
                                   IF first = 100 THEN 0 ELSE 1)
  <1>1. c \in {0, 1} /\ q \in Nat /\ q <= 24 /\ r \in Nat /\ r < 1461
        /\ day = 36525 * c + (1461 * q + r) /\ 1461 * q + r < 36525
    BY DEF IsPlace
  <1> DEFINE rest == 1461 * q + r
             first == 100 * c + 4 * q
             d == r + (IF first > 100 THEN 1 ELSE 0)
             leap == IF first = 100 THEN 0 ELSE 1
  <1>2. rest \in Nat /\ rest < 36525 /\ day = 36525 * c + rest /\ c \in Nat
    BY <1>1
  <1>3. rest \div 1461 = q /\ rest % 1461 = r
    BY <1>1, Divide
  <1> HIDE DEF rest
  <1>4. day \div 36525 = c /\ day % 36525 = rest
    BY <1>2, Divide
  <1>5. FirstOf(day) = first
    BY <1>3, <1>4 DEF FirstOf
  <1>6. DayOf(day) = d
    BY <1>3, <1>4, <1>5 DEF DayOf
  <1>7. LeapOf(day) = leap
    BY <1>5 DEF LeapOf
  <1> HIDE DEF first, d, leap
  <1>8. GmTime(day) = DateFrom(day, FirstOf(day), DayOf(day), LeapOf(day))
    BY DEF GmTime, DateFrom, FirstOf, DayOf, LeapOf
  <1>9. GmTime(day) = DateFrom(day, first, d, leap)
    BY <1>5, <1>6, <1>7, <1>8
  <1>10. QED
    BY <1>9 DEF first, d, leap

\* The first year of the four, and the later ones.
IsFirst(leap, yday) == leap \in {0, 1} /\ yday \in Nat /\ yday <= 364 + leap
IsLater(d, leap, k, yday) ==
  /\ leap \in {0, 1} /\ k \in Nat /\ k > 0 /\ yday \in Nat /\ yday < 365
  /\ d = 365 * k + yday + leap

LEMMA FirstYear ==
  ASSUME NEW leap, NEW yday, IsFirst(leap, yday), NEW day, NEW first, NEW year,
         year = 2000 + first + 0
  PROVE  DateFrom(day, first, yday, leap)
           = [year |-> year, mon |-> MonthDay(yday, leap).mon,
              mday |-> MonthDay(yday, leap).mday, wday |-> (day + 6) % 7]
  <1>1. ~(yday > 364 + leap)
    BY DEF IsFirst
  <1>2. QED
    BY <1>1 DEF DateFrom

LEMMA LaterYear ==
  ASSUME NEW d, NEW leap, NEW k, NEW yday, IsLater(d, leap, k, yday), NEW day, NEW first,
         NEW year, year = 2000 + first + k
  PROVE  DateFrom(day, first, d, leap)
           = [year |-> year, mon |-> MonthDay(yday, 0).mon,
              mday |-> MonthDay(yday, 0).mday, wday |-> (day + 6) % 7]
  <1>1. leap \in {0, 1} /\ k \in Nat /\ k > 0 /\ yday \in Nat /\ yday < 365
        /\ d = 365 * k + yday + leap
    BY DEF IsLater
  <1>2. d - leap = 365 * k + yday /\ d > 364 + leap
    BY <1>1
  <1>3. (d - leap) \div 365 = k /\ (d - leap) % 365 = yday
    BY <1>1, <1>2, Divide
  <1>4. QED
    BY <1>2, <1>3 DEF DateFrom

\* The first of January is the same day of the year in a leap year.
LEMMA NewYear ==
  MonthDay(0, 0) = [mon |-> 0, mday |-> 1] /\ MonthDay(0, 1) = [mon |-> 0, mday |-> 1]
  BY DEF MonthDay

LEMMA EarlyDate ==
  ASSUME NEW q \in Nat, q <= 24, NEW k \in 0 .. 3, NEW day, NEW year, NEW yday,
         year = 2000 + (4 * q + k), IsYearDay(day, year, yday)
  PROVE  GmTime(day) = DateOf(year, yday)
  <1> DEFINE r == (IF k = 0 THEN 0 ELSE 365 * k + 1) + yday
             first == 100 * 0 + 4 * q
  <1>1. /\ Leap(year) = IF k = 0 THEN 1 ELSE 0
        /\ Before(year) = 1461 * q + (IF k = 0 THEN 0 ELSE 365 * k + 1)
    BY EarlyYears
  <1>2. yday \in Nat /\ yday <= 364 + Leap(year) /\ day = Before(year) + yday
    BY DEF IsYearDay
  <1>3. r \in Nat /\ r < 1461 /\ day = 1461 * q + r
    BY <1>1, <1>2
  <1>4. first < 100 /\ first = 4 * q
    OBVIOUS
  <1> HIDE DEF first
  <1>5. r = IF k = 0 THEN yday ELSE 365 * k + yday + 1
    BY <1>2
  <1> HIDE DEF r
  <1>6. IsPlace(day, 0, q, r)
    BY <1>3 DEF IsPlace
  <1>7. GmTime(day) = DateFrom(day, first, r + (IF first > 100 THEN 1 ELSE 0),
                               IF first = 100 THEN 0 ELSE 1)
    BY <1>6, GmTimeFrom DEF first
  <1>8. GmTime(day) = DateFrom(day, first, r, 1)
    <2>1. r + (IF first > 100 THEN 1 ELSE 0) = r /\ (IF first = 100 THEN 0 ELSE 1) = 1
      BY <1>3, <1>4
    <2>2. QED
      BY <1>7, <2>1
  <1>9. day + 6 = Before(year) + yday + 6
    BY <1>1, <1>2
  <1>10. CASE k = 0
    <2>1. GmTime(day) = [year |-> year, mon |-> MonthDay(yday, 1).mon,
                         mday |-> MonthDay(yday, 1).mday, wday |-> (day + 6) % 7]
      <3>1. IsFirst(1, yday) /\ year = 2000 + first + 0
        BY <1>1, <1>2, <1>4, <1>10 DEF IsFirst
      <3>2. QED
        BY <1>5, <1>8, <1>10, <3>1, FirstYear
    <2>2. QED
      BY <1>1, <1>9, <1>10, <2>1 DEF DateOf
  <1>11. CASE k # 0
    <2>1. IsLater(r, 1, k, yday) /\ year = 2000 + first + k
      BY <1>1, <1>2, <1>4, <1>5, <1>11 DEF IsLater
    <2>2. GmTime(day) = [year |-> year, mon |-> MonthDay(yday, 0).mon,
                         mday |-> MonthDay(yday, 0).mday, wday |-> (day + 6) % 7]
      BY <1>8, <2>1, LaterYear
    <2>3. QED
      BY <1>1, <1>9, <1>11, <2>2 DEF DateOf
  <1>12. QED
    BY <1>10, <1>11

\* The four years from 2100, which is no leap year.
LEMMA CenturyDate ==
  ASSUME NEW k \in 0 .. 3, NEW day, NEW year, NEW yday,
         year = 2100 + k, IsYearDay(day, year, yday)
  PROVE  GmTime(day) = DateOf(year, yday)
  <1> DEFINE r == 365 * k + yday
             first == 100 * 1 + 4 * 0
  <1>1. Leap(year) = 0 /\ Before(year) = 36525 + 365 * k
    <2>1. year = 2100 + (4 * 0 + k)
      OBVIOUS
    <2>2. /\ Leap(2100 + (4 * 0 + k)) = IF k = 0 /\ 0 # 0 THEN 1 ELSE 0
          /\ Before(2100 + (4 * 0 + k)) =
               36525 + 1461 * 0 + 365 * k + (IF k = 0 /\ 0 # 0 THEN -1 ELSE 0)
      BY LateYears
    <2>3. QED
      BY <2>1, <2>2
  <1>2. yday \in Nat /\ yday <= 364 /\ day = 36525 + 365 * k + yday
    BY <1>1 DEF IsYearDay
  <1>3. r \in Nat /\ r < 1461 /\ day = 36525 * 1 + (1461 * 0 + r) /\ r = 365 * k + yday
    BY <1>2
  <1>4. first = 100
    OBVIOUS
  <1> HIDE DEF r, first
  <1>5. IsPlace(day, 1, 0, r)
    BY <1>3 DEF IsPlace
  <1>6. GmTime(day) = DateFrom(day, first, r + (IF first > 100 THEN 1 ELSE 0),
                               IF first = 100 THEN 0 ELSE 1)
    BY <1>5, GmTimeFrom DEF first
  <1>7. GmTime(day) = DateFrom(day, first, r, 0)
    <2>1. r + (IF first > 100 THEN 1 ELSE 0) = r /\ (IF first = 100 THEN 0 ELSE 1) = 0
      BY <1>3, <1>4
    <2>2. QED
      BY <1>6, <2>1
  <1>8. day + 6 = Before(year) + yday + 6
    BY <1>1, <1>2
  <1>9. CASE k = 0
    <2>1. GmTime(day) = [year |-> year, mon |-> MonthDay(yday, 0).mon,
                         mday |-> MonthDay(yday, 0).mday, wday |-> (day + 6) % 7]
      <3>1. IsFirst(0, yday) /\ year = 2000 + first + 0 /\ r = yday
        BY <1>2, <1>3, <1>4, <1>9 DEF IsFirst
      <3>2. QED
        BY <1>7, <3>1, FirstYear
    <2>2. QED
      BY <1>1, <1>8, <2>1 DEF DateOf
  <1>10. CASE k # 0
    <2>1. IsLater(r, 0, k, yday) /\ year = 2000 + first + k
      BY <1>2, <1>3, <1>4, <1>10 DEF IsLater
    <2>2. GmTime(day) = [year |-> year, mon |-> MonthDay(yday, 0).mon,
                         mday |-> MonthDay(yday, 0).mday, wday |-> (day + 6) % 7]
      BY <1>7, <2>1, LaterYear
    <2>3. QED
      BY <1>1, <1>8, <2>2 DEF DateOf
  <1>11. QED
    BY <1>9, <1>10

\* The years after: one day is missing in front of them, so that the first of January
\* falls to the four years before.
LEMMA LateDate ==
  ASSUME NEW q \in Nat, 1 <= q, q <= 9, NEW k \in 0 .. 3, q < 9 \/ k = 0,
         NEW day, NEW year, NEW yday,
         year = 2100 + (4 * q + k), IsYearDay(day, year, yday), ~(k = 0 /\ yday = 0)
  PROVE  GmTime(day) = DateOf(year, yday)
  <1> DEFINE r == 365 * k + yday + (IF k = 0 THEN -1 ELSE 0)
             first == 100 * 1 + 4 * q
  <1>1. /\ Leap(year) = IF k = 0 THEN 1 ELSE 0
        /\ Before(year) = 36525 + 1461 * q + 365 * k + (IF k = 0 THEN -1 ELSE 0)
    <2>1. /\ Leap(year) = IF k = 0 /\ q # 0 THEN 1 ELSE 0
          /\ Before(year) = 36525 + 1461 * q + 365 * k + (IF k = 0 /\ q # 0 THEN -1 ELSE 0)
      BY LateYears
    <2>2. QED
      BY <2>1
  <1>2. yday \in Nat /\ yday <= 364 + Leap(year) /\ day = Before(year) + yday
    BY DEF IsYearDay
  <1>3. r \in Nat /\ r < 1461 /\ day = 36525 * 1 + (1461 * q + r)
    BY <1>1, <1>2
  <1>4. first > 100 /\ first = 100 + 4 * q
    OBVIOUS
  <1>5. r + 1 = IF k = 0 THEN yday ELSE 365 * k + yday + 1
    BY <1>2
  <1> HIDE DEF r, first
  <1>6. IsPlace(day, 1, q, r)
    BY <1>3 DEF IsPlace
  <1>7. GmTime(day) = DateFrom(day, first, r + (IF first > 100 THEN 1 ELSE 0),
                               IF first = 100 THEN 0 ELSE 1)
    BY <1>6, GmTimeFrom DEF first
  <1>8. GmTime(day) = DateFrom(day, first, r + 1, 1)
    <2>1. r + (IF first > 100 THEN 1 ELSE 0) = r + 1 /\ (IF first = 100 THEN 0 ELSE 1) = 1
      BY <1>3, <1>4
    <2>2. QED
      BY <1>7, <2>1
  <1>9. day + 6 = Before(year) + yday + 6
    BY <1>1, <1>2
  <1>10. CASE k = 0
    <2>1. GmTime(day) = [year |-> year, mon |-> MonthDay(yday, 1).mon,
                         mday |-> MonthDay(yday, 1).mday, wday |-> (day + 6) % 7]
      <3>1. IsFirst(1, yday) /\ year = 2000 + first + 0
        BY <1>1, <1>2, <1>4, <1>10 DEF IsFirst
      <3>2. QED
        BY <1>5, <1>8, <1>10, <3>1, FirstYear
    <2>2. QED
      BY <1>1, <1>9, <1>10, <2>1 DEF DateOf
  <1>11. CASE k # 0
    <2>1. IsLater(r + 1, 1, k, yday) /\ year = 2000 + first + k
      BY <1>1, <1>2, <1>4, <1>5, <1>11 DEF IsLater
    <2>2. GmTime(day) = [year |-> year, mon |-> MonthDay(yday, 0).mon,
                         mday |-> MonthDay(yday, 0).mday, wday |-> (day + 6) % 7]
      BY <1>8, <2>1, LaterYear
    <2>3. QED
      BY <1>1, <1>9, <1>11, <2>2 DEF DateOf
  <1>12. QED
    BY <1>10, <1>11

LEMMA LateNewYear ==
  ASSUME NEW q \in Nat, 1 <= q, q <= 9, NEW day, NEW year,
         year = 2100 + (4 * q + 0), IsYearDay(day, year, 0)
  PROVE  GmTime(day) = DateOf(year, 0)
  <1> DEFINE p == q - 1
             first == 100 * 1 + 4 * p
             leap == IF first = 100 THEN 0 ELSE 1
             d == 1460 + (IF first > 100 THEN 1 ELSE 0)
  <1>1. Leap(year) = 1 /\ Before(year) = 36525 + 1461 * q - 1
    <2>1. /\ Leap(year) = IF 0 = 0 /\ q # 0 THEN 1 ELSE 0
          /\ Before(year) = 36525 + 1461 * q + 365 * 0 + (IF 0 = 0 /\ q # 0 THEN -1 ELSE 0)
      BY LateYears
    <2>2. QED
      BY <2>1
  <1>2. day = 36525 + 1461 * q - 1
    BY <1>1 DEF IsYearDay
  <1>3. p \in Nat /\ p <= 8 /\ q = p + 1
    OBVIOUS
  <1>4. first = 100 + 4 * p
    OBVIOUS
  <1> HIDE DEF p
  <1>5. day = 36525 * 1 + (1461 * p + 1460)
    BY <1>2, <1>3
  <1> HIDE DEF first
  <1>6. IsPlace(day, 1, p, 1460)
    BY <1>3, <1>5 DEF IsPlace
  <1>7. GmTime(day) = DateFrom(day, first, d, leap)
    BY <1>6, GmTimeFrom DEF first
  <1>8. IsLater(d, leap, 4, 0) /\ year = 2000 + first + 4
    BY <1>3, <1>4 DEF IsLater
  <1> HIDE DEF d, leap
  <1>9. GmTime(day) = [year |-> year, mon |-> MonthDay(0, 0).mon,
                       mday |-> MonthDay(0, 0).mday, wday |-> (day + 6) % 7]
    BY <1>7, <1>8, LaterYear
  <1>10. day + 6 = Before(year) + 0 + 6
    BY <1>1, <1>2
  <1>11. QED
    BY <1>1, <1>9, <1>10, NewYear DEF DateOf

\* gmtime_r() gives the date of every day of every year.
LEMMA DateOfDay ==
  ASSUME NEW day, NEW year, NEW yday, IsYearDay(day, year, yday)
  PROVE  GmTime(day) = DateOf(year, yday)
  <1>1. year \in Nat /\ 2000 <= year /\ year <= 2136
    BY DEF IsYearDay
  <1>2. CASE year < 2100
    <2> DEFINE n == year - 2000
    <2>1. n \in Nat /\ n < 100 /\ year = 2000 + n
      BY <1>1, <1>2
    <2> HIDE DEF n
    <2>2. PICK q \in Nat, k \in 0 .. 3 : n = 4 * q + k
      <3>1. n \div 4 \in Nat /\ n % 4 \in 0 .. 3 /\ n = 4 * (n \div 4) + (n % 4)
        BY <2>1
      <3>2. QED
        BY <3>1
    <2>3. q <= 24
      BY <2>1, <2>2
    <2>4. QED
      BY <2>1, <2>2, <2>3, EarlyDate
  <1>3. CASE year >= 2100
    <2> DEFINE n == year - 2100
    <2>1. n \in Nat /\ n <= 36 /\ year = 2100 + n
      BY <1>1, <1>3
    <2> HIDE DEF n
    <2>2. PICK q \in Nat, k \in 0 .. 3 : n = 4 * q + k
      <3>1. n \div 4 \in Nat /\ n % 4 \in 0 .. 3 /\ n = 4 * (n \div 4) + (n % 4)
        BY <2>1
      <3>2. QED
        BY <3>1
    <2>3. q <= 9 /\ (q < 9 \/ k = 0)
      BY <2>1, <2>2
    <2>4. CASE q = 0
      <3>1. year = 2100 + k
        BY <2>1, <2>2, <2>4
      <3>2. QED
        BY <3>1, CenturyDate
    <2>5. CASE q # 0 /\ ~(k = 0 /\ yday = 0)
      <3>1. 1 <= q
        BY <2>5
      <3>2. QED
        BY <2>1, <2>2, <2>3, <2>5, <3>1, LateDate
    <2>6. CASE q # 0 /\ k = 0 /\ yday = 0
      <3>1. 1 <= q /\ year = 2100 + (4 * q + 0)
        BY <2>1, <2>2, <2>6
      <3>2. IsYearDay(day, year, 0)
        BY <2>6
      <3>3. GmTime(day) = DateOf(year, 0)
        BY <2>3, <3>1, <3>2, LateNewYear
      <3>4. QED
        BY <2>6, <3>3
    <2>7. QED
      BY <2>4, <2>5, <2>6
  <1>4. QED
    BY <1>1, <1>2, <1>3


-----------------------------------------------------------------------------
(* Every day has a year.                                                   *)

LEMMA NextYear ==
  ASSUME NEW year \in Nat, 2000 <= year, year <= 2136
  PROVE  Before(year + 1) = Before(year) + 365 + Leap(year) /\ Leap(year) \in {0, 1}
         /\ Before(year) \in Nat
  <1> DEFINE n == year - 2000
  <1>1. n \in Nat /\ n <= 136 /\ year = 2000 + n /\ (year + 1) - 2000 = n + 1
    OBVIOUS
  <1>2. Leap(year) = IF n % 4 = 0 /\ n # 100 THEN 1 ELSE 0
    BY <1>1, LeapYears DEF Leap
  <1> HIDE DEF n
  <1>3. n # 0 => n \div 4 = (n - 1) \div 4 + (IF n % 4 = 0 THEN 1 ELSE 0)
    BY <1>1
  <1>4. n # 0 => n \div 100 = (n - 1) \div 100 + (IF n = 100 THEN 1 ELSE 0)
    BY <1>1
  <1>5. Before(year + 1) = 365 * (n + 1) + (n \div 4 - n \div 100 + 1)
    BY <1>1 DEF Before
  <1>6. Before(year) = 365 * n + (IF n = 0 THEN 0 ELSE (n - 1) \div 4 - (n - 1) \div 100 + 1)
    BY <1>1 DEF Before
  <1>7. CASE n = 0
    BY <1>2, <1>5, <1>6, <1>7
  <1>8. CASE n # 0
    BY <1>1, <1>2, <1>3, <1>4, <1>5, <1>6, <1>8
  <1>9. QED
    BY <1>7, <1>8

LEMMA YearEnds == Before(2000) = 0 /\ Before(2100) = 36525 /\ Before(2136) = 49673
                  /\ Leap(2136) = 1
  BY DEF Before, Leap, IsLeap

\* The day after a day of a year.
LEMMA NextDay ==
  ASSUME NEW day, NEW year, NEW yday, IsYearDay(day, year, yday), day < LastDay
  PROVE  /\ yday < 364 + Leap(year) => IsYearDay(day + 1, year, yday + 1)
         /\ yday = 364 + Leap(year) => year < 2136 /\ IsYearDay(day + 1, year + 1, 0)
         /\ yday <= 364 + Leap(year)
  <1>1. year \in Nat /\ 2000 <= year /\ year <= 2136 /\ yday \in Nat /\ yday <= 364 + Leap(year)
        /\ day = Before(year) + yday
    BY DEF IsYearDay
  <1>2. Before(year + 1) = Before(year) + 365 + Leap(year) /\ Leap(year) \in {0, 1}
        /\ Before(year) \in Nat
    BY <1>1, NextYear
  <1>3. ASSUME yday < 364 + Leap(year)
        PROVE  IsYearDay(day + 1, year, yday + 1)
    BY <1>1, <1>2, <1>3 DEF IsYearDay
  <1>4. ASSUME yday = 364 + Leap(year)
        PROVE  year < 2136 /\ IsYearDay(day + 1, year + 1, 0)
    <2>1. year # 2136
      BY <1>1, <1>2, <1>4, YearEnds DEF LastDay
    <2>2. year + 1 <= 2136 /\ day + 1 = Before(year + 1) + 0
      BY <1>1, <1>2, <1>4, <2>1
    <2>3. Leap(year + 1) \in {0, 1}
      BY DEF Leap
    <2>4. QED
      BY <1>1, <2>2, <2>3 DEF IsYearDay
  <1>5. QED
    BY <1>1, <1>3, <1>4

LEMMA YearOfDay ==
  ASSUME NEW day \in Days
  PROVE  \E year, yday : IsYearDay(day, year, yday)
  <1> DEFINE Has(d) == \E year, yday : IsYearDay(d, year, yday)
             G == {d \in Nat : d <= LastDay => Has(d)}
  <1>1. 0 \in G
    <2>1. IsYearDay(0, 2000, 0)
      BY YearEnds DEF IsYearDay, Leap
    <2>2. QED
      BY <2>1
  <1>2. ASSUME NEW d \in G
        PROVE  d + 1 \in G
    <2>1. d \in Nat /\ d + 1 \in Nat /\ (d <= LastDay => Has(d))
      OBVIOUS
    <2>2. ASSUME d + 1 <= LastDay
          PROVE  Has(d + 1)
      <3>1. d < LastDay /\ d <= LastDay
        BY <2>1, <2>2 DEF LastDay
      <3>2. PICK year, yday : IsYearDay(d, year, yday)
        BY <2>1, <3>1
      <3>3. yday < 364 + Leap(year) \/ yday = 364 + Leap(year)
        <4>1. yday \in Nat /\ yday <= 364 + Leap(year) /\ Leap(year) \in {0, 1}
          BY <3>2 DEF IsYearDay, Leap
        <4>2. QED
          BY <4>1
      <3>4. QED
        BY <3>1, <3>2, <3>3, NextDay
    <2>3. QED
      BY <2>1, <2>2
  <1> HIDE DEF G
  <1>3. G = Nat
    <2>1. G \in SUBSET Nat
      BY DEF G
    <2>2. QED
      BY <1>1, <1>2, <2>1, NatSetInduction
  <1>4. day \in Nat /\ day <= LastDay
    <2>1. LastDay \in Int
      BY DEF LastDay
    <2>2. QED
      BY <2>1 DEF Days
  <1>5. QED
    BY <1>3, <1>4 DEF G

-----------------------------------------------------------------------------
(* mk_gmtime() is the inverse of gmtime_r().                               *)

LEMMA MkTimeOf ==
  ASSUME NEW year, NEW mon, NEW mday, NEW tm,
         tm.year = year, tm.mon = mon, tm.mday = mday
  PROVE  MkTime(tm) = Before(year) + MonthStart(year, mon) + mday - 1
  BY DEF MkTime, Before

LEMMA DayFields ==
  ASSUME NEW day, NEW year, NEW yday, IsYearDay(day, year, yday)
  PROVE  LET tm == GmTime(day)
         IN /\ tm.year = year /\ tm.mon \in 0 .. 11 /\ tm.mday \in 1 .. 31
            /\ MonthStart(year, tm.mon) + tm.mday - 1 = yday
            /\ Before(year) \in Nat /\ yday \in Nat /\ year \in Nat /\ 2000 <= year /\ year <= 2136
            /\ day = Before(year) + yday
  <1>1. year \in Nat /\ 2000 <= year /\ year <= 2136 /\ yday \in Nat /\ yday <= 364 + Leap(year)
        /\ day = Before(year) + yday
    BY DEF IsYearDay
  <1>2. Leap(year) \in {0, 1} /\ Before(year) \in Nat
    BY <1>1, NextYear
  <1>3. GmTime(day) = DateOf(year, yday)
    BY DateOfDay
  <1>4. yday \in 0 .. 364 + Leap(year)
    BY <1>1, <1>2
  <1>5. /\ MonthDay(yday, Leap(year)).mon \in 0 .. 11
        /\ MonthDay(yday, Leap(year)).mday \in 1 .. 31
    BY <1>2, <1>4, MonthOfDay
  <1>6. MonthStart(year, MonthDay(yday, Leap(year)).mon) + MonthDay(yday, Leap(year)).mday - 1 = yday
    BY <1>1, MonthBack
  <1>7. /\ GmTime(day).year = year
        /\ GmTime(day).mon = MonthDay(yday, Leap(year)).mon
        /\ GmTime(day).mday = MonthDay(yday, Leap(year)).mday
    BY <1>3 DEF DateOf
  <1>8. QED
    BY <1>1, <1>2, <1>5, <1>6, <1>7

LEMMA ThereAndBack ==
  ASSUME NEW day \in Days
  PROVE  MkTime(GmTime(day)) = day
  <1>1. PICK year, yday : IsYearDay(day, year, yday)
    BY YearOfDay
  <1> DEFINE tm == GmTime(day)
  <1>2. /\ tm.year = year /\ tm.mon \in 0 .. 11 /\ tm.mday \in 1 .. 31
        /\ MonthStart(year, tm.mon) + tm.mday - 1 = yday
        /\ Before(year) \in Nat /\ yday \in Nat /\ year \in Nat
        /\ day = Before(year) + yday
    BY <1>1, DayFields
  <1> HIDE DEF tm
  <1>3. MkTime(tm) = Before(year) + MonthStart(year, tm.mon) + tm.mday - 1
    BY <1>2, MkTimeOf
  <1>4. MonthStart(year, tm.mon) \in Int
    BY <1>2 DEF MonthStart
  <1>5. MkTime(tm) = day
    BY <1>2, <1>3, <1>4
  <1>6. QED
    BY <1>5 DEF tm

DayInv == today \in Days

LEMMA TodayIn == DayInv => today \in Nat /\ today <= LastDay
  <1>1. LastDay \in Nat
    BY DEF LastDay
  <1>2. QED
    BY <1>1 DEF DayInv, Days

LEMMA DayInductive ==
  ASSUME DayInv, [Next]_vars
  PROVE  DayInv'
  <1>1. LastDay \in Nat
    BY DEF LastDay
  <1>2. CASE Midnight
    <2>1. today' = today + 1 /\ today < LastDay /\ today \in Nat
      BY <1>2, TodayIn DEF Midnight
    <2>2. QED
      BY <1>1, <2>1 DEF DayInv, Days
  <1>3. CASE ~Midnight
    <2>1. today' = today
      BY <1>3 DEF Next, Load, FirstPass, StartPass, Turn, vars
    <2>2. QED
      BY <2>1 DEF DayInv
  <1>4. QED
    BY <1>2, <1>3

LEMMA DayAlways == Spec => []DayInv
  <1>1. Init => DayInv
    BY RulesAssumption DEF Init, DayInv
  <1>2. DayInv /\ [Next]_vars => DayInv'
    BY DayInductive
  <1>3. QED
    BY <1>1, <1>2, PTL DEF Spec

\* Whatever the clock is set to and however far it runs, mk_gmtime() gives back the day
\* that gmtime_r() took apart.
THEOREM AlwaysRoundTrip == Spec => []RoundTrip
  <1>1. DayInv => RoundTrip
    BY ThereAndBack DEF DayInv, RoundTrip
  <1>2. QED
    BY <1>1, DayAlways, PTL


-----------------------------------------------------------------------------
(* The dates are the Gregorian calendar's.                                 *)

\* The days of the year from first on are those of a month of so many days.
IsMonth(leap, mon, first, length) ==
  \A yday \in Nat :
    first <= yday /\ yday < first + length =>
      MonthDay(yday, leap) = [mon |-> mon, mday |-> yday - first + 1]

LEMMA Months ==
  ASSUME NEW leap \in Nat, leap <= 1
  PROVE  /\ IsMonth(leap, 0, 0, 31)
         /\ IsMonth(leap, 1, 31, 28 + leap)
         /\ IsMonth(leap, 2, 59 + leap, 31)
         /\ IsMonth(leap, 3, 90 + leap, 30)
         /\ IsMonth(leap, 4, 120 + leap, 31)
         /\ IsMonth(leap, 5, 151 + leap, 30)
         /\ IsMonth(leap, 6, 181 + leap, 31)
         /\ IsMonth(leap, 7, 212 + leap, 31)
         /\ IsMonth(leap, 8, 243 + leap, 30)
         /\ IsMonth(leap, 9, 273 + leap, 31)
         /\ IsMonth(leap, 10, 304 + leap, 30)
         /\ IsMonth(leap, 11, 334 + leap, 31)
  <1>1. IsMonth(leap, 0, 0, 31)
    BY DEF IsMonth, MonthDay
  <1>2. IsMonth(leap, 1, 31, 28 + leap)
    BY DEF IsMonth, MonthDay
  <1>3. IsMonth(leap, 2, 59 + leap, 31)
    BY DEF IsMonth, MonthDay
  <1>4. IsMonth(leap, 3, 90 + leap, 30)
    BY DEF IsMonth, MonthDay
  <1>5. IsMonth(leap, 4, 120 + leap, 31)
    BY DEF IsMonth, MonthDay
  <1>6. IsMonth(leap, 5, 151 + leap, 30)
    BY DEF IsMonth, MonthDay
  <1>7. IsMonth(leap, 6, 181 + leap, 31)
    BY DEF IsMonth, MonthDay
  <1>8. IsMonth(leap, 7, 212 + leap, 31)
    BY DEF IsMonth, MonthDay
  <1>9. IsMonth(leap, 8, 243 + leap, 30)
    BY DEF IsMonth, MonthDay
  <1>10. IsMonth(leap, 9, 273 + leap, 31)
    BY DEF IsMonth, MonthDay
  <1>11. IsMonth(leap, 10, 304 + leap, 30)
    BY DEF IsMonth, MonthDay
  <1>12. IsMonth(leap, 11, 334 + leap, 31)
    BY DEF IsMonth, MonthDay
  <1>13. QED
    BY <1>1, <1>2, <1>3, <1>4, <1>5, <1>6, <1>7, <1>8, <1>9, <1>10, <1>11, <1>12

LEMMA Lengths ==
  ASSUME NEW year \in Nat
  PROVE  /\ \A mon \in {0, 2, 4, 6, 7, 9, 11} : Civil!Length(year, mon) = 31
         /\ \A mon \in {3, 5, 8, 10} : Civil!Length(year, mon) = 30
         /\ Civil!Length(year, 1) = 28 + Leap(year)
  <1>1. IsLeap(year) <=> Civil!LeapYear(year)
    BY DEF IsLeap, Civil!LeapYear
  <1>2. QED
    BY <1>1 DEF Civil!Length, Leap

\* Tomorrow's month and day of the month, by today's and the length of the month.
Turns(leap, yday, mon, length) ==
  LET m == MonthDay(yday, leap)
      n == MonthDay(yday + 1, leap)
  IN /\ m.mon = mon
     /\ n.mon = IF m.mday = length THEN m.mon + 1 ELSE m.mon
     /\ n.mday = IF m.mday = length THEN 1 ELSE m.mday + 1

\* A month and the next one.
TwoMonths(leap, mon, first, length, next) ==
  /\ mon \in Nat /\ first \in Nat /\ length \in Nat /\ next \in Nat /\ next > 0
  /\ IsMonth(leap, mon, first, length) /\ IsMonth(leap, mon + 1, first + length, next)

LEMMA MonthTurns ==
  ASSUME NEW leap, NEW mon, NEW first, NEW length, NEW next,
         TwoMonths(leap, mon, first, length, next),
         NEW yday \in Nat, first <= yday, yday < first + length
  PROVE  Turns(leap, yday, mon, length)
  <1>1. /\ mon \in Nat /\ first \in Nat /\ length \in Nat /\ next \in Nat /\ next > 0
        /\ IsMonth(leap, mon, first, length) /\ IsMonth(leap, mon + 1, first + length, next)
    BY DEF TwoMonths
  <1>2. MonthDay(yday, leap) = [mon |-> mon, mday |-> yday - first + 1]
    BY <1>1 DEF IsMonth
  <1>3. CASE yday + 1 < first + length
    <2>1. MonthDay(yday + 1, leap) = [mon |-> mon, mday |-> yday + 1 - first + 1]
      BY <1>1, <1>3 DEF IsMonth
    <2>2. QED
      BY <1>1, <1>2, <1>3, <2>1 DEF Turns
  <1>4. CASE yday + 1 = first + length
    <2>1. MonthDay(yday + 1, leap) = [mon |-> mon + 1, mday |-> yday + 1 - (first + length) + 1]
      BY <1>1, <1>4 DEF IsMonth
    <2>2. QED
      BY <1>1, <1>2, <1>4, <2>1 DEF Turns
  <1>5. QED
    BY <1>1, <1>3, <1>4

LEMMA NextDate ==
  ASSUME NEW year \in Nat, NEW yday \in Nat
  PROVE  LET m == MonthDay(yday, Leap(year))
             n == MonthDay(yday + 1, Leap(year))
             last == m.mday = Civil!Length(year, m.mon)
         IN /\ yday < 364 + Leap(year) =>
                 /\ ~(m.mon = 11 /\ last)
                 /\ n.mon = IF last THEN m.mon + 1 ELSE m.mon
                 /\ n.mday = IF last THEN 1 ELSE m.mday + 1
            /\ yday = 364 + Leap(year) => m.mon = 11 /\ last
  <1> DEFINE leap == Leap(year)
  <1>1. leap \in Nat /\ leap <= 1
    BY DEF Leap
  <1> HIDE DEF leap
  <1>2. Civil!Length(year, 1) = 28 + leap
    BY Lengths DEF leap
  <1>3. ASSUME 0 <= yday, yday < 31
         PROVE  Turns(leap, yday, 0, Civil!Length(year, 0))
    <2>1. TwoMonths(leap, 0, 0, 31, 28 + leap)
      BY <1>1, Months DEF TwoMonths
    <2>2. Civil!Length(year, 0) = 31
      BY <1>2, Lengths
    <2>3. QED
      BY <1>1, <1>3, <2>1, <2>2, MonthTurns
  <1>4. ASSUME 31 <= yday, yday < 59 + leap
         PROVE  Turns(leap, yday, 1, Civil!Length(year, 1))
    <2>1. TwoMonths(leap, 1, 31, 28 + leap, 31)
      BY <1>1, Months DEF TwoMonths
    <2>2. Civil!Length(year, 1) = 28 + leap
      BY <1>2, Lengths
    <2>3. QED
      BY <1>1, <1>4, <2>1, <2>2, MonthTurns
  <1>5. ASSUME 59 + leap <= yday, yday < 90 + leap
         PROVE  Turns(leap, yday, 2, Civil!Length(year, 2))
    <2>1. TwoMonths(leap, 2, 59 + leap, 31, 30)
      BY <1>1, Months DEF TwoMonths
    <2>2. Civil!Length(year, 2) = 31
      BY <1>2, Lengths
    <2>3. QED
      BY <1>1, <1>5, <2>1, <2>2, MonthTurns
  <1>6. ASSUME 90 + leap <= yday, yday < 120 + leap
         PROVE  Turns(leap, yday, 3, Civil!Length(year, 3))
    <2>1. TwoMonths(leap, 3, 90 + leap, 30, 31)
      BY <1>1, Months DEF TwoMonths
    <2>2. Civil!Length(year, 3) = 30
      BY <1>2, Lengths
    <2>3. QED
      BY <1>1, <1>6, <2>1, <2>2, MonthTurns
  <1>7. ASSUME 120 + leap <= yday, yday < 151 + leap
         PROVE  Turns(leap, yday, 4, Civil!Length(year, 4))
    <2>1. TwoMonths(leap, 4, 120 + leap, 31, 30)
      BY <1>1, Months DEF TwoMonths
    <2>2. Civil!Length(year, 4) = 31
      BY <1>2, Lengths
    <2>3. QED
      BY <1>1, <1>7, <2>1, <2>2, MonthTurns
  <1>8. ASSUME 151 + leap <= yday, yday < 181 + leap
         PROVE  Turns(leap, yday, 5, Civil!Length(year, 5))
    <2>1. TwoMonths(leap, 5, 151 + leap, 30, 31)
      BY <1>1, Months DEF TwoMonths
    <2>2. Civil!Length(year, 5) = 30
      BY <1>2, Lengths
    <2>3. QED
      BY <1>1, <1>8, <2>1, <2>2, MonthTurns
  <1>9. ASSUME 181 + leap <= yday, yday < 212 + leap
         PROVE  Turns(leap, yday, 6, Civil!Length(year, 6))
    <2>1. TwoMonths(leap, 6, 181 + leap, 31, 31)
      BY <1>1, Months DEF TwoMonths
    <2>2. Civil!Length(year, 6) = 31
      BY <1>2, Lengths
    <2>3. QED
      BY <1>1, <1>9, <2>1, <2>2, MonthTurns
  <1>10. ASSUME 212 + leap <= yday, yday < 243 + leap
         PROVE  Turns(leap, yday, 7, Civil!Length(year, 7))
    <2>1. TwoMonths(leap, 7, 212 + leap, 31, 30)
      BY <1>1, Months DEF TwoMonths
    <2>2. Civil!Length(year, 7) = 31
      BY <1>2, Lengths
    <2>3. QED
      BY <1>1, <1>10, <2>1, <2>2, MonthTurns
  <1>11. ASSUME 243 + leap <= yday, yday < 273 + leap
         PROVE  Turns(leap, yday, 8, Civil!Length(year, 8))
    <2>1. TwoMonths(leap, 8, 243 + leap, 30, 31)
      BY <1>1, Months DEF TwoMonths
    <2>2. Civil!Length(year, 8) = 30
      BY <1>2, Lengths
    <2>3. QED
      BY <1>1, <1>11, <2>1, <2>2, MonthTurns
  <1>12. ASSUME 273 + leap <= yday, yday < 304 + leap
         PROVE  Turns(leap, yday, 9, Civil!Length(year, 9))
    <2>1. TwoMonths(leap, 9, 273 + leap, 31, 30)
      BY <1>1, Months DEF TwoMonths
    <2>2. Civil!Length(year, 9) = 31
      BY <1>2, Lengths
    <2>3. QED
      BY <1>1, <1>12, <2>1, <2>2, MonthTurns
  <1>13. ASSUME 304 + leap <= yday, yday < 334 + leap
         PROVE  Turns(leap, yday, 10, Civil!Length(year, 10))
    <2>1. TwoMonths(leap, 10, 304 + leap, 30, 31)
      BY <1>1, Months DEF TwoMonths
    <2>2. Civil!Length(year, 10) = 30
      BY <1>2, Lengths
    <2>3. QED
      BY <1>1, <1>13, <2>1, <2>2, MonthTurns
  <1>14. ASSUME 334 + leap <= yday, yday <= 364 + leap
         PROVE  /\ MonthDay(yday, leap).mon = 11 /\ MonthDay(yday, leap).mday = yday - (334 + leap) + 1
                /\ yday < 364 + leap =>
                     /\ MonthDay(yday + 1, leap).mon = 11
                     /\ MonthDay(yday + 1, leap).mday = MonthDay(yday, leap).mday + 1
                /\ Civil!Length(year, 11) = 31
    <2>1. IsMonth(leap, 11, 334 + leap, 31)
      BY <1>1, Months
    <2>2. QED
      BY <1>1, <1>14, <2>1, Lengths DEF IsMonth
  <1>15. QED
    BY <1>1, <1>2, <1>3, <1>4, <1>5, <1>6, <1>7, <1>8, <1>9, <1>10, <1>11, <1>12, <1>13, <1>14 DEF Turns, leap

LEMMA WeekdayTurns ==
  ASSUME NEW n \in Nat
  PROVE  (n + 1 + 6) % 7 = (((n + 6) % 7) + 1) % 7
  OBVIOUS

\* Midnight is the calendar's midnight.
LEMMA CivilMidnight ==
  ASSUME NEW day \in Days, day < LastDay
  PROVE  LET tm == GmTime(day)
             last == tm.mday = Civil!Length(tm.year, tm.mon)
         IN GmTime(day + 1) =
              [year |-> IF tm.mon = 11 /\ last THEN tm.year + 1 ELSE tm.year,
               mon  |-> IF tm.mon = 11 /\ last THEN 0 ELSE IF last THEN tm.mon + 1 ELSE tm.mon,
               mday |-> IF last THEN 1 ELSE tm.mday + 1,
               wday |-> (tm.wday + 1) % 7]
  <1>1. PICK year, yday : IsYearDay(day, year, yday)
    BY YearOfDay
  <1>2. year \in Nat /\ 2000 <= year /\ yday \in Nat /\ yday <= 364 + Leap(year)
        /\ Leap(year) \in {0, 1} /\ Before(year) \in Nat /\ day = Before(year) + yday
    BY <1>1, NextYear DEF IsYearDay
  <1> DEFINE tm == GmTime(day)
             last == tm.mday = Civil!Length(tm.year, tm.mon)
             m == MonthDay(yday, Leap(year))
             n == MonthDay(yday + 1, Leap(year))
  <1>3. tm = [year |-> year, mon |-> m.mon, mday |-> m.mday, wday |-> (day + 6) % 7]
    BY <1>1, <1>2, DateOfDay DEF DateOf
  <1>4. (day + 1 + 6) % 7 = (((day + 6) % 7) + 1) % 7
    <2>1. day \in Nat
      BY <1>2
    <2>2. QED
      BY <2>1, WeekdayTurns
  <1>5. last <=> m.mday = Civil!Length(year, m.mon)
    BY <1>3
  <1>6. CASE yday < 364 + Leap(year)
    <2>1. IsYearDay(day + 1, year, yday + 1)
      BY <1>1, <1>6, NextDay
    <2>2. GmTime(day + 1) = DateOf(year, yday + 1)
      BY <2>1, DateOfDay
    <2>3. Before(year) + (yday + 1) + 6 = day + 1 + 6
      BY <1>2
    <2>4. /\ ~(m.mon = 11 /\ last)
          /\ n.mon = IF last THEN m.mon + 1 ELSE m.mon
          /\ n.mday = IF last THEN 1 ELSE m.mday + 1
      BY <1>2, <1>5, <1>6, NextDate
    <2>5. GmTime(day + 1) = [year |-> year, mon |-> n.mon, mday |-> n.mday,
                             wday |-> (day + 1 + 6) % 7]
      BY <2>2, <2>3 DEF DateOf
    <2> HIDE DEF last, m, n, tm
    <2>6. QED
      BY <1>3, <1>4, <2>4, <2>5 DEF tm, last
  <1>7. CASE yday = 364 + Leap(year)
    <2>1. IsYearDay(day + 1, year + 1, 0)
      BY <1>1, <1>7, NextDay
    <2>2. GmTime(day + 1) = DateOf(year + 1, 0)
      BY <2>1, DateOfDay
    <2>3. Before(year + 1) + 0 + 6 = day + 1 + 6
      BY <1>2, <2>1 DEF IsYearDay
    <2>4. m.mon = 11 /\ last
      BY <1>2, <1>5, <1>7, NextDate
    <2>5. MonthDay(0, Leap(year + 1)) = [mon |-> 0, mday |-> 1]
      BY NewYear DEF Leap
    <2>6. GmTime(day + 1) = [year |-> year + 1, mon |-> 0, mday |-> 1,
                             wday |-> (day + 1 + 6) % 7]
      BY <2>2, <2>3, <2>5 DEF DateOf
    <2> HIDE DEF last, m, n, tm
    <2>7. QED
      BY <1>3, <1>4, <2>4, <2>6 DEF tm, last
  <1>8. QED
    BY <1>2, <1>6, <1>7

\* If the clock is first set to the epoch, the date that gmtime_r()'s divisions give goes
\* through the Gregorian calendar day by day, to the last day of 32 bits of seconds.
THEOREM DatesAreGregorian == StartDays = {0} => (Spec => DatesAreCivil)
  <1> SUFFICES ASSUME StartDays = {0}
               PROVE  Spec => DatesAreCivil
    OBVIOUS
  <1>1. ASSUME Init
        PROVE  Civil!Init
    <2>1. today = 0
      BY <1>1 DEF Init
    <2>2. GmTime(0) = DateOf(2000, 0)
      <3>1. IsYearDay(0, 2000, 0)
        BY YearEnds DEF IsYearDay, Leap
      <3>2. QED
        BY <3>1, DateOfDay
    <2>3. MonthDay(0, Leap(2000)) = [mon |-> 0, mday |-> 1] /\ Before(2000) + 0 + 6 = 6
      BY YearEnds, NewYear DEF Leap
    <2>4. QED
      BY <2>1, <2>2, <2>3 DEF DateOf, Civil!Init
  <1>2. ASSUME DayInv, Midnight
        PROVE  Civil!Midnight
    <2>1. today < LastDay /\ today' = today + 1 /\ today \in Days
      BY <1>2 DEF Midnight, DayInv
    <2>2. QED
      BY <2>1, CivilMidnight DEF Civil!Midnight, Civil!LastOfMonth, Civil!LastOfYear
  <1>3. ASSUME DayInv, [Next]_vars, ~Midnight
        PROVE  GmTime(today)' = GmTime(today)
    <2>1. today' = today
      BY <1>3 DEF Next, Load, FirstPass, StartPass, Turn, vars
    <2>2. QED
      BY <2>1
  <1>4. DayInv /\ [Next]_vars => [Civil!Midnight]_(GmTime(today))
    BY <1>2, <1>3
  <1>5. QED
    BY <1>1, <1>4, DayAlways, PTL DEF Spec, DatesAreCivil, Civil!Spec


-----------------------------------------------------------------------------
(* The registers of the clock.                                             *)

LEMMA Digits ==
  ASSUME NEW n \in Nat, n < 100
  PROVE  /\ dec2bcd(n) = n + 6 * (n \div 10)
         /\ dec2bcd(n) \in Nat /\ dec2bcd(n) < 256
         /\ n < 13 => dec2bcd(n) < 128
         /\ bcd2dec(dec2bcd(n)) = n
         /\ n < 99 => NextDigits(dec2bcd(n)) = dec2bcd(n + 1)
  <1> DEFINE t == n \div 10
             u == n % 10
  <1>1. t \in Nat /\ t < 10 /\ u \in 0 .. 9 /\ n = 10 * t + u
    OBVIOUS
  <1>2. n + 6 * (n \div 10) = 16 * t + u
    BY <1>1
  <1>3. dec2bcd(n) = 16 * t + u
    BY <1>1, <1>2 DEF dec2bcd
  <1>4. (16 * t + u) \div 16 = t /\ (16 * t + u) % 16 = u
    BY <1>1
  <1>5. bcd2dec(dec2bcd(n)) = n
    <2>1. bcd2dec(dec2bcd(n)) = (16 * t + u - 6 * t) % 256
      BY <1>3, <1>4 DEF bcd2dec
    <2>2. 16 * t + u - 6 * t = n
      BY <1>1
    <2>3. QED
      BY <2>1, <2>2
  <1>6. n < 99 => NextDigits(dec2bcd(n)) = dec2bcd(n + 1)
    <2>1. u = 9 => (n + 1) + 6 * ((n + 1) \div 10) = 16 * t + u + 7
      BY <1>1
    <2>2. u # 9 => (n + 1) + 6 * ((n + 1) \div 10) = 16 * t + u + 1
      BY <1>1
    <2> HIDE DEF t, u
    <2>3. n < 99 => 16 * t + u + 7 < 256 /\ 16 * t + u + 1 < 256
      BY <1>1
    <2>4. u = 9 /\ n < 99 => dec2bcd(n + 1) = 16 * t + u + 7
      BY <1>1, <2>1, <2>3 DEF dec2bcd
    <2>5. u # 9 /\ n < 99 => dec2bcd(n + 1) = 16 * t + u + 1
      BY <1>1, <2>2, <2>3 DEF dec2bcd
    <2>6. QED
      BY <1>1, <1>3, <1>4, <2>4, <2>5 DEF NextDigits
  <1>7. QED
    BY <1>1, <1>2, <1>3, <1>5, <1>6

LEMMA SameDigits ==
  ASSUME NEW n \in Nat, n < 100, NEW m \in Nat, m < 100
  PROVE  dec2bcd(n) = dec2bcd(m) <=> n = m
  <1>1. bcd2dec(dec2bcd(n)) = n /\ bcd2dec(dec2bcd(m)) = m
    BY Digits
  <1>2. QED
    BY <1>1

\* The registers on a day of a century, the first or the second.
ClockOf(day, c) ==
  LET tm == GmTime(day)
  IN [mday |-> dec2bcd(tm.mday), mon |-> dec2bcd(tm.mon + 1) + Century * c,
      year |-> dec2bcd(tm.year - 2000)]

LEMMA InCentury ==
  ASSUME NEW day \in Nat, day < 36525
  PROVE  LET tm == GmTime(day)
         IN /\ day \in Days
            /\ tm.year \in Nat /\ 2000 <= tm.year /\ tm.year < 2100
            /\ tm.mon \in 0 .. 11 /\ tm.mday \in 1 .. 31
  <1>1. day \in Days
    <2>1. LastDay \in Nat /\ 36525 <= LastDay
      BY DEF LastDay
    <2>2. QED
      BY <2>1 DEF Days
  <1>2. PICK year, yday : IsYearDay(day, year, yday)
    BY <1>1, YearOfDay
  <1>3. /\ GmTime(day).year = year /\ GmTime(day).mon \in 0 .. 11 /\ GmTime(day).mday \in 1 .. 31
        /\ Before(year) \in Nat /\ yday \in Nat /\ year \in Nat /\ 2000 <= year /\ year <= 2136
        /\ day = Before(year) + yday
    BY <1>2, DayFields
  <1>4. year < 2100
    <2> SUFFICES ASSUME year >= 2100
                 PROVE  FALSE
      BY <1>3
    <2> DEFINE n == year - 2100
               q == n \div 4
               k == n % 4
    <2>1. n \in Nat /\ n <= 36 /\ year = 2100 + n
      BY <1>3
    <2> HIDE DEF n
    <2>2. q \in Nat /\ q <= 9 /\ k \in 0 .. 3 /\ n = 4 * q + k /\ (q < 9 \/ k = 0)
      BY <2>1
    <2> HIDE DEF q, k
    <2>3. Before(year) = 36525 + 1461 * q + 365 * k + (IF k = 0 /\ q # 0 THEN -1 ELSE 0)
      BY <2>1, <2>2, LateYears
    <2>4. Before(year) >= 36525
      BY <2>2, <2>3
    <2>5. QED
      BY <1>3, <2>4
  <1>5. QED
    BY <1>1, <1>3, <1>4

\* The registers taken apart, and the length of the month they stand for.
LEMMA ClockFields ==
  ASSUME NEW day \in Nat, day < 36525, NEW c \in {0, 1}
  PROVE  LET tm == GmTime(day)
             r == ClockOf(day, c)
         IN /\ r.mday = dec2bcd(tm.mday) /\ r.year = dec2bcd(tm.year - 2000)
            /\ r.mon % Century = dec2bcd(tm.mon + 1) /\ r.mon \div Century = c
            /\ bcd2dec(r.year) = tm.year - 2000 /\ bcd2dec(r.mday) = tm.mday
            /\ bcd2dec(r.mon % Century) = tm.mon + 1
            /\ LastOfMonth(r) = dec2bcd(Civil!Length(tm.year, tm.mon))
            /\ Civil!Length(tm.year, tm.mon) \in 28 .. 31
  <1> DEFINE tm == GmTime(day)
             r == ClockOf(day, c)
             n == tm.year - 2000
  <1>1. /\ tm.year \in Nat /\ 2000 <= tm.year /\ tm.year < 2100
        /\ tm.mon \in 0 .. 11 /\ tm.mday \in 1 .. 31
    BY InCentury
  <1>2. r.mday = dec2bcd(tm.mday) /\ r.mon = dec2bcd(tm.mon + 1) + Century * c
        /\ r.year = dec2bcd(n)
    BY DEF ClockOf
  <1> HIDE DEF tm, r
  <1>3. n \in Nat /\ n < 100 /\ tm.year = 2000 + n
    BY <1>1
  <1> HIDE DEF n
  <1>4. r.mon % Century = dec2bcd(tm.mon + 1) /\ r.mon \div Century = c
        /\ bcd2dec(r.mon % Century) = tm.mon + 1
    <2>1. tm.mon + 1 \in Nat /\ tm.mon + 1 < 13
      BY <1>1
    <2>2. dec2bcd(tm.mon + 1) \in Nat /\ dec2bcd(tm.mon + 1) < 128
          /\ bcd2dec(dec2bcd(tm.mon + 1)) = tm.mon + 1
      BY <2>1, Digits
    <2>3. \A k \in Nat : k < 128 => (k + 128 * c) % 128 = k /\ (k + 128 * c) \div 128 = c
      OBVIOUS
    <2>4. QED
      BY <1>2, <2>2, <2>3 DEF Century
  <1>5. bcd2dec(r.year) = n /\ bcd2dec(r.mday) = tm.mday
    <2>1. tm.mday \in Nat /\ tm.mday < 100
      BY <1>1
    <2>2. QED
      BY <1>2, <1>3, <2>1, Digits
  <1>6. IsLeap(tm.year) <=> n % 4 = 0
    BY <1>3, LeapYears
  <1>7. /\ \A mon \in {0, 2, 4, 6, 7, 9, 11} : Civil!Length(tm.year, mon) = 31
        /\ \A mon \in {3, 5, 8, 10} : Civil!Length(tm.year, mon) = 30
        /\ Civil!Length(tm.year, 1) = 28 + Leap(tm.year)
    BY <1>1, Lengths
  <1>8. LastOfMonth(r) = dec2bcd(Civil!Length(tm.year, tm.mon))
        /\ Civil!Length(tm.year, tm.mon) \in 28 .. 31
    <2>1. CASE tm.mon = 1
      <3>1. Civil!Length(tm.year, tm.mon) = IF n % 4 = 0 THEN 29 ELSE 28
        BY <1>6, <1>7, <2>1 DEF Leap
      <3>2. LastOfMonth(r) = dec2bcd(IF n % 4 = 0 THEN 29 ELSE 28)
        BY <1>4, <1>5, <2>1 DEF LastOfMonth
      <3>3. QED
        BY <3>1, <3>2
    <2>2. CASE tm.mon \in {3, 5, 8, 10}
      <3>1. LastOfMonth(r) = dec2bcd(30)
        BY <1>4, <2>2 DEF LastOfMonth
      <3>2. QED
        BY <1>7, <2>2, <3>1
    <2>3. CASE tm.mon \in {0, 2, 4, 6, 7, 9, 11}
      <3>1. LastOfMonth(r) = dec2bcd(31)
        BY <1>4, <2>3 DEF LastOfMonth
      <3>2. QED
        BY <1>7, <2>3, <3>1
    <2>4. QED
      BY <1>1, <2>1, <2>2, <2>3
  <1>9. QED
    BY <1>2, <1>4, <1>5, <1>8 DEF tm, r, n

\* What the firmware reads is the day the registers stand for.
LEMMA ReadClock ==
  ASSUME NEW day \in Nat, day < 36525, NEW c \in {0, 1}
  PROVE  ReadTime(ClockOf(day, c)) = day /\ ClockOf(day, c).mday = AlarmDate(day)
  <1> DEFINE tm == GmTime(day)
             r == ClockOf(day, c)
             read == [year |-> 2000 + bcd2dec(r.year), mon |-> bcd2dec(r.mon % Century) - 1,
                      mday |-> bcd2dec(r.mday)]
  <1>1. /\ day \in Days
        /\ tm.year \in Nat /\ 2000 <= tm.year /\ tm.year < 2100
        /\ tm.mon \in 0 .. 11 /\ tm.mday \in 1 .. 31
    BY InCentury
  <1>2. MkTime(tm) = day
    BY <1>1, ThereAndBack
  <1>3. /\ r.mday = dec2bcd(tm.mday)
        /\ bcd2dec(r.year) = tm.year - 2000 /\ bcd2dec(r.mday) = tm.mday
        /\ bcd2dec(r.mon % Century) = tm.mon + 1
    BY ClockFields
  <1> HIDE DEF tm, r
  <1>4. read.year = tm.year /\ read.mon = tm.mon /\ read.mday = tm.mday
    BY <1>1, <1>3
  <1> HIDE DEF read
  <1>5. MkTime(read) = MkTime(tm)
    BY <1>4, MkTimeOf
  <1>6. ReadTime(r) = day
    BY <1>2, <1>5 DEF ReadTime, read
  <1>7. r.mday = AlarmDate(day)
    BY <1>3 DEF AlarmDate, tm
  <1>8. QED
    BY <1>6, <1>7 DEF r

\* What the chip compares at midnight: the ends of the month, the year and the century.
LEMMA ChipCompares ==
  ASSUME NEW day \in Nat, day < 36525, NEW c \in {0, 1}
  PROVE  LET tm == GmTime(day)
             r == ClockOf(day, c)
         IN /\ r.mday = LastOfMonth(r) <=> tm.mday = Civil!Length(tm.year, tm.mon)
            /\ r.mon % Century = dec2bcd(12) <=> tm.mon = 11
            /\ r.year = dec2bcd(99) <=> tm.year = 2099
            /\ NextDigits(r.mday) = dec2bcd(tm.mday + 1)
            /\ NextDigits(r.mon % Century) = dec2bcd(tm.mon + 2)
            /\ tm.year < 2099 => NextDigits(r.year) = dec2bcd(tm.year + 1 - 2000)
  <1> DEFINE tm == GmTime(day)
             r == ClockOf(day, c)
             length == Civil!Length(tm.year, tm.mon)
             y == tm.year - 2000
  <1>1. /\ tm.year \in Nat /\ 2000 <= tm.year /\ tm.year < 2100
        /\ tm.mon \in 0 .. 11 /\ tm.mday \in 1 .. 31
    BY InCentury
  <1>2. /\ r.mday = dec2bcd(tm.mday) /\ r.year = dec2bcd(y)
        /\ r.mon % Century = dec2bcd(tm.mon + 1)
        /\ LastOfMonth(r) = dec2bcd(length) /\ length \in 28 .. 31
    BY ClockFields
  <1> HIDE DEF tm, r, length
  <1>3. /\ tm.mday \in Nat /\ tm.mday < 99 /\ length \in Nat /\ length < 100
        /\ tm.mon + 1 \in Nat /\ tm.mon + 1 < 99 /\ y \in Nat /\ y < 100 /\ tm.year = 2000 + y
    BY <1>1, <1>2
  <1>4. tm.year + 1 - 2000 = y + 1
    BY <1>3
  <1> HIDE DEF y
  <1>5. dec2bcd(tm.mday) = dec2bcd(length) <=> tm.mday = length
    BY <1>3, SameDigits
  <1>6. dec2bcd(tm.mon + 1) = dec2bcd(12) <=> tm.mon + 1 = 12
    BY <1>3, SameDigits
  <1>7. dec2bcd(y) = dec2bcd(99) <=> y = 99
    BY <1>3, SameDigits
  <1>8. NextDigits(dec2bcd(tm.mday)) = dec2bcd(tm.mday + 1)
    BY <1>3, Digits
  <1>9. NextDigits(dec2bcd(tm.mon + 1)) = dec2bcd(tm.mon + 2)
    <2>1. NextDigits(dec2bcd(tm.mon + 1)) = dec2bcd(tm.mon + 1 + 1)
      BY <1>3, Digits
    <2>2. tm.mon + 1 + 1 = tm.mon + 2
      BY <1>1
    <2>3. QED
      BY <2>1, <2>2
  <1>10. y < 99 => NextDigits(dec2bcd(y)) = dec2bcd(y + 1)
    BY <1>3, Digits
  <1>11. QED
    BY <1>1, <1>2, <1>3, <1>4, <1>5, <1>6, <1>7, <1>8, <1>9, <1>10 DEF tm, r, length

\* Within a century, the chip's midnight is the calendar's.
LEMMA ChipMidnight ==
  ASSUME NEW day \in Nat, day + 1 < 36525, NEW c \in {0, 1}
  PROVE  TurnDay(ClockOf(day, c)) = ClockOf(day + 1, c)
  <1> DEFINE tm == GmTime(day)
             tn == GmTime(day + 1)
             r == ClockOf(day, c)
             last == tm.mday = Civil!Length(tm.year, tm.mon)
  <1>1. /\ tm.year \in Nat /\ 2000 <= tm.year /\ tm.year < 2100
        /\ tm.mon \in 0 .. 11 /\ tm.mday \in 1 .. 31 /\ day \in Days
    BY InCentury
  <1>2. tn.year \in Nat /\ tn.year < 2100
    <2>1. day + 1 \in Nat
      OBVIOUS
    <2>2. QED
      BY <2>1, InCentury
  <1>3. tn = [year |-> IF tm.mon = 11 /\ last THEN tm.year + 1 ELSE tm.year,
              mon  |-> IF tm.mon = 11 /\ last THEN 0 ELSE IF last THEN tm.mon + 1 ELSE tm.mon,
              mday |-> IF last THEN 1 ELSE tm.mday + 1,
              wday |-> (tm.wday + 1) % 7]
    <2>1. day < LastDay
      BY DEF LastDay
    <2>2. QED
      BY <1>1, <2>1, CivilMidnight
  <1>4. /\ r.mday = LastOfMonth(r) <=> last
        /\ r.mon % Century = dec2bcd(12) <=> tm.mon = 11
        /\ r.year = dec2bcd(99) <=> tm.year = 2099
        /\ NextDigits(r.mday) = dec2bcd(tm.mday + 1)
        /\ NextDigits(r.mon % Century) = dec2bcd(tm.mon + 2)
        /\ tm.year < 2099 => NextDigits(r.year) = dec2bcd(tm.year + 1 - 2000)
    BY ChipCompares
  <1>5. /\ r.mday = dec2bcd(tm.mday) /\ r.year = dec2bcd(tm.year - 2000)
        /\ r.mon % Century = dec2bcd(tm.mon + 1) /\ r.mon \div Century = c
    BY ClockFields
  <1>6. ClockOf(day + 1, c) =
          [mday |-> dec2bcd(tn.mday), mon |-> dec2bcd(tn.mon + 1) + Century * c,
           year |-> dec2bcd(tn.year - 2000)]
    BY DEF ClockOf
  <1>7. dec2bcd(1) = 1
    BY DEF dec2bcd
  <1> HIDE DEF tm, tn, r, last
  <1>8. ~(r.mday = LastOfMonth(r) /\ r.mon % Century = dec2bcd(12) /\ r.year = dec2bcd(99))
    BY <1>1, <1>2, <1>3, <1>4
  <1>9. TurnDay(r).mday = dec2bcd(tn.mday)
    BY <1>1, <1>3, <1>4, <1>7 DEF TurnDay
  <1>10. TurnDay(r).mon = dec2bcd(tn.mon + 1) + Century * c
    <2>1. TurnDay(r).mon = c * Century + (IF last /\ tm.mon = 11 THEN 1
                             ELSE IF last THEN dec2bcd(tm.mon + 2) ELSE dec2bcd(tm.mon + 1))
      BY <1>4, <1>5, <1>8 DEF TurnDay
    <2>2. dec2bcd(tn.mon + 1) = IF last /\ tm.mon = 11 THEN 1
                                ELSE IF last THEN dec2bcd(tm.mon + 2) ELSE dec2bcd(tm.mon + 1)
      <3>1. tn.mon + 1 = IF last /\ tm.mon = 11 THEN 1
                         ELSE IF last THEN tm.mon + 2 ELSE tm.mon + 1
        BY <1>1, <1>3
      <3>2. QED
        BY <1>7, <3>1
    <2>3. dec2bcd(tn.mon + 1) \in Int
      <3>1. tn.mon + 1 \in Nat /\ tn.mon + 1 < 100
        BY <1>1, <1>3, <1>2
      <3>2. QED
        BY <3>1, Digits
    <2>4. QED
      BY <2>1, <2>2, <2>3 DEF Century
  <1>11. TurnDay(r).year = dec2bcd(tn.year - 2000)
    <2>1. TurnDay(r).year = IF last /\ tm.mon = 11 THEN NextDigits(r.year) ELSE r.year
      BY <1>4, <1>8 DEF TurnDay
    <2>2. CASE last /\ tm.mon = 11
      <3>1. tn.year = tm.year + 1
        BY <1>3, <2>2
      <3>2. tm.year < 2099
        BY <1>1, <1>2, <3>1
      <3>3. tn.year - 2000 = tm.year + 1 - 2000
        BY <1>1, <3>1
      <3>4. NextDigits(r.year) = dec2bcd(tm.year + 1 - 2000)
        BY <1>4, <3>2
      <3>5. QED
        BY <2>1, <2>2, <3>3, <3>4
    <2>3. CASE ~(last /\ tm.mon = 11)
      <3>1. tn.year = tm.year
        BY <1>3, <2>3
      <3>2. QED
        BY <1>5, <2>1, <2>3, <3>1
    <2>4. QED
      BY <2>2, <2>3
  <1>12. TurnDay(r) = [mday |-> TurnDay(r).mday, mon |-> TurnDay(r).mon, year |-> TurnDay(r).year]
    BY DEF TurnDay
  <1>13. QED
    BY <1>6, <1>9, <1>10, <1>11, <1>12 DEF r

\* At the end of 2099 it turns over to the year 00 of the other century.
LEMMA ChipCentury ==
  ASSUME NEW day \in Nat, day + 1 = 36525
  PROVE  TurnDay(ClockOf(day, 0)) = ClockOf(0, 1)
  <1> DEFINE tm == GmTime(day)
             r == ClockOf(day, 0)
             last == tm.mday = Civil!Length(tm.year, tm.mon)
  <1>1. /\ tm.year \in Nat /\ 2000 <= tm.year /\ tm.year < 2100
        /\ tm.mon \in 0 .. 11 /\ tm.mday \in 1 .. 31 /\ day \in Days
    BY InCentury
  <1>2. GmTime(36525).year = 2100 /\ GmTime(36525).mon = 0 /\ GmTime(36525).mday = 1
    <2>1. Leap(2100) = 0
      BY DEF Leap, IsLeap
    <2>2. IsYearDay(36525, 2100, 0)
      BY <2>1, YearEnds DEF IsYearDay
    <2>3. QED
      BY <2>1, <2>2, NewYear, DateOfDay DEF DateOf
  <1>3. GmTime(0).year = 2000 /\ GmTime(0).mon = 0 /\ GmTime(0).mday = 1
    <2>1. Leap(2000) = 1
      BY DEF Leap, IsLeap
    <2>2. IsYearDay(0, 2000, 0)
      BY <2>1, YearEnds DEF IsYearDay
    <2>3. QED
      BY <2>1, <2>2, NewYear, DateOfDay DEF DateOf
  <1>4. GmTime(day + 1) =
             [year |-> IF tm.mon = 11 /\ last THEN tm.year + 1 ELSE tm.year,
              mon  |-> IF tm.mon = 11 /\ last THEN 0 ELSE IF last THEN tm.mon + 1 ELSE tm.mon,
              mday |-> IF last THEN 1 ELSE tm.mday + 1,
              wday |-> (tm.wday + 1) % 7]
    <2>1. day < LastDay
      BY DEF LastDay
    <2>2. QED
      BY <1>1, <2>1, CivilMidnight
  <1>5. /\ r.mday = LastOfMonth(r) <=> last
        /\ r.mon % Century = dec2bcd(12) <=> tm.mon = 11
        /\ r.year = dec2bcd(99) <=> tm.year = 2099
    BY ChipCompares
  <1>6. r.mon \div Century = 0
    BY ClockFields
  <1>7. ClockOf(0, 1) = [mday |-> dec2bcd(1), mon |-> dec2bcd(1) + Century, year |-> dec2bcd(0)]
    <2>1. 0 + 1 = 1 /\ 2000 - 2000 = 0 /\ Century * 1 = Century
      BY DEF Century
    <2>2. QED
      BY <1>3, <2>1 DEF ClockOf
  <1>8. dec2bcd(1) = 1 /\ dec2bcd(0) = 0
    BY DEF dec2bcd
  <1> HIDE DEF tm, r, last
  <1>9. tm.mon = 11 /\ last /\ tm.year = 2099
    <2>1. GmTime(day + 1) = GmTime(36525)
      OBVIOUS
    <2>2. QED
      BY <1>1, <1>2, <1>4, <2>1
  <1>10. TurnDay(r) = [mday |-> 1, mon |-> Century + 1, year |-> 0]
    <2>1. Century - 0 * Century = Century
      BY DEF Century
    <2>2. QED
      BY <1>5, <1>6, <1>9, <2>1 DEF TurnDay
  <1>11. QED
    BY <1>7, <1>8, <1>10 DEF r, Century

ClockInv ==
  \E c \in {0, 1}, day \in Nat :
    day < 36525 /\ today = 36525 * c + day /\ clock = ClockOf(day, c)

LEMMA ClockInductive ==
  ASSUME ClockInv, DayInv, [Next]_vars
  PROVE  ClockInv'
  <1>1. CASE Midnight
    <2>1. PICK c \in {0, 1}, day \in Nat :
            day < 36525 /\ today = 36525 * c + day /\ clock = ClockOf(day, c)
      BY DEF ClockInv
    <2>2. today' = today + 1 /\ today < 49709 /\ clock' = TurnDay(clock)
      BY <1>1 DEF Midnight, LastDay
    <2>3. CASE day + 1 < 36525
      <3>1. clock' = ClockOf(day + 1, c)
        BY <2>1, <2>2, <2>3, ChipMidnight
      <3>2. today' = 36525 * c + (day + 1) /\ day + 1 \in Nat
        BY <2>1, <2>2
      <3>3. QED
        BY <2>3, <3>1, <3>2 DEF ClockInv
    <2>4. CASE day + 1 = 36525
      <3>1. c = 0
        BY <2>1, <2>2, <2>4
      <3>2. clock' = ClockOf(0, 1)
        BY <2>1, <2>2, <2>4, <3>1, ChipCentury
      <3>3. today' = 36525 * 1 + 0
        BY <2>1, <2>2, <2>4, <3>1
      <3>4. 0 \in Nat /\ 0 < 36525 /\ 1 \in {0, 1}
        OBVIOUS
      <3>5. QED
        BY <3>2, <3>3, <3>4 DEF ClockInv
    <2>5. QED
      BY <2>1, <2>3, <2>4
  <1>2. CASE ~Midnight
    <2>1. UNCHANGED <<today, clock>>
      BY <1>2 DEF Next, Load, FirstPass, StartPass, Turn, vars
    <2>2. QED
      BY <2>1 DEF ClockInv
  <1>3. QED
    BY <1>1, <1>2

LEMMA NewCentury == Date(2100, 1, 1) = 36525
  <1>1. MonthStart(2100, 0) = 0
    BY DEF MonthStart
  <1>2. MkTime([year |-> 2100, mon |-> 0, mday |-> 1])
          = Before(2100) + MonthStart(2100, 0) + 1 - 1
    BY MkTimeOf
  <1>3. QED
    BY <1>1, <1>2, YearEnds DEF Date

\* If the clock is first set before 2100, what get() reads from it is the present day, and
\* an alarm for the day matches its register, through every month and leap year, until
\* 2100; from then on get() is behind by a century.
THEOREM ClockAlwaysReadsToday ==
  (\A day \in StartDays : day < Date(2100, 1, 1)) => (Spec => []ClockReadsToday)
  <1> SUFFICES ASSUME \A day \in StartDays : day < Date(2100, 1, 1)
               PROVE  Spec => []ClockReadsToday
    OBVIOUS
  <1>1. Init => ClockInv
    <2> SUFFICES ASSUME Init
                 PROVE  ClockInv
      OBVIOUS
    <2>1. today \in StartDays /\ clock = WriteTime(today)
      BY DEF Init
    <2>2. today \in Nat /\ today < 36525
      <3>1. today \in Days
        BY <2>1, RulesAssumption
      <3>2. LastDay \in Int
        BY DEF LastDay
      <3>3. QED
        BY <2>1, <3>1, <3>2, NewCentury DEF Days
    <2>3. clock = ClockOf(today, 0)
      <3>1. GmTime(today).mon + 1 \in Nat /\ GmTime(today).mon + 1 < 100
        BY <2>2, InCentury
      <3>2. dec2bcd(GmTime(today).mon + 1) + Century * 0 = dec2bcd(GmTime(today).mon + 1)
        BY <3>1, Digits DEF Century
      <3>3. QED
        BY <2>1, <3>2 DEF WriteTime, ClockOf
    <2>4. today = 36525 * 0 + today /\ 0 \in {0, 1}
      BY <2>2
    <2>5. QED
      BY <2>2, <2>3, <2>4 DEF ClockInv
  <1>2. ClockInv /\ DayInv /\ [Next]_vars => ClockInv'
    BY ClockInductive
  <1>3. ClockInv => ClockReadsToday
    <2> SUFFICES ASSUME ClockInv
                 PROVE  ClockReadsToday
      OBVIOUS
    <2>1. PICK c \in {0, 1}, day \in Nat :
            day < 36525 /\ today = 36525 * c + day /\ clock = ClockOf(day, c)
      BY DEF ClockInv
    <2>2. ReadTime(clock) = day /\ clock.mday = AlarmDate(day)
      BY <2>1, ReadClock
    <2>3. CASE c = 0
      BY <2>1, <2>2, <2>3, NewCentury DEF ClockReadsToday
    <2>4. CASE c = 1
      <3>1. ~(today < Date(2100, 1, 1)) /\ day < today
        BY <2>1, <2>4, NewCentury
      <3>2. QED
        BY <2>2, <3>1 DEF ClockReadsToday
    <2>5. QED
      BY <2>1, <2>3, <2>4
  <1>4. QED
    BY <1>1, <1>2, <1>3, DayAlways, PTL DEF Spec


-----------------------------------------------------------------------------
(* Months and years added to a date.                                       *)

LEMMA MonthStarts ==
  ASSUME NEW year
  PROVE  /\ MonthStart(year, 0) = 0 /\ MonthStart(year, 1) = 31
         /\ MonthStart(year, 2) = 59 + Leap(year) /\ MonthStart(year, 3) = 90 + Leap(year)
         /\ MonthStart(year, 4) = 120 + Leap(year) /\ MonthStart(year, 5) = 151 + Leap(year)
         /\ MonthStart(year, 6) = 181 + Leap(year) /\ MonthStart(year, 7) = 212 + Leap(year)
         /\ MonthStart(year, 8) = 243 + Leap(year) /\ MonthStart(year, 9) = 273 + Leap(year)
         /\ MonthStart(year, 10) = 304 + Leap(year) /\ MonthStart(year, 11) = 334 + Leap(year)
  BY DEF MonthStart, Leap

\* The first of a month, and the months one after another.
LEMMA MonthFirst ==
  ASSUME NEW year \in Nat, NEW mon \in 0 .. 11
  PROVE  /\ MonthStart(year, mon) \in Nat /\ MonthStart(year, mon) <= 334 + Leap(year)
         /\ MonthDay(MonthStart(year, mon), Leap(year)) = [mon |-> mon, mday |-> 1]
  <1>1. Leap(year) \in Nat /\ Leap(year) <= 1
    BY DEF Leap
  <1>2. \A first, length \in Nat :
          length > 0 /\ IsMonth(Leap(year), mon, first, length) =>
            MonthDay(first, Leap(year)) = [mon |-> mon, mday |-> 1]
    BY DEF IsMonth
  <1>3. \E length \in Nat : length > 0 /\ IsMonth(Leap(year), mon, MonthStart(year, mon), length)
    BY <1>1, Months, MonthStarts
  <1>4. MonthStart(year, mon) \in Nat /\ MonthStart(year, mon) <= 334 + Leap(year)
    BY <1>1, MonthStarts
  <1>5. QED
    BY <1>2, <1>3, <1>4

LEMMA MonthOrder ==
  ASSUME NEW year \in Nat, NEW mon \in 0 .. 11, NEW k \in 0 .. 11, mon <= k
  PROVE  /\ MonthStart(year, mon) <= MonthStart(year, k)
         /\ mon < k => MonthStart(year, mon) + 28 <= MonthStart(year, k)
  <1>1. Leap(year) \in Nat /\ Leap(year) <= 1
    BY DEF Leap
  <1>2. QED
    BY <1>1, MonthStarts

\* A month past December is one from August on: the months' lengths repeat after five.
LEMMA MonthFolds ==
  ASSUME NEW year \in Nat, NEW k \in 12 .. 22
  PROVE  \E mon \in 7 .. 11 : MonthStart(year, k) = MonthStart(year, mon)
  <1>1. (k - 2) % 5 \in 0 .. 4 /\ k - 2 > 4
    OBVIOUS
  <1>2. MonthStart(year, k) = MonthStart(year, 7 + ((k - 2) % 5))
    BY DEF MonthStart
  <1>3. QED
    BY <1>1, <1>2

\* A day of the year comes before the first of the next month.
LEMMA MonthHolds ==
  ASSUME NEW year \in Nat, NEW yday \in Nat, yday <= 364 + Leap(year)
  PROVE  LET mon == MonthDay(yday, Leap(year)).mon
         IN mon \in 0 .. 11 /\ MonthStart(year, mon) <= yday
            /\ (mon < 11 => yday < MonthStart(year, mon + 1))
  <1> DEFINE leap == Leap(year)
             Held(mon) == MonthDay(yday, leap).mon = mon /\ MonthStart(year, mon) <= yday
                          /\ (mon < 11 => yday < MonthStart(year, mon + 1))
  <1>1. leap \in Nat /\ leap <= 1
    BY DEF Leap
  <1>2. \A mon \in 0 .. 11, first, length \in Nat :
          IsMonth(leap, mon, first, length) /\ first <= yday /\ yday < first + length =>
            MonthDay(yday, leap).mon = mon
    BY DEF IsMonth
  <1>3. /\ MonthStart(year, 0) = 0 /\ MonthStart(year, 1) = 31
        /\ MonthStart(year, 2) = 59 + leap /\ MonthStart(year, 3) = 90 + leap
        /\ MonthStart(year, 4) = 120 + leap /\ MonthStart(year, 5) = 151 + leap
        /\ MonthStart(year, 6) = 181 + leap /\ MonthStart(year, 7) = 212 + leap
        /\ MonthStart(year, 8) = 243 + leap /\ MonthStart(year, 9) = 273 + leap
        /\ MonthStart(year, 10) = 304 + leap /\ MonthStart(year, 11) = 334 + leap
    BY MonthStarts DEF leap
  <1> HIDE DEF leap
  <1>4. CASE 0 <= yday /\ yday < 31
    <2>1. Held(0)
      BY <1>1, <1>2, <1>3, <1>4, Months
    <2>2. QED
      BY <2>1 DEF leap
  <1>5. CASE 31 <= yday /\ yday < 59 + leap
    <2>1. Held(1)
      BY <1>1, <1>2, <1>3, <1>5, Months
    <2>2. QED
      BY <2>1 DEF leap
  <1>6. CASE 59 + leap <= yday /\ yday < 90 + leap
    <2>1. Held(2)
      BY <1>1, <1>2, <1>3, <1>6, Months
    <2>2. QED
      BY <2>1 DEF leap
  <1>7. CASE 90 + leap <= yday /\ yday < 120 + leap
    <2>1. Held(3)
      BY <1>1, <1>2, <1>3, <1>7, Months
    <2>2. QED
      BY <2>1 DEF leap
  <1>8. CASE 120 + leap <= yday /\ yday < 151 + leap
    <2>1. Held(4)
      BY <1>1, <1>2, <1>3, <1>8, Months
    <2>2. QED
      BY <2>1 DEF leap
  <1>9. CASE 151 + leap <= yday /\ yday < 181 + leap
    <2>1. Held(5)
      BY <1>1, <1>2, <1>3, <1>9, Months
    <2>2. QED
      BY <2>1 DEF leap
  <1>10. CASE 181 + leap <= yday /\ yday < 212 + leap
    <2>1. Held(6)
      BY <1>1, <1>2, <1>3, <1>10, Months
    <2>2. QED
      BY <2>1 DEF leap
  <1>11. CASE 212 + leap <= yday /\ yday < 243 + leap
    <2>1. Held(7)
      BY <1>1, <1>2, <1>3, <1>11, Months
    <2>2. QED
      BY <2>1 DEF leap
  <1>12. CASE 243 + leap <= yday /\ yday < 273 + leap
    <2>1. Held(8)
      BY <1>1, <1>2, <1>3, <1>12, Months
    <2>2. QED
      BY <2>1 DEF leap
  <1>13. CASE 273 + leap <= yday /\ yday < 304 + leap
    <2>1. Held(9)
      BY <1>1, <1>2, <1>3, <1>13, Months
    <2>2. QED
      BY <2>1 DEF leap
  <1>14. CASE 304 + leap <= yday /\ yday < 334 + leap
    <2>1. Held(10)
      BY <1>1, <1>2, <1>3, <1>14, Months
    <2>2. QED
      BY <2>1 DEF leap
  <1>15. CASE 334 + leap <= yday
    <2>1. Held(11)
      <3>1. yday <= 364 + leap
        BY DEF leap
      <3>2. QED
        BY <1>1, <1>2, <1>3, <1>15, <3>1, Months
    <2>2. QED
      BY <2>1 DEF leap
  <1>16. QED
    BY <1>1, <1>4, <1>5, <1>6, <1>7, <1>8, <1>9, <1>10, <1>11, <1>12, <1>13, <1>14, <1>15

\* Years go by 365 days at least.
LEMMA YearsGrow ==
  ASSUME NEW year \in Nat, 2000 <= year, NEW later \in Nat, later <= 2136, year < later
  PROVE  Before(later) >= Before(year) + 365 + Leap(year)
  <1> DEFINE G == {k \in Nat : year + 1 + k <= 2136 => Before(year + 1 + k) >= Before(year + 1)}
  <1>1. \A y \in Nat : 2000 <= y /\ y <= 2136 =>
          /\ Before(y + 1) = Before(y) + 365 + Leap(y) /\ Leap(y) \in {0, 1} /\ Before(y) \in Nat
    BY NextYear
  <1>2. 0 \in G
    <2>1. year + 1 + 0 = year + 1 /\ (year + 1 <= 2136 => Before(year + 1) \in Nat)
      BY <1>1
    <2>2. QED
      BY <2>1
  <1>3. ASSUME NEW k \in G
        PROVE  k + 1 \in G
    <2> SUFFICES ASSUME year + 1 + (k + 1) <= 2136
                 PROVE  Before(year + 1 + (k + 1)) >= Before(year + 1)
      OBVIOUS
    <2> DEFINE y == year + 1 + k
    <2>1. y \in Nat /\ 2000 <= y /\ y <= 2136 /\ y + 1 = year + 1 + (k + 1)
      OBVIOUS
    <2>2. Before(y) >= Before(year + 1)
      BY <2>1
    <2> HIDE DEF y
    <2>3. Before(y + 1) = Before(y) + 365 + Leap(y) /\ Leap(y) \in {0, 1} /\ Before(y) \in Nat
      BY <1>1, <2>1
    <2>4. Before(year + 1) \in Nat
      BY <1>1
    <2>5. QED
      BY <2>1, <2>2, <2>3, <2>4
  <1> HIDE DEF G
  <1>4. G = Nat
    <2>1. G \in SUBSET Nat
      BY DEF G
    <2>2. QED
      BY <1>2, <1>3, <2>1, NatSetInduction
  <1>5. PICK k \in Nat : year + 1 + k = later
    <2>1. later - (year + 1) \in Nat /\ year + 1 + (later - (year + 1)) = later
      OBVIOUS
    <2>2. QED
      BY <2>1
  <1>6. Before(later) >= Before(year + 1)
    <2>1. k \in G
      BY <1>4
    <2>2. year + 1 + k <= 2136 => Before(year + 1 + k) >= Before(year + 1)
      BY <2>1 DEF G
    <2>3. QED
      BY <1>5, <2>2
  <1>7. QED
    BY <1>1, <1>6

\* The bound on the year.
LEMMA YearCapped ==
  ASSUME NEW year \in Nat, 2000 <= year, year <= 2136, NEW n \in Nat
  PROVE  LET y == CapYear(year + n)
         IN /\ y \in Nat /\ year <= y /\ y <= 2136
            /\ n > 0 /\ year < 2136 => year < y
  BY DEF CapYear

\* Years on: the same day, or the first of March after a 29th of February.
LEMMA YearsOn ==
  ASSUME NEW t, NEW year, NEW yday, IsYearDay(t, year, yday), NEW n \in Nat
  PROVE  LET y == CapYear(year + n)
             later == PlusYears(t, n)
         IN \E d : /\ IsYearDay(later, y, d) /\ d + 1 >= yday
                   /\ yday = 0 => d = 0
                   /\ \/ GmTime(later).mon = GmTime(t).mon
                      \/ GmTime(later).mon = 2 /\ GmTime(t).mon = 1
  <1> DEFINE y == CapYear(year + n)
             later == PlusYears(t, n)
             m == MonthDay(yday, Leap(year))
             d == MonthStart(y, m.mon) + m.mday - 1
             leap == Leap(year)
             other == Leap(y)
  <1>1. year \in Nat /\ 2000 <= year /\ year <= 2136 /\ yday \in Nat /\ yday <= 364 + leap
        /\ t = Before(year) + yday
    BY DEF IsYearDay
  <1>2. y \in Nat /\ year <= y /\ y <= 2136
    BY <1>1, YearCapped
  <1>3. GmTime(t) = DateOf(year, yday)
    BY DateOfDay
  <1>4. m.mon \in 0 .. 11 /\ m.mday \in 1 .. 31
    <2>1. leap \in {0, 1} /\ yday \in 0 .. 364 + leap
      BY <1>1 DEF Leap
    <2>2. QED
      BY <2>1, MonthOfDay
  <1>5. later = Before(y) + d
    <2> DEFINE tm == [DateOf(year, yday) EXCEPT !.year = y]
    <2>1. later = MkTime(tm)
      BY <1>3 DEF PlusYears, DateOf
    <2>2. tm.year = y /\ tm.mon = m.mon /\ tm.mday = m.mday
      BY DEF DateOf
    <2> HIDE DEF tm, y, m
    <2>3. MonthStart(y, m.mon) \in Nat /\ Before(y) \in Nat
      <3>1. 2000 <= y
        BY <1>1, <1>2
      <3>2. Before(y) \in Nat
        BY <1>2, <3>1, NextYear
      <3>3. m.mon \in 0 .. 11
        BY <1>4
      <3>4. y \in Nat
        BY <1>2
      <3>5. MonthStart(y, m.mon) \in Nat
        BY <3>3, <3>4, MonthFirst
      <3>6. QED
        BY <3>2, <3>5
    <2>4. MkTime(tm) = Before(y) + MonthStart(y, m.mon) + m.mday - 1
      BY <2>2, MkTimeOf
    <2>5. QED
      BY <1>4, <2>1, <2>3, <2>4
  <1>6. leap \in Nat /\ leap <= 1 /\ other \in Nat /\ other <= 1
    BY DEF Leap
  <1>7. MonthStart(y, 0) = 0 /\ MonthStart(y, 1) = 31
    BY MonthStarts
  <1> HIDE DEF leap, other, y
  <1>8. d \in Nat /\ d <= 364 + other /\ d + 1 >= yday /\ (yday = 0 => d = 0)
        /\ (MonthDay(d, other).mon # m.mon => MonthDay(d, other).mon = 2 /\ m.mon = 1)
    <2>1. CASE yday < 31
      <3>1. IsMonth(leap, 0, 0, 31) /\ IsMonth(other, 0, 0, 31)
        BY <1>6, Months
      <3>2. m = [mon |-> 0, mday |-> yday + 1]
        BY <1>1, <2>1, <3>1 DEF IsMonth, leap
      <3> HIDE DEF m
      <3>3. d = yday
        BY <1>1, <1>7, <3>2
      <3>4. QED
        BY <1>1, <1>6, <2>1, <3>1, <3>2, <3>3 DEF IsMonth
    <2>2. CASE 31 <= yday /\ yday < 59 + leap
      <3>1. /\ IsMonth(leap, 1, 31, 28 + leap) /\ IsMonth(other, 1, 31, 28 + other)
            /\ IsMonth(other, 2, 59 + other, 31)
        BY <1>6, Months
      <3>2. m = [mon |-> 1, mday |-> yday - 31 + 1]
        BY <1>1, <1>6, <2>2, <3>1 DEF IsMonth, leap
      <3> HIDE DEF m
      <3>3. d = yday
        BY <1>1, <1>7, <3>2
      <3>4. MonthDay(yday, other).mon \in {1, 2}
        BY <1>1, <1>6, <2>2, <3>1 DEF IsMonth
      <3>5. QED
        BY <1>1, <1>6, <2>2, <3>2, <3>3, <3>4
    <2>3. CASE 59 + leap <= yday
      <3>1. MonthDay(yday - leap + other, other) = MonthDay(yday, leap)
        BY <1>1, <1>6, <2>3 DEF MonthDay
      <3>2. MonthStart(year, m.mon) <= yday /\ (m.mon < 11 => yday < MonthStart(year, m.mon + 1))
        BY <1>1, MonthHolds DEF leap
      <3>3. MonthStart(year, m.mon) + m.mday - 1 = yday
        BY <1>1, MonthBack DEF leap
      <3>4. m = MonthDay(yday, leap)
        BY DEF leap
      <3> HIDE DEF m
      <3>5. m.mon \in {2, 3, 4, 5, 6, 7, 8, 9, 10, 11}
        <4>1. MonthStart(year, 1) = 31 /\ MonthStart(year, 2) = 59 + leap
          BY MonthStarts DEF leap
        <4>2. m.mon # 0 /\ m.mon # 1
          BY <1>1, <1>6, <2>3, <3>2, <4>1
        <4>3. QED
          BY <1>4, <4>2
      <3>6. MonthStart(y, m.mon) = MonthStart(year, m.mon) - leap + other
            /\ MonthStart(year, m.mon) \in Nat
        BY <1>6, <3>5, MonthStarts DEF leap, other
      <3>7. d = yday - leap + other
        BY <1>1, <1>4, <1>6, <3>3, <3>6
      <3> HIDE DEF d
      <3>8. d \in Nat /\ d <= 364 + other /\ d + 1 >= yday /\ yday # 0
        BY <1>1, <1>6, <2>3, <3>7
      <3>9. MonthDay(d, other).mon = m.mon
        BY <3>1, <3>4, <3>7
      <3>10. QED
        BY <3>8, <3>9
    <2>4. QED
      BY <1>1, <1>6, <2>1, <2>2, <2>3
  <1> HIDE DEF d
  <1>9. IsYearDay(later, y, d)
    BY <1>2, <1>5, <1>8 DEF IsYearDay, other
  <1>10. GmTime(later) = DateOf(y, d)
    BY <1>9, DateOfDay
  <1>11. GmTime(later).mon = MonthDay(d, other).mon /\ GmTime(t).mon = m.mon
    BY <1>3, <1>10 DEF DateOf, other
  <1>12. QED
    BY <1>8, <1>9, <1>11 DEF y

\* Months on, unless they run past December.
MonthsFrom(t, n) == GmTime(t).mon + (n % 12)

MonthsOnto(t, year, yday, n, later, y, k, mon, mday) ==
  /\ later = Before(y) + MonthStart(y, k) + mday - 1
  /\ y \in Nat /\ year <= y /\ y <= 2136 /\ Before(y) \in Nat
  /\ y = year /\ year < 2136 => n \div 12 = 0 /\ n % 12 = n
  /\ mon \in 0 .. 11 /\ mday \in 1 .. 31
  /\ n % 12 \in 0 .. 11 /\ k = mon + (n % 12)
  /\ k \in 0 .. 22 /\ MonthStart(y, k) \in Nat
  /\ t = Before(year) + MonthStart(year, mon) + mday - 1
  /\ yday = MonthStart(year, mon) + mday - 1
  /\ year \in Nat /\ 2000 <= year /\ year <= 2136 /\ Before(year) \in Nat

LEMMA MonthsOnDate ==
  ASSUME NEW t, NEW year, NEW yday, IsYearDay(t, year, yday), NEW n \in Nat
  PROVE  MonthsOnto(t, year, yday, n, PlusMonths(t, n), CapYear(year + n \div 12),
                    MonthsFrom(t, n), GmTime(t).mon, GmTime(t).mday)
  <1> DEFINE years == n \div 12
             y == CapYear(year + years)
             tm == GmTime(t)
             k == tm.mon + (n % 12)
             new == [tm EXCEPT !.year = y, !.mon = tm.mon + n - 12 * years]
  <1>1. /\ tm.year = year /\ tm.mon \in 0 .. 11 /\ tm.mday \in 1 .. 31
        /\ MonthStart(year, tm.mon) + tm.mday - 1 = yday
        /\ Before(year) \in Nat /\ yday \in Nat /\ year \in Nat /\ 2000 <= year /\ year <= 2136
        /\ t = Before(year) + yday
    BY DayFields
  <1>2. tm = [year |-> tm.year, mon |-> tm.mon, mday |-> tm.mday, wday |-> tm.wday]
    BY DateOfDay DEF DateOf
  <1>3. years \in Nat /\ n % 12 \in 0 .. 11 /\ n - 12 * years = n % 12
        /\ (years = 0 => n % 12 = n)
    OBVIOUS
  <1>4. PlusMonths(t, n) = MkTime(new)
    <2>1. ~(n < 0)
      OBVIOUS
    <2>2. QED
      BY <1>1, <2>1 DEF PlusMonths
  <1>5. y \in Nat /\ year <= y /\ y <= 2136 /\ (years > 0 /\ year < 2136 => year < y)
    <2> HIDE DEF years
    <2>1. QED
      BY <1>1, <1>3, YearCapped
  <1>6. k \in 0 .. 22 /\ tm.mon + n - 12 * years = k
    BY <1>1, <1>3
  <1> HIDE DEF years, y, tm
  <1>7. new.year = y /\ new.mon = k /\ new.mday = tm.mday
    BY <1>2, <1>6
  <1> HIDE DEF new, k
  <1>8. MkTime(new) = Before(y) + MonthStart(y, k) + tm.mday - 1
    BY <1>7, MkTimeOf
  <1>9. Before(y) \in Nat
    <2>1. 2000 <= y
      BY <1>1, <1>5
    <2>2. QED
      BY <1>5, <2>1, NextYear
  <1>10. MonthStart(y, k) \in Nat
    <2>0. y \in Nat
      BY <1>5
    <2>1. CASE k \in 0 .. 11
      BY <2>0, <2>1, MonthFirst
    <2>2. CASE k \in 12 .. 22
      <3>1. PICK mon \in 7 .. 11 : MonthStart(y, k) = MonthStart(y, mon)
        BY <2>0, <2>2, MonthFolds
      <3>2. MonthStart(y, mon) \in Nat
        <4>1. mon \in 0 .. 11
          OBVIOUS
        <4>2. QED
          BY <2>0, <4>1, MonthFirst
      <3>3. QED
        BY <3>1, <3>2
    <2>3. QED
      BY <1>6, <2>1, <2>2
  <1>11. y = year /\ year < 2136 => years = 0 /\ n % 12 = n
    BY <1>1, <1>3, <1>5
  <1>12. t = Before(year) + MonthStart(year, tm.mon) + tm.mday - 1
    <2>1. MonthStart(year, tm.mon) \in Nat
      <3>1. year \in Nat
        BY <1>1
      <3>2. tm.mon \in 0 .. 11
        BY <1>1
      <3>3. QED
        BY <3>1, <3>2, MonthFirst
    <2>2. QED
      BY <1>1, <2>1
  <1>13. MonthsFrom(t, n) = k
    BY DEF MonthsFrom, k, tm
  <1>14. k = tm.mon + (n % 12)
    BY DEF k
  <1>15. QED
    BY <1>1, <1>3, <1>4, <1>5, <1>6, <1>8, <1>9, <1>10, <1>11, <1>12, <1>13, <1>14
       DEF y, tm, years, MonthsOnto

LEMMA MonthsOn ==
  ASSUME NEW t, NEW year, NEW yday, IsYearDay(t, year, yday), NEW n \in Nat
  PROVE  LET later == PlusMonths(t, n)
             mon == GmTime(t).mon
             k == MonthsFrom(t, n)
         IN /\ later \in Nat
            /\ k <= 11 \/ (k = 12 /\ mon = 2) => later >= t
            /\ k <= 11 /\ n > 0 /\ year < 2136 =>
                 /\ later > t
                 /\ yday = MonthStart(year, mon) =>
                      \A d \in Nat : d <= 364 + Leap(year) /\ MonthDay(d, Leap(year)).mon = mon
                                       => Before(year) + d < later
  <1> DEFINE later == PlusMonths(t, n)
             tm == GmTime(t)
             k == MonthsFrom(t, n)
             y == CapYear(year + n \div 12)
  <1>0. MonthsOnto(t, year, yday, n, later, y, k, tm.mon, tm.mday)
    BY MonthsOnDate
  <1> HIDE DEF later, tm, k, y
  <1>1. /\ later = Before(y) + MonthStart(y, k) + tm.mday - 1
        /\ y \in Nat /\ year <= y /\ y <= 2136 /\ Before(y) \in Nat
        /\ y = year /\ year < 2136 => n \div 12 = 0 /\ n % 12 = n
        /\ tm.mon \in 0 .. 11 /\ tm.mday \in 1 .. 31
        /\ n % 12 \in 0 .. 11 /\ k = tm.mon + (n % 12)
        /\ k \in 0 .. 22 /\ MonthStart(y, k) \in Nat
        /\ t = Before(year) + MonthStart(year, tm.mon) + tm.mday - 1
        /\ yday = MonthStart(year, tm.mon) + tm.mday - 1
        /\ year \in Nat /\ 2000 <= year /\ year <= 2136 /\ Before(year) \in Nat
    BY <1>0 DEF MonthsOnto
  <1>2. MonthStart(year, tm.mon) \in Nat /\ MonthStart(year, tm.mon) <= 334 + Leap(year)
        /\ Leap(year) \in {0, 1}
    <2>1. year \in Nat
      BY <1>1
    <2>2. tm.mon \in 0 .. 11
      BY <1>1
    <2>3. QED
      BY <2>1, <2>2, MonthFirst DEF Leap
  <1>3. later \in Nat
    <2>1. later = Before(y) + MonthStart(y, k) + tm.mday - 1
      BY <1>1
    <2>2. Before(y) \in Nat /\ MonthStart(y, k) \in Nat
      BY <1>1
    <2>3. tm.mday \in 1 .. 31
      BY <1>1
    <2>4. QED
      BY <2>1, <2>2, <2>3
  <1>4. CASE y > year
    <2>1. Before(y) >= Before(year) + 365 + Leap(year)
      BY <1>1, <1>4, YearsGrow
    <2>2. later > t
      BY <1>1, <1>2, <2>1
    <2>3. ASSUME NEW d \in Nat, d <= 364 + Leap(year)
          PROVE  Before(year) + d < later
      <3>1. later \in Nat /\ later >= Before(y)
        BY <1>1
      <3>2. QED
        BY <1>1, <1>2, <2>1, <2>3, <3>1
    <2>4. QED
      BY <1>1, <1>2, <1>3, <2>2, <2>3 DEF later, tm, k
  <1>5. CASE y = year
    <2>1. k <= 11 => MonthStart(year, tm.mon) <= MonthStart(year, k)
                     /\ (tm.mon < k => MonthStart(year, tm.mon) + 28 <= MonthStart(year, k))
      <3> SUFFICES ASSUME k <= 11
                   PROVE  MonthStart(year, tm.mon) <= MonthStart(year, k)
                          /\ (tm.mon < k => MonthStart(year, tm.mon) + 28 <= MonthStart(year, k))
        OBVIOUS
      <3>1. k \in 0 .. 11 /\ tm.mon <= k
        BY <1>1
      <3>2. QED
        BY <1>1, <3>1, MonthOrder
    <2>2. k = 12 /\ tm.mon = 2 => MonthStart(year, tm.mon) <= MonthStart(year, k)
      <3> SUFFICES ASSUME k = 12, tm.mon = 2
                   PROVE  MonthStart(year, tm.mon) <= MonthStart(year, k)
        OBVIOUS
      <3>1. k \in 12 .. 22
        BY <1>1
      <3>2. PICK mon \in 7 .. 11 : MonthStart(year, k) = MonthStart(year, mon)
        BY <1>1, <3>1, MonthFolds
      <3>3. mon \in 0 .. 11 /\ tm.mon <= mon
        OBVIOUS
      <3>4. QED
        BY <1>1, <3>2, <3>3, MonthOrder
    <2>3. k <= 11 \/ (k = 12 /\ tm.mon = 2) => later >= t
      BY <1>1, <1>2, <1>5, <2>1, <2>2
    <2>4. ASSUME k <= 11, n > 0, year < 2136
          PROVE  /\ later > t
                 /\ yday = MonthStart(year, tm.mon) =>
                      \A d \in Nat : d <= 364 + Leap(year) /\ MonthDay(d, Leap(year)).mon = tm.mon
                                       => Before(year) + d < later
      <3>1. tm.mon < k /\ tm.mon < 11 /\ tm.mon + 1 <= k
        BY <1>1, <1>5, <2>4
      <3>2. later > t
        BY <1>1, <1>2, <1>5, <2>1, <2>4, <3>1
      <3>3. MonthStart(year, tm.mon + 1) <= MonthStart(year, k) /\ MonthStart(year, tm.mon + 1) \in Nat
        <4>1. tm.mon + 1 \in 0 .. 11 /\ k \in 0 .. 11
          BY <1>1, <2>4, <3>1
        <4>2. tm.mon + 1 \in 0 .. 11
          BY <4>1
        <4>3. year \in Nat
          BY <1>1
        <4>4. MonthStart(year, tm.mon + 1) \in Nat
          BY <4>2, <4>3, MonthFirst
        <4>5. k \in 0 .. 11
          BY <4>1
        <4>6. tm.mon + 1 <= k
          BY <3>1
        <4>7. QED
          BY <4>2, <4>3, <4>4, <4>5, <4>6, MonthOrder
      <3>4. ASSUME NEW d \in Nat, d <= 364 + Leap(year), MonthDay(d, Leap(year)).mon = tm.mon
            PROVE  Before(year) + d < later
        <4>1. d < MonthStart(year, tm.mon + 1)
          BY <1>1, <3>1, <3>4, MonthHolds
        <4>2. QED
          BY <1>1, <1>5, <3>3, <4>1
      <3>5. QED
        BY <3>2, <3>4
    <2>5. QED
      BY <1>3, <2>3, <2>4 DEF later, tm, k
  <1>6. QED
    BY <1>1, <1>4, <1>5

-----------------------------------------------------------------------------
(* A period added: its fields, one after another.                          *)

\* The values that a field's sixteen bits keep.
Short == {n \in Nat : n > 0 /\ n < 32768}
Field == [type : FieldTypes, value : Short]

LEMMA NarrowKeeps ==
  ASSUME NEW n \in Short
  PROVE  Narrow(n) = n
  <1>1. n \in Nat /\ n < 32768
    BY DEF Short
  <1>2. n + 32768 \in Nat /\ n + 32768 < 65536
    BY <1>1
  <1>3. (n + 32768) % 65536 = n + 32768
    BY <1>2
  <1>4. QED
    BY <1>1, <1>3 DEF Narrow

LEMMA FieldValue ==
  ASSUME NEW field \in Field
  PROVE  field.type \in FieldTypes /\ field.value \in Nat /\ field.value > 0
  BY DEF Field, Short

LEMMA FieldAdds ==
  ASSUME NEW t, NEW field \in Field
  PROVE  /\ field.type \in FieldTypes
         /\ field.value \in Nat /\ field.value > 0
         /\ field.type = "years"  => PlusField(t, field) = PlusYears(t, field.value)
         /\ field.type = "months" => PlusField(t, field) = PlusMonths(t, field.value)
         /\ field.type = "weeks"  => PlusField(t, field) = t + 7 * field.value
         /\ field.type = "days"   => PlusField(t, field) = t + field.value
  <1>1. field.type \in FieldTypes /\ field.value \in Short
    BY DEF Field
  <1>2. Narrow(field.value) = field.value
    BY <1>1, NarrowKeeps
  <1>3. field.value \in Nat /\ field.value > 0
    BY <1>1 DEF Short
  <1>4. QED
    BY <1>1, <1>2, <1>3 DEF PlusField

\* Every operation ends in a day, be it one before the epoch.
LEMMA MonthDayInt ==
  ASSUME NEW yday \in Int, NEW leap \in Int
  PROVE  MonthDay(yday, leap).mon \in Int /\ MonthDay(yday, leap).mday \in Int
  BY DEF MonthDay

LEMMA GmTimeInt ==
  ASSUME NEW t \in Int
  PROVE  /\ GmTime(t) = [year |-> GmTime(t).year, mon |-> GmTime(t).mon,
                         mday |-> GmTime(t).mday, wday |-> GmTime(t).wday]
         /\ GmTime(t).year \in Int /\ GmTime(t).mon \in Int /\ GmTime(t).mday \in Int
  <1> DEFINE rest == t % 36525
             first == 100 * (t \div 36525) + 4 * (rest \div 1461)
             d == (rest % 1461) + (IF first > 100 THEN 1 ELSE 0)
             leap == IF first = 100 THEN 0 ELSE 1
             later == d > 364 + leap
             monthDay == IF later THEN MonthDay((d - leap) % 365, 0) ELSE MonthDay(d, leap)
             year == 2000 + first + (IF later THEN (d - leap) \div 365 ELSE 0)
             wday == (t + 6) % 7
  <1>1. GmTime(t) = [year |-> year, mon |-> monthDay.mon, mday |-> monthDay.mday, wday |-> wday]
    BY DEF GmTime
  <1>2. rest \in Int /\ t \div 36525 \in Int
    OBVIOUS
  <1> HIDE DEF rest
  <1>3. first \in Int /\ rest % 1461 \in Int
    BY <1>2
  <1> HIDE DEF first
  <1>4. d \in Int /\ leap \in Int
    BY <1>3
  <1> HIDE DEF d, leap
  <1>5. year \in Int /\ (d - leap) % 365 \in Int
    BY <1>3, <1>4
  <1>6. monthDay.mon \in Int /\ monthDay.mday \in Int
    <2>1. MonthDay(d, leap).mon \in Int /\ MonthDay(d, leap).mday \in Int
      BY <1>4, MonthDayInt
    <2>2. MonthDay((d - leap) % 365, 0).mon \in Int /\ MonthDay((d - leap) % 365, 0).mday \in Int
      BY <1>5, MonthDayInt
    <2>3. QED
      BY <2>1, <2>2
  <1> HIDE DEF year, monthDay, wday
  <1>7. QED
    BY <1>1, <1>5, <1>6

LEMMA MkTimeInt ==
  ASSUME NEW tm, tm.year \in Int, tm.mon \in Int, tm.mday \in Int
  PROVE  MkTime(tm) \in Int
  <1>1. MonthStart(tm.year, tm.mon) \in Int
    BY DEF MonthStart
  <1> DEFINE n == tm.year - 2000
             leaps == IF n = 0 THEN 0 ELSE (n - 1) \div 4 - (n - 1) \div 100 + 1
  <1>2. MkTime(tm) = 365 * n + leaps + MonthStart(tm.year, tm.mon) + tm.mday - 1
    BY DEF MkTime
  <1>3. n \in Int /\ leaps \in Int
    OBVIOUS
  <1> HIDE DEF n, leaps
  <1>4. QED
    BY <1>1, <1>2, <1>3

LEMMA PlusFieldInt ==
  ASSUME NEW t \in Int, NEW field \in Field
  PROVE  PlusField(t, field) \in Int
  <1> DEFINE n == field.value
             tm == GmTime(t)
             inYears == [tm EXCEPT !.year = CapYear(tm.year + n)]
             inMonths == [tm EXCEPT !.year = CapYear(tm.year + n \div 12),
                                    !.mon = tm.mon + n - 12 * (n \div 12)]
  <1>1. n \in Nat /\ field.type \in FieldTypes
    BY FieldAdds
  <1>2. /\ tm = [year |-> tm.year, mon |-> tm.mon, mday |-> tm.mday, wday |-> tm.wday]
        /\ tm.year \in Int /\ tm.mon \in Int /\ tm.mday \in Int
    BY GmTimeInt
  <1>3. PlusYears(t, n) = MkTime(inYears)
    BY DEF PlusYears
  <1>4. PlusMonths(t, n) = MkTime(inMonths)
    <2>1. ~(n < 0)
      BY <1>1
    <2>2. QED
      BY <2>1 DEF PlusMonths
  <1>5. t + 7 * n \in Int /\ t + n \in Int
    BY <1>1
  <1> HIDE DEF n, tm
  <1>6. /\ inYears.year \in Int /\ inYears.mon \in Int /\ inYears.mday \in Int
        /\ inMonths.year \in Int /\ inMonths.mon \in Int /\ inMonths.mday \in Int
    BY <1>1, <1>2 DEF CapYear
  <1> HIDE DEF inYears, inMonths
  <1>7. PlusYears(t, n) \in Int
    BY <1>3, <1>6, MkTimeInt
  <1>8. PlusMonths(t, n) \in Int
    BY <1>4, <1>6, MkTimeInt
  <1>9. QED
    BY <1>1, <1>5, <1>7, <1>8, FieldAdds DEF FieldTypes, n

\* The days on the way from t to the end of the period.
IsPlus(g, t, period) ==
  /\ g \in [0 .. Len(period) -> Int]
  /\ g[0] = t
  /\ \A i \in 0 .. Len(period) - 1 : g[i + 1] = PlusField(g[i], period[i + 1])
  /\ g[Len(period)] = Plus(t, period)

LEMMA PlusSteps ==
  ASSUME NEW t \in Int, NEW period \in Seq(Field)
  PROVE  \E g : IsPlus(g, t, period)
  <1> DEFINE n == Len(period)
             Raw(f) == f = [S \in SUBSET (DOMAIN period) |->
                              IF S = {} THEN t
                              ELSE PlusField(f[S \ {Max(S)}], period[Max(S)])]
             F == [p \in Int \X Field |-> PlusField(p[1], p[2])]
  <1>1. n \in Nat /\ DOMAIN period = 1 .. n /\ period \in [1 .. n -> Field]
    OBVIOUS
  <1>2. F \in [Int \X Field -> Int] /\ \A s \in Int, e \in Field : F[<<s, e>>] = PlusField(s, e)
    BY PlusFieldInt
  <1>3. Plus(t, period) = (CHOOSE f : Raw(f))[DOMAIN period]
    BY Zenon DEF Plus, FoldLeft, MapThenFoldSet
  <1> HIDE DEF n, F
  <1>4. PICK f : IsFold(f, Int, t, F, period, n)
    BY <1>1, <1>2, FoldExists
  <1>5. Raw(f)
    <2>1. /\ f \in [SUBSET (1 .. n) -> Int]
          /\ \A S \in SUBSET (1 .. n) :
               f[S] = IF S = {} THEN t ELSE F[<<f[S \ {Max(S)}], period[Max(S)]>>]
      BY <1>4 DEF IsFold
    <2>2. \A S \in SUBSET (1 .. n) : S # {} => Max(S) \in S
      BY <1>1, GreatestPlace
    <2>3. \A S \in SUBSET (1 .. n) :
            S # {} => f[S \ {Max(S)}] \in Int /\ period[Max(S)] \in Field
      BY <1>1, <2>1, <2>2
    <2>4. \A S \in SUBSET (1 .. n) :
            f[S] = IF S = {} THEN t ELSE PlusField(f[S \ {Max(S)}], period[Max(S)])
      BY <1>2, <2>1, <2>3
    <2>5. f = [S \in SUBSET (1 .. n) |->
                 IF S = {} THEN t ELSE PlusField(f[S \ {Max(S)}], period[Max(S)])]
      BY <2>1, <2>4
    <2>6. QED
      BY <1>1, <2>5
  <1> DEFINE h == CHOOSE k : Raw(k)
  <1>6. Raw(h)
    BY <1>5, Zenon
  <1> HIDE DEF h
  <1>7. \A S \in SUBSET (1 .. n) :
          h[S] = IF S = {} THEN t ELSE PlusField(h[S \ {Max(S)}], period[Max(S)])
    BY <1>1, <1>6
  <1> HIDE DEF Raw
  <1> DEFINE g == [i \in 0 .. n |-> h[1 .. i]]
  <1>8. g[0] = t
    <2>1. 1 .. 0 = {} /\ {} \in SUBSET (1 .. n) /\ 0 \in 0 .. n
      BY <1>1
    <2>2. QED
      BY <1>7, <2>1
  <1>9. \A i \in 0 .. n - 1 : g[i + 1] = PlusField(g[i], period[i + 1])
    <2> TAKE i \in 0 .. n - 1
    <2>1. i \in 0 .. n /\ i + 1 \in 0 .. n
      BY <1>1
    <2>2. h[1 .. i + 1] = PlusField(h[(1 .. i + 1) \ {Max(1 .. i + 1)}], period[Max(1 .. i + 1)])
      BY <1>1, <1>7, FirstPlaces
    <2>3. h[1 .. i + 1] = PlusField(h[1 .. i], period[i + 1])
      BY <1>1, <2>2, FirstPlaces
    <2>4. QED
      BY <2>1, <2>3
  <1>10. \A i \in 0 .. n - 1 : period[i + 1] \in Field
    BY <1>1
  <1>11. g[n] = Plus(t, period)
    BY <1>1, <1>3 DEF h
  <1>12. g = [i \in 0 .. n |-> g[i]]
    OBVIOUS
  <1> HIDE DEF g
  <1>13. \A i \in 0 .. n : g[i] \in Int
    <2>1. \A i \in 0 .. n - 1 : g[i] \in Int => g[i + 1] \in Int
      BY <1>9, <1>10, PlusFieldInt
    <2>2. QED
      BY <1>1, <1>8, <2>1, WalkStays
  <1>14. g \in [0 .. n -> Int]
    BY <1>12, <1>13
  <1>15. QED
    BY <1>8, <1>9, <1>11, <1>14 DEF IsPlus, n

\* A period of one field.
LEMMA PlusOne ==
  ASSUME NEW t \in Int, NEW period \in Seq(Field), Len(period) = 1
  PROVE  /\ period[1] \in Field
         /\ Plus(t, period) = PlusField(t, period[1])
  <1>1. PICK g : IsPlus(g, t, period)
    BY PlusSteps
  <1>2. /\ g[0] = t
        /\ \A i \in 0 .. 0 : g[i + 1] = PlusField(g[i], period[i + 1])
        /\ g[1] = Plus(t, period)
    BY <1>1 DEF IsPlus
  <1>3. g[0 + 1] = PlusField(g[0], period[0 + 1])
    BY <1>2
  <1>4. QED
    BY <1>2, <1>3

-----------------------------------------------------------------------------
(* Periods of one field keep the calendar's.                               *)

\* The first of January, the first of a month, a Monday.
YearFirst(t)     == \E year \in Nat : IsYearDay(t, year, 0)
FirstOfMonth(t)  == \E year \in Nat, mon \in 0 .. 11 : IsYearDay(t, year, MonthStart(year, mon))
Monday(t)        == (t + 6) % 7 = 1

Aligned(t, field) ==
  /\ t \in Int
  /\ field.type = "years" => YearFirst(t)
  /\ field.type = "months" => FirstOfMonth(t)
  /\ field.type = "weeks" => Monday(t)

LEMMA MonthFirstDay ==
  ASSUME NEW year \in Nat, 2000 <= year, year <= 2136, NEW mon \in 0 .. 11
  PROVE  IsYearDay(Before(year) + MonthStart(year, mon), year, MonthStart(year, mon))
  <1>1. Leap(year) \in Nat /\ Leap(year) <= 1
    BY DEF Leap
  <1>2. MonthStart(year, mon) \in Nat /\ MonthStart(year, mon) <= 364 + Leap(year)
    BY <1>1, MonthStarts
  <1>3. QED
    BY <1>2 DEF IsYearDay

LEMMA YearFirstFields ==
  ASSUME NEW t, YearFirst(t)
  PROVE  GmTime(t).mon = 0 /\ GmTime(t).mday = 1
  <1>1. PICK year \in Nat : IsYearDay(t, year, 0)
    BY DEF YearFirst
  <1>2. GmTime(t) = DateOf(year, 0)
    BY <1>1, DateOfDay
  <1>3. Leap(year) \in Nat /\ Leap(year) <= 1
    BY DEF Leap
  <1>4. MonthDay(0, Leap(year)) = [mon |-> 0, mday |-> 1]
    BY <1>3, Months DEF IsMonth
  <1>5. QED
    BY <1>2, <1>4 DEF DateOf

LEMMA FirstOfMonthFields ==
  ASSUME NEW t, FirstOfMonth(t)
  PROVE  GmTime(t).mday = 1
  <1>1. PICK year \in Nat, mon \in 0 .. 11 : IsYearDay(t, year, MonthStart(year, mon))
    BY DEF FirstOfMonth
  <1>2. GmTime(t) = DateOf(year, MonthStart(year, mon))
    BY <1>1, DateOfDay
  <1>3. MonthDay(MonthStart(year, mon), Leap(year)) = [mon |-> mon, mday |-> 1]
    BY MonthFirst
  <1>4. QED
    BY <1>2, <1>3 DEF DateOf

LEMMA YearFirstOn ==
  ASSUME NEW t, YearFirst(t), NEW n \in Nat
  PROVE  YearFirst(PlusYears(t, n))
  <1>1. PICK year \in Nat : IsYearDay(t, year, 0)
    BY DEF YearFirst
  <1>2. PICK d : IsYearDay(PlusYears(t, n), CapYear(year + n), d) /\ (0 = 0 => d = 0)
    BY <1>1, YearsOn
  <1>3. CapYear(year + n) \in Nat
    BY DEF CapYear
  <1>4. QED
    BY <1>2, <1>3 DEF YearFirst

LEMMA FirstOfMonthOn ==
  ASSUME NEW t, FirstOfMonth(t), NEW n \in Nat
  PROVE  FirstOfMonth(PlusMonths(t, n))
  <1>1. PICK year \in Nat, mon \in 0 .. 11 : IsYearDay(t, year, MonthStart(year, mon))
    BY DEF FirstOfMonth
  <1> DEFINE later == PlusMonths(t, n)
             y == CapYear(year + n \div 12)
             k == MonthsFrom(t, n)
  <1>2. MonthsOnto(t, year, MonthStart(year, mon), n, later, y, k, GmTime(t).mon, GmTime(t).mday)
    BY <1>1, MonthsOnDate
  <1>3. GmTime(t).mday = 1
    BY FirstOfMonthFields
  <1> HIDE DEF later, y, k
  <1>4. /\ later = Before(y) + MonthStart(y, k) + 1 - 1
        /\ y \in Nat /\ year <= y /\ y <= 2136 /\ Before(y) \in Nat
        /\ k \in 0 .. 22 /\ MonthStart(y, k) \in Nat /\ 2000 <= year
    BY <1>2, <1>3 DEF MonthsOnto
  <1>5. later = Before(y) + MonthStart(y, k)
    BY <1>4
  <1>6. y \in Nat /\ 2000 <= y /\ y <= 2136
    BY <1>4
  <1>7. \E m \in 0 .. 11 : MonthStart(y, k) = MonthStart(y, m)
    <2>1. CASE k \in 0 .. 11
      BY <2>1
    <2>2. CASE k \in 12 .. 22
      <3>1. \E m \in 7 .. 11 : MonthStart(y, k) = MonthStart(y, m)
        BY <1>6, <2>2, MonthFolds
      <3>2. \A m \in 7 .. 11 : m \in 0 .. 11
        OBVIOUS
      <3>3. QED
        BY <3>1, <3>2
    <2>3. QED
      BY <1>4, <2>1, <2>2
  <1>8. PICK m \in 0 .. 11 : MonthStart(y, k) = MonthStart(y, m)
    BY <1>7
  <1>9. IsYearDay(later, y, MonthStart(y, m))
    BY <1>5, <1>6, <1>8, MonthFirstDay
  <1>10. QED
    BY <1>6, <1>9 DEF FirstOfMonth, later

LEMMA AlignedOn ==
  ASSUME NEW t, NEW field \in Field, Aligned(t, field)
  PROVE  Aligned(PlusField(t, field), field)
  <1>1. t \in Int /\ PlusField(t, field) \in Int
    BY PlusFieldInt DEF Aligned
  <1>2. field.value \in Nat
    BY FieldAdds
  <1>3. CASE field.type = "years"
    <2>1. PlusField(t, field) = PlusYears(t, field.value)
      BY <1>3, FieldAdds
    <2>2. YearFirst(PlusYears(t, field.value))
      BY <1>2, <1>3, YearFirstOn DEF Aligned
    <2>3. QED
      BY <1>1, <1>3, <2>1, <2>2 DEF Aligned
  <1>4. CASE field.type = "months"
    <2>1. PlusField(t, field) = PlusMonths(t, field.value)
      BY <1>4, FieldAdds
    <2>2. FirstOfMonth(PlusMonths(t, field.value))
      BY <1>2, <1>4, FirstOfMonthOn DEF Aligned
    <2>3. QED
      BY <1>1, <1>4, <2>1, <2>2 DEF Aligned
  <1>5. CASE field.type = "weeks"
    <2>1. PlusField(t, field) = t + 7 * field.value
      BY <1>5, FieldAdds
    <2>2. \A n \in Nat : (t + 7 * n + 6) % 7 = (t + 6) % 7
      BY <1>1
    <2>3. Monday(t + 7 * field.value)
      BY <1>2, <1>5, <2>2 DEF Aligned, Monday
    <2>4. QED
      BY <1>1, <1>5, <2>1, <2>3 DEF Aligned
  <1>6. CASE field.type \notin {"years", "months", "weeks"}
    BY <1>1, <1>6 DEF Aligned
  <1>7. QED
    BY <1>3, <1>4, <1>5, <1>6

LEMMA DateIs ==
  ASSUME NEW year \in Nat, NEW mon \in 0 .. 11
  PROVE  Date(year, mon + 1, 1) = Before(year) + MonthStart(year, mon) + 1 - 1
  <1> DEFINE tm == [year |-> year, mon |-> (mon + 1) - 1, mday |-> 1]
  <1>1. Date(year, mon + 1, 1) = MkTime(tm)
    BY DEF Date
  <1>2. tm.year = year /\ tm.mon = mon /\ tm.mday = 1
    OBVIOUS
  <1> HIDE DEF tm
  <1>3. QED
    BY <1>1, <1>2, MkTimeOf

LEMMA OneField ==
  ASSUME NEW period \in Seq(Field), Len(period) = 1, NEW type
  PROVE  HasField(period, type) <=> period[1].type = type
  BY DEF HasField

\* The start that updateInitialStartOfCurrentPeriod() finds, of each type.
LEMMA StartOfYear ==
  ASSUME NEW day, NEW year, NEW yday, IsYearDay(day, year, yday)
  PROVE  LET begin == Date(GmTime(day).year, 1, 1)
         IN IsYearDay(begin, year, 0) /\ year \in Nat /\ begin \in Nat /\ begin <= day
  <1>1. /\ GmTime(day).year = year /\ Before(year) \in Nat /\ yday \in Nat
        /\ year \in Nat /\ 2000 <= year /\ year <= 2136 /\ day = Before(year) + yday
    BY DayFields
  <1>2. MonthStart(year, 0) = 0
    BY MonthStarts
  <1>3. Date(year, 1, 1) = Before(year)
    <2>1. Date(year, 0 + 1, 1) = Before(year) + MonthStart(year, 0) + 1 - 1
      BY <1>1, DateIs
    <2>2. QED
      BY <1>1, <1>2, <2>1
  <1>4. IsYearDay(Before(year), year, 0)
    <2>1. Leap(year) \in Nat
      BY DEF Leap
    <2>2. QED
      BY <1>1, <2>1 DEF IsYearDay
  <1>5. QED
    BY <1>1, <1>3, <1>4

LEMMA StartOfMonth ==
  ASSUME NEW day, NEW year, NEW yday, IsYearDay(day, year, yday)
  PROVE  LET mon == GmTime(day).mon
             begin == Date(GmTime(day).year, mon + 1, 1)
         IN /\ IsYearDay(begin, year, MonthStart(year, mon)) /\ year \in Nat /\ mon \in 0 .. 11
            /\ begin \in Nat /\ begin <= day
            /\ GmTime(begin).mon = mon
  <1> DEFINE mon == GmTime(day).mon
             mday == GmTime(day).mday
             begin == Date(year, mon + 1, 1)
  <1>1. /\ GmTime(day).year = year /\ Before(year) \in Nat /\ yday \in Nat
        /\ year \in Nat /\ 2000 <= year /\ year <= 2136 /\ day = Before(year) + yday
        /\ mon \in 0 .. 11 /\ mday \in 1 .. 31 /\ MonthStart(year, mon) + mday - 1 = yday
    BY DayFields
  <1> HIDE DEF mon, mday
  <1>2. year \in Nat
    BY <1>1
  <1>3. mon \in 0 .. 11
    BY <1>1
  <1>4. MonthStart(year, mon) \in Nat
    BY <1>2, <1>3, MonthFirst
  <1>5. begin = Before(year) + MonthStart(year, mon) + 1 - 1
    BY <1>2, <1>3, DateIs
  <1> HIDE DEF begin
  <1>6. begin = Before(year) + MonthStart(year, mon)
    BY <1>1, <1>4, <1>5
  <1>7. 2000 <= year /\ year <= 2136
    BY <1>1
  <1>8. IsYearDay(begin, year, MonthStart(year, mon))
    BY <1>2, <1>3, <1>6, <1>7, MonthFirstDay
  <1>9. begin \in Nat /\ begin <= day
    BY <1>1, <1>4, <1>6
  <1>10. GmTime(begin).mon = mon
    <2>1. GmTime(begin) = DateOf(year, MonthStart(year, mon))
      BY <1>8, DateOfDay
    <2>2. MonthDay(MonthStart(year, mon), Leap(year)) = [mon |-> mon, mday |-> 1]
      BY <1>2, <1>3, MonthFirst
    <2>3. QED
      BY <2>1, <2>2 DEF DateOf
  <1>11. QED
    BY <1>1, <1>2, <1>3, <1>8, <1>9, <1>10 DEF mon, begin

LEMMA StartOfWeek ==
  ASSUME NEW day \in Nat
  PROVE  LET begin == WeekStart(day)
         IN /\ begin \in Int /\ Monday(begin)
            /\ begin <= day \/ (begin = day + 1 /\ GmTime(begin).wday = 1)
            /\ day < begin + 7
  <1>1. \A d \in Int : GmTime(d).wday = (d + 6) % 7
    BY DEF GmTime
  <1> DEFINE w == (day + 6) % 7
  <1>2. WeekStart(day) = day - (w - 1)
    BY <1>1 DEF WeekStart
  <1>3. w \in 0 .. 6 /\ (day - (w - 1) + 6) % 7 = 1
    OBVIOUS
  <1> HIDE DEF w
  <1>4. QED
    BY <1>1, <1>2, <1>3 DEF Monday

LEMMA AlignedStart ==
  ASSUME NEW day \in Days, NEW period \in Seq(Field), Len(period) = 1
  PROVE  Aligned(PeriodStart(day, period), period[1])
  <1>1. \A type : HasField(period, type) <=> period[1].type = type
    BY OneField
  <1>2. day \in Nat
    BY DEF Days, LastDay
  <1>0. PICK year, yday : IsYearDay(day, year, yday)
    BY YearOfDay
  <1>3. CASE period[1].type = "years"
    <2>1. PeriodStart(day, period) = Date(GmTime(day).year, 1, 1)
      BY <1>1, <1>3 DEF PeriodStart
    <2>2. YearFirst(PeriodStart(day, period)) /\ PeriodStart(day, period) \in Nat
      BY <1>0, <2>1, StartOfYear DEF YearFirst
    <2>3. QED
      BY <1>3, <2>2 DEF Aligned
  <1>4. CASE period[1].type = "months"
    <2>1. PeriodStart(day, period) = Date(GmTime(day).year, GmTime(day).mon + 1, 1)
      BY <1>1, <1>4 DEF PeriodStart
    <2>2. FirstOfMonth(PeriodStart(day, period)) /\ PeriodStart(day, period) \in Nat
      <3> DEFINE mon == GmTime(day).mon
                 begin == PeriodStart(day, period)
      <3>1. /\ IsYearDay(begin, year, MonthStart(year, mon)) /\ year \in Nat /\ mon \in 0 .. 11
            /\ begin \in Nat
        BY <1>0, <2>1, StartOfMonth
      <3> HIDE DEF mon, begin
      <3>2. FirstOfMonth(begin)
        BY <3>1 DEF FirstOfMonth
      <3>3. QED
        BY <3>1, <3>2 DEF begin
    <2>3. QED
      BY <1>4, <2>2 DEF Aligned
  <1>5. CASE period[1].type = "weeks"
    <2>1. PeriodStart(day, period) = WeekStart(day)
      BY <1>1, <1>5 DEF PeriodStart
    <2>2. QED
      BY <1>2, <1>5, <2>1, StartOfWeek DEF Aligned
  <1>6. CASE period[1].type \notin {"years", "months", "weeks"}
    <2>1. PeriodStart(day, period) = day
      BY <1>1, <1>6 DEF PeriodStart
    <2>2. QED
      BY <1>2, <1>6, <2>1 DEF Aligned
  <1>7. QED
    BY <1>3, <1>4, <1>5, <1>6

\* The period keeps the calendar while a pass turns, too.
PeriodsAreShort == \A r \in Rules : r.period \in Seq(Field)

OnCalendar(t) ==
  (rule.first = Empty /\ Len(rule.period) = 1) => Aligned(t, rule.period[1])

AlignInv ==
  /\ DayInv
  /\ rule = NoRule \/ rule \in Rules
  /\ rule = NoRule => start = Empty /\ pass = "none"
  /\ start # Empty \/ pass # "none" => OnCalendar(start)
  /\ pass = "turning" => OnCalendar(end)

LEMMA OnCalendarOn ==
  ASSUME PeriodsAreShort, rule \in Rules, NEW t, OnCalendar(t)
  PROVE  OnCalendar(Plus(t, rule.period))
  <1> SUFFICES ASSUME rule.first = Empty, Len(rule.period) = 1
               PROVE  Aligned(Plus(t, rule.period), rule.period[1])
    BY DEF OnCalendar
  <1>1. rule.period \in Seq(Field)
    BY DEF PeriodsAreShort
  <1>2. Aligned(t, rule.period[1])
    BY DEF OnCalendar
  <1>3. t \in Int
    BY <1>2 DEF Aligned
  <1>4. rule.period[1] \in Field /\ Plus(t, rule.period) = PlusField(t, rule.period[1])
    BY <1>1, <1>3, PlusOne
  <1>5. QED
    BY <1>2, <1>4, AlignedOn

LEMMA AlignInductive ==
  ASSUME PeriodsAreShort, AlignInv, [Next]_vars
  PROVE  AlignInv'
  <1>1. DayInv'
    BY DayInductive DEF AlignInv
  <1>2. CASE Midnight
    BY <1>1, <1>2 DEF Midnight, AlignInv, OnCalendar
  <1>3. ASSUME NEW r \in Rules, Load(r)
        PROVE  AlignInv'
    <2>1. rule' = r /\ start' = Empty /\ pass' = "none"
      BY <1>3 DEF Load, AlignInv
    <2>2. QED
      BY <1>1, <2>1 DEF AlignInv
  <1>4. CASE FirstPass
    <2>1. rule \in Rules /\ rule' = rule /\ pass' = "done" /\ rule # NoRule /\ today \in Days
      BY <1>4 DEF FirstPass, AlignInv, DayInv
    <2>2. ASSUME rule.first = Empty, Len(rule.period) = 1
          PROVE  Aligned(start', rule.period[1])
      <3>1. start' = PeriodStart(today, rule.period)
        BY <1>4, <2>2 DEF FirstPass
      <3>2. rule.period \in Seq(Field)
        BY <2>1 DEF PeriodsAreShort
      <3>3. QED
        BY <2>1, <2>2, <3>1, <3>2, AlignedStart
    <2>3. QED
      BY <1>1, <2>1, <2>2 DEF AlignInv, OnCalendar
  <1>5. CASE StartPass
    <2>1. /\ rule \in Rules /\ rule' = rule /\ rule # NoRule /\ start' = start
          /\ start # Empty /\ end' = Plus(start, rule.period)
      BY <1>5 DEF StartPass, AlignInv
    <2>2. OnCalendar(start)
      BY <2>1 DEF AlignInv
    <2>3. OnCalendar(Plus(start, rule.period))
      BY <2>1, <2>2, OnCalendarOn
    <2>4. QED
      BY <1>1, <2>1, <2>2, <2>3 DEF AlignInv, OnCalendar
  <1>6. CASE Turn
    <2>1. /\ rule \in Rules /\ rule' = rule /\ rule # NoRule /\ start' = end
          /\ end' = Plus(end, rule.period)
      BY <1>6 DEF Turn, AlignInv
    <2>2. OnCalendar(end)
      BY <1>6 DEF Turn, AlignInv
    <2>3. OnCalendar(Plus(end, rule.period))
      BY <2>1, <2>2, OnCalendarOn
    <2>4. QED
      BY <1>1, <2>1, <2>2, <2>3 DEF AlignInv, OnCalendar
  <1>7. CASE UNCHANGED vars
    BY <1>1, <1>7 DEF vars, AlignInv, OnCalendar
  <1>8. QED
    BY <1>2, <1>3, <1>4, <1>5, <1>6, <1>7 DEF Next

\* Whatever the rules, as long as the sixteen bits of a field keep its value: a rule of one
\* field and no first period of its own starts its periods on the first of January, the
\* first of a month or a Monday, on whatever day it was loaded, however late the passes
\* come, past December and up to the last day of 32 bits.
THEOREM PeriodsStayAligned == PeriodsAreShort => (Spec => []PeriodsAligned)
  <1> SUFFICES ASSUME PeriodsAreShort
               PROVE  Spec => []PeriodsAligned
    OBVIOUS
  <1>1. Init => AlignInv
    BY RulesAssumption DEF Init, AlignInv, DayInv
  <1>2. AlignInv /\ [Next]_vars => AlignInv'
    BY AlignInductive
  <1>3. AlignInv => PeriodsAligned
    <2> SUFFICES ASSUME AlignInv, pass = "done", rule.first = Empty, Len(rule.period) = 1
                 PROVE  LET tm == GmTime(start)
                        IN CASE rule.period[1].type = "years"  -> tm.mon = 0 /\ tm.mday = 1
                             [] rule.period[1].type = "months" -> tm.mday = 1
                             [] rule.period[1].type = "weeks"  -> tm.wday = 1
                             [] OTHER -> TRUE
      BY DEF PeriodsAligned
    <2>1. Aligned(start, rule.period[1])
      BY DEF AlignInv, OnCalendar
    <2>2. GmTime(start).wday = (start + 6) % 7
      BY DEF GmTime
    <2>3. CASE rule.period[1].type = "years"
      BY <2>1, <2>3, YearFirstFields DEF Aligned
    <2>4. CASE rule.period[1].type = "months"
      BY <2>1, <2>4, FirstOfMonthFields DEF Aligned
    <2>5. CASE rule.period[1].type = "weeks"
      BY <2>1, <2>2, <2>5 DEF Aligned, Monday
    <2>6. QED
      BY <2>3, <2>4, <2>5
  <1>4. QED
    BY <1>1, <1>2, <1>3, PTL DEF Spec

-----------------------------------------------------------------------------
(* The period that holds the present.                                      *)

\* The fields from the longest to the shortest, as far as the calendar is concerned: the
\* year, then the months, then weeks and days in any order.
LongestFirst(period) ==
  \A j \in DOMAIN period : \A i \in 1 .. j - 1 :
    /\ period[j].type # "years"
    /\ period[j].type = "months" => period[i].type = "years"

InMonths(period) == period[1].type \in {"years", "months"}

\* A day that the fields of the period can be added to.
Dated(t, period) == t \in Int /\ (InMonths(period) => t \in Days)

PastDecemberOf(t, period) ==
  \E i \in DOMAIN period :
    /\ period[i].type = "months"
    /\ GmTime(t).mon + (period[i].value % 12) > 11

\* Weeks and days only add.
LEMMA OnlyAdds ==
  ASSUME NEW t, NEW period \in Seq(Field), NEW g, IsPlus(g, t, period),
         NEW k \in 0 .. Len(period),
         \A i \in k .. Len(period) - 1 : period[i + 1].type \in {"weeks", "days"}
  PROVE  g[Len(period)] \in Int /\ g[k] \in Int /\ g[Len(period)] >= g[k]
  <1> DEFINE n == Len(period)
             D == {x \in Int : x >= g[k]}
             w == [i \in 0 .. n - k |-> g[k + i]]
  <1>1. /\ n \in Nat /\ \A i \in 0 .. n : g[i] \in Int
        /\ \A i \in 0 .. n - 1 : g[i + 1] = PlusField(g[i], period[i + 1])
    <2>1. n \in Nat
      OBVIOUS
    <2>2. /\ g \in [0 .. n -> Int]
          /\ \A i \in 0 .. n - 1 : g[i + 1] = PlusField(g[i], period[i + 1])
      BY Zenon DEF IsPlus
    <2>3. QED
      BY <2>1, <2>2
  <1>2. \A i \in 0 .. n - 1 : period[i + 1] \in Field
    OBVIOUS
  <1>3. n - k \in Nat /\ \A i \in 0 .. n - k : k + i \in 0 .. n
    BY <1>1
  <1>4. w[0] \in D /\ 0 \in 0 .. n - k
    BY <1>1, <1>3
  <1>5. \A i \in 0 .. n - k - 1 : w[i] \in D => w[i + 1] \in D
    <2> TAKE i \in 0 .. n - k - 1
    <2>1. /\ i \in 0 .. n - k /\ i + 1 \in 0 .. n - k /\ k + i \in k .. n - 1
          /\ k + i \in 0 .. n - 1 /\ k + (i + 1) = (k + i) + 1
      BY <1>1
    <2>2. w[i] = g[k + i] /\ w[i + 1] = g[(k + i) + 1]
      BY <2>1
    <2> DEFINE j == k + i
               field == period[j + 1]
    <2>3. field \in Field /\ field.type \in {"weeks", "days"}
      BY <1>2, <2>1
    <2>4. g[j + 1] = PlusField(g[j], field) /\ g[j] \in Int /\ g[j + 1] \in Int
      BY <1>1, <2>1
    <2> HIDE DEF j, field, w
    <2>5. field.value \in Nat /\ field.value > 0
      BY <2>3, FieldAdds
    <2>6. g[j + 1] = g[j] + 7 * field.value \/ g[j + 1] = g[j] + field.value
      BY <2>3, <2>4, FieldAdds
    <2>7. g[j + 1] >= g[j]
      BY <2>4, <2>5, <2>6
    <2>8. g[k] \in Int
      BY <1>1
    <2>9. QED
      BY <2>2, <2>4, <2>7, <2>8 DEF j
  <1>6. w[n - k] = g[n]
    BY <1>1, <1>3
  <1> HIDE DEF w, D
  <1>7. \A i \in 0 .. n - k : w[i] \in D
    BY <1>3, <1>4, <1>5, WalkStays
  <1>8. w[n - k] \in D
    BY <1>3, <1>7
  <1>9. QED
    BY <1>1, <1>6, <1>8 DEF D

\* The first step.
LEMMA PlusFirst ==
  ASSUME NEW t \in Int, NEW period \in Seq(Field), period # << >>, NEW g, IsPlus(g, t, period)
  PROVE  /\ Len(period) \in Nat /\ Len(period) >= 1
         /\ period[1] \in Field
         /\ g[1] = PlusField(t, period[1])
         /\ g[Len(period)] = Plus(t, period)
  <1>1. Len(period) \in Nat /\ Len(period) >= 1
    OBVIOUS
  <1>2. 0 \in 0 .. Len(period) - 1 /\ 0 + 1 = 1
    BY <1>1
  <1>3. g[0 + 1] = PlusField(g[0], period[0 + 1])
    BY <1>2 DEF IsPlus
  <1>4. QED
    BY <1>1, <1>3 DEF IsPlus

\* What a period in weeks and days adds.
LEMMA WeeksOnly ==
  ASSUME NEW period \in Seq(Field), period # << >>, LongestFirst(period), ~InMonths(period)
  PROVE  /\ \A i \in 0 .. Len(period) - 1 : period[i + 1].type \in {"weeks", "days"}
         /\ ~HasField(period, "years") /\ ~HasField(period, "months")
  <1>1. Len(period) \in Nat /\ Len(period) >= 1 /\ DOMAIN period = 1 .. Len(period)
    OBVIOUS
  <1>2. \A j \in DOMAIN period : period[j].type \in {"weeks", "days"}
    <2> TAKE j \in DOMAIN period
    <2>1. period[j] \in Field
      OBVIOUS
    <2>2. period[j].type \in FieldTypes
      BY <2>1, FieldValue
    <2>3. j # 1 => 1 \in 1 .. j - 1
      BY <1>1
    <2>4. period[1].type \notin {"years", "months"}
      BY DEF InMonths
    <2>5. period[j].type # "years" /\ period[j].type # "months"
      BY <2>3, <2>4 DEF LongestFirst
    <2>6. QED
      BY <2>2, <2>5 DEF FieldTypes
  <1>3. \A i \in 0 .. Len(period) - 1 : i + 1 \in DOMAIN period
    BY <1>1
  <1>4. \A i \in 0 .. Len(period) - 1 : period[i + 1].type \in {"weeks", "days"}
    BY <1>2, <1>3
  <1>5. QED
    BY <1>2, <1>4 DEF HasField

LEMMA WeeksAdd ==
  ASSUME NEW t \in Int, NEW period \in Seq(Field), period # << >>, LongestFirst(period),
         ~InMonths(period)
  PROVE  /\ Plus(t, period) \in Int /\ Plus(t, period) > t
         /\ HasField(period, "weeks") => Plus(t, period) >= t + 7
  <1> DEFINE n == Len(period)
  <1>1. PICK g : IsPlus(g, t, period)
    BY PlusSteps
  <1>2. /\ n \in Nat /\ n >= 1 /\ g[n] = Plus(t, period) /\ g[0] = t
        /\ \A i \in 0 .. n : g[i] \in Int
        /\ \A i \in 0 .. n - 1 : g[i + 1] = PlusField(g[i], period[i + 1])
    BY <1>1, PlusFirst DEF IsPlus
  <1>3. \A i \in 0 .. n - 1 : period[i + 1] \in Field
    OBVIOUS
  <1>4. \A i \in 0 .. n - 1 : period[i + 1].type \in {"weeks", "days"}
    BY <1>2, WeeksOnly
  <1> HIDE DEF n
  <1>5. \A k \in 0 .. n : g[n] >= g[k]
    <2> TAKE k \in 0 .. n
    <2>1. \A i \in k .. n - 1 : period[i + 1].type \in {"weeks", "days"}
      BY <1>2, <1>4
    <2>2. QED
      BY <1>1, <2>1, OnlyAdds DEF n
  <1>6. ASSUME NEW i \in 0 .. n - 1
        PROVE  /\ i + 1 \in 0 .. n /\ i \in 0 .. n
               /\ g[i + 1] > g[i]
               /\ period[i + 1].type = "weeks" => g[i + 1] >= g[i] + 7
    <2>1. i + 1 \in 0 .. n /\ i \in 0 .. n
      BY <1>2
    <2> DEFINE field == period[i + 1]
    <2>2. /\ field \in Field /\ field.type \in {"weeks", "days"}
          /\ g[i + 1] = PlusField(g[i], field) /\ g[i] \in Int
      BY <1>2, <1>3, <1>4, <2>1
    <2> HIDE DEF field
    <2>3. /\ field.value \in Nat /\ field.value > 0
          /\ field.type = "weeks" => g[i + 1] = g[i] + 7 * field.value
          /\ field.type = "days" => g[i + 1] = g[i] + field.value
      BY <2>2, FieldAdds
    <2>4. QED
      BY <2>1, <2>2, <2>3 DEF field
  <1>7. g[n] > t
    <2>1. 0 \in 0 .. n - 1 /\ 0 + 1 = 1 /\ 1 \in 0 .. n
      BY <1>2
    <2>2. g[1] > g[0] /\ g[n] >= g[1] /\ g[1] \in Int /\ g[n] \in Int
      BY <1>2, <1>5, <1>6, <2>1
    <2>3. QED
      BY <1>2, <2>2
  <1>8. \A i \in 0 .. n : g[i] >= t
    <2>1. \A i \in 0 .. n - 1 : g[i] \in {x \in Int : x >= t} => g[i + 1] \in {x \in Int : x >= t}
      BY <1>2, <1>6
    <2>2. g[0] \in {x \in Int : x >= t}
      BY <1>2
    <2>3. \A i \in 0 .. n : g[i] \in {x \in Int : x >= t}
      BY <1>2, <2>1, <2>2, WalkStays
    <2>4. QED
      BY <2>3
  <1>9. HasField(period, "weeks") => g[n] >= t + 7
    <2> SUFFICES ASSUME HasField(period, "weeks")
                 PROVE  g[n] >= t + 7
      OBVIOUS
    <2>1. PICK j \in DOMAIN period : period[j].type = "weeks"
      BY DEF HasField
    <2>2. PICK i \in 0 .. n - 1 : j = i + 1
      <3>1. j - 1 \in 0 .. n - 1 /\ j = (j - 1) + 1
        BY <1>2 DEF n
      <3>2. QED
        BY <3>1
    <2>3. /\ g[n] \in Int /\ g[i + 1] \in Int /\ g[i] \in Int
          /\ g[n] >= g[i + 1] /\ g[i + 1] >= g[i] + 7 /\ g[i] >= t
      <3>1. i + 1 \in 0 .. n /\ i \in 0 .. n /\ n \in 0 .. n
        BY <1>2, <1>6
      <3>2. QED
        BY <1>2, <1>5, <1>6, <1>8, <2>1, <2>2, <3>1
    <2>4. QED
      BY <2>3
  <1>11. n \in 0 .. n
    BY <1>2
  <1>12. QED
    BY <1>2, <1>7, <1>9, <1>11

\* The places from which on there are only weeks and days.
LEMMA DatesFirst ==
  ASSUME NEW period \in Seq(Field), period # << >>, LongestFirst(period)
  PROVE  /\ \A i \in 2 .. Len(period) - 1 : period[i + 1].type \in {"weeks", "days"}
         /\ ~(period[1].type = "years" /\ Len(period) >= 2 /\ period[2].type = "months") =>
              \A i \in 1 .. Len(period) - 1 : period[i + 1].type \in {"weeks", "days"}
  <1> DEFINE n == Len(period)
  <1>1. n \in Nat /\ n >= 1 /\ DOMAIN period = 1 .. n
    OBVIOUS
  <1>2. \A j \in 1 .. n : period[j].type \in {"years", "months", "weeks", "days"}
    <2>1. \A j \in 1 .. n : period[j] \in Field
      OBVIOUS
    <2>2. QED
      BY <2>1, FieldAdds DEF FieldTypes
  <1>3. \A j \in 1 .. n, i \in 1 .. n :
          i < j => /\ period[j].type # "years"
                   /\ period[j].type = "months" => period[i].type = "years"
    <2>1. \A j \in 1 .. n : \A i \in 1 .. j - 1 :
            /\ period[j].type # "years"
            /\ period[j].type = "months" => period[i].type = "years"
      BY <1>1 DEF LongestFirst
    <2>2. QED
      BY <1>1, <2>1
  <1> HIDE DEF n
  <1>4. \A i \in 2 .. n - 1 : period[i + 1].type \in {"weeks", "days"}
    <2> TAKE i \in 2 .. n - 1
    <2>1. i + 1 \in 1 .. n /\ 2 \in 1 .. n /\ 1 \in 1 .. n /\ 2 < i + 1 /\ 1 < 2
      BY <1>1
    <2>2. period[i + 1].type # "years" /\ period[2].type # "years"
      BY <1>3, <2>1
    <2>3. period[i + 1].type # "months"
      BY <1>3, <2>1, <2>2
    <2>4. QED
      BY <1>2, <2>1, <2>2, <2>3
  <1>5. ASSUME ~(period[1].type = "years" /\ n >= 2 /\ period[2].type = "months")
        PROVE  \A i \in 1 .. n - 1 : period[i + 1].type \in {"weeks", "days"}
    <2> TAKE i \in 1 .. n - 1
    <2>1. CASE i = 1
      <3>1. 1 \in 1 .. n /\ 2 \in 1 .. n /\ 1 < 2 /\ n >= 2 /\ i + 1 = 2
        BY <1>1, <2>1
      <3>2. period[2].type # "years" /\ (period[2].type = "months" => period[1].type = "years")
        BY <1>3, <3>1
      <3>3. QED
        BY <1>2, <1>5, <3>1, <3>2
    <2>2. CASE i # 1
      <3>1. i \in 2 .. n - 1
        BY <1>1, <2>2
      <3>2. QED
        BY <1>4, <3>1
    <2>3. QED
      BY <2>1, <2>2
  <1>6. QED
    BY <1>4, <1>5 DEF n

\* The fields after the first take nothing back, unless the months run past December.
LEMMA FirstThenMore ==
  ASSUME NEW t \in Days, NEW period \in Seq(Field), period # << >>, LongestFirst(period),
         InMonths(period)
  PROVE  /\ Plus(t, period) \in Nat /\ PlusField(t, period[1]) \in Nat
         /\ ~PastDecemberOf(t, period) => Plus(t, period) >= PlusField(t, period[1])
  <1> DEFINE n == Len(period)
             u == PlusField(t, period[1])
  <1>0. t \in Int
    BY DEF Days, LastDay
  <1>1. PICK g : IsPlus(g, t, period)
    BY <1>0, PlusSteps
  <1>2. n \in Nat /\ n >= 1 /\ period[1] \in Field /\ g[1] = u /\ g[n] = Plus(t, period)
    BY <1>0, <1>1, PlusFirst
  <1>3. PICK year, yday : IsYearDay(t, year, yday)
    BY YearOfDay
  <1>4. period[1].value \in Nat
    BY <1>2, FieldAdds
  <1>5. n = Len(period)
    OBVIOUS
  <1>6. \A i \in 2 .. n - 1 : period[i + 1].type \in {"weeks", "days"}
    BY DatesFirst
  <1>7. ~(period[1].type = "years" /\ n >= 2 /\ period[2].type = "months") =>
              \A i \in 1 .. n - 1 : period[i + 1].type \in {"weeks", "days"}
    BY DatesFirst
  <1> HIDE DEF n
  <1>8. ASSUME NEW k \in {1, 2}, k <= n,
               \A i \in k .. n - 1 : period[i + 1].type \in {"weeks", "days"}
        PROVE  g[n] \in Int /\ g[k] \in Int /\ g[n] >= g[k]
    <2>1. k \in 0 .. Len(period)
      BY <1>2, <1>5, <1>8
    <2>2. QED
      BY <1>1, <1>5, <1>8, <2>1, OnlyAdds
  <1>9. CASE period[1].type = "years"
    <2>1. u = PlusYears(t, period[1].value)
      BY <1>2, <1>9, FieldAdds
    <2>2. PICK d : /\ IsYearDay(u, CapYear(year + period[1].value), d)
                   /\ \/ GmTime(u).mon = GmTime(t).mon
                      \/ GmTime(u).mon = 2 /\ GmTime(t).mon = 1
      <3> DEFINE v == period[1].value
      <3>1. v \in Nat
        BY <1>4
      <3> HIDE DEF v
      <3>2. \E d : /\ IsYearDay(PlusYears(t, v), CapYear(year + v), d)
                    /\ \/ GmTime(PlusYears(t, v)).mon = GmTime(t).mon
                       \/ GmTime(PlusYears(t, v)).mon = 2 /\ GmTime(t).mon = 1
        BY <1>3, <3>1, YearsOn
      <3>3. u = PlusYears(t, v)
        BY <2>1 DEF v
      <3> HIDE DEF u
      <3>4. QED
        BY <3>2, <3>3 DEF v
    <2>3. u \in Nat
      <3>1. /\ Before(CapYear(year + period[1].value)) \in Nat /\ d \in Nat
            /\ u = Before(CapYear(year + period[1].value)) + d
        BY <2>2, DayFields
      <3>2. QED
        BY <3>1
    <2> HIDE DEF u
    <2>4. CASE n >= 2 /\ period[2].type = "months"
      <3> DEFINE m == period[2].value
                 k == MonthsFrom(u, m)
      <3>1. period[2] \in Field /\ 2 \in DOMAIN period
        BY <1>2, <1>5, <2>4
      <3>2. m \in Nat /\ PlusField(u, period[2]) = PlusMonths(u, m)
        BY <2>4, <3>1, FieldAdds
      <3>3. g[2] = PlusMonths(u, m)
        <4>1. 1 \in 0 .. Len(period) - 1 /\ 1 + 1 = 2
          BY <1>2, <1>5, <2>4
        <4>2. g[1 + 1] = PlusField(g[1], period[1 + 1])
          BY <1>1, <4>1 DEF IsPlus
        <4>3. QED
          BY <1>2, <3>2, <4>1, <4>2
      <3>4. /\ PlusMonths(u, m) \in Nat
            /\ k <= 11 \/ (k = 12 /\ GmTime(u).mon = 2) => PlusMonths(u, m) >= u
        BY <2>2, <3>2, MonthsOn
      <3>5. g[n] \in Int /\ g[n] >= g[2]
        BY <1>2, <1>6, <1>8, <2>4
      <3>6. ~PastDecemberOf(t, period) => k <= 11 \/ (k = 12 /\ GmTime(u).mon = 2)
        <4> SUFFICES ASSUME ~PastDecemberOf(t, period)
                     PROVE  k <= 11 \/ (k = 12 /\ GmTime(u).mon = 2)
          OBVIOUS
        <4>1. ~(GmTime(t).mon + (m % 12) > 11)
          BY <2>4, <3>1 DEF PastDecemberOf
        <4>2. GmTime(t).mon \in 0 .. 11
          BY <1>3, DayFields
        <4>3. m % 12 \in 0 .. 11
          BY <3>2
        <4>4. k = GmTime(u).mon + (m % 12)
          BY DEF MonthsFrom
        <4> HIDE DEF m, k
        <4>5. CASE GmTime(u).mon = GmTime(t).mon
          BY <4>1, <4>2, <4>3, <4>4, <4>5
        <4>6. CASE GmTime(u).mon = 2 /\ GmTime(t).mon = 1
          BY <4>1, <4>2, <4>3, <4>4, <4>6
        <4>7. QED
          BY <2>2, <4>5, <4>6
      <3> HIDE DEF m, k
      <3>7. g[n] \in Nat
        BY <3>3, <3>4, <3>5
      <3>8. ~PastDecemberOf(t, period) => g[n] >= u
        BY <2>3, <3>3, <3>4, <3>5, <3>6
      <3>9. QED
        BY <1>2, <2>3, <3>7, <3>8 DEF u
    <2>5. CASE ~(n >= 2 /\ period[2].type = "months")
      <3>1. g[n] \in Int /\ g[n] >= g[1]
        BY <1>2, <1>7, <1>8, <2>5
      <3>2. QED
        BY <1>2, <2>3, <3>1 DEF u
    <2>6. QED
      BY <2>4, <2>5
  <1>10. CASE period[1].type = "months"
    <2>1. u = PlusMonths(t, period[1].value)
      BY <1>2, <1>10, FieldAdds
    <2>2. u \in Nat
      BY <1>3, <1>4, <2>1, MonthsOn
    <2> HIDE DEF u
    <2>3. g[n] \in Int /\ g[n] >= g[1]
      BY <1>2, <1>7, <1>8, <1>10
    <2>4. QED
      BY <1>2, <2>2, <2>3 DEF u
  <1>11. QED
    BY <1>9, <1>10 DEF InMonths

\* Before the year at which the count of years stops.
LEMMA CapAhead ==
  ASSUME NEW day, NEW year, NEW yday, IsYearDay(day, year, yday), day < Date(2136, 1, 1)
  PROVE  year < 2136
  <1>1. /\ Before(year) \in Nat /\ yday \in Nat /\ year \in Nat /\ 2000 <= year /\ year <= 2136
        /\ day = Before(year) + yday
    BY DayFields
  <1>2. Date(2136, 1, 1) = 49673
    <2>1. Date(2136, 0 + 1, 1) = Before(2136) + MonthStart(2136, 0) + 1 - 1
      BY DateIs
    <2>2. MonthStart(2136, 0) = 0 /\ Before(2136) = 49673
      BY MonthStarts, YearEnds
    <2>3. QED
      BY <2>1, <2>2
  <1>3. year # 2136
    <2>1. year = 2136 => Before(year) = 49673
      BY YearEnds
    <2>2. QED
      BY <1>1, <1>2, <2>1
  <1>4. QED
    BY <1>1, <1>3

LEMMA YearsReach ==
  ASSUME NEW t, NEW year, NEW yday, IsYearDay(t, year, yday), year < 2136,
         NEW n \in Nat, n > 0
  PROVE  /\ PlusYears(t, n) > t
         /\ yday = 0 => \A d \in Nat : d <= 364 + Leap(year) => Before(year) + d < PlusYears(t, n)
  <1> DEFINE y == CapYear(year + n)
             later == PlusYears(t, n)
  <1>1. /\ Before(year) \in Nat /\ yday \in Nat /\ year \in Nat /\ 2000 <= year /\ year <= 2136
        /\ t = Before(year) + yday
    BY DayFields
  <1>2. PICK d : IsYearDay(later, y, d) /\ d + 1 >= yday
    BY YearsOn
  <1>3. y \in Nat /\ year < y /\ y <= 2136
    BY <1>1, YearCapped
  <1>4. Before(y) \in Nat /\ d \in Nat /\ later = Before(y) + d
    BY <1>2, DayFields
  <1>5. Leap(year) \in Nat
    BY DEF Leap
  <1> HIDE DEF y, later
  <1>6. Before(y) >= Before(year) + 365 + Leap(year)
    <2>1. year \in Nat /\ 2000 <= year
      BY <1>1
    <2>2. QED
      BY <2>1, <1>3, YearsGrow
  <1>7. later > t
    BY <1>1, <1>2, <1>4, <1>5, <1>6
  <1>8. ASSUME NEW e \in Nat, e <= 364 + Leap(year)
        PROVE  Before(year) + e < later
    BY <1>1, <1>4, <1>5, <1>6, <1>8
  <1>9. QED
    BY <1>7, <1>8 DEF later

LEMMA MonthsReach ==
  ASSUME NEW t, NEW year, NEW mon, IsYearDay(t, year, MonthStart(year, mon)), GmTime(t).mon = mon,
         year < 2136, NEW n \in Nat, n > 0, MonthsFrom(t, n) <= 11
  PROVE  \A d \in Nat : d <= 364 + Leap(year) /\ MonthDay(d, Leap(year)).mon = GmTime(t).mon
                           => Before(year) + d < PlusMonths(t, n)
  <1> DEFINE yday == MonthStart(year, mon)
  <1>1. IsYearDay(t, year, yday)
    OBVIOUS
  <1>2. yday = MonthStart(year, GmTime(t).mon)
    OBVIOUS
  <1> HIDE DEF yday
  <1>3. QED
    BY <1>1, <1>2, MonthsOn

LEMMA FieldReaches ==
  ASSUME NEW t \in Days, t < Date(2136, 1, 1), NEW period \in Seq(Field), period # << >>,
         InMonths(period), ~PastDecemberOf(t, period)
  PROVE  PlusField(t, period[1]) > t
  <1>1. PICK year, yday : IsYearDay(t, year, yday)
    BY YearOfDay
  <1>2. year < 2136
    BY <1>1, CapAhead
  <1> DEFINE n == period[1].value
  <1>3. period[1] \in Field /\ 1 \in DOMAIN period
    OBVIOUS
  <1>4. n \in Nat /\ n > 0
    BY <1>3, FieldValue
  <1>5. CASE period[1].type = "years"
    <2>1. PlusField(t, period[1]) = PlusYears(t, n)
      BY <1>3, <1>5, FieldAdds
    <2> HIDE DEF n
    <2>2. PlusYears(t, n) > t
      BY <1>1, <1>2, <1>4, YearsReach
    <2>3. QED
      BY <2>1, <2>2
  <1>6. CASE period[1].type = "months"
    <2>1. PlusField(t, period[1]) = PlusMonths(t, n)
      BY <1>3, <1>6, FieldAdds
    <2>2. ~(GmTime(t).mon + (n % 12) > 11)
      BY <1>3, <1>6 DEF PastDecemberOf
    <2> HIDE DEF n
    <2>3. GmTime(t).mon \in 0 .. 11 /\ n % 12 \in 0 .. 11
      BY <1>1, <1>4, DayFields
    <2>4. MonthsFrom(t, n) <= 11
      BY <2>2, <2>3 DEF MonthsFrom
    <2>5. PlusMonths(t, n) > t
      BY <1>1, <1>2, <1>4, <2>4, MonthsOn
    <2>6. QED
      BY <2>1, <2>5
  <1>7. QED
    BY <1>5, <1>6 DEF InMonths

\* A period brings any day forward, unless its months run past December.
LEMMA PlusAhead ==
  ASSUME NEW period \in Seq(Field), period # << >>, LongestFirst(period),
         NEW t, Dated(t, period)
  PROVE  /\ Plus(t, period) \in Int
         /\ InMonths(period) => Plus(t, period) \in Nat
         /\ (InMonths(period) => t < Date(2136, 1, 1)) /\ ~PastDecemberOf(t, period) =>
              Plus(t, period) > t
  <1>1. CASE InMonths(period)
    <2>1. t \in Days /\ t \in Int
      BY <1>1 DEF Dated
    <2>2. /\ Plus(t, period) \in Nat /\ PlusField(t, period[1]) \in Nat
          /\ ~PastDecemberOf(t, period) => Plus(t, period) >= PlusField(t, period[1])
      BY <1>1, <2>1, FirstThenMore
    <2>3. t < Date(2136, 1, 1) /\ ~PastDecemberOf(t, period) => PlusField(t, period[1]) > t
      BY <1>1, <2>1, FieldReaches
    <2>4. QED
      BY <1>1, <2>1, <2>2, <2>3
  <1>2. CASE ~InMonths(period)
    <2>1. t \in Int
      BY DEF Dated
    <2>2. Plus(t, period) \in Int /\ Plus(t, period) > t
      BY <1>2, <2>1, WeeksAdd
    <2>3. QED
      BY <1>2, <2>2
  <1>3. QED
    BY <1>1, <1>2

\* The period that updateInitialStartOfCurrentPeriod() finds holds the day, or is the week
\* that a Sunday is said to come before.
LEMMA StartHolds ==
  ASSUME NEW day \in Days, day < Date(2136, 1, 1), NEW period \in Seq(Field), period # << >>,
         LongestFirst(period)
  PROVE  LET begin == PeriodStart(day, period)
         IN /\ Dated(begin, period) /\ begin # Empty
            /\ begin <= day \/ (HasField(period, "weeks") /\ GmTime(begin).wday = 1 /\ begin = day + 1)
            /\ ~PastDecemberOf(begin, period) => day < Plus(begin, period)
  <1> DEFINE begin == PeriodStart(day, period)
             n == period[1].value
  <1>1. LastDay \in Nat /\ day \in Nat /\ day <= LastDay /\ Empty = LastDay + 1
        /\ \A t \in Nat : t <= day => t \in Days /\ t \in Int /\ t # Empty
    <2>1. LastDay \in Nat
      BY DEF LastDay
    <2>2. QED
      BY <2>1 DEF Days, Empty
  <1>2. PICK year, yday : IsYearDay(day, year, yday)
    BY YearOfDay
  <1>3. year < 2136 /\ year \in Nat /\ yday \in Nat /\ yday <= 364 + Leap(year)
        /\ day = Before(year) + yday
    BY <1>2, CapAhead DEF IsYearDay
  <1>4. period[1] \in Field /\ 1 \in DOMAIN period
    OBVIOUS
  <1>5. n \in Nat /\ n > 0
    BY <1>4, FieldValue
  <1>6. CASE period[1].type = "years"
    <2>1. HasField(period, "years") /\ InMonths(period)
      BY <1>4, <1>6 DEF HasField, InMonths
    <2>2. begin = Date(GmTime(day).year, 1, 1)
      BY <2>1 DEF PeriodStart
    <2> HIDE DEF begin
    <2>3. IsYearDay(begin, year, 0) /\ begin \in Nat /\ begin <= day
      BY <1>2, <2>2, StartOfYear
    <2>4. begin \in Days /\ begin \in Int /\ begin # Empty
      BY <1>1, <2>3
    <2>5. PlusField(begin, period[1]) = PlusYears(begin, n)
      BY <1>4, <1>6, FieldAdds
    <2> HIDE DEF n
    <2>6. \A d \in Nat : d <= 364 + Leap(year) => Before(year) + d < PlusYears(begin, n)
      BY <1>3, <1>5, <2>3, YearsReach
    <2>7. day < PlusField(begin, period[1])
      BY <1>3, <2>5, <2>6
    <2>8. /\ Plus(begin, period) \in Nat /\ PlusField(begin, period[1]) \in Nat
          /\ ~PastDecemberOf(begin, period) => Plus(begin, period) >= PlusField(begin, period[1])
      BY <2>1, <2>4, FirstThenMore
    <2>9. ~PastDecemberOf(begin, period) => day < Plus(begin, period)
      BY <1>1, <2>7, <2>8
    <2>10. QED
      BY <2>1, <2>3, <2>4, <2>9 DEF Dated, begin
  <1>7. CASE period[1].type = "months"
    <2>1. HasField(period, "months") /\ InMonths(period)
      BY <1>4, <1>7 DEF HasField, InMonths
    <2>2. ~HasField(period, "years")
      <3>1. \A j \in DOMAIN period : j # 1 => 1 \in 1 .. j - 1
        OBVIOUS
      <3>2. \A j \in DOMAIN period : j # 1 => period[j].type # "years"
        BY <3>1 DEF LongestFirst
      <3>3. QED
        BY <1>7, <3>2 DEF HasField
    <2> DEFINE mon == GmTime(day).mon
    <2>3. begin = Date(GmTime(day).year, mon + 1, 1)
      BY <2>1, <2>2 DEF PeriodStart
    <2> HIDE DEF begin
    <2>4. /\ IsYearDay(begin, year, MonthStart(year, mon)) /\ mon \in 0 .. 11
          /\ begin \in Nat /\ begin <= day /\ GmTime(begin).mon = mon
      BY <1>2, <2>3, StartOfMonth
    <2>5. begin \in Days /\ begin \in Int /\ begin # Empty
      BY <1>1, <2>4
    <2>6. PlusField(begin, period[1]) = PlusMonths(begin, n)
      BY <1>4, <1>7, FieldAdds
    <2>7. mon = MonthDay(yday, Leap(year)).mon
      <3>1. GmTime(day) = DateOf(year, yday)
        BY <1>2, DateOfDay
      <3>2. QED
        BY <3>1 DEF DateOf
    <2>8. ~PastDecemberOf(begin, period) => ~(mon + (n % 12) > 11)
      BY <1>4, <1>7, <2>4 DEF PastDecemberOf
    <2>9. n % 12 \in 0 .. 11
      BY <1>5
    <2> HIDE DEF n, mon
    <2>10. MonthsFrom(begin, n) = mon + (n % 12)
      BY <2>4 DEF MonthsFrom
    <2>11. /\ Plus(begin, period) \in Nat /\ PlusField(begin, period[1]) \in Nat
           /\ ~PastDecemberOf(begin, period) => Plus(begin, period) >= PlusField(begin, period[1])
      BY <2>1, <2>5, FirstThenMore
    <2>12. ASSUME ~PastDecemberOf(begin, period)
           PROVE  day < Plus(begin, period)
      <3>1. MonthsFrom(begin, n) <= 11
        BY <2>4, <2>8, <2>9, <2>10, <2>12
      <3>2. MonthStart(year, mon) = MonthStart(year, GmTime(begin).mon)
        BY <2>4
      <3>3. \A d \in Nat : d <= 364 + Leap(year) /\ MonthDay(d, Leap(year)).mon = GmTime(begin).mon
                             => Before(year) + d < PlusMonths(begin, n)
        <4>1. n \in Nat /\ n > 0
          BY <1>5
        <4>2. GmTime(begin).mon = mon
          BY <2>4
        <4>3. IsYearDay(begin, year, MonthStart(year, mon))
          BY <2>4
        <4>4. year < 2136
          BY <1>3
        <4>5. QED
          BY <3>1, <4>1, <4>2, <4>3, <4>4, MonthsReach
      <3>4. day < PlusMonths(begin, n)
        BY <1>3, <2>4, <2>7, <3>3
      <3>5. QED
        BY <1>1, <2>6, <2>11, <2>12, <3>4
    <2>13. QED
      BY <2>1, <2>4, <2>5, <2>12 DEF Dated, begin
  <1>8. CASE ~InMonths(period)
    <2>1. ~HasField(period, "years") /\ ~HasField(period, "months")
      BY <1>8, WeeksOnly
    <2>2. CASE HasField(period, "weeks")
      <3>1. begin = WeekStart(day)
        BY <2>1, <2>2 DEF PeriodStart
      <3> HIDE DEF begin
      <3>2. /\ begin \in Int /\ day < begin + 7
            /\ begin <= day \/ (begin = day + 1 /\ GmTime(begin).wday = 1)
        <4>1. day \in Nat
          BY <1>1
        <4>2. LET monday == WeekStart(day)
              IN /\ monday \in Int
                 /\ monday <= day \/ (monday = day + 1 /\ GmTime(monday).wday = 1)
                 /\ day < monday + 7
          BY <4>1, StartOfWeek
        <4>3. QED
          BY <3>1, <4>2
      <3>3. Plus(begin, period) \in Int /\ Plus(begin, period) >= begin + 7
        BY <1>8, <2>2, <3>2, WeeksAdd
      <3>4. day < Plus(begin, period)
        BY <1>1, <3>2, <3>3
      <3>5. begin # Empty
        <4>1. Date(2136, 1, 1) \in Nat /\ Date(2136, 1, 1) <= LastDay
          <5>1. Date(2136, 0 + 1, 1) = Before(2136) + MonthStart(2136, 0) + 1 - 1
            BY DateIs
          <5>2. MonthStart(2136, 0) = 0 /\ Before(2136) = 49673
            BY MonthStarts, YearEnds
          <5>3. Date(2136, 1, 1) = 49673
            BY <5>1, <5>2
          <5>4. QED
            BY <5>3 DEF LastDay
        <4>2. QED
          BY <1>1, <3>2, <4>1
      <3>6. QED
        BY <1>8, <2>2, <3>2, <3>4, <3>5 DEF Dated, begin
    <2>3. CASE ~HasField(period, "weeks")
      <3>1. begin = day
        BY <2>1, <2>3 DEF PeriodStart
      <3> HIDE DEF begin
      <3>2. Plus(begin, period) > begin
        BY <1>1, <1>8, <3>1, WeeksAdd
      <3>3. begin \in Int /\ begin <= day /\ begin # Empty
        BY <1>1, <3>1
      <3>4. QED
        BY <1>8, <3>1, <3>2, <3>3 DEF Dated, begin
    <2>4. QED
      BY <2>2, <2>3
  <1>9. QED
    BY <1>6, <1>7, <1>8 DEF InMonths

\* What holds between and during the passes: a period that lies ahead is the first one or
\* next week's, and a loop turns only when the first period has begun and the end is past.
PeriodsAreOrdered == \A r \in Rules : r.period \in Seq(Field) /\ LongestFirst(r.period)
YearsAreCounted   == \A day \in LoadDays : day + Span < Date(2136, 1, 1)

Standing ==
  /\ Dated(start, rule.period)
  /\ rule.first # Empty /\ today < rule.first => start = rule.first
  /\ start > today => (rule.first # Empty /\ start = rule.first) \/ LoadedOnSunday

Turning ==
  /\ end \in Int /\ end <= today
  /\ InMonths(rule.period) => end \in Nat
  /\ rule.first # Empty => rule.first <= today

HoldInv ==
  /\ DayInv
  /\ rule = NoRule \/ rule \in Rules
  /\ rule = NoRule => start = Empty /\ pass = "none"
  /\ rule # NoRule => loaded \in LoadDays /\ today <= loaded + Span
  /\ start # Empty => Standing
  /\ pass \in {"none", "turning", "done"}
  /\ pass # "none" => start # Empty
  /\ pass = "turning" => Turning
  /\ PeriodHoldsToday

LEMMA LoadDay ==
  ASSUME NEW day \in LoadDays
  PROVE  day \in Nat /\ Span \in Nat
  <1>1. day \in Days /\ Span \in Nat
    BY RulesAssumption
  <1>2. LastDay \in Nat
    BY DEF LastDay
  <1>3. QED
    BY <1>1, <1>2 DEF Days

LEMMA PastDecemberIs ==
  ASSUME NEW t
  PROVE  PastDecember(t) <=> PastDecemberOf(t, rule.period)
  BY DEF PastDecember, PastDecemberOf

\* What the invariant says of a rule that is watched.
LEMMA Watched ==
  ASSUME PeriodsAreOrdered, YearsAreCounted, HoldInv, rule # NoRule
  PROVE  /\ rule \in Rules
         /\ rule.period \in Seq(Field) /\ rule.period # << >> /\ LongestFirst(rule.period)
         /\ today \in Int /\ today \in Nat /\ today <= LastDay /\ LastDay \in Nat
         /\ Date(2136, 1, 1) \in Int /\ today < Date(2136, 1, 1)
         /\ rule.first # Empty => rule.first \in Days /\ rule.first \in Int
  <1>1. rule \in Rules
    BY DEF HoldInv
  <1>2. today \in Nat /\ today <= LastDay /\ LastDay \in Nat
    BY TodayIn DEF HoldInv, LastDay
  <1>3. Date(2136, 1, 1) \in Int
    <2>1. Date(2136, 0 + 1, 1) = Before(2136) + MonthStart(2136, 0) + 1 - 1
      BY DateIs
    <2>2. MonthStart(2136, 0) = 0 /\ Before(2136) = 49673
      BY MonthStarts, YearEnds
    <2>3. QED
      BY <2>1, <2>2
  <1>4. today < Date(2136, 1, 1)
    <2>1. loaded \in LoadDays /\ today <= loaded + Span
      BY DEF HoldInv
    <2>2. loaded + Span < Date(2136, 1, 1)
      BY <2>1 DEF YearsAreCounted
    <2>3. loaded \in Nat /\ Span \in Nat
      BY <2>1, LoadDay
    <2>4. QED
      BY <1>2, <1>3, <2>1, <2>2, <2>3
  <1>5. rule.first # Empty => rule.first \in Days /\ rule.first \in Int
    <2>1. rule.first \in 0 .. Empty
      BY <1>1, RulesAssumption
    <2>2. QED
      BY <1>2, <2>1 DEF Empty, Days
  <1>6. rule.period # << >>
    BY <1>1, RulesAssumption
  <1>7. rule.period \in Seq(Field) /\ LongestFirst(rule.period)
    BY <1>1 DEF PeriodsAreOrdered
  <1>8. QED
    BY <1>1, <1>2, <1>3, <1>4, <1>5, <1>6, <1>7

\* What the next end is, from a day the fields can be added to.
LEMMA NextEnd ==
  ASSUME PeriodsAreOrdered, YearsAreCounted, HoldInv, rule # NoRule, NEW t, Dated(t, rule.period)
  PROVE  /\ Plus(t, rule.period) \in Int
         /\ InMonths(rule.period) => Plus(t, rule.period) \in Nat
         /\ t <= today /\ ~PastDecember(t) => Plus(t, rule.period) > t
  <1>1. /\ rule.period \in Seq(Field) /\ rule.period # << >> /\ LongestFirst(rule.period)
        /\ today \in Int /\ Date(2136, 1, 1) \in Int /\ today < Date(2136, 1, 1)
    BY Watched
  <1>2. /\ Plus(t, rule.period) \in Int
        /\ InMonths(rule.period) => Plus(t, rule.period) \in Nat
        /\ (InMonths(rule.period) => t < Date(2136, 1, 1)) /\ ~PastDecemberOf(t, rule.period) =>
              Plus(t, rule.period) > t
    BY <1>1, PlusAhead
  <1>3. t \in Int
    BY DEF Dated
  <1>4. t <= today => t < Date(2136, 1, 1)
    BY <1>1, <1>3
  <1>5. QED
    BY <1>2, <1>4, PastDecemberIs

LEMMA HoldMidnight ==
  ASSUME PeriodsAreOrdered, YearsAreCounted, HoldInv, Midnight
  PROVE  HoldInv'
  <1>1. DayInv'
    BY DayInductive DEF HoldInv, Next
  <1>2. /\ today' = today + 1 /\ pass' = "none" /\ rule' = rule /\ loaded' = loaded
        /\ start' = start /\ end' = end /\ (rule # NoRule => today < loaded + Span)
    BY DEF Midnight
  <1>3. rule # NoRule => loaded \in LoadDays /\ today' <= loaded + Span
    <2> SUFFICES ASSUME rule # NoRule
                 PROVE  loaded \in LoadDays /\ today' <= loaded + Span
      OBVIOUS
    <2>1. loaded \in LoadDays
      BY DEF HoldInv
    <2>2. loaded \in Nat /\ Span \in Nat /\ today \in Nat
      BY <2>1, LoadDay, Watched
    <2>3. QED
      BY <1>2, <2>1, <2>2
  <1>4. start # Empty => Standing'
    <2> SUFFICES ASSUME start # Empty
                 PROVE  Standing'
      OBVIOUS
    <2>1. rule # NoRule /\ Standing
      BY DEF HoldInv
    <2>2. today \in Int /\ (rule.first # Empty => rule.first \in Int) /\ start \in Int
      BY <2>1, Watched DEF Standing, Dated
    <2>3. rule.first # Empty /\ today + 1 < rule.first => start = rule.first
      BY <2>1, <2>2 DEF Standing
    <2>4. start > today + 1 => rule.first # Empty /\ start = rule.first
      BY <2>1, <2>2 DEF Standing, LoadedOnSunday
    <2>5. QED
      BY <1>2, <2>1, <2>3, <2>4 DEF Standing
  <1>5. QED
    BY <1>1, <1>2, <1>3, <1>4 DEF HoldInv, PeriodHoldsToday

LEMMA HoldLoad ==
  ASSUME PeriodsAreOrdered, YearsAreCounted, HoldInv, NEW r \in Rules, Load(r)
  PROVE  HoldInv'
  <1>1. DayInv'
    BY DayInductive DEF HoldInv, Next
  <1>2. /\ rule' = r /\ loaded' = today /\ today \in LoadDays /\ today' = today
        /\ start' = Empty /\ pass' = "none"
    BY DEF Load, HoldInv
  <1>3. r # NoRule
    BY RulesAssumption DEF NoRule
  <1>4. today <= today + Span
    <2>1. today \in Nat /\ Span \in Nat
      BY TodayIn, RulesAssumption DEF HoldInv
    <2>2. QED
      BY <2>1
  <1>5. QED
    BY <1>1, <1>2, <1>3, <1>4 DEF HoldInv, PeriodHoldsToday

LEMMA HoldFirstPass ==
  ASSUME PeriodsAreOrdered, YearsAreCounted, HoldInv, FirstPass
  PROVE  HoldInv'
  <1>1. DayInv'
    BY DayInductive DEF HoldInv, Next
  <1>2. /\ rule # NoRule /\ today' = today /\ rule' = rule /\ loaded' = loaded /\ pass' = "done"
        /\ start' = IF rule.first # Empty THEN rule.first ELSE PeriodStart(today, rule.period)
    BY DEF FirstPass
  <1>3. /\ rule.period \in Seq(Field) /\ rule.period # << >> /\ LongestFirst(rule.period)
        /\ today \in Int /\ today < Date(2136, 1, 1) /\ today \in Days
        /\ rule.first # Empty => rule.first \in Days /\ rule.first \in Int
    BY <1>2, Watched DEF HoldInv, DayInv
  <1>4. start' # Empty /\ Standing' /\ PeriodHoldsToday'
    <2>1. CASE rule.first # Empty
      <3>1. start' = rule.first /\ start' # Empty
        BY <1>2, <2>1
      <3>2. Dated(rule.first, rule.period)
        BY <1>3, <2>1 DEF Dated
      <3>3. QED
        BY <1>2, <2>1, <3>1, <3>2 DEF Standing, PeriodHoldsToday
    <2>2. CASE rule.first = Empty
      <3> DEFINE begin == PeriodStart(today, rule.period)
      <3>1. /\ Dated(begin, rule.period) /\ begin # Empty
            /\ begin <= today \/ ( /\ HasField(rule.period, "weeks")
                                   /\ GmTime(begin).wday = 1 /\ begin = today + 1 )
            /\ ~PastDecemberOf(begin, rule.period) => today < Plus(begin, rule.period)
        BY <1>3, StartHolds
      <3>2. start' = begin
        BY <1>2, <2>2
      <3> HIDE DEF begin
      <3>3. begin \in Int
        BY <3>1 DEF Dated
      <3>4. PastDecember(start)' <=> PastDecemberOf(begin, rule.period)
        BY <1>2, <3>2 DEF PastDecember, PastDecemberOf
      <3>5. LoadedOnSunday' <=> HasField(rule.period, "weeks") /\ GmTime(begin).wday = 1
                                /\ begin = today + 1
        BY <1>2, <3>2 DEF LoadedOnSunday
      <3>6. Standing'
        <4>1. begin > today => LoadedOnSunday'
          BY <1>3, <3>1, <3>3, <3>5
        <4>2. QED
          BY <1>2, <2>2, <3>1, <3>2, <4>1 DEF Standing
      <3>7. PeriodHoldsToday'
        BY <1>2, <3>1, <3>2, <3>4, <3>5 DEF PeriodHoldsToday
      <3>8. QED
        BY <3>1, <3>2, <3>6, <3>7
    <2>3. QED
      BY <2>1, <2>2
  <1>5. loaded \in LoadDays /\ today <= loaded + Span /\ rule \in Rules
    BY <1>2 DEF HoldInv
  <1>6. QED
    BY <1>1, <1>2, <1>4, <1>5 DEF HoldInv

LEMMA HoldStartPass ==
  ASSUME PeriodsAreOrdered, YearsAreCounted, HoldInv, StartPass
  PROVE  HoldInv'
  <1>1. DayInv'
    BY DayInductive DEF HoldInv, Next
  <1>2. /\ rule # NoRule /\ start # Empty /\ end' = Plus(start, rule.period)
        /\ pass' = IF \/ rule.first # Empty /\ today < rule.first
                      \/ today < start
                      \/ today < end'
                   THEN "done" ELSE "turning"
        /\ today' = today /\ rule' = rule /\ loaded' = loaded /\ start' = start
    BY DEF StartPass
  <1>3. /\ today \in Int /\ (rule.first # Empty => rule.first \in Int)
        /\ loaded \in LoadDays /\ today <= loaded + Span /\ rule \in Rules
    BY <1>2, Watched DEF HoldInv
  <1>4. Standing /\ Standing'
    BY <1>2 DEF HoldInv, Standing, LoadedOnSunday
  <1>5. Dated(start, rule.period) /\ start \in Int
    BY <1>4 DEF Standing, Dated
  <1>6. end' \in Int /\ (InMonths(rule.period) => end' \in Nat)
    BY <1>2, <1>5, NextEnd
  <1>7. pass' = "turning" => Turning'
    BY <1>2, <1>3, <1>6 DEF Turning
  <1>8. PeriodHoldsToday'
    <2> SUFFICES ASSUME pass' = "done"
                 PROVE  \/ start <= today /\ today < end'
                        \/ rule.first # Empty /\ start = rule.first
                        \/ LoadedOnSunday
      BY <1>2 DEF PeriodHoldsToday, LoadedOnSunday
    <2>1. CASE rule.first # Empty /\ today < rule.first
      BY <1>4, <2>1 DEF Standing
    <2>2. CASE today < start
      BY <1>3, <1>4, <1>5, <2>2 DEF Standing
    <2>3. CASE ~(today < start) /\ today < end'
      BY <1>3, <1>5, <2>3
    <2>4. QED
      BY <1>2, <2>1, <2>2, <2>3
  <1>9. QED
    BY <1>1, <1>2, <1>3, <1>4, <1>7, <1>8 DEF HoldInv

LEMMA HoldTurn ==
  ASSUME PeriodsAreOrdered, YearsAreCounted, HoldInv, Turn
  PROVE  HoldInv' /\ (~PastDecember(end) => end' > end)
  <1>1. DayInv'
    BY DayInductive DEF HoldInv, Next
  <1>2. /\ start' = end /\ end' = Plus(end, rule.period)
        /\ pass' = (IF today >= end' THEN "turning" ELSE "done")
        /\ today' = today /\ rule' = rule /\ loaded' = loaded
    BY DEF Turn
  <1>3. rule # NoRule /\ Turning
    BY DEF Turn, HoldInv
  <1>4. /\ today \in Int /\ today <= LastDay /\ LastDay \in Nat
        /\ (rule.first # Empty => rule.first \in Int)
        /\ loaded \in LoadDays /\ today <= loaded + Span /\ rule \in Rules
    BY <1>3, Watched DEF HoldInv
  <1>5. /\ end \in Int /\ end <= today /\ (InMonths(rule.period) => end \in Nat)
        /\ rule.first # Empty => rule.first <= today
    BY <1>3 DEF Turning
  <1>6. Dated(end, rule.period)
    <2>1. end \in Nat => end \in Days
      BY <1>4, <1>5 DEF Days
    <2>2. QED
      BY <1>5, <2>1 DEF Dated
  <1>7. /\ end' \in Int /\ (InMonths(rule.period) => end' \in Nat)
        /\ ~PastDecember(end) => end' > end
    BY <1>2, <1>3, <1>5, <1>6, NextEnd
  <1>8. end # Empty
    BY <1>4, <1>5 DEF Empty
  <1>9. Standing'
    <2>1. ~(rule.first # Empty /\ today < rule.first) /\ ~(end > today)
      BY <1>4, <1>5
    <2>2. QED
      BY <1>2, <1>6, <2>1 DEF Standing
  <1>10. pass' = "turning" => Turning'
    BY <1>2, <1>4, <1>5, <1>7 DEF Turning
  <1>11. PeriodHoldsToday'
    <2>1. pass' = "done" => today < end'
      BY <1>2, <1>4, <1>7
    <2>2. QED
      BY <1>2, <1>5, <2>1 DEF PeriodHoldsToday
  <1>12. QED
    BY <1>1, <1>2, <1>3, <1>4, <1>7, <1>8, <1>9, <1>10, <1>11 DEF HoldInv

LEMMA HoldInductive ==
  ASSUME PeriodsAreOrdered, YearsAreCounted, HoldInv, [Next]_vars
  PROVE  HoldInv'
  <1>1. CASE Midnight
    BY <1>1, HoldMidnight
  <1>2. CASE \E r \in Rules : Load(r)
    BY <1>2, HoldLoad
  <1>3. CASE FirstPass
    BY <1>3, HoldFirstPass
  <1>4. CASE StartPass
    BY <1>4, HoldStartPass
  <1>5. CASE Turn
    BY <1>5, HoldTurn
  <1>6. CASE UNCHANGED vars
    BY <1>6 DEF vars, HoldInv, DayInv, Standing, Turning, LoadedOnSunday, PeriodHoldsToday,
                PastDecember
  <1>7. QED
    BY <1>1, <1>2, <1>3, <1>4, <1>5, <1>6 DEF Next

LEMMA HoldAlways == PeriodsAreOrdered /\ YearsAreCounted => (Spec => []HoldInv)
  <1> SUFFICES ASSUME PeriodsAreOrdered, YearsAreCounted
               PROVE  Spec => []HoldInv
    OBVIOUS
  <1>1. Init => HoldInv
    BY RulesAssumption DEF Init, HoldInv, DayInv, PeriodHoldsToday
  <1>2. HoldInv /\ [Next]_vars => HoldInv'
    BY HoldInductive
  <1>3. QED
    BY <1>1, <1>2, PTL DEF Spec

\* Of any rules whose fields stand from the longest to the shortest, watched on days before
\* 2136, where the count of years stops: when a pass is over the current period holds the
\* present, however many periods went by since the last one, unless the first is still to
\* come, a Sunday's week starts tomorrow, or the period runs past December.
THEOREM PassFindsToday ==
  PeriodsAreOrdered /\ YearsAreCounted => (Spec => []PeriodHoldsToday)
  <1> SUFFICES ASSUME PeriodsAreOrdered, YearsAreCounted
               PROVE  Spec => []PeriodHoldsToday
    OBVIOUS
  <1>1. Spec => []HoldInv
    BY HoldAlways
  <1>2. HoldInv => PeriodHoldsToday
    BY DEF HoldInv
  <1>3. QED
    BY <1>1, <1>2, PTL

\* Of the same rules: every turn of the loop that looks for the present brings the end of
\* the period forward, through leap days and months of any length, unless it runs past
\* December; so no other rule keeps the device in that loop for ever.
THEOREM LoopGoesForward ==
  PeriodsAreOrdered /\ YearsAreCounted => (Spec => TurnsForward)
  <1> SUFFICES ASSUME PeriodsAreOrdered, YearsAreCounted
               PROVE  Spec => TurnsForward
    OBVIOUS
  <1>1. Spec => []HoldInv
    BY HoldAlways
  <1>2. HoldInv /\ [Next]_vars => [(pass = "turning" /\ ~PastDecember(end)) => end' > end]_vars
    <2> SUFFICES ASSUME HoldInv, Next, pass = "turning", ~PastDecember(end)
                 PROVE  end' > end
      OBVIOUS
    <2>1. rule # NoRule
      BY DEF HoldInv
    <2>2. Turn
      BY <2>1 DEF Next, Midnight, Load, FirstPass, StartPass
    <2>3. QED
      BY <2>2, HoldTurn
  <1>3. QED
    BY <1>1, <1>2, PTL DEF Spec, TurnsForward
=============================================================================
