----------------------------- MODULE RulePeriod -----------------------------
(***************************************************************************)
(* The period bookkeeping of one rule (TdlRule) over the calendar.         *)
(*                                                                         *)
(* A rule is loaded on some day with a period and perhaps a start of its   *)
(* first period.  From then on passes of the rule runner may come on any   *)
(* day, and each brings start_of_current_period_ up to the present, one    *)
(* turn of its loop at a time.  The present does not move during a pass:   *)
(* the runner reads the clock once.                                        *)
(***************************************************************************)
EXTENDS ClockRegisters

CONSTANTS
  Rules,      \* the rules that may be loaded: [period, first]
  StartDays,  \* what the clock may be set to at first
  LoadDays,   \* the days on which one may be loaded
  Span        \* bound: a rule is watched for this many days

ASSUME RulesAssumption ==
  /\ \A r \in Rules : r.first \in 0 .. Empty /\ r.period # << >>
  /\ StartDays \subseteq Days
  /\ LoadDays \subseteq Days
  /\ Span \in Nat

VARIABLES
  today,      \* the present
  clock,      \* the registers of the real-time clock, set on the first day
  rule,       \* the rule that is loaded, or NoRule
  loaded,     \* when it was loaded
  start,      \* start_of_current_period_
  end,        \* end_of_current_period, while a pass turns
  pass        \* "none" today, "turning" the loop, "done" today

vars == <<today, clock, rule, loaded, start, end, pass>>

NoRule == [period |-> << >>, first |-> Empty]

Init == /\ today \in StartDays
        /\ clock = WriteTime(today)
        /\ rule = NoRule
        /\ loaded = 0
        /\ start = Empty
        /\ end = Empty
        /\ pass = "none"

\* The clock turns.
Midnight ==
  /\ pass # "turning"
  /\ today < LastDay
  /\ rule # NoRule => today < loaded + Span
  /\ today' = today + 1
  /\ clock' = TurnDay(clock)
  /\ pass' = "none"
  /\ UNCHANGED <<rule, loaded, start, end>>

\* A rule comes from the store, its first period fixed or not.
Load(r) ==
  /\ rule = NoRule
  /\ today \in LoadDays
  /\ rule' = r
  /\ loaded' = today
  /\ UNCHANGED <<today, clock, start, end, pass>>

\* The first pass of a rule: its current period is the first one, or the one
\* that holds the present.
FirstPass ==
  /\ rule # NoRule /\ pass = "none"
  /\ start = Empty
  /\ start' = IF rule.first # Empty THEN rule.first ELSE PeriodStart(today, rule.period)
  /\ pass' = "done"
  /\ UNCHANGED <<today, clock, rule, loaded, end>>

\* A later pass: either the current period is not over, or not begun, or the
\* loop that brings it forward starts to turn.
StartPass ==
  /\ rule # NoRule /\ pass = "none"
  /\ start # Empty
  /\ end' = Plus(start, rule.period)
  /\ pass' = IF \/ rule.first # Empty /\ today < rule.first
                \/ today < start
                \/ today < end'
             THEN "done" ELSE "turning"
  /\ UNCHANGED <<today, clock, rule, loaded, start>>

\* A loop that is an if.
TurnOnce ==
  /\ pass = "turning"
  /\ start' = end
  /\ end' = Plus(end, rule.period)
  /\ pass' = "done"
  /\ UNCHANGED <<today, clock, rule, loaded>>

\* A loop that adds the period to the end of the one before last.
TurnStuck ==
  /\ pass = "turning"
  /\ start' = end
  /\ end' = Plus(start, rule.period)
  /\ pass' = IF today >= end' THEN "turning" ELSE "done"
  /\ UNCHANGED <<today, clock, rule, loaded>>

\* One turn of the loop: the period is the next one.
Turn ==
  /\ pass = "turning"
  /\ start' = end
  /\ end' = Plus(end, rule.period)
  /\ pass' = IF today >= end' THEN "turning" ELSE "done"
  /\ UNCHANGED <<today, clock, rule, loaded>>

Next == Midnight \/ (\E r \in Rules : Load(r)) \/ FirstPass \/ StartPass \/ Turn

Spec == Init /\ [][Next]_vars

\* A pass that has begun runs: nothing preempts the main loop for ever.
FairSpec == Spec /\ WF_vars(Turn)
-----------------------------------------------------------------------------
TypeOK ==
  /\ today \in Days
  /\ clock \in [mday : Register, mon : Register, year : Register]
  /\ rule = NoRule \/ rule \in Rules
  /\ loaded \in Days /\ loaded <= today
  /\ start \in 0 .. Empty
  /\ end \in 0 .. Empty
  /\ pass \in {"none", "turning", "done"}

\* The firmware and the chip agree about the date, as long as the chip has one: the day
\* read back is the day that has come, through every month and leap year since the clock
\* was set, and an alarm set for that day matches its register.  From 2100 on the year's
\* two digits start again and get() is back in 2000.
ClockReadsToday ==
  IF today < Date(2100, 1, 1)
  THEN ReadTime(clock) = today /\ clock.mday = AlarmDate(today)
  ELSE ReadTime(clock) < today

Civil == INSTANCE CivilCalendar WITH date <- GmTime(today)

\* gmtime_r()'s divisions give the Gregorian date and the day of the week, from
\* the epoch to the last day that 32 bits of seconds reach, 2100 included,
\* which is no leap year.
DatesAreCivil == Civil!Spec

\* mk_gmtime() is the inverse of gmtime_r(): taking a date apart and putting it
\* together again, as every DateTime operation does, keeps the day.
RoundTrip == MkTime(GmTime(today)) = today

\* A number of months added to the month of t runs past December: the case
\* that plusMonths() leaves to mk_gmtime(), which does not normalise.
PastDecember(t) ==
  \E i \in DOMAIN rule.period :
    /\ rule.period[i].type = "months"
    /\ GmTime(t).mon + (rule.period[i].value % 12) > 11

\* On a Sunday the current week starts tomorrow: getDayOfWeek() - 1 is -1.
LoadedOnSunday == HasField(rule.period, "weeks") /\ GmTime(start).wday = 1
                  /\ start = today + 1

\* When a pass is over, the current period holds the present, however late the
\* pass came and whatever the months' lengths.  It may lie ahead if the first
\* period does, or for a weekly rule first seen on a Sunday; a period that runs
\* past December is the subject of MonthlyPassEnds.
PeriodHoldsToday ==
  (pass = "done" /\ ~PastDecember(start)) =>
    \/ start <= today /\ today < Plus(start, rule.period)
    \/ rule.first # Empty /\ start = rule.first
    \/ LoadedOnSunday

\* A rule without a first period of its own keeps the calendar's: years start
\* on the first of January, months on the first, weeks on Monday, whatever day
\* the rule was loaded on and however many periods have gone by.
PeriodsAligned ==
  (pass = "done" /\ rule.first = Empty /\ Len(rule.period) = 1) =>
    LET tm == GmTime(start)
    IN CASE rule.period[1].type = "years"  -> tm.mon = 0 /\ tm.mday = 1
         [] rule.period[1].type = "months" -> tm.mday = 1
         [] rule.period[1].type = "weeks"  -> tm.wday = 1
         [] OTHER -> TRUE

\* The loop that brings a rule to the present has no bound of its own, and the
\* device does nothing else while it turns.  It ends because every turn brings
\* the end of the period forward, unless the next period runs past December.
TurnsForward ==
  [][(pass = "turning" /\ ~PastDecember(end)) => end' > end]_vars

\* A rule with a period in months goes on every month (rule_tests.cpp): the
\* pass that is to find its current month ends.
MonthlyPassEnds == (pass = "turning") ~> (pass = "done")
=============================================================================
