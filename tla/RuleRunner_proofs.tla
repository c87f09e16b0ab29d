-------------------------- MODULE RuleRunner_proofs --------------------------
(***************************************************************************)
(* The invariants of RuleRunner for every calendar, schedule and bound.    *)
(***************************************************************************)
EXTENDS RuleRunner, TLAPS

UpdateSteps == {"getnow", "rules", "finish", "clear", "tear", "setalarm", "armie", "armpin"}

\* Where the runner rests between updates.
RestSteps == {"check", "readflag", "poweroff", "rearm", "clearflag", "poll", "presleep",
              "sleep"}

PoweredInv ==
  pc \in I2cSteps \cup {"rules", "finish", "armpin"} => powered

\* The runner updates only while it runs.
\* The alarm is set from the last reading of the clock before it is armed, and stays so
\* until the clock is read again.
ArmedInv ==
  /\ pc \in UpdateSteps \cup {"readflag"} => running
  /\ pc = "armie" => alarm = AlarmFor(nextUpdate)
  /\ pc \in RestSteps \cup {"armpin"} /\ running => a1ie /\ alarm = AlarmFor(nextUpdate)
  /\ pc \in RestSteps \ {"readflag", "poweroff"} /\ running => ~powered

\* The main loop is between seeing the flag and clearing it.
Handling ==
  caller = "loop" /\ pc \in UpdateSteps \cup {"readflag", "poweroff", "rearm", "clearflag"}

\* The alarm flag and the pin interrupt when nothing strikes a busy main loop.
WakeInv ==
  \/ struck \/ pc = "dead"
  \/ /\ irqOn \/ pc = "tear"
     /\ a1ie => running \/ pc \in {"stop_ie", "start_now"}
     /\ a1f /\ a1ie => /\ running
                       /\ pc \in {"sleep", "check"} \/ (pc = "readflag" /\ ~pinEnabled)
     /\ pc \in {"tear", "setalarm", "armie", "armpin"} => ~a1f
     /\ (pinEnabled /\ ~flag) \/ Handling \/ (pc = "check" /\ flag)
     /\ pc = "clearflag" => pinEnabled

\* The time of the next update is still ahead, in the month the alarm was set in.
Ahead == now < nextUpdate /\ MonthOf[now] = MonthOf[current]

\* What the schedule holds between the last pass over the rules and the next update.
ScheduleInv ==
  ~struck =>
    /\ pc \in RestSteps \cup {"clear", "tear", "setalarm", "armie", "armpin"} /\ running =>
         IsNextChange(lastUpdate, nextUpdate)
    /\ pc = "getnow" /\ now < nextUpdate => IsNextChange(lastUpdate, nextUpdate)
    /\ pc \in {"rules", "finish"} =>
         /\ current <= now
         /\ MonthOf[now] = MonthOf[current]
         /\ \A c \in schedule : current < c => now < c
    /\ pc \in {"clear", "tear", "setalarm", "armie", "armpin"} => Ahead
    /\ pc \in RestSteps /\ running /\ ~a1f => Ahead

-----------------------------------------------------------------------------
(* Every variable keeps its type. *)

LEMMA TypeInit == Init => TypeOK
  <1>1. 0 \in Time /\ 0 \in Instant /\ 0 \in 0 .. MaxEvents /\ 0 \in 0 .. MaxCommands
    BY ConstantsAssumption DEF Time, Instant
  <1>2. QED
    BY <1>1 DEF Init, TypeOK, Steps, Events

LEMMA TypeNext == TypeOK /\ [Next]_vars => TypeOK'
  <1> SUFFICES ASSUME TypeOK, [Next]_vars PROVE TypeOK'
    OBVIOUS
  <1> USE ConstantsAssumption DEF TypeOK, Events, rtcVars, mcuVars, timeVars, eventVars, histVars
  <1>1. CASE LoopCheck
    <2>1. pc' \in Steps
      BY <1>1 DEF LoopCheck, At, Steps
    <2>2. QED
      BY <1>1, <2>1 DEF LoopCheck, At
  <1>2. CASE ReadAlarmFlag
    <2>1. pc' \in Steps
      BY <1>2 DEF ReadAlarmFlag, At, Steps
    <2>2. QED
      BY <1>2, <2>1 DEF ReadAlarmFlag, At
  <1>3. CASE PowerOff
    <2>1. pc' \in Steps
      BY <1>3 DEF PowerOff, At, Steps
    <2>2. QED
      BY <1>3, <2>1 DEF PowerOff, At
  <1>4. CASE Rearm
    BY <1>4 DEF Rearm, At, Steps
  <1>5. CASE ClearTriggered
    <2>1. pc' \in Steps
      BY <1>5 DEF ClearTriggered, At, Steps
    <2>2. QED
      BY <1>5, <2>1 DEF ClearTriggered, At
  <1>6. CASE PollNothing
    BY <1>6 DEF PollNothing, At, Steps
  <1>7. CASE EnterSleep
    BY <1>7 DEF EnterSleep, At, Steps
  <1>8. CASE GetNow
    BY <1>8 DEF GetNow, At, Steps
  <1>9. CASE RunRules
    BY <1>9 DEF RunRules, At, Steps
  <1>10. CASE FinishUpdate
    BY <1>10 DEF FinishUpdate, At, Steps
  <1>11. CASE ClearAlarmFlag
    <2>1. pc' \in Steps
      BY <1>11 DEF ClearAlarmFlag, At, Steps
    <2>2. QED
      BY <1>11, <2>1 DEF ClearAlarmFlag, At
  <1>12. CASE TearAlarm
    BY <1>12 DEF TearAlarm, At, Steps
  <1>13. CASE SetAlarm
    BY <1>13 DEF SetAlarm, At, Steps, AlarmFor, Registers
  <1>14. CASE ArmAlarm
    BY <1>14 DEF ArmAlarm, At, Steps
  <1>15. CASE ArmPin
    BY <1>15 DEF ArmPin, At, Steps
  <1>16. CASE WriteTime
    BY <1>16 DEF WriteTime, At, Steps
  <1>17. CASE Stop
    BY <1>17 DEF Stop, At, Steps
  <1>18. CASE StopInterrupt
    <2>1. pc' \in Steps
      BY <1>18 DEF StopInterrupt, At, Steps
    <2>2. QED
      BY <1>18, <2>1 DEF StopInterrupt, At
  <1>19. CASE StopFlag
    BY <1>19 DEF StopFlag, At, Steps
  <1>20. CASE Start
    BY <1>20 DEF Start, At, Steps
  <1>21. CASE StartNow
    BY <1>21 DEF StartNow, At, Steps, Instant
  <1>22. CASE SaveRules
    BY <1>22 DEF SaveRules, Command, At, Steps
  <1>23. CASE SetRtcTime
    BY <1>23 DEF SetRtcTime, Command, At, Steps
  <1>24. CASE Isr
    BY <1>24 DEF Isr, WokenPc, Steps
  <1>25. CASE Tick
    BY <1>25 DEF Tick, Steps, Time
  <1>26. CASE PostEvent
    <2>1. events' \in 0 .. MaxEvents
      BY <1>26 DEF PostEvent
    <2>2. pc' \in Steps
      BY <1>26 DEF PostEvent, WokenPc, Steps
    <2>3. QED
      BY <1>26, <2>1, <2>2 DEF PostEvent
  <1>27. CASE UsbWake
    BY <1>27 DEF UsbWake, Steps
  <1>28. CASE I2cThrow
    BY <1>28 DEF I2cThrow, Steps
  <1>29. CASE Reboot
    <2>1. commands' \in 0 .. MaxCommands
      BY <1>29 DEF Reboot
    <2>2. 0 \in Time /\ 0 \in Instant
      BY DEF Time, Instant
    <2>3. QED
      BY <1>29, <2>1, <2>2 DEF Reboot, Steps
  <1>30. CASE UNCHANGED vars
    BY <1>30 DEF vars, Steps
  <1>31. QED
    BY <1>1, <1>2, <1>3, <1>4, <1>5, <1>6, <1>7, <1>8, <1>9, <1>10, <1>11, <1>12, <1>13, <1>14,
        <1>15, <1>16, <1>17, <1>18, <1>19, <1>20, <1>21, <1>22, <1>23, <1>24, <1>25, <1>26,
        <1>27, <1>28, <1>29, <1>30 DEF Next, MainLoop, Update, SetRtcInterrupt, Restart

\* Every variable of the runner, the clock and the interrupt controller keeps its type.
THEOREM TypeCorrect == Spec => []TypeOK
  BY TypeInit, TypeNext, PTL DEF Spec

-----------------------------------------------------------------------------
(* Power. *)

LEMMA PoweredNext == PoweredInv /\ [Next]_vars => PoweredInv'
  <1> SUFFICES ASSUME PoweredInv, [Next]_vars PROVE PoweredInv'
    OBVIOUS
  <1> USE DEF PoweredInv, I2cSteps, rtcVars, mcuVars, timeVars, eventVars, histVars
  <1>1. CASE LoopCheck
    BY <1>1 DEF LoopCheck, At
  <1>2. CASE ReadAlarmFlag
    BY <1>2 DEF ReadAlarmFlag, At
  <1>3. CASE PowerOff
    BY <1>3 DEF PowerOff, At
  <1>4. CASE Rearm
    BY <1>4 DEF Rearm, At
  <1>5. CASE ClearTriggered
    BY <1>5 DEF ClearTriggered, At
  <1>6. CASE PollNothing
    BY <1>6 DEF PollNothing, At
  <1>7. CASE EnterSleep
    BY <1>7 DEF EnterSleep, At
  <1>8. CASE GetNow
    BY <1>8 DEF GetNow, At
  <1>9. CASE RunRules
    BY <1>9 DEF RunRules, At
  <1>10. CASE FinishUpdate
    BY <1>10 DEF FinishUpdate, At
  <1>11. CASE ClearAlarmFlag
    BY <1>11 DEF ClearAlarmFlag, At
  <1>12. CASE TearAlarm
    BY <1>12 DEF TearAlarm, At
  <1>13. CASE SetAlarm
    BY <1>13 DEF SetAlarm, At
  <1>14. CASE ArmAlarm
    BY <1>14 DEF ArmAlarm, At
  <1>15. CASE ArmPin
    BY <1>15 DEF ArmPin, At
  <1>16. CASE WriteTime
    BY <1>16 DEF WriteTime, At
  <1>17. CASE Stop
    BY <1>17 DEF Stop, At
  <1>18. CASE StopInterrupt
    BY <1>18 DEF StopInterrupt, At
  <1>19. CASE StopFlag
    BY <1>19 DEF StopFlag, At
  <1>20. CASE Start
    BY <1>20 DEF Start, At
  <1>21. CASE StartNow
    BY <1>21 DEF StartNow, At
  <1>22. CASE SaveRules
    BY <1>22 DEF SaveRules, Command, At
  <1>23. CASE SetRtcTime
    BY <1>23 DEF SetRtcTime, Command, At
  <1>24. CASE Isr
    BY <1>24 DEF Isr, WokenPc
  <1>25. CASE Tick
    BY <1>25 DEF Tick
  <1>26. CASE PostEvent
    BY <1>26 DEF PostEvent, WokenPc
  <1>27. CASE UsbWake
    BY <1>27 DEF UsbWake
  <1>28. CASE I2cThrow
    BY <1>28 DEF I2cThrow
  <1>29. CASE Reboot
    BY <1>29 DEF Reboot
  <1>30. CASE UNCHANGED vars
    BY <1>30 DEF vars
  <1>31. QED
    BY <1>1, <1>2, <1>3, <1>4, <1>5, <1>6, <1>7, <1>8, <1>9, <1>10, <1>11, <1>12, <1>13, <1>14,
        <1>15, <1>16, <1>17, <1>18, <1>19, <1>20, <1>21, <1>22, <1>23, <1>24, <1>25, <1>26,
        <1>27, <1>28, <1>29, <1>30 DEF Next, MainLoop, Update, SetRtcInterrupt, Restart

\* The clock has power at every step that uses the bus: start(), stop(), the alarm and
\* the frames that restart the runner all switch it on before and off after.
THEOREM PoweredAlways == Spec => []PoweredAccess
  <1>1. Init => PoweredInv
    BY DEF Init, PoweredInv, I2cSteps
  <1>2. PoweredInv => PoweredAccess
    BY DEF PoweredInv, PoweredAccess
  <1>3. QED
    BY <1>1, <1>2, PoweredNext, PTL DEF Spec

-----------------------------------------------------------------------------
(* The alarm a sleeping device relies on. *)

LEMMA ArmedNext == ArmedInv /\ [Next]_vars => ArmedInv'
  <1> SUFFICES ASSUME ArmedInv, [Next]_vars PROVE ArmedInv'
    OBVIOUS
  <1> USE DEF ArmedInv, UpdateSteps, RestSteps, AlarmFor,
              rtcVars, mcuVars, timeVars, eventVars, histVars
  <1>1. CASE LoopCheck
    BY <1>1 DEF LoopCheck, At
  <1>2. CASE ReadAlarmFlag
    BY <1>2 DEF ReadAlarmFlag, At
  <1>3. CASE PowerOff
    BY <1>3 DEF PowerOff, At
  <1>4. CASE Rearm
    BY <1>4 DEF Rearm, At
  <1>5. CASE ClearTriggered
    BY <1>5 DEF ClearTriggered, At
  <1>6. CASE PollNothing
    BY <1>6 DEF PollNothing, At
  <1>7. CASE EnterSleep
    BY <1>7 DEF EnterSleep, At
  <1>8. CASE GetNow
    BY <1>8 DEF GetNow, At
  <1>9. CASE RunRules
    BY <1>9 DEF RunRules, At
  <1>10. CASE FinishUpdate
    BY <1>10 DEF FinishUpdate, At
  <1>11. CASE ClearAlarmFlag
    BY <1>11 DEF ClearAlarmFlag, At
  <1>12. CASE TearAlarm
    BY <1>12 DEF TearAlarm, At
  <1>13. CASE SetAlarm
    BY <1>13 DEF SetAlarm, At
  <1>14. CASE ArmAlarm
    BY <1>14 DEF ArmAlarm, At
  <1>15. CASE ArmPin
    BY <1>15 DEF ArmPin, At
  <1>16. CASE WriteTime
    BY <1>16 DEF WriteTime, At
  <1>17. CASE Stop
    BY <1>17 DEF Stop, At
  <1>18. CASE StopInterrupt
    BY <1>18 DEF StopInterrupt, At
  <1>19. CASE StopFlag
    BY <1>19 DEF StopFlag, At
  <1>20. CASE Start
    BY <1>20 DEF Start, At
  <1>21. CASE StartNow
    BY <1>21 DEF StartNow, At
  <1>22. CASE SaveRules
    BY <1>22 DEF SaveRules, Command, At
  <1>23. CASE SetRtcTime
    BY <1>23 DEF SetRtcTime, Command, At
  <1>24. CASE Isr
    BY <1>24 DEF Isr, WokenPc
  <1>25. CASE Tick
    BY <1>25 DEF Tick
  <1>26. CASE PostEvent
    BY <1>26 DEF PostEvent, WokenPc
  <1>27. CASE UsbWake
    BY <1>27 DEF UsbWake
  <1>28. CASE I2cThrow
    BY <1>28 DEF I2cThrow, I2cSteps
  <1>29. CASE Reboot
    BY <1>29 DEF Reboot
  <1>30. CASE UNCHANGED vars
    BY <1>30 DEF vars
  <1>31. QED
    BY <1>1, <1>2, <1>3, <1>4, <1>5, <1>6, <1>7, <1>8, <1>9, <1>10, <1>11, <1>12, <1>13, <1>14,
        <1>15, <1>16, <1>17, <1>18, <1>19, <1>20, <1>21, <1>22, <1>23, <1>24, <1>25, <1>26,
        <1>27, <1>28, <1>29, <1>30 DEF Next, MainLoop, Update, SetRtcInterrupt, Restart

\* A running device goes to sleep with its alarm set for the next update and enabled.
THEOREM ArmedAsleep == Spec => []SleepsArmed
  <1>1. Init => ArmedInv
    BY DEF Init, ArmedInv, UpdateSteps, RestSteps
  <1>2. ArmedInv => SleepsArmed
    BY DEF ArmedInv, SleepsArmed, RestSteps
  <1>3. QED
    BY <1>1, <1>2, ArmedNext, PTL DEF Spec

-----------------------------------------------------------------------------
(* The wake-up, when nothing strikes a busy main loop. *)

LEMMA WakeNext == TypeOK /\ ArmedInv /\ WakeInv /\ [Next]_vars => WakeInv'
  <1> SUFFICES ASSUME TypeOK, ArmedInv, WakeInv, [Next]_vars PROVE WakeInv'
    OBVIOUS
  <1> USE DEF WakeInv, Handling, UpdateSteps, rtcVars, mcuVars, timeVars, eventVars, histVars
  <1>1. CASE LoopCheck
    BY <1>1 DEF LoopCheck, At, IrqPending, TypeOK
  <1>2. CASE ReadAlarmFlag
    BY <1>2 DEF ReadAlarmFlag, At, IrqPending, TypeOK
  <1>3. CASE PowerOff
    BY <1>3 DEF PowerOff, At, IrqPending, TypeOK
  <1>4. CASE Rearm
    BY <1>4 DEF Rearm, At, IrqPending, TypeOK
  <1>5. CASE ClearTriggered
    BY <1>5 DEF ClearTriggered, At, IrqPending, TypeOK
  <1>6. CASE PollNothing
    BY <1>6 DEF PollNothing, At, IrqPending, TypeOK
  <1>7. CASE EnterSleep
    BY <1>7 DEF EnterSleep, At, IrqPending, TypeOK
  <1>8. CASE GetNow
    BY <1>8 DEF GetNow, At, IrqPending, TypeOK
  <1>9. CASE RunRules
    BY <1>9 DEF RunRules, At, IrqPending, TypeOK
  <1>10. CASE FinishUpdate
    BY <1>10 DEF FinishUpdate, At, IrqPending, TypeOK
  <1>11. CASE ClearAlarmFlag
    BY <1>11 DEF ClearAlarmFlag, At, IrqPending, TypeOK
  <1>12. CASE TearAlarm
    BY <1>12 DEF TearAlarm, At, IrqPending, TypeOK
  <1>13. CASE SetAlarm
    BY <1>13 DEF SetAlarm, At, IrqPending, TypeOK
  <1>14. CASE ArmAlarm
    BY <1>14 DEF ArmAlarm, At, IrqPending, TypeOK, ArmedInv
  <1>15. CASE ArmPin
    BY <1>15 DEF ArmPin, At, IrqPending, TypeOK
  <1>16. CASE WriteTime
    BY <1>16 DEF WriteTime, At, IrqPending, TypeOK
  <1>17. CASE Stop
    BY <1>17 DEF Stop, At, IrqPending, TypeOK
  <1>18. CASE StopInterrupt
    BY <1>18 DEF StopInterrupt, At, IrqPending, TypeOK
  <1>19. CASE StopFlag
    BY <1>19 DEF StopFlag, At, IrqPending, TypeOK
  <1>20. CASE Start
    BY <1>20 DEF Start, At, IrqPending, TypeOK
  <1>21. CASE StartNow
    BY <1>21 DEF StartNow, At, IrqPending, TypeOK
  <1>22. CASE SaveRules
    BY <1>22 DEF SaveRules, Command, At, IrqPending, TypeOK
  <1>23. CASE SetRtcTime
    BY <1>23 DEF SetRtcTime, Command, At, IrqPending, TypeOK
  <1>24. CASE Isr
    BY <1>24 DEF Isr, WokenPc, IrqPending, TypeOK
  <1>25. CASE Tick
    <2>1. struck' \/ pc = "sleep" \/ (a1f' <=> a1f)
      BY <1>25 DEF Tick, Quiet
    <2>2. QED
      BY <1>25, <2>1 DEF Tick, TypeOK
  <1>26. CASE PostEvent
    BY <1>26 DEF PostEvent, WokenPc, IrqPending, TypeOK
  <1>27. CASE UsbWake
    BY <1>27 DEF UsbWake, IrqPending, TypeOK
  <1>28. CASE I2cThrow
    BY <1>28 DEF I2cThrow, IrqPending, TypeOK
  <1>29. CASE Reboot
    BY <1>29 DEF Reboot, IrqPending, TypeOK
  <1>30. CASE UNCHANGED vars
    BY <1>30 DEF vars, IrqPending, TypeOK
  <1>31. QED
    BY <1>1, <1>2, <1>3, <1>4, <1>5, <1>6, <1>7, <1>8, <1>9, <1>10, <1>11, <1>12, <1>13, <1>14,
        <1>15, <1>16, <1>17, <1>18, <1>19, <1>20, <1>21, <1>22, <1>23, <1>24, <1>25, <1>26,
        <1>27, <1>28, <1>29, <1>30 DEF Next, MainLoop, Update, SetRtcInterrupt, Restart

\* A sleeping device can be woken: the alarm's interrupt is enabled and none is pending
\* unseen.  Only true while no alarm strikes between two steps of the main loop.
THEOREM WakeAlways == Spec => []WakeNotLost
  <1>1. Init => WakeInv
    BY DEF Init, WakeInv
  <1>2. WakeInv => WakeNotLost
    BY DEF WakeInv, WakeNotLost, Handling, UpdateSteps
  <1>3. Init => ArmedInv
    BY DEF Init, ArmedInv, UpdateSteps, RestSteps
  <1>4. QED
    BY <1>1, <1>2, <1>3, ArmedNext, WakeNext, TypeCorrect, PTL DEF Spec

-----------------------------------------------------------------------------
(* The channels, when nothing strikes a busy main loop. *)

\* A second that passes short of the alarm stays ahead of the next update.
LEMMA TickAhead ==
  ASSUME TypeOK, Ahead, now < MaxTime,
         \/ alarm = AlarmFor(nextUpdate) /\ Offset[now + 1] # alarm
         \/ Quiet(now + 1) /\ IsNextChange(lastUpdate, nextUpdate)
  PROVE  now + 1 < nextUpdate /\ MonthOf[now + 1] = MonthOf[current]
  <1> USE ConstantsAssumption, CalendarAssumption DEF TypeOK, Ahead
  <1>1. /\ now \in Time /\ now + 1 \in Time /\ now + 1 \in Instant /\ now \in Instant
        /\ nextUpdate \in Instant /\ current \in Instant
        /\ now \in Int /\ nextUpdate \in Int /\ MaxTime \in Int
        /\ now + 1 <= nextUpdate
    BY DEF Time, Instant, Never
  <1>2. MonthOf[now + 1] # MonthOf[now] => Offset[now + 1] = 0
    BY <1>1
  <1>3. CASE alarm = AlarmFor(nextUpdate) /\ Offset[now + 1] # alarm
    <2>1. CASE MonthOf[current] = MonthOf[nextUpdate]
      <3>1. now + 1 # nextUpdate
        BY <1>3, <2>1 DEF AlarmFor
      <3>2. /\ MonthOf[now] <= MonthOf[now + 1] /\ MonthOf[now + 1] <= MonthOf[nextUpdate]
            /\ MonthOf[now] \in Int /\ MonthOf[now + 1] \in Int
        BY <1>1
      <3>3. QED
        BY <1>1, <2>1, <3>1, <3>2
    <2>2. CASE MonthOf[current] # MonthOf[nextUpdate]
      <3>1. MonthOf[now + 1] = MonthOf[now]
        BY <1>2, <1>3, <2>2 DEF AlarmFor
      <3>2. QED
        BY <1>1, <2>2, <3>1
    <2>3. QED
      BY <2>1, <2>2
  <1>4. CASE Quiet(now + 1) /\ IsNextChange(lastUpdate, nextUpdate)
    <2>1. now + 1 # nextUpdate
      BY <1>1, <1>4 DEF Quiet, IsNextChange, Never
    <2>2. MonthOf[now + 1] = MonthOf[now]
      BY <1>2, <1>4 DEF Quiet
    <2>3. QED
      BY <1>1, <2>1, <2>2
  <1>5. QED
    BY <1>3, <1>4

LEMMA ScheduleNext == TypeOK /\ ArmedInv /\ ScheduleInv /\ [Next]_vars => ScheduleInv'
  <1> SUFFICES ASSUME TypeOK, ArmedInv, ScheduleInv, [Next]_vars PROVE ScheduleInv'
    OBVIOUS
  <1> USE DEF ScheduleInv, UpdateSteps, RestSteps, Ahead, IsNextChange,
              rtcVars, mcuVars, timeVars, eventVars, histVars
  <1>1. CASE LoopCheck
    BY <1>1 DEF LoopCheck, At
  <1>2. CASE ReadAlarmFlag
    BY <1>2 DEF ReadAlarmFlag, At, ArmedInv
  <1>3. CASE PowerOff
    BY <1>3 DEF PowerOff, At
  <1>4. CASE Rearm
    BY <1>4 DEF Rearm, At
  <1>5. CASE ClearTriggered
    BY <1>5 DEF ClearTriggered, At
  <1>6. CASE PollNothing
    BY <1>6 DEF PollNothing, At
  <1>7. CASE EnterSleep
    BY <1>7 DEF EnterSleep, At
  <1>8. CASE GetNow
    <2>1. now \in Int /\ nextUpdate \in Int /\ now' = now
      BY <1>8, ConstantsAssumption DEF GetNow, TypeOK, Time, Instant, Never
    <2>2. QED
      BY <1>8, <2>1, ConstantsAssumption DEF GetNow, At, TypeOK, Time
  <1>9. CASE RunRules
    BY <1>9 DEF RunRules, At
  <1>10. CASE FinishUpdate
    <2>1. now < Never
      BY ConstantsAssumption DEF TypeOK, Time, Never
    <2>2. QED
      BY <1>10, <2>1 DEF FinishUpdate, At
  <1>11. CASE ClearAlarmFlag
    BY <1>11 DEF ClearAlarmFlag, At
  <1>12. CASE TearAlarm
    BY <1>12 DEF TearAlarm, At
  <1>13. CASE SetAlarm
    BY <1>13 DEF SetAlarm, At
  <1>14. CASE ArmAlarm
    BY <1>14 DEF ArmAlarm, At
  <1>15. CASE ArmPin
    BY <1>15 DEF ArmPin, At
  <1>16. CASE WriteTime
    BY <1>16 DEF WriteTime, At
  <1>17. CASE Stop
    BY <1>17 DEF Stop, At
  <1>18. CASE StopInterrupt
    BY <1>18 DEF StopInterrupt, At
  <1>19. CASE StopFlag
    BY <1>19 DEF StopFlag, At
  <1>20. CASE Start
    BY <1>20 DEF Start, At
  <1>21. CASE StartNow
    <2>1. now \in Int
      BY ConstantsAssumption DEF TypeOK, Time
    <2>2. QED
      BY <1>21, <2>1 DEF StartNow, At
  <1>22. CASE SaveRules
    BY <1>22 DEF SaveRules, Command, At
  <1>23. CASE SetRtcTime
    BY <1>23 DEF SetRtcTime, Command, At
  <1>24. CASE Isr
    BY <1>24 DEF Isr, WokenPc
  <1>25. CASE Tick
    <2> SUFFICES ASSUME ~struck' PROVE ScheduleInv'
      BY DEF ScheduleInv
    <2>0. ~a1f' => ~a1f /\ Offset[now + 1] # alarm
      BY <1>25 DEF Tick
    <2>1. /\ now < MaxTime /\ now' = now + 1 /\ (pc = "sleep" \/ Quiet(now + 1))
          /\ now \in Int /\ nextUpdate \in Int /\ current \in Int
          /\ UNCHANGED <<alarm, running, timeVars, schedule, pc>>
          /\ ~struck
      <3>1. now \in Int /\ nextUpdate \in Int /\ current \in Int
        BY ConstantsAssumption DEF TypeOK, Time, Instant, Never
      <3>2. ~struck /\ (pc = "sleep" \/ Quiet(now + 1))
        BY <1>25 DEF Tick, TypeOK
      <3>3. QED
        BY <1>25, <3>1, <3>2 DEF Tick
    <2>2. pc = "getnow" /\ now' < nextUpdate => IsNextChange(lastUpdate, nextUpdate)
      BY <2>0, <2>1
    <2>3. ASSUME pc \in {"rules", "finish"}
          PROVE  /\ current <= now'
                 /\ MonthOf[now'] = MonthOf[current]
                 /\ \A c \in schedule : current < c => now' < c
      <3>1. /\ now \in Time /\ schedule \subseteq Time /\ now + 1 \notin schedule
            /\ Offset[now + 1] # 0
        BY <2>1, <2>3, ConstantsAssumption DEF Quiet, TypeOK
      <3>2. MonthOf[now + 1] = MonthOf[now]
        BY <3>1, CalendarAssumption
      <3>3. \A c \in schedule : current < c => now + 1 < c
        BY <2>1, <2>3, <3>1 DEF Time
      <3>4. QED
        BY <2>1, <2>3, <3>2, <3>3
    <2>4. pc \in {"clear", "tear", "setalarm", "armie", "armpin"} => Ahead'
      BY <2>0, <2>1, TickAhead DEF ArmedInv
    <2>5. pc \in RestSteps /\ running /\ ~a1f' => Ahead'
      BY <2>0, <2>1, TickAhead DEF ArmedInv
    <2>6. QED
      BY <2>0, <2>1, <2>2, <2>3, <2>4, <2>5
  <1>26. CASE PostEvent
    BY <1>26 DEF PostEvent, WokenPc
  <1>27. CASE UsbWake
    BY <1>27 DEF UsbWake
  <1>28. CASE I2cThrow
    BY <1>28 DEF I2cThrow
  <1>29. CASE Reboot
    BY <1>29 DEF Reboot
  <1>30. CASE UNCHANGED vars
    BY <1>30 DEF vars
  <1>31. QED
    BY <1>1, <1>2, <1>3, <1>4, <1>5, <1>6, <1>7, <1>8, <1>9, <1>10, <1>11, <1>12, <1>13, <1>14,
        <1>15, <1>16, <1>17, <1>18, <1>19, <1>20, <1>21, <1>22, <1>23, <1>24, <1>25, <1>26,
        <1>27, <1>28, <1>29, <1>30 DEF Next, MainLoop, Update, SetRtcInterrupt, Restart

\* While a running device sleeps with no interrupt on its way, every change of the
\* schedule that is due has been applied, across months and restarts.
THEOREM OutputsAlways == Spec => []OutputsCurrent
  <1>1. Init => ScheduleInv
    BY DEF Init, ScheduleInv, UpdateSteps, RestSteps
  <1>2. TypeOK /\ ArmedInv /\ WakeInv /\ ScheduleInv => OutputsCurrent
    BY ConstantsAssumption DEF TypeOK, ArmedInv, WakeInv, ScheduleInv, OutputsCurrent, Handling, UpdateSteps,
       RestSteps, IrqPending, Ahead, IsNextChange, Time, Instant, Never
  <1>3. Init => ArmedInv /\ WakeInv
    BY DEF Init, ArmedInv, UpdateSteps, RestSteps, WakeInv
  <1>4. QED
    BY <1>1, <1>2, <1>3, ArmedNext, WakeNext, ScheduleNext, TypeCorrect, PTL DEF Spec
=============================================================================
