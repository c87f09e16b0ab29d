------------------------------ MODULE RuleRunner ------------------------------
(***************************************************************************)
(* TdlRuleRunner, the DS3232SN clock it arms and the pin interrupt that    *)
(* brings the clock's alarm back to it, as driven by loop() of main1.cpp.  *)
(* The main loop is a sequence of steps (pc); the clock, the pin interrupt *)
(* and event interrupts interleave between any two of them.                *)
(*                                                                         *)
(* The rules are abstracted to a schedule: the instants at which some rule *)
(* changes the state of a channel.  A pass over the rules makes the        *)
(* channels right for the time of the pass, lastUpdate.                    *)
(***************************************************************************)
EXTENDS Integers

CONSTANTS
  MaxTime,     \* the clock is followed up to this second
  MonthOf,     \* the month an instant falls in
  Offset,      \* the alarm compares date and time of day: seconds into the month
  Schedules,   \* what the rules in EEPROM may amount to
  I2cFaults,   \* TRUE: an I2C transfer may exhaust its retries
  MaxEvents, MaxCommands   \* bounds on what the environment does

Time    == 0 .. MaxTime
Never   == MaxTime + 1     \* DateTime(0xFFFFFFFF): no enabled rule will change
Instant == Time \cup {Never}
Registers == {Offset[t] : t \in Instant} \cup {0}   \* what the alarm can be set to

ASSUME ConstantsAssumption ==
  /\ MaxTime \in Nat
  /\ Schedules \subseteq SUBSET Time
  /\ I2cFaults \in BOOLEAN
  /\ MaxEvents \in Nat
  /\ MaxCommands \in Nat

ASSUME CalendarAssumption ==
  /\ MonthOf \in [Instant -> Nat]
  /\ Offset \in [Instant -> Nat]
  /\ \A t \in Time : MonthOf[t] # MonthOf[t + 1] => Offset[t + 1] = 0
  /\ \A s, t \in Instant : s <= t => MonthOf[s] <= MonthOf[t]
  /\ \A t \in Time : MonthOf[t] # MonthOf[Never]

VARIABLES
  now, alarm, a1f, a1ie,                   \* registers of the DS3232SN
  powered, irqOn, pinEnabled,              \* power_enabled_, PRIMASK, callback registered
  flag, running,                           \* pin_interrupt_triggered_, running_
  current, nextUpdate, lastUpdate,         \* current_time_, next_update_time_, last_update_time_
  event,                                   \* the slot for an event, see Events
  schedule,                                \* the loaded rules
  pc, caller,                              \* where the main loop is; who called update()
  events, commands,                        \* how many of them there were
  struck     \* history: an interrupt source struck while the main loop was busy

rtcVars    == <<now, alarm, a1f, a1ie>>
mcuVars    == <<powered, irqOn, pinEnabled, flag>>
timeVars   == <<current, nextUpdate, lastUpdate>>
eventVars  == <<event, events>>
histVars   == <<commands, struck>>
vars == <<now, alarm, a1f, a1ie, powered, irqOn, pinEnabled, flag, running, current,
          nextUpdate, lastUpdate, event, schedule, pc, caller, events, commands, struck>>

\* An event not yet processed is new until the rules have been run with it, then seen.
Events == {"none", "new", "seen"}
Unprocessed == event # "none"

Steps == {"check", "readflag", "getnow", "rules", "finish", "clear", "tear", "setalarm",
          "armie", "armpin", "poweroff", "rearm", "clearflag", "poll", "presleep", "sleep",
          "stop", "stop_ie", "stop_flag", "settime", "start", "start_now", "dead"}

\* The steps that talk to the clock over I2C.
I2cSteps == {"readflag", "getnow", "clear", "tear", "setalarm", "armie",
             "stop_ie", "stop_flag", "settime", "start_now"}

-----------------------------------------------------------------------------
(* The clock and the interrupt controller. *)

\* INT is pulled low while a flagged alarm may interrupt; the pin detects the level.
IrqPending == irqOn /\ pinEnabled /\ a1f /\ a1ie

AlarmForInstant(next) == next  \* mutant: not reduced to date and time of day

\* The register value setRtcInterrupt() computes for an update at time next.
AlarmFor(next) == IF MonthOf[current] = MonthOf[next] THEN Offset[next] ELSE 0

\* No interrupt source is ready to strike at instant t.
Quiet(t) == Offset[t] \notin {alarm, 0} /\ t \notin schedule

\* A second passes; the alarm flag rises when the registers match.
Tick ==
  /\ now < MaxTime
  /\ now' = now + 1
  /\ a1f' = (a1f \/ Offset[now + 1] = alarm)
  /\ struck' = (struck \/ (pc # "sleep" /\ ~Quiet(now + 1)))
  /\ UNCHANGED <<alarm, a1ie, mcuVars, running, timeVars,
                 eventVars, schedule, pc, caller, commands>>

WokenPc == IF pc = "sleep" THEN "check" ELSE pc

\* Mutant: disables the interrupt and leaves no word of it.
IsrSilent ==
  /\ IrqPending
  /\ pinEnabled' = FALSE
  /\ pc' = WokenPc
  /\ UNCHANGED <<rtcVars, powered, irqOn, flag, running, timeVars, eventVars,
                 schedule, caller, histVars>>

\* interruptCallback(): note the alarm, and disable the interrupt the level keeps raising.
Isr ==
  /\ IrqPending
  /\ flag' = TRUE
  /\ pinEnabled' = FALSE
  /\ pc' = WokenPc
  /\ UNCHANGED <<rtcVars, powered, irqOn, running, timeVars, eventVars, schedule,
                 caller, histVars>>

\* triggerEvent(), called from an interrupt: overwrites the one slot.
PostEvent ==
  /\ irqOn
  /\ events < MaxEvents
  /\ event' = "new"
  /\ events' = events + 1
  /\ struck' = (struck \/ pc # "sleep")
  /\ pc' = WokenPc
  /\ UNCHANGED <<rtcVars, mcuVars, running, timeVars, schedule,
                 caller, commands>>

\* Any other interrupt (USB) ends the sleep; a pending alarm would be served first.
UsbWake ==
  /\ pc = "sleep" /\ irqOn /\ ~IrqPending
  /\ pc' = "check"
  /\ UNCHANGED <<rtcVars, mcuVars, running, timeVars, eventVars,
                 schedule, caller, histVars>>

-----------------------------------------------------------------------------
(* mainLoopCallback().  An enabled interrupt is served before the next step. *)

At(step) == pc = step /\ ~IrqPending

LoopCheck ==
  /\ At("check")
  /\ \/ ~flag /\ ~Unprocessed /\ pc' = "poll" /\ UNCHANGED powered
     \/ (flag \/ Unprocessed) /\ running /\ pc' = "readflag" /\ powered' = TRUE
     \/ (flag \/ Unprocessed) /\ ~running /\ pc' = "rearm" /\ UNCHANGED powered
  /\ caller' = "loop"
  /\ UNCHANGED <<rtcVars, irqOn, pinEnabled, flag, running, timeVars, eventVars, schedule,
                 histVars>>

ReadAlarmFlagOnly ==  \* mutant: a pass for the alarm only
  /\ At("readflag")
  /\ a1f' = FALSE
  /\ pc' = IF a1f THEN "getnow" ELSE "poweroff"
  /\ UNCHANGED <<now, alarm, a1ie, mcuVars, running, timeVars,
                 eventVars, schedule, caller, histVars>>

\* rtc_->alarm(1): read the flag and clear it.
ReadAlarmFlag ==
  /\ At("readflag")
  /\ a1f' = FALSE
  /\ pc' = IF a1f \/ Unprocessed THEN "getnow" ELSE "poweroff"
  /\ UNCHANGED <<now, alarm, a1ie, mcuVars, running, timeVars,
                 eventVars, schedule, caller, histVars>>

PowerOff ==
  /\ At("poweroff")
  /\ powered' = FALSE
  /\ \/ caller = "loop" /\ pc' = "rearm"
     \/ caller = "cmd"  /\ pc' = "poll"
     \/ caller = "boot" /\ pc' = "check"
  /\ UNCHANGED <<rtcVars, irqOn, pinEnabled, flag, running, timeVars, eventVars, schedule,
                 caller, histVars>>

Rearm ==
  /\ At("rearm")
  /\ pinEnabled' = TRUE
  /\ pc' = "clearflag"
  /\ UNCHANGED <<rtcVars, powered, irqOn, flag, running, timeVars, eventVars, schedule,
                 caller, histVars>>

ClearTriggered ==
  /\ At("clearflag")
  /\ flag' = FALSE
  /\ pc' = "poll"
  /\ UNCHANGED <<rtcVars, powered, irqOn, pinEnabled, running, timeVars, eventVars,
                 schedule, caller, histVars>>

EnterSleep ==
  /\ At("presleep")
  /\ pc' = "sleep"
  /\ UNCHANGED <<rtcVars, mcuVars, running, timeVars, eventVars,
                 schedule, caller, histVars>>

-----------------------------------------------------------------------------
(* update() *)

\* Mutant: gives up before its time without arming the alarm again.
GetNowNoRearm ==
  /\ At("getnow")
  /\ current' = now
  /\ pc' = IF now < nextUpdate /\ ~Unprocessed THEN "poweroff" ELSE "rules"
  /\ UNCHANGED <<rtcVars, powered, irqOn, pinEnabled, flag, running, nextUpdate, lastUpdate,
                 eventVars, schedule, caller, histVars>>

GetNow ==
  /\ At("getnow")
  /\ current' = now
  /\ pc' = IF now < nextUpdate /\ ~Unprocessed THEN "clear" ELSE "rules"
  /\ UNCHANGED <<rtcVars, powered, irqOn, pinEnabled, flag, running, nextUpdate, lastUpdate,
                 eventVars, schedule, caller, histVars>>

\* Each rule looks at the event in the slot.
RunRules ==
  /\ At("rules")
  /\ event' = IF Unprocessed THEN "seen" ELSE event
  /\ pc' = "finish"
  /\ UNCHANGED <<rtcVars, mcuVars, running, timeVars, events,
                 schedule, caller, histVars>>

NextFromNow(t, next) ==  \* mutant: counts the instant of the pass as still to come
  /\ next = Never \/ next \in schedule
  /\ next >= t
  /\ \A c \in schedule : c >= t => next <= c

\* findOverallNextStateChangeTime(): next is the earliest change the rules still promise.
IsNextChange(t, next) ==
  /\ next = Never \/ next \in schedule
  /\ next > t
  /\ \A c \in schedule : c > t => next <= c

\* setCurrentEventAsProcessed() empties the slot, whatever is in it by now.
FinishUpdate ==
  /\ At("finish")
  /\ event' = "none"
  /\ lastUpdate' = current
  /\ \E next \in Instant : IsNextChange(current, next) /\ nextUpdate' = next
  /\ pc' = "clear"
  /\ UNCHANGED <<rtcVars, powered, irqOn, pinEnabled, flag, running, current, events,
                 schedule, caller, histVars>>

-----------------------------------------------------------------------------
(* setRtcInterrupt() *)

\* Enters the critical section and reads the flag; i2cWriteByte(), which runs when there is
\* a flag to clear, ends the section by enabling interrupts.
ClearAlarmFlag ==
  /\ At("clear")
  /\ irqOn' = a1f
  /\ a1f' = FALSE
  /\ pc' = "tear"
  /\ UNCHANGED <<now, alarm, a1ie, powered, pinEnabled, flag, running, timeVars, eventVars,
                 schedule, caller, histVars>>

\* setAlarm() writes one register at a time: until the last, old and new bytes are mixed.
TearAlarm ==
  /\ At("tear")
  /\ irqOn' = TRUE
  /\ alarm' \in Registers
  /\ pc' = "setalarm"
  /\ UNCHANGED <<now, a1f, a1ie, powered, pinEnabled, flag, running, timeVars, eventVars,
                 schedule, caller, histVars>>

SetAlarm ==
  /\ At("setalarm")
  /\ alarm' = AlarmFor(nextUpdate)
  /\ pc' = "armie"
  /\ UNCHANGED <<now, a1f, a1ie, mcuVars, running, timeVars,
                 eventVars, schedule, caller, histVars>>

ArmAlarm ==
  /\ At("armie")
  /\ a1ie' = TRUE
  /\ pc' = "armpin"
  /\ UNCHANGED <<now, alarm, a1f, mcuVars, running, timeVars,
                 eventVars, schedule, caller, histVars>>

ArmPin ==
  /\ At("armpin")
  /\ pinEnabled' = TRUE
  /\ pc' = "poweroff"
  /\ UNCHANGED <<rtcVars, powered, irqOn, flag, running, timeVars, eventVars, schedule,
                 caller, histVars>>

-----------------------------------------------------------------------------
(* Frames received over USB: SAVE_RULES and SET_RTC_TIME restart the runner. *)

PollNothing ==
  /\ At("poll")
  /\ pc' = "presleep"
  /\ UNCHANGED <<rtcVars, mcuVars, running, timeVars, eventVars,
                 schedule, caller, histVars>>

Command(step) ==
  /\ At("poll")
  /\ commands < MaxCommands
  /\ commands' = commands + 1
  /\ caller' = "cmd"
  /\ pc' = step
  /\ UNCHANGED <<rtcVars, irqOn, pinEnabled, flag, running, timeVars, eventVars, struck>>

\* handle_save_rules(): stop() comes before the rules are loaded again.
SaveRules == Command("stop") /\ UNCHANGED <<powered, schedule>>

\* handle_set_rtc_time(): the rules are loaded again first, and nothing stops the runner.
SetRtcTime ==
  /\ Command("settime")
  /\ powered' = TRUE
  /\ schedule' \in Schedules

WriteTime ==
  /\ At("settime")
  /\ now' \in Time
  /\ pc' = "start"
  /\ UNCHANGED <<alarm, a1f, a1ie, mcuVars, running, timeVars,
                 eventVars, schedule, caller, histVars>>

\* stop(): resetAll(), then the alarm's interrupt enable, then its flag.
Stop ==
  /\ At("stop")
  /\ running' = FALSE
  /\ powered' = TRUE
  /\ pc' = "stop_ie"
  /\ UNCHANGED <<rtcVars, irqOn, pinEnabled, flag, timeVars, eventVars, schedule, caller,
                 histVars>>

StopInterrupt ==
  /\ At("stop_ie")
  /\ a1ie' = FALSE
  /\ pc' = "stop_flag"
  /\ UNCHANGED <<now, alarm, a1f, mcuVars, running, timeVars,
                 eventVars, schedule, caller, histVars>>

StopFlag ==
  /\ At("stop_flag")
  /\ a1f' = FALSE
  /\ powered' = FALSE
  /\ schedule' \in Schedules
  /\ pc' = "start"
  /\ UNCHANGED <<now, alarm, a1ie, irqOn, pinEnabled, flag, running, timeVars, eventVars,
                 caller, histVars>>

StartUnpowered ==  \* mutant: leaves the power to its caller
  /\ At("start")
  /\ running' = FALSE
  /\ pc' = "start_now"
  /\ UNCHANGED <<rtcVars, powered, irqOn, pinEnabled, flag, timeVars, eventVars, schedule,
                 caller, histVars>>

Start ==
  /\ At("start")
  /\ running' = FALSE
  /\ powered' = TRUE
  /\ pc' = "start_now"
  /\ UNCHANGED <<rtcVars, irqOn, pinEnabled, flag, timeVars, eventVars, schedule, caller,
                 histVars>>

\* stepTo() takes the rules to the start time; update() then does so again.
StartNow ==
  /\ At("start_now")
  /\ current' = now
  /\ nextUpdate' = now
  /\ running' = TRUE
  /\ pc' = "getnow"
  /\ UNCHANGED <<rtcVars, powered, irqOn, pinEnabled, flag, lastUpdate, eventVars, schedule,
                 caller, histVars>>

-----------------------------------------------------------------------------
(* Faults and restarts. *)

\* An I2C transfer throws: main() catches it outside the loop and never returns to it.
\* Reading the time is the one transfer that does not run with interrupts disabled.
I2cThrow ==
  /\ I2cFaults
  /\ pc \in I2cSteps /\ ~IrqPending
  /\ irqOn' = (irqOn /\ pc \in {"getnow", "start_now"})
  /\ pc' = "dead"
  /\ UNCHANGED <<rtcVars, powered, pinEnabled, flag, running, timeVars, eventVars, schedule,
                 caller, histVars>>

\* What init() leaves behind; it starts the runner when it finds rules.  The registers
\* of the alarm are whatever they were, and the time is set to 1/1/2000.
Init ==
  /\ now = 0 /\ alarm \in Registers /\ a1f = FALSE /\ a1ie = FALSE
  /\ powered = TRUE /\ irqOn = TRUE /\ pinEnabled = TRUE
  /\ flag = FALSE /\ running = FALSE
  /\ current = 0 /\ nextUpdate = 0 /\ lastUpdate = 0
  /\ event = "none"
  /\ schedule \in Schedules
  /\ caller = "boot" /\ pc \in {"start", "check"}
  /\ events = 0 /\ commands = 0 /\ struck = FALSE

\* The processor restarts; the clock, on its battery, keeps the alarm's registers.
Reboot ==
  /\ commands < MaxCommands
  /\ commands' = commands + 1
  /\ now' = 0 /\ a1f' = FALSE /\ a1ie' = FALSE
  /\ powered' = TRUE /\ irqOn' = TRUE /\ pinEnabled' = TRUE
  /\ flag' = FALSE /\ running' = FALSE
  /\ current' = 0 /\ nextUpdate' = 0 /\ lastUpdate' = 0
  /\ event' = "none" /\ struck' = FALSE
  /\ schedule' \in Schedules
  /\ caller' = "boot" /\ pc' \in {"start", "check"}
  /\ UNCHANGED <<alarm, events>>

MainLoop ==
  \/ LoopCheck \/ ReadAlarmFlag \/ PowerOff \/ Rearm \/ ClearTriggered
  \/ PollNothing \/ EnterSleep
Update  == GetNow \/ RunRules \/ FinishUpdate
SetRtcInterrupt == ClearAlarmFlag \/ TearAlarm \/ SetAlarm \/ ArmAlarm \/ ArmPin
Restart == WriteTime \/ Stop \/ StopInterrupt \/ StopFlag \/ Start \/ StartNow

Next ==
  \/ MainLoop \/ Update \/ SetRtcInterrupt \/ Restart
  \/ SaveRules \/ SetRtcTime
  \/ Isr \/ Tick \/ PostEvent \/ UsbWake
  \/ I2cThrow \/ Reboot

Spec == Init /\ [][Next]_vars

\* The processor keeps executing, and the interrupt controller delivers what is pending.
Fairness == WF_vars(MainLoop \/ Update \/ SetRtcInterrupt \/ Restart) /\ WF_vars(Isr)

FairSpec == Spec /\ Fairness

-----------------------------------------------------------------------------
TypeOK ==
  /\ now \in Time
  /\ alarm \in Registers
  /\ a1f \in BOOLEAN /\ a1ie \in BOOLEAN
  /\ powered \in BOOLEAN /\ irqOn \in BOOLEAN /\ pinEnabled \in BOOLEAN
  /\ flag \in BOOLEAN /\ running \in BOOLEAN
  /\ current \in Time /\ nextUpdate \in Instant /\ lastUpdate \in Time
  /\ event \in Events
  /\ schedule \in Schedules
  /\ pc \in Steps
  /\ caller \in {"loop", "cmd", "boot"}
  /\ events \in 0 .. MaxEvents /\ commands \in 0 .. MaxCommands
  /\ struck \in BOOLEAN

\* The clock is powered and on the bus at every step that talks to it, whichever of
\* boot, a frame or the alarm led there (enablePower() and disablePower() are scattered
\* over start(), stop() and mainLoopCallback()).
PoweredAccess == pc \in I2cSteps => powered

\* A running device never goes to sleep without the alarm registers holding the next
\* update (or the first of next month), the alarm interrupt enabled and the clock's
\* power off, whatever interrupts came while it was awake.
SleepsArmed ==
  pc = "sleep" /\ running => a1ie /\ alarm = AlarmFor(nextUpdate) /\ ~powered

\* "Sets up the RTC interrupt to wake the device at the next update time": a device that
\* sleeps can be woken by its alarm, because the pin interrupt is enabled and no alarm is
\* noted that the main loop has yet to look at; as long as nothing has struck the main
\* loop while it was busy.
WakeNotLost == pc = "sleep" /\ ~struck => pinEnabled /\ irqOn /\ ~flag

\* The pin interrupt is disabled (interruptCallback() disables it, the alarm flag holds the
\* pin low) only for as long as the main loop is to be told of the alarm: when the device
\* sleeps with it disabled, the triggered flag is there for the next turn of the loop.
AlarmNotForgotten == pc = "sleep" /\ ~pinEnabled => flag

\* While the device sleeps with no interrupt on its way, the channels are what the rules
\* ask for now: every change due has been applied (nothing having struck a busy main loop).
OutputsCurrent ==
  pc = "sleep" /\ running /\ ~IrqPending /\ ~struck =>
    \A c \in schedule : c <= now => c <= lastUpdate

\* What excuses a device that owes something: an interrupt source struck while it was
\* busy, or an exception took it out of its main loop.
Excused == struck \/ pc = "dead"

\* Every change that becomes due while the runner runs is applied.
Due == running /\ \E c \in schedule : lastUpdate < c /\ c <= now
ChangesApplied == Due ~> ~Due \/ Excused

\* The rules are run with every event that is triggered while the runner runs, alarm or
\* no alarm (unless the runner is stopped first).
EventsServed == event = "new" /\ running ~> event = "seen" \/ ~running \/ Excused

\* "The rule runner will trigger the event next time mainLoopCallback is called": an event
\* is not marked as processed before the rules have been run with it.
EventNotSkipped == [][pc = "finish" /\ pc' = "clear" => event # "new"]_vars
=============================================================================
