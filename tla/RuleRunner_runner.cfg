SPECIFICATION FairSpec
CONSTANTS
  MaxTime = 6
  MonthOf <- MCMonthOf
  Offset <- MCOffset
  Schedules <- MCSchedules
  I2cFaults = TRUE
  MaxEvents = 1
  MaxCommands = 2
INVARIANTS TypeOK PoweredAccess SleepsArmed WakeNotLost OutputsCurrent
PROPERTIES ChangesApplied EventsServed
CHECK_DEADLOCK FALSE
