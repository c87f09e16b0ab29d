SPECIFICATION Spec
CONSTANTS
  MaxTime = 6
  MonthOf <- MCMonthOf
  Offset <- MCOffset
  Schedules <- MCSchedules
  I2cFaults = FALSE
  MaxEvents = 0
  MaxCommands = 0
INVARIANT AlarmNotForgotten
CHECK_DEADLOCK FALSE
