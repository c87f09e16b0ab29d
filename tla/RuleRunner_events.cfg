SPECIFICATION Spec
CONSTANTS
  MaxTime = 6
  MonthOf <- MCMonthOf
  Offset <- MCOffset
  Schedules <- MCSchedules
  I2cFaults = FALSE
  MaxEvents = 1
  MaxCommands = 0
PROPERTY EventNotSkipped
CHECK_DEADLOCK FALSE
