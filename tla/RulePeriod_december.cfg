SPECIFICATION FairSpec
CONSTANTS
  Rules <- MCMonthly
  StartDays <- MCNovember
  LoadDays <- MCLoadDays
  Span = 64
PROPERTY
  MonthlyPassEnds
CHECK_DEADLOCK FALSE
