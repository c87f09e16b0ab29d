SPECIFICATION Spec
CONSTANTS
  Rules <- MCRules
  StartDays <- MCEpoch
  LoadDays <- MCLoadDays
  Span = 64
INVARIANTS
  TypeOK
  RoundTrip
  
  PeriodsAligned
  ClockReadsToday
PROPERTIES
  DatesAreCivil
  TurnsForward
CHECK_DEADLOCK FALSE
