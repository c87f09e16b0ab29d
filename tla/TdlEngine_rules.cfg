SPECIFICATION Spec
CONSTANTS
  Programs <- MCPrograms
  Channel = {0, 1}
  Memory = {"inactive", "garbage"}
  MaxTime = 9
  MaxEvents = 2
  MaxLoads = 1
INVARIANTS TypeOK ActiveAsDefined NoMissedChange NextUpdateAhead OutputsFollowRules
CHECK_DEADLOCK FALSE
PROPERTIES EventsTakeEffect 
