SPECIFICATION Spec
CONSTANTS
  Rules <- MCRules
  Undecodable <- MCUndecodable
  Garbled = Garbled
  BufferSize = 6
  Capacity = 9
  MaxRequests = 3
  MaxLost = 2
  MaxRestarts = 1
  MaxReplugs = 1
INVARIANTS TypeOK AckedMeansDone StoredWasSent BufferHolds RunsStoredRules
CHECK_DEADLOCK FALSE
