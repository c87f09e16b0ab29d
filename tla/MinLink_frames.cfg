SPECIFICATION Spec
CONSTANTS
  Frames <- MCFrames
  RxSize = 7
  MaxFrames = 3
  MaxGaps = 2
  MaxPlugs = 1
INVARIANTS
  TypeOK
  OnlySentFrames
  Resynchronises
CHECK_DEADLOCK FALSE
