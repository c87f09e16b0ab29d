SPECIFICATION FairSpec
CONSTANTS
  Rows = 2
  Pages = 2
  PageSize = 2
  Byte = {1, 255}
  Erased = 255
  None = None
  Payloads <- MCPayloads
  Crossing = TRUE
  Erasing = TRUE
  MaxFailures = 1
INVARIANT TypeOK
PROPERTIES ImplementsMemory FlushSaves   
