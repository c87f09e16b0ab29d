SPECIFICATION Spec
CONSTANTS
  Rows = 2
  Pages = 2
  PageSize = 2
  Byte = {1, 255}
  Erased = 255
  None = None
  Payloads <- MCPayloads
  Crossing = TRUE
  Erasing = FALSE
  MaxFailures = 1
PROPERTY WritesLand
