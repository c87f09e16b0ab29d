SPECIFICATION Spec
CONSTANTS
  Rows = 2
  Pages = 2
  PageSize = 2
  Byte = {0, 1, 2, 3, 255}
  Erased = 255
  None = None
  Rules <- MCRules
  MaxRules = 3
  MaxRestarts = 2
INVARIANT ReturnsStoredRule
