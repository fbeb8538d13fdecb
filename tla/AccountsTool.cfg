\* Deleted and created again while a request of /mcp waits for its tool.
SPECIFICATION Spec
CONSTANTS
  Request = {p1, p2}
  Token = {t1}
  Root = Root
  None = None
  MaxTokens = 1
  MaxLives = 3
  MaxMade = 3
  MaxRules = 1
  MaxMishaps = 1
SYMMETRY Symmetry
PROPERTY NoWriteByDeleted
CHECK_DEADLOCK FALSE
