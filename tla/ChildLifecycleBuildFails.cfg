\* The transport may fail to build: does a start still settle?
SPECIFICATION FairSpec
CONSTANTS
  Key = {u}
  AdminKey = {}
  Rev = {r1}
  Call = {c1, c2, c3}
  Reader = {l1}
  None = None
  BuildMayFail = TRUE
  CancelMaySwallow = FALSE
PROPERTIES
  StartSettles
CHECK_DEADLOCK FALSE
