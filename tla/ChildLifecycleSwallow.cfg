\* The client may swallow the cancel of a start: does the teardown get past it?
SPECIFICATION FairSpec
CONSTANTS
  Key = {u}
  AdminKey = {}
  Rev = {r1}
  Call = {c1, c2, c3}
  Reader = {l1}
  None = None
  BuildMayFail = FALSE
  CancelMaySwallow = TRUE
PROPERTIES
  CancelledStartEnds
CHECK_DEADLOCK FALSE
