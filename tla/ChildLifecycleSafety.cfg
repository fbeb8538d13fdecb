\* One user-owned server, two revisions, four operations, a start that may fail
\* to build and a library that may swallow a cancel.
SPECIFICATION Spec
CONSTANTS
  Key = {u}
  AdminKey = {}
  Rev = {r1, r2}
  Call = {c1, c2, c3, c4}
  Reader = {l1}
  None = None
  BuildMayFail = TRUE
  CancelMaySwallow = TRUE
SYMMETRY Symmetry
INVARIANTS
  TypeOK
  PublishedImpliesApproved
  OneProcessPerKey
  SettledStatus
  NoCloseUnderLease
PROPERTIES
  RecordChangesUnderLock
  OnlyReviewedCodeRuns
  ImplementsService
CHECK_DEADLOCK FALSE
