\* No symmetry.  One flow; a request may remove the server or restart it.
SPECIFICATION FairSpec
CONSTANTS
  Flow = {f1}
  Token = {n1, n2}
  Lasting = {}
  Child = {c1}
  Task = {t1, t2}
  Caller = {p1, p2}
  None = None
  MaxMishaps = 1
  CancelMaySwallow = FALSE
  AnswerMayBeGarbled = TRUE
PROPERTIES
  CallbackAnswered
  HeaderCatchesUp
CHECK_DEADLOCK FALSE
