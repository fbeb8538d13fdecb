\* A token without an expiry, and a read that fails once.
SPECIFICATION Spec
CONSTANTS
  Flow = {f1}
  Token = {n1}
  Lasting = {n1}
  Child = {c1}
  Task = {t1, t2}
  Caller = {p1}
  None = None
  MaxMishaps = 1
  CancelMaySwallow = FALSE
  AnswerMayBeGarbled = FALSE
INVARIANTS
  RetryingIsTrue
CHECK_DEADLOCK FALSE
