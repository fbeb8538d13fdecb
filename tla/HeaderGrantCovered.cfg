\* A grant that expires and a provider that may reject its refresh; nothing else fails.
SPECIFICATION Spec
CONSTANTS
  Flow = {f1}
  Token = {n1}
  Lasting = {}
  Child = {c1}
  Task = {t1, t2}
  Caller = {p1}
  None = None
  MaxMishaps = 0
  CancelMaySwallow = FALSE
  AnswerMayBeGarbled = FALSE
PROPERTIES
  RejectionStays
CHECK_DEADLOCK FALSE
