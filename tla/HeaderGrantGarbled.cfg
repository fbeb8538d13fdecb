\* The token endpoint answers 2xx with a body that is no JSON.
SPECIFICATION Spec
CONSTANTS
  Flow = {f1}
  Token = {n1}
  Lasting = {}
  Child = {c1}
  Task = {t1, t2}
  Caller = {p1}
  None = None
  MaxMishaps = 0
  CancelMaySwallow = FALSE
  AnswerMayBeGarbled = TRUE
PROPERTIES
  OneExchangePerState
CHECK_DEADLOCK FALSE
