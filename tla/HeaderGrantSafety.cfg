\* A server that is signed in, authorized again, removed or added again: two requests
\* at a time, one crash, failed write or failed read.
SPECIFICATION Spec
CONSTANTS
  Flow = {f1, f2}
  Token = {n1, n2, n3}
  Lasting = {}
  Child = {c1, c2}
  Task = {t1, t2}
  Caller = {p1, p2}
  None = None
  MaxMishaps = 1
  CancelMaySwallow = TRUE
  AnswerMayBeGarbled = FALSE
SYMMETRY Symmetry
INVARIANTS
  TypeOK
  CredentialsBelongToServer
  HeaderFollowsFile
  OneRenewer
  NoGrantAbandoned
  LiveHeaderCurrent
  RejectionVisible
  RetryingIsTrue
PROPERTIES
  ImplementsLedger
  FileFirst
  SendsWhatIsStored
  OneExchangePerState
CHECK_DEADLOCK FALSE
