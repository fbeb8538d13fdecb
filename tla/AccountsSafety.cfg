\* A user, a group and a private server, each with two lives; two requests at a time;
\* one write that fails between two stores, and any number of restarts.
SPECIFICATION Spec
CONSTANTS
  Request = {p1, p2}
  Token = {t1}
  Root = Root
  None = None
  MaxTokens = 1
  MaxLives = 3
  MaxMade = 3
  MaxRules = 1
  MaxMishaps = 1
SYMMETRY Symmetry
INVARIANTS
  TypeOK
  NothingInherited
  OwnerLives
  ResetRevokes
  CookieEarned
PROPERTIES
  SwapEarned
  SnapshotCurrent
  RulesStay
CHECK_DEADLOCK FALSE
