\* One user-owned server and three operations; the transport can be built and a
\* cancel takes effect.  No symmetry: the properties are liveness properties.
SPECIFICATION FairSpec
CONSTANTS
  Key = {u}
  AdminKey = {}
  Rev = {r1}
  Call = {c1, c2, c3}
  Reader = {l1}
  None = None
  BuildMayFail = FALSE
  CancelMaySwallow = FALSE
PROPERTIES
  EveryCallReturns
  StartSettles
CHECK_DEADLOCK FALSE
