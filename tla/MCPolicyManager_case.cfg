\* Two threads, one token, a file in two letter cases.
CONSTANTS
  t1 = t1
  t2 = t2
  Tokens = {k1}
  Threads = {t1, t2}
  Paths <- MCPaths
  AtOrAbove <- MCAtOrAbove
  NoInherit = {}
  Policies <- CasePolicies
  Requests <- CaseRequests
  UserGranted <- FileGranted
  BatchSize = 1
  MaxCalls = 2
  MaxFaults = 1
SPECIFICATION Spec
SYMMETRY Symmetry
INVARIANTS
  PersistenceIsEarned
  HandlersAnswerTruthfully
PROPERTIES
  RowOutlivesRule
CHECK_DEADLOCK FALSE
