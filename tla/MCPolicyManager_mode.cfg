\* One thread, two modes of a directory and a file below it, one fault.
CONSTANTS
  t1 = t1
  t2 = t2
  Tokens = {k1}
  Threads = {t1}
  Paths <- MCPaths
  AtOrAbove <- MCAtOrAbove
  NoInherit = {}
  Policies <- ModePolicies
  Requests <- ModeRequests
  UserGranted = {}
  BatchSize = 1
  MaxCalls = 2
  MaxFaults = 1
SPECIFICATION FairSpec
INVARIANTS
  NoRightFromNowhere
PROPERTIES
  EveryCallReturns
CHECK_DEADLOCK FALSE
