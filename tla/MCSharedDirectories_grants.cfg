\* Two handlers at a time, one fault, one module update.
CONSTANTS
  Tokens = {"mailApp", "noteApp", "guestApp", "native"}
  Haps = {"mailApp", "noteApp", "guestApp"}
  Targets = {"mailApp", "native"}
  Callers = {"noteApp", "guestApp"}
  UserOf <- MCUserOf
  Policies <- MCPolicies
  Requests <- MCRequests
  CleanPaths <- MCCleanPaths
  Bundles = {"mail", "note"}
  BundleOf <- MCBundleOf
  Profiles <- MCProfiles
  Threads = {t1, t2}
  t1 = t1
  t2 = t2
  Scenarios <- MCScenarios
  MaxShareConfigCount = 2
  Updates <- MCUpdates
  MaxCalls = 2
  MaxUpdates = 1
  MaxFaults = 1
SPECIFICATION Spec
SYMMETRY Symmetry
INVARIANTS
  MapIsWhole
  RuleIsRecorded
  SharedIsWithinScope
PROPERTIES
  OkMeansDone
  OtherUsersKeep
CHECK_DEADLOCK FALSE
