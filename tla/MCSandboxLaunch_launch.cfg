\* Two launches and one fault, kill, reuse of the caller's pid or deletion.
CONSTANTS
  Launches = {"l1", "l2"}
  Scenarios <- MCScenarios
  Names = {"n", "a1", "a2"}
  Permissions = {"dir", "custom"}
  Targets = {"proc", "sys", "data", "bundle", "home", "desk", "desk/", "misc"}
  AutoName <- MCAutoName
  SystemMounts = {"sys"}
  AppMounts <- MCAppMounts
  Conditional <- MCConditional
  Location <- MCLocation
  Within <- MCWithin
  MaxTroubles = 1
SPECIFICATION Spec
INVARIANTS
  RunsConfined
  RefusalHasCause
  LockIsReturned
PROPERTIES
  LaunchSettles
  KeepsContract
CHECK_DEADLOCK FALSE
