\* Every small input of the pure algorithms.
CONSTANTS
  Resolve <- MCResolve
  UidMinLimit = 10
  MaxJsonDepth = 2
  Patterns <- MCPatterns
  AllowLists <- MCAllowLists
  SysCalls <- MCSysCalls
  ControlProfiles <- MCProfiles
  JsonValues <- MCJsonValues
  ShareConfigs <- MCShareConfigs
SPECIFICATION AnyInput
INVARIANTS
  PatternsFollowGrammar
  FilterGivesVerdict
  StreamReadsBack
  DepthIsHeight
  SharedIsDeclared
CHECK_DEADLOCK FALSE
