\* Both channels, duplicated events, faults and crashes.
CONSTANTS
  NoToken = NoToken
  NoRecord = NoRecord
  Apps = {"kept", "odd"}
  Tokens = {"k1", "k2", "o1"}
  Owner <- TwoApps
  PreserveConfig <- Configs
  Policies = {"p"}
  Channels = {"subscriber", "demand"}
  DoubleDelivery = TRUE
  MaxTime = 1
  MaxEvents = 4
  MaxFaults = 1
SPECIFICATION Spec
INVARIANTS
  OnlyOwnPolicies
  PreservedNeverErased
CHECK_DEADLOCK FALSE
