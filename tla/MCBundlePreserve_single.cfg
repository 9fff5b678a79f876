\* One channel, no faults: a preserved and a removed application.
CONSTANTS
  NoToken = NoToken
  NoRecord = NoRecord
  Apps = {"kept", "dropped"}
  Tokens = {"k1", "k2", "k3", "d1", "d2"}
  Owner <- TwoApps
  PreserveConfig <- Configs
  Policies = {"p", "q"}
  Channels = {"subscriber"}
  DoubleDelivery = FALSE
  MaxTime = 0
  MaxEvents = 5
  MaxFaults = 0
SPECIFICATION Spec
INVARIANTS
  RowsFollowApplication
CHECK_DEADLOCK FALSE
