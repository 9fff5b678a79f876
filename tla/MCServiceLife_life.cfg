\* Three calls, two at a time, on a file of any version, with one fault.
CONSTANTS
  Threads = {"t1", "t2"}
  Keys = {"a", "b"}
  Ops <- MCOps
  InitialVersions = {0, 1, 5}
  MaxOps = 3
  MaxFaults = 1
SPECIFICATION FairSpec
INVARIANTS
  StoreIsUsable
PROPERTIES
  KeepsTable
  ComesToRest
CHECK_DEADLOCK FALSE
