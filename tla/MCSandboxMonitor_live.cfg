SPECIFICATION FairSpec
CONSTANTS
  ReportSizes <- MCSmallReports
  DetailSizes <- MCNoDetails
  MaxBody = 2
  MaxQueueBytes = 3
  MaxQueueCount = 1
  MaxPending = 1
  MaxAttempts = 2
  MaxEvents = 1
  MaxRequests = 1
  MaxFaults = 2
CHECK_DEADLOCK FALSE
PROPERTY ChildIsReaped
PROPERTY ReconnectEnds
