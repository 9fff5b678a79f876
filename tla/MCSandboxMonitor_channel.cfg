SPECIFICATION Spec
CONSTANTS
  ReportSizes <- MCReportSizes
  DetailSizes <- MCDetailSizes
  MaxBody = 2
  MaxQueueBytes = 3
  MaxQueueCount = 2
  MaxPending = 1
  MaxAttempts = 2
  MaxEvents = 2
  MaxRequests = 2
  MaxFaults = 2
CHECK_DEADLOCK FALSE
INVARIANT QueueWithinBudget
INVARIANT SleepsOnlyIfArmed
INVARIANT NothingKeptForNobody
INVARIANT OneVerdictPerEvent
INVARIANT StreamInOrder
PROPERTY HangupWaitsForRequests
