SPECIFICATION LoadShedSpec
CONSTANTS
  Calls <- TwoCalls
  Size <- FullBatches
  BatchSize = 2
  Devices = 2
  Workers = {"w1"}
  QueueSize = 2
  Shed = TRUE
  WritesMayFail = FALSE
INVARIANTS ReportHonest CrashLossBounded
PROPERTIES BoundedBuffer RunReturns CallsReturn
CHECK_DEADLOCK FALSE
