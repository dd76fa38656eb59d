SPECIFICATION LoadSpec
CONSTANTS
  Calls <- TwoCalls
  Size <- FullBatches
  BatchSize = 3
  Devices = 2
  Workers = {"w1", "w2"}
  QueueSize = 2
  Shed = FALSE
  WritesMayFail = FALSE
INVARIANT DeviceOrder
CHECK_DEADLOCK FALSE
