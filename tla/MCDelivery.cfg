SPECIFICATION Spec
CONSTANTS
  N = 3
  Key <- DistinctKeys
  Time <- SameTime
  Rejected = {2}
  Malformed = {3}
  BatchSize = 2
  MaxRetries = 2
  FlushTicks = FALSE
  SinkKind = "timescale"
  DedupEnabled = FALSE
  DLQEnabled = TRUE
  Faults = {"crash", "sigterm", "fetch", "commit", "db"}
INVARIANTS TypeOK CommitCovered
PROPERTIES ImplementsDelivery RetriesSpent
CHECK_DEADLOCK FALSE
