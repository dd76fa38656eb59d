SPECIFICATION FairSpec
CONSTANTS
  N = 3
  Key <- DistinctKeys
  Time <- SameTime
  Rejected = {2}
  Malformed = {3}
  BatchSize = 2
  MaxRetries = 1
  FlushTicks = TRUE
  SinkKind = "timescale"
  DedupEnabled = FALSE
  DLQEnabled = TRUE
  Faults = {"crash", "sigterm", "fetch", "commit", "db"}
INVARIANTS CommitWindow ExitDrained
PROPERTIES ShutdownCompletes LogConsumed
CHECK_DEADLOCK FALSE
