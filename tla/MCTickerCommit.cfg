SPECIFICATION Spec
CONSTANTS
  N = 3
  Key <- DistinctKeys
  Time <- SameTime
  Rejected = {}
  Malformed = {}
  BatchSize = 2
  MaxRetries = 1
  FlushTicks = TRUE
  SinkKind = "timescale"
  DedupEnabled = FALSE
  DLQEnabled = TRUE
  Faults = {}
INVARIANT CommitCovered
CHECK_DEADLOCK FALSE
