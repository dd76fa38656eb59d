SPECIFICATION Spec
CONSTANTS
  N = 3
  Key <- RetriedKeys
  Time <- RetriedTimes
  Rejected = {}
  Malformed = {}
  BatchSize = 2
  MaxRetries = 1
  FlushTicks = FALSE
  SinkKind = "timescale"
  DedupEnabled = TRUE
  DLQEnabled = TRUE
  Faults = {"crash"}
INVARIANT CommitCovered
CHECK_DEADLOCK FALSE
