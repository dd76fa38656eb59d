SPECIFICATION Spec
CONSTANTS
  N = 4
  Key <- FourKeys
  Time <- FourTimes
  Rejected = {2}
  Malformed = {}
  BatchSize = 2
  MaxRetries = 1
  FlushTicks = TRUE
  SinkKind = "timescale"
  DedupEnabled = TRUE
  DLQEnabled = TRUE
  Faults = {"crash", "fetch", "commit", "dlq", "db"}
INVARIANTS SingleOwner NothingForgotten Phases OneRowPerKey
CHECK_DEADLOCK FALSE
