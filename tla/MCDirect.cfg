SPECIFICATION Spec
CONSTANTS
  N = 4
  Key <- FourKeys
  Time <- FourTimes
  Rejected = {}
  Malformed = {2}
  BatchSize = 2
  MaxRetries = 2
  FlushTicks = FALSE
  SinkKind = "direct"
  DedupEnabled = TRUE
  DLQEnabled = TRUE
  Faults = {"fetch", "commit", "redis", "ttl", "write"}
INVARIANTS NothingForgotten CommitCovered EveryRecordCounted
PROPERTY RetriesSpent
CHECK_DEADLOCK FALSE
