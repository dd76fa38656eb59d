SPECIFICATION FairSpec
CONSTANTS
  c1 = c1
  c2 = c2
  Calls = {c1, c2}
  Size <- ThreeEvents
  Workers = {"w1", "w2"}
  QueueSize = 1
  Shed = FALSE
  WritesMayFail = TRUE
INVARIANTS TypeOK AcceptedAccounted NoSendOnClosed ExitClean ErrCountBounds
PROPERTIES ImplementsBackpressure CallsReturn ShutdownCompletes
CHECK_DEADLOCK FALSE
