SPECIFICATION Spec
CONSTANTS
  Measurements <- SomeResults
  Readmes <- SomeReadmes
  LatencyPhase = 2
  MaxTime = 2
  MaxFiles = 3
INVARIANT ChartsRegenerated
CHECK_DEADLOCK FALSE
