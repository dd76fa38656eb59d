SPECIFICATION Spec
CONSTANTS
  Measurements <- SomeResults
  Readmes <- SomeReadmes
  LatencyPhase = 2
  MaxTime = 2
  MaxFiles = 3
INVARIANTS TypeOK HeadlinesHonest
PROPERTIES VerdictsCurrent ReadmeKept
CHECK_DEADLOCK FALSE
