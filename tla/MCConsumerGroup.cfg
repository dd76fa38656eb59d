SPECIFICATION FairSpec
CONSTANTS
  Members = {"m1", "m2"}
  Partitions = {"p1", "p2"}
  End <- TwoNone
  KeyOf <- RetriedKeys
  TimeOf <- RetriedTimes
  NoMember = "none"
  Deployments <- Settings
  MaxMoves = 2
INVARIANTS TypeOK GroupCovered GroupAtLeastOnce GroupOneRow
PROPERTIES CommitsAdvance AllStored
CHECK_DEADLOCK FALSE
