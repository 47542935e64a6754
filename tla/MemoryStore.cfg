SPECIFICATION FairSpec
CONSTANTS
  Requests = {r1, r2, r3}
  Memories = {m1, m2}
  Stored = {m1}
  NoOne = NoOne
  PoolSize = 2
  LocalLane = FALSE
  DetectConflicts = TRUE
  MaxFaults = 1
INVARIANTS LatestVersionAgrees NumbersNeverCollide LabelledBeforeStaysLocal
PROPERTY EveryRequestEnds
CHECK_DEADLOCK FALSE
