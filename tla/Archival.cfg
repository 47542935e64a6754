SPECIFICATION Spec
CONSTANTS
  m1 = m1
  m2 = m2
  Sources = {m1, m2}
  CreatedAt <- Ages
  Batches = {b1, b2}
  NoBatch = NoBatch
  Compactors = {c1, c2}
  Restorers = {x1, x2}
  MinMemories = 2
  FetchLimit = 2
  Facts = 1
  MaxTouches = 1
  MaxFaults = 1
SYMMETRY Symmetry
INVARIANTS RestoreRunsOnce ArchivedNamesItsBatch CompressedBeforeArchived UndisturbedRestoreReverts
CHECK_DEADLOCK FALSE
