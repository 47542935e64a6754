SPECIFICATION LimiterSpec
CONSTANTS
  Agents = {a1, a2}
  Threads = {h1, h2}
  Burst = 2
  IdleTTL = 1
  SweepInterval = 1
  MaxScan = 1
  NoBucket = NoBucket
  Horizon = 2
SYMMETRY Symmetry
INVARIANTS WithinQuota NobodyRefusedEarly
