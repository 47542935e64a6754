SPECIFICATION FairSpec
CONSTANTS
  Jobs = {j1, j2}
  Workers = {w1, w2}
  CLAIM_BATCH_SIZE = 2
  MaxAttempts = 2
  BackoffBase = 1
  MaxOverdue = 1
  MaxFaults = 1
PROPERTY QueuedSettles
