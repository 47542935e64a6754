SPECIFICATION FairSpec
CONSTANTS
  Jobs = {j1, j2}
  Workers = {w1, w2}
  CLAIM_BATCH_SIZE = 2
  MaxAttempts = 3
  BackoffBase = 1
  MaxOverdue = 1
  MaxFaults = 2
INVARIANTS ExclusiveClaim EffectsAtMostOnce LossesAreFaults
PROPERTIES ImplementsJobQueue QueuedSettlesOrIsLost
