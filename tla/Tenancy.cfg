SPECIFICATION FairSpec
CONSTANTS
  ag1 = ag1
  t1 = t1
  t2 = t2
  None = None
  Agents = {ag1}
  Tenants = {t1, t2}
  Replicas = {r1, r2}
  Envs <- OneAgent
  Registered = TRUE
  Rows = {i1}
  Mems = {m1}
  Deleters = {d1}
  MaxUuid = 2
  MaxFaults = 1
INVARIANTS OnePlanEver OwnedRowsAgree
PROPERTIES RefusedOnlyForACompaction EveryStartEnds
CHECK_DEADLOCK FALSE
