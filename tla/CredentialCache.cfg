SPECIFICATION Spec
CONSTANTS
  k1 = k1
  k2 = k2
  r1 = r1
  Credentials = {k1, k2}
  Requests = {r1, r2}
  Capacity = 1
  TTL = 1
  Lifetime <- Lifetimes
  NoExpiry = NoExpiry
  Asks <- Asked
  MaxLag = 1
  MaxRevoked = 1
  Horizon = 2
  MaxJumps = 1
INVARIANTS RevocationTakesEffect NeverServedPastExpiry CacheWithinCapacity
PROPERTY OnlyVerifiedAreCached
