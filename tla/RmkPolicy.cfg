SPECIFICATION Spec
CONSTANTS
  Workers = {w1, w2}
  Turns = {t1}
  MinEpisodes = 1
  MIN_EPISODES_PER_POLICY = 2
  MaxPolicies = 3
  MaxEpisodes = 5
  MaxFeedback = 1
  MaxFaults = 1
SYMMETRY Symmetry
INVARIANT EpisodesAreItsOwn
PROPERTIES LastPolicyLostOnlyToARace RejectedForItsPredecessor CompoundsNoKnownRegression
