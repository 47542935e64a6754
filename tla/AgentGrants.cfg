SPECIFICATION GrantsSpec
CONSTANTS
  CredentialIds = {k1}
  Agents = {a1, a2}
  Tenants = {t1, t2}
  Writers = {w1, w2}
  Absent = Absent
  Unmapped = Unmapped
SYMMETRY Symmetry
INVARIANTS NeverBothModes GrantsFollowTheirAgents RepairsNeverRefused
PROPERTIES AuthorityIsGiven
