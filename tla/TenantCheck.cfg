SPECIFICATION TenantSpec
CONSTANTS
  Voters = {v1, v2}
  Proposals = {g1, g2}
  QuorumPct = 60
  MaxOpeners = 1
  Sandboxes = {s1}
  People = {p1, p2, p3}
  Operators = {o1, o2}
  CohortLimit = 1
  MaxFaults = 1
SYMMETRY TenantSymmetry
INVARIANTS
  GuideInv
  DecisionJustified
  PromotionIsStaged
  CohortBounded
CHECK_DEADLOCK FALSE
