SPECIFICATION Spec
CONSTANTS
  Guides = {g1, g2}
  Procs = {p1}
  Grace = 1
  MaxTime = 2
  MaxOps = 7
  MaxRacing = 0
  MaxFaults = 0
INVARIANT
  OneGuideInForce
CHECK_DEADLOCK FALSE
