SPECIFICATION FairSpec
CONSTANTS
  Guides = {g1, g2}
  Procs = {p1, p2}
  Grace = 1
  MaxTime = 4
  MaxOps = 6
  MaxRacing = 2
  MaxFaults = 1
INVARIANTS
  WipeInv
PROPERTIES
  SweptAfterGrace
  AnonymisedNeverActive
  LeaverGoes
  KeysDie
CHECK_DEADLOCK FALSE
