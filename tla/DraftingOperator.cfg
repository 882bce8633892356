SPECIFICATION Spec
CONSTANTS
  Inbound = {1}
  Admins = {a1}
  Backfills = {b1, b2}
  FAILURE_THRESHOLD = 3
  QUARANTINE_THRESHOLD = 2
  WINDOW = 1
  MIN_PAUSE = 1
  THRASH_WINDOW = 2
  MaxPerPass = 1
  MaxFaults = 0
PROPERTIES
  OperatorPauseStands
CHECK_DEADLOCK FALSE
