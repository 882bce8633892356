SPECIFICATION RacesSpec
CONSTANTS
  job = job
  health = health
  j1 = j1
  h1 = h1
  h2 = h2
  Crons = {job, health}
  HealthCheck = health
  Runs = {j1, h1, h2}
  CronOf <- RacingChecks
  Interval = 2
  Failing = 1
  MaxTime = 4
  QuietAfter = 1
  MaxFaults = 1
  Members = {u1}
  Closers = {c1, c2}
  MonthLength = 1
  Plans <- SomePlans
  Horizon = 2
SYMMETRY RacesSymmetry
INVARIANTS
  LockInv
  OneRunPerCron
  AlertsSpaced
  ClosedIsFair
CHECK_DEADLOCK FALSE
