SPECIFICATION SweepsSpec
CONSTANTS
  p1 = p1
  q1 = q1
  p2 = p2
  p3 = p3
  p4 = p4
  Tenants = {t1}
  Passes = {p1, q1, p2, p3, p4}
  DayOf <- TwiceThenDaily
  ReAlert = 1
  LockOn = TRUE
  MaxSeq = 2
  TamperUntil = 1
  MaxDay = 4
  MaxFaults = 1
  job = job
  health = health
  j1 = j1
  h1 = h1
  Crons = {job, health}
  HealthCheck = health
  Runs = {j1, h1}
  CronOf <- OneCheck
  Interval = 1
  Failing = 3
  LastTick = 5
  QuietAfter = 1
  Requests = {"r1"}
  Window = 1
  Writable = {"userCultureGuide"}
  Horizon = 3
  MaxWrites = 1
INVARIANTS
  OneAlertPerTamper
  SweepIsThorough
PROPERTIES
  TamperIsAlerted
  StallIsAlerted
  DueTenantGoes
CHECK_DEADLOCK FALSE
