SPECIFICATION FairSpec
CONSTANTS
  s1 = s1
  d1 = d1
  Workers = {w1}
  Subs = {s1}
  Deliveries = {d1}
  SubOf <- OneDelivery
  MaxAttempts = 3
  Threshold = 1
  Undecryptable = {s1}
  CronLock = TRUE
  SlowWorkers = FALSE
  MaxFaults = 0
  MaxFailures = 1
PROPERTY
  EveryDeliverySettles
CHECK_DEADLOCK FALSE
