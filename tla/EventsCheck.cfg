SPECIFICATION EventsSpec
CONSTANTS
  a = a
  b = b
  o1 = o1
  o2 = o2
  o3 = o3
  s1 = s1
  s2 = s2
  h1 = h1
  d1 = d1
  Tenants = {a, b}
  Ops = {o1, o2, o3}
  Subs = {s1, s2}
  TenantOf <- CheckTenantOf
  SubTenant <- CheckSubTenant
  SelfOps = {o2}
  Matches <- CheckMatches
  Workers = {w1, w2}
  Hooks = {h1}
  Deliveries = {d1}
  HookOf <- CheckHookOf
  MaxAttempts = 3
  Threshold = 1
  Undecryptable = {}
  CronLock = FALSE
  SlowWorkers = FALSE
  MaxFaults = 2
  MaxFailures = 1
INVARIANTS
  ChainVerifies
  EventCountIsTipSeq
  ChainInv
  DeliveriesAnchored
  FanoutIsWhole
  RowLockInv
  DuplicateHasCause
PROPERTIES
  LogSpec
  RaceHasWinner
  LedgerSpec
  EveryDeliverySettles
CHECK_DEADLOCK FALSE
