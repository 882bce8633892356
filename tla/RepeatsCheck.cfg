SPECIFICATION RepeatsSpec
CONSTANTS
  r1 = r1
  r2 = r2
  r3 = r3
  Requests = {r1, r2, r3}
  BodyOf <- TwoBodies
  TTL = 1
  MaxTime = 3
  MaxFaults = 1
  Staff = {m1}
  Tabs = {t1}
  Ingests = {r1, r2}
  MaxAuths = 2
  MaxTokens = 2
  Assignee = o
  Admins = {a1, a2}
  Newcomers = {a2}
  Runs = {r1, r2}
  MaxWeek = 2
  MaxMoves = 1
SYMMETRY RepeatsSymmetry
INVARIANTS
  ReplayInv
  OncePerWindow
  MailInv
  TellInv
  BadNewsArrives
PROPERTIES
  RetryGetsOriginal
  HealthyAuthKept
CHECK_DEADLOCK FALSE
