SPECIFICATION Spec
CONSTANTS
  a = a
  o1 = o1
  o2 = o2
  Tenants = {a}
  Ops = {o1, o2}
  Subs = {}
  TenantOf <- PairTenantOf
  SubTenant <- NoFunction
  SelfOps = {}
  Matches <- NoPairs
INVARIANT
  EveryActionRecorded
CHECK_DEADLOCK FALSE
