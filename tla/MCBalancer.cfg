SPECIFICATION FairSpec
CONSTANTS
  c1 = c1
  c2 = c2
  k1 = k1
  k2 = k2
  p1 = p1
  p2 = p2
  Callers = {c1, c2}
  Keys = {k1}
  Providers = {p1, p2}
  ProviderOf <- MCProviderOf
  Prio <- MCPrio
  Threshold = 2
  CbTicks = 2
  NoTimer = NoTimer
  NoKey = NoKey
INVARIANTS
  TypeOK
  InflightBounded
  BreakerFollowsFailures
  BrokenKeyIsRemembered
PROPERTIES
  BrokenKeyHeals
