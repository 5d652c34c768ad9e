SPECIFICATION Spec
CONSTANTS
  t1 = t1
  t2 = t2
  t3 = t3
  Threads = {t1, t2, t3}
  Window = 3
  Lag = 1
  Rpm = 2
  Tpm = 1
  MaxTokens = 1
  Budget = 2
  MaxCost = 1
  MaxFails = 2
  BaseLock = 1
  MaxLock = 3
  Lifetime = 2
  MaxClock = 5
SYMMETRY Symmetric
INVARIANTS
  TypeOK
  FailsBounded
  TokenEnds
  BudgetHolds
PROPERTIES
  KeepsPromise
