SPECIFICATION FairGuardSpec
CONSTANTS
  t1 = t1
  t2 = t2
  t3 = t3
  Threads <- MCThreads
  MaxCalls = 2
  MaxVaults = 3
  NoVault = NoVault
INVARIANTS
  GuardTypeOK
  MutualExclusion
  NoLostWakeup
  NoUseOfZeroedVault
  ReencryptsFromIntactVault
PROPERTIES
  EveryCallEnters
  ImplementsPromise
CHECK_DEADLOCK FALSE
