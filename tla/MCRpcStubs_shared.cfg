SPECIFICATION FairSpec
CONSTANTS
  Threads = {t1, t2, t3}
  MaxCalls = 3
  None = None
INVARIANTS
  StreamInStep
  NobodySleepsAlone
  StubInv
PROPERTIES
  CallsKeepContract
  EveryCallReturns
CHECK_DEADLOCK FALSE
