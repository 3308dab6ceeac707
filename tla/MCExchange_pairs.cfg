SPECIFICATION FairSpec
CONSTANTS
  Threads = {t1, t2}
  MaxSeconds = 2
  MaxReqps = 2
  MaxCrashes = 1
  Deployments <- AnyPair
INVARIANTS
  TypeOK
  AtMostOnce
  ReturnedWasRun
  FailuresExplained
  QuietWhenIdle
  CountsAnswers
  EndedMeansAllCalls
  ExchangeInv
PROPERTIES
  StaleForEver
  EveryCallEnds
  GeneratorsEnd
CHECK_DEADLOCK FALSE
