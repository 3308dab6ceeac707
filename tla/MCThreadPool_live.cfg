SPECIFICATION FairSpec
CONSTANTS
  Workers = {w1, w2, w3}
  Conns = {c1, c2, c3, c4}
  InitWorkers = 1
  PendingMax = 2
  TMin = 1
  TMax = 2
  Staying = {c1, c2}
  None = None
PROPERTIES
  EveryConnectionTaken
CHECK_DEADLOCK FALSE
