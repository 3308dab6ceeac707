SPECIFICATION FairSpec
CONSTANTS
  Workers = {w1, w2, w3, w4}
  Conns = {c1, c2, c3}
  InitWorkers = 1
  PendingMax = 2
  TMin = 1
  TMax = 3
  Staying = {}
  None = None
PROPERTIES
  RemovalsReturn
CHECK_DEADLOCK FALSE
