SPECIFICATION Spec
CONSTANTS
  Workers = {w1, w2, w3, w4, w5}
  Conns = {c1, c2, c3, c4}
  InitWorkers = 1
  PendingMax = 2
  TMin = 1
  TMax = 3
  Staying = {c1, c2, c3, c4}
  None = None
SYMMETRY PoolSymmetry
INVARIANTS
  TypeOK
  UnoverlappedBounds
  OvershootBounded
  HangNeedsOverlap
  PInv
CHECK_DEADLOCK FALSE
