SPECIFICATION Spec
CONSTANTS
  Clients = {c1, c2}
  Stride = 2
  IntWidth = 8
  UnsignedWidth = 4
  MaxConnections = 3
  MaxCalls = 5
  MaxRuns = 2
  MaxAnswers = 6
CONSTRAINT FewAnswers
INVARIANTS
  TypeOK
  CallsAreTold
  RepeatsExplained
  MessageChanges
  SInv
CHECK_DEADLOCK FALSE
