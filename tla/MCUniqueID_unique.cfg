SPECIFICATION Spec
CONSTANTS
  Threads = {t1, t2}
  MachineIds = {5}
  MachMod = 16
  TsMod = 16
  CtrMod = 3
  MinClock = 0
  MaxClock = 1
  MaxBack = 0
  MaxCalls = 2
  MaxRestarts = 0
  RestartMs = 1
  SerialCalls = FALSE
INVARIANTS
  UniqueIds
CHECK_DEADLOCK FALSE
