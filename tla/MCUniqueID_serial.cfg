SPECIFICATION Spec
CONSTANTS
  Threads = {t1, t2}
  MachineIds = {5}
  MachMod = 16
  TsMod = 16
  CtrMod = 2
  MinClock <- BeforeEpoch
  MaxClock = 2
  MaxBack = 1
  MaxCalls = 3
  MaxRestarts = 1
  RestartMs = 0
  SerialCalls = TRUE
INVARIANTS
  UniqueIds
  ExitOnlyOnSetBack
  GInv
PROPERTIES
  IncreasingPairs
CHECK_DEADLOCK FALSE
