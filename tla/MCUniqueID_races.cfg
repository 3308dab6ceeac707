SPECIFICATION Spec
CONSTANTS
  Threads = {t1, t2}
  MachineIds = {13}
  MachMod = 16
  TsMod = 16
  CtrMod = 2
  MinClock <- BeforeEpoch
  MaxClock = 0
  MaxBack = 1
  MaxCalls = 3
  MaxRestarts = 1
  RestartMs = 1
  SerialCalls = FALSE
INVARIANTS
  TypeOK
  UnracedUniqueIds
  UnracedExitOnlyOnSetBack
  UniqueAcrossRestarts
  HandlerInv
PROPERTIES
  LoweredOnlyByOvertaken
CHECK_DEADLOCK FALSE
