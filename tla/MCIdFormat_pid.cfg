SPECIFICATION FormatSpec
CONSTANTS
  Base = 16
  WordDigits = 6
  MachDigits = 3
  TsDigits = 1
  CtrDigits = 2
  ByteSize = 256
  Hosts <- SomeHosts
  Pids <- SomePids
  Leftovers <- SomeLeftovers
  Timestamps <- SomeTimestamps
  CounterValues <- SomeCounters
INVARIANTS
  PidIsHashed
CHECK_DEADLOCK FALSE
