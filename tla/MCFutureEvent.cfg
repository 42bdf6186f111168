CONSTANTS
  U64_MAX = 4
  STATE_MAX = 4
  NumMachines = 2
  machines <- CounterMachines
  max_padding_frac <- NoFraction
  max_blocking_frac <- NoFraction
  Reports <- CounterReports
  MonotoneClock = FALSE
  MaxBatch = 2
  MaxPackets = 0
  MaxTime = 0
SPECIFICATION Spec
PROPERTIES
  FutureEventReplaces
