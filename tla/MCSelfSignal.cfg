CONSTANTS
  U64_MAX = 3
  STATE_MAX = 4
  NumMachines = 3
  machines <- SignalMachines
  max_padding_frac <- NoFraction
  max_blocking_frac <- NoFraction
  Reports <- SignalReports
  MonotoneClock = FALSE
  MaxBatch = 3
  MaxPackets = 0
  MaxTime = 0
SPECIFICATION Spec
INVARIANTS
  NoSelfSignal
