CONSTANTS
  U64_MAX = 3
  STATE_MAX = 4
  NumMachines = 2
  machines <- PaddingMachines
  max_padding_frac <- Half
  max_blocking_frac <- Half
  Reports <- PaddingReports
  MonotoneClock = TRUE
  MaxBatch = 2
  MaxPackets = 3
  MaxTime = 3
SPECIFICATION Spec
PROPERTIES
  PaddingIsLimited
