CONSTANTS
  U64_MAX = 3
  STATE_MAX = 4
  NumMachines = 2
  machines <- LimitMachines
  max_padding_frac <- Half
  max_blocking_frac <- Half
  Reports <- LimitReports
  MonotoneClock = TRUE
  MaxBatch = 2
  MaxPackets = 3
  MaxTime = 3
SPECIFICATION Spec
INVARIANTS
  AccountingAgrees
  BlockedTimeBounded
  BlockingWithinLimits
