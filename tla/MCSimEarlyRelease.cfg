CONSTANTS
  NumMachines = 1
  ProbUnit = 4
  DURATION_MAX = 1000
  NetworkDelay = 1
  Window = 20
  TraceWindow = 2
  BaseWindow = 1
  BufferWindow = 1
  AdjacentWindow = 2
  Traces <- ReleaseTraces
  Pps <- None
  ReportingDelay <- Late
  ActionDelay <- NoDelay
  TriggerDelay <- NoDelay
  Response <- ReleaseResponse
  Continue = TRUE
  MaxActions = 1
SPECIFICATION Spec
INVARIANTS
  HeldUntilFreed
