CONSTANTS
  NumMachines = 1
  ProbUnit = 4
  DURATION_MAX = 1000
  NetworkDelay = 1
  Window = 20
  TraceWindow = 2
  BaseWindow = 1
  BufferWindow = 1
  AdjacentWindow = 2
  Traces <- BypassTraces
  Pps <- None
  ReportingDelay <- NoDelay
  ActionDelay <- NoDelay
  TriggerDelay <- NoDelay
  Response <- BypassResponse
  Continue = TRUE
  MaxActions = 3
SPECIFICATION Spec
INVARIANTS
  TakenOnTime
