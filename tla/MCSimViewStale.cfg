CONSTANTS
  NumMachines = 1
  ProbUnit = 4
  DURATION_MAX = 1000
  NetworkDelay = 1
  Window = 20
  TraceWindow = 2
  BaseWindow = 1
  BufferWindow = 1
  AdjacentWindow = 2
  Traces <- StaleTraces
  Pps <- None
  ReportingDelay <- NoDelay
  ActionDelay <- NoDelay
  TriggerDelay <- NoDelay
  Response <- StaleResponse
  Continue = TRUE
  MaxActions = 4
SPECIFICATION Spec
INVARIANTS
  ViewAgrees
