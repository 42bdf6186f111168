CONSTANTS
  NumMachines = 2
  ProbUnit = 4
  DURATION_MAX = 1000
  NetworkDelay = 1
  Window = 4
  TraceWindow = 2
  BaseWindow = 1
  BufferWindow = 1
  AdjacentWindow = 2
  Traces <- DelayTraces
  Pps <- None
  ReportingDelay <- Reporting
  ActionDelay <- Acting
  TriggerDelay <- Triggering
  Response <- DelayResponse
  Continue = FALSE
  MaxActions = 5
SPECIFICATION Spec
INVARIANTS
  NothingPassedOver
  DelaysBalance
  Reproduces
  TakenOnTime
  NoneInFlight
  StopsAfterAll
