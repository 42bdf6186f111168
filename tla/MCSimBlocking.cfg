CONSTANTS
  NumMachines = 1
  ProbUnit = 4
  DURATION_MAX = 1000
  NetworkDelay = 1
  Window = 20
  TraceWindow = 2
  BaseWindow = 1
  BufferWindow = 1
  AdjacentWindow = 2
  Traces <- BlockingTraces
  Pps <- None
  ReportingDelay <- Varying
  ActionDelay <- NoDelay
  TriggerDelay <- NoDelay
  Response <- BlockingResponse
  Continue = TRUE
  MaxActions = 3
SPECIFICATION Spec
INVARIANTS
  TypeOK
  FailClosed
  NothingPassedOver
  ViewAgrees
PROPERTIES
  KeepsTunnel
  AllArrive
