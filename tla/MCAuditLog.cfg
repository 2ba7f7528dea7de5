SPECIFICATION Spec
CONSTANTS
  worker = worker
  cli = cli
  Proc <- OneProc
  MaxCalls = 6
  RotateLines = 2
  MaxFiles = 4
  MaxLimit = 3
  FaultKinds <- AllFaults
  MaxFaults = 2
  PowerAfterFault = FALSE
INVARIANTS
  NeverRefused
  ReaderAccepts
PROPERTIES
  ImplementsAuditTrail
