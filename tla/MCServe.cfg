SPECIFICATION Spec
CONSTANTS
  c1 = c1
  c2 = c2
  None = None
  Conns <- TwoConns
  MaxCalls = 3
  MaxHooks = 2
  FaultKinds <- AllFaults
  MaxFaults = 1
INVARIANTS AnswersMatch RunnerOutlivesLoop
PROPERTIES CallsEnd TreeEnds
CHECK_DEADLOCK FALSE
