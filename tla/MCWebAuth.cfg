SPECIFICATION Spec
CONSTANTS
  None = None
  u1 = u1
  r1 = r1
  r2 = r2
  Users <- OneUser
  Reqs <- TwoReqs
  MaxPermits = 2
  MaxSessions = 2
  Idle = 1
  Absolute = 2
  StepTTL = 1
  PendingTTL = 1
  WindowSteps = 0
  TotpRequired = FALSE
  WeakHash = TRUE
  MayTimeOut <- AllKinds
  MaxCalls = 4
  MaxSids = 3
  MaxSecrets = 2
  MaxKeys = 2
  MaxTime = 3
SYMMETRY Symmetric
INVARIANTS OldSessionsEnd StepUpCurrent CodeOnceWhileEnrolled OwingIsRestricted
CHECK_DEADLOCK FALSE
