SPECIFICATION Spec
CONSTANTS
  None = None
  d1 = d1
  d2 = d2
  Domains <- TwoDomains
  Life = 6
  Windows <- EarlyWindow
  FirstRetry = 1
  CheckInterval = 4
  MinForced = 3
  AcmeTimeout = 1
  FaultKinds <- AllFaults
  MaxFaults = 3
  MaxRequests = 1
INVARIANTS ChallengesWithdrawn RequestKept
PROPERTIES NoOrderWasted DueIsRenewed
