SPECIFICATION Spec
CONSTANTS
  None = None
  i1 = i1
  i2 = i2
  n1 = n1
  n2 = n2
  s1 = s1
  s2 = s2
  t1 = t1
  t2 = t2
  t3 = t3
  Ips <- TwoIps
  Names <- TwoNames
  Slots <- TwoSlots
  Tokens <- ThreeTokens
  MaxFailures = 2
  BaseBackoff = 1
  MaxBackoff = 2
  BucketTTL = 3
  MaxTracked = 2
  Interval = 1
  Burst = 2
  Window = 2
  MaxTokens = 1
  Deadlines = {3}
  MaxCalls = 5
  MaxTime = 3
SYMMETRY Symmetric
INVARIANTS GuessesBounded TokenBudgetHolds RejectionsAccounted
PROPERTY TokenEndsAtOnce
CHECK_DEADLOCK FALSE
