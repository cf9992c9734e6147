SPECIFICATION Spec
CONSTANTS
  Requests = {r1, r2}
  N = 3
  max_retries = 2
  failure_threshold = 1
  cooldown = 1
  budget_percent = 600
  window = 1
  HealthChecked = {0, 1}
  Reliable = {1}
  USIZE = 8
  MaxTime = 1
SYMMETRY RequestSymmetry
INVARIANTS
  AttemptsAreDistinct
  ActiveAccounting
  ReliableUpstreamServes
  FailoverInv
CHECK_DEADLOCK FALSE
