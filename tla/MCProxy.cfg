SPECIFICATION FairSpec
CONSTANTS
  Requests = {r1, r2}
  N = 2
  max_retries = 1
  failure_threshold = 1
  cooldown = 1
  budget_percent = 50
  window = 1
  HealthChecked = {}
  Reliable = {}
  USIZE = 8
  MaxTime = 1
INVARIANTS
  ProxyInv
  EveryAttemptCounted
  RetriesCounted
  FallbackTriesAll
PROPERTY
  EventuallyAnswered
CHECK_DEADLOCK FALSE
