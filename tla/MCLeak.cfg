SPECIFICATION Spec
CONSTANTS
  Requests = {r1}
  N = 1
  max_retries = 1
  failure_threshold = 1
  cooldown = 1
  budget_percent = 50
  window = 1
  HealthChecked = {}
  Reliable = {}
  USIZE = 8
  MaxTime = 1
INVARIANTS
  ConnectionsReleased
CHECK_DEADLOCK FALSE
