SPECIFICATION Spec
CONSTANTS
  Clients = {c1, c2}
  Threads = {t1, t2}
  capacity = 4
  refill_rate = 1
  TOKEN = 2
  CLEANUP_EVERY = 2
  IDLE = 4
  MaxTime = 6
INVARIANTS
  LimiterInv
  AdmittedWithinRate
PROPERTY ImplementsIdealBucket
