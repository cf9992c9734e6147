SPECIFICATION MCSpec
CONSTANTS
  Requests = {r1, r2}
  MaxEdits = 3
  USIZE = 8
  Conns = {c1, c2, c3}
  overall_timeout = 2
  drain_timeout = 3
  MaxTime = 6
INVARIANTS
  ReloadInv
  RoutesNeverOlder
  ActiveByGeneration
  CutOnlyAfterDrain
  HandlersFinish
  ServerInv
PROPERTIES
  ReloadTakesEffect
  EndsAfterSignal
CHECK_DEADLOCK FALSE
