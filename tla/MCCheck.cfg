SPECIFICATION CSpec
CONSTANTS
  Upstreams = {u1, u2, u3}
  Probed = {u1, u2}
  Dead = {u1}
  Alive = {u2}
  failure_threshold = 2
  interval = 1
  timeout = 1
  cooldown = 4
  MaxTime = 10
  MaxStreak = 4
INVARIANTS
  MarkedExactlyAtThreshold
  BackAfterCooldown
  OutUntilCooldown
  HealthInv
  DeadStaysOut
  BackWithinARound
  DetectedInTime
  CheckInv
