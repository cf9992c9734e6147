SPECIFICATION MCSpec
CONSTANTS
  Characters = {"/", "?", "a"}
  ConfigPrefixes <- MCPrefixes
  Paths <- MCPaths
  Queries <- MCQueries
  MaxRoutes = 3
  pool_size = 3
  USIZE = 16
  MaxWeights = 4
  MaxWeight = 2
  Requests = {r1, r2, r3, r4}
  MaxChanges = 3
  MaxPool = 3
  replicas = 2
  H = 4
  W = 5
  MaxAttempts = 8
SYMMETRY RequestSymmetry
INVARIANTS
  MostSpecificRoute
  PathSurvives
  SharesInEveryWindow
  PickNearlyLeast
  FirstLeastUndisturbed
  LeastInv
  NearestClockwise
  WaitsGrow
PROPERTY
  OnlyTheEndMoves
CHECK_DEADLOCK FALSE
