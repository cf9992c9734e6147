SPECIFICATION PathSpec
CONSTANTS
  Characters = {"/", "?", "a"}
  ConfigPrefixes <- MCPrefixes
  Paths <- MCPaths
  Queries <- MCQueries
  MaxRoutes = 1
INVARIANTS
  ReachesItsUpstream
