SPECIFICATION HSpec
CONSTANTS
  Callers = {c1, c2, c3, c4}
  budget_percent = 50
  window = 2
  MaxTime = 5
SYMMETRY CallerSymmetry
INVARIANTS
  LazyPruningIsExact
  GrantsWithinBudget
  BudgetInv
CHECK_DEADLOCK FALSE
