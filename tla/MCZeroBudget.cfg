SPECIFICATION HSpec
CONSTANTS
  Callers = {c1, c2}
  budget_percent = 0
  window = 2
  MaxTime = 4
INVARIANT ZeroBudgetNeverRetries
