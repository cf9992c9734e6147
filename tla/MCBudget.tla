------------------------------ MODULE MCBudget ------------------------------
(* Four callers, a window of two ticks and half of the requests as budget:  *)
(* entries expire at different instants, and the rounding up matters.        *)
EXTENDS BudgetHistory, TLC

CallerSymmetry == Permutations(Callers)
=============================================================================
