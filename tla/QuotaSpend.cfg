SPECIFICATION Spec
CONSTANTS
  MaxBudget = 3
  MaxLimit = 4
  Thresholds = {0, 1, 50, 80, 100}
INVARIANT PercentagesAgreeWithPhase
PROPERTY SpendNeverImprovesPhase
CHECK_DEADLOCK FALSE
