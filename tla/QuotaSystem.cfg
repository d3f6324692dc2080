SPECIFICATION FairSpec
CONSTANTS
  Quotas = {q1, q2}
  Specs <- MCSpecs
  Usages <- MCUsages
  None = None
  MaxDisturbances = 3
  MaxLag = 1
PROPERTIES Convergence EnforcementFollowsSpend UnmeasuredSpendAllows
CHECK_DEADLOCK FALSE
