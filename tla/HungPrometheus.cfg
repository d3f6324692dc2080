SPECIFICATION FairSpec
CONSTANTS
  Quotas = {q1}
  Specs <- TwoSpecs
  Usages <- TwoUsages
  None = None
  MaxDisturbances = 2
  MaxLag = 2
PROPERTY NeverBlocksBlind
CHECK_DEADLOCK FALSE
