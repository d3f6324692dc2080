SPECIFICATION FairSpec
CONSTANTS
  Absent = Absent
  dep = dep
  isvc = isvc
  tjob = tjob
  rsvc = rsvc
  d1 = d1
  d2 = d2
  k1 = k1
  t1 = t1
  r1 = r1
  Owners = {dep}
  Pods = {d1, d2}
  KindOf <- MCKindOf
  OwnerSpecs <- MCOwnerSpecs
  Worlds <- MCWorlds
  Labels <- MCLabels
  PodSpecs <- MCPodSpecs
  Phases <- MCPhases
  Rates = {2, 3}
  TokenRates = {1}
  Starts <- MCStarts
  MaxChanges = 1
  MaxLag = 1
PROPERTY PricedOwnersStayAnnotated
CHECK_DEADLOCK FALSE
