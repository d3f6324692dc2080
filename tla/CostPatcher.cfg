SPECIFICATION FairSpec
CONSTANTS
  Absent = Absent
  dep = dep
  isvc = isvc
  tjob = tjob
  rsvc = rsvc
  d1 = d1
  d2 = d2
  k1 = k1
  t1 = t1
  r1 = r1
  Owners = {dep, isvc, tjob, rsvc}
  Pods = {d1, d2, k1, t1, r1}
  KindOf <- MCKindOf
  OwnerSpecs <- MCOwnerSpecs
  Worlds <- MCWorlds
  Labels <- MCLabels
  PodSpecs <- MCPodSpecs
  Phases <- MCPhases
  Rates = {2, 3}
  TokenRates = {1}
  Starts <- MCStarts
  MaxChanges = 2
  MaxLag = 1
INVARIANTS TypeOK DualKeysAgree
PROPERTIES JobTotalIsFinal AnnotationsSettle
CHECK_DEADLOCK FALSE
