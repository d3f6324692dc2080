SPECIFICATION FairSpec
CONSTANTS
  Absent = Absent
  Empty = Empty
  gpu = gpu
  spot = spot
  dotted = dotted
  a100 = a100
  yes = yes
  n1 = n1
  n2 = n2
  Keys = {gpu, spot, dotted}
  LabelName <- MCLabelName
  Values = {a100, yes}
  Documents <- MCDocuments
  Nodes = {n1, n2}
  NodeLabels <- MCNodeLabels
  MaxChanges = 3
INVARIANT TypeOK
PROPERTIES ScrapesSettle KeepsBoard
CHECK_DEADLOCK FALSE
