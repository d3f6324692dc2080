SPECIFICATION Spec
CONSTANTS
  Quotas = {q1, q2}
  None = None
  Pods <- MCPods
INVARIANTS TypeOK OrderIrrelevantWhenMeasured
PROPERTY KeepsPolicy
