SPECIFICATION Spec
CONSTANTS
  Resources <- MCResources
  GroupOf <- MCGroupOf
  FamilyOf <- MCFamilyOf
  KindOf <- MCKindOf
  Names = {"n1"}
  Shapes <- MCShapes
  Absent = Absent
  Malformed = Malformed
  MaxChanges = 2
  Pods <- MCPods
  LabelsOf <- MCLabels
INVARIANTS TypeOK RowsAreOfThisRefresh TableIsComplete LookupIsHonest
  LogsFollowTheWorkload
CHECK_DEADLOCK FALSE
