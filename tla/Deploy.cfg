SPECIFICATION FairSpec
CONSTANTS
  a = a
  b = b
  d = d
  e = e
  x = x
  y = y
  z = z
  None = None
  Users = {"u", "v"}
  Models <- MCModels
  Names <- MCNames
  Options <- MCOptions
  OptionsOf <- MCOptionsOf
  Slug <- MCSlug
  LabelValues <- MCLabelValues
  ServiceNames <- MCServiceNames
  MaxReplicas = 2
  MaxFaults = 1
INVARIANTS TypeOK ReadyIsAsked GivesUpForWantOfRoom
PROPERTIES DeployEnds RetriesSucceed ShortageIsReported
CHECK_DEADLOCK FALSE
