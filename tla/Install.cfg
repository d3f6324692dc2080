SPECIFICATION FairSpec
CONSTANTS
  MaxFaults = 2
  Foreigns = {"prometheus", "gpu-operator", "kubefisher"}
INVARIANTS TypeOK NothingDuplicated SuccessIsComplete
PROPERTY RepeatedRunsInstall
CHECK_DEADLOCK FALSE
