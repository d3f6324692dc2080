SPECIFICATION Spec
CONSTANTS
  MaxFaults = 2
  Foreigns = {"prometheus", "kubefisher"}
PROPERTY EditedPricesStay
CHECK_DEADLOCK FALSE
