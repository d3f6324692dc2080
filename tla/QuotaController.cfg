SPECIFICATION Spec
CONSTANTS
  Quotas = {q1}
  Specs <- MCSpecs
  Usages <- MCUsages
  None = None
  MaxDisturbances = 4
  MaxLag = 2
INVARIANTS TypeOK NeverForgotten NoOrphanSeries ExportIsCurrent GaugesMirrorStatus
PROPERTIES SettledStaysQuiet NoSilentTransition
CHECK_DEADLOCK FALSE
