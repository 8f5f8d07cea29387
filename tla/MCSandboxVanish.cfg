CONSTANTS
  s1 = s1
  None = None
  Sandboxes = {s1}
  Vanishing = {s1}
  MaxFaults = 0
  MaxCrashes = 1
  MaxReconciles = 1
  MaxLosses = 0
  MaxQueue = 1
SPECIFICATION Spec
PROPERTIES
  ReconcileCleansAll
CHECK_DEADLOCK FALSE
