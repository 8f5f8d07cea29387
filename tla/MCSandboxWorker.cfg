CONSTANTS
  s1 = s1
  s2 = s2
  None = None
  Sandboxes = {s1, s2}
  Vanishing = {s2}
  MaxFaults = 1
  MaxCrashes = 1
  MaxReconciles = 1
  MaxLosses = 1
  MaxQueue = 1
SPECIFICATION Spec
INVARIANTS
  TypeOK
  Traceable
  CleanUnlessFailed
PROPERTIES
  SuccessIsComplete
  ReconcileLeavesNothing
  RunReturns
CHECK_DEADLOCK FALSE
