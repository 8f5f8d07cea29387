CONSTANTS
  c1 = c1
  c2 = c2
  NoJob = NoJob
  None = None
  Callers = {c1, c2}
  MaxCalls = 5
  MaxCrashes = 1
SPECIFICATION Spec
INVARIANTS
  IInv
  SecondBackendNeedsLostUpdate
  TrailIsComplete
PROPERTIES
  ImplementsLifecycle
  RunEnds
CHECK_DEADLOCK FALSE
