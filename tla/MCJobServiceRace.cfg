CONSTANTS
  c1 = c1
  c2 = c2
  NoJob = NoJob
  None = None
  Callers = {c1, c2}
  MaxCalls = 5
  MaxCrashes = 0
SPECIFICATION Spec
PROPERTIES
  CancellationIsDurable
CHECK_DEADLOCK FALSE
