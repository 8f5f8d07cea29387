CONSTANTS
  c1 = c1
  c2 = c2
  NoJob = NoJob
  None = None
  Callers = {c1, c2}
  MaxCalls = 4
  MaxCrashes = 0
SPECIFICATION Spec
INVARIANTS
  OneBackendPerJob
CHECK_DEADLOCK FALSE
