CONSTANTS
  MaxSteps = 3
  MaxEmptyRetries = 1
  MaxBatch = 2
  BatchSizes = {1, 3}
  MaxTurns = 1
  MaxClients = 2
SPECIFICATION Spec
INVARIANTS
  SwitchRefreshesCaches
CHECK_DEADLOCK FALSE
