CONSTANTS
  MaxSteps = 3
  MaxEmptyRetries = 1
  MaxBatch = 2
  BatchSizes = {1, 3}
  MaxTurns = 2
  MaxClients = 2
SPECIFICATION Spec
INVARIANTS
  TypeOK
  EveryCallIsAnswered
  NothingOutlivesReset
  AnswersHearEverything
PROPERTIES
  TurnEnds
CHECK_DEADLOCK FALSE
