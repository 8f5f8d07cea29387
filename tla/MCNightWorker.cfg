CONSTANTS
  None = None
  r1 = r1
  r2 = r2
  Forms = {"fixture", "job", "review", "artifacts", "process", "snapshot", "guest"}
  MaxFaults = 1
  Chunks = 2
  ReportChunks = 2
  MaxRequests = 2
  Ids = {1, 2, 3}
  Posix = TRUE
  MaxTurns = 2
  MaxToolCalls = 2
  MaxBatch = 2
  Artifacts = {r1, r2}
  MaxLines = 3
  PathCount = 3
  MaxListing = 2
  MaxFiles = 2
  MaxEvents = 2
SPECIFICATION Spec
INVARIANTS
  TypeOK
  TransferIsWhole
  CallsOnce
  BundleIsHonest
  ResultsAreWhole
PROPERTIES
  RevocationHolds
  RunsReturn
CHECK_DEADLOCK FALSE
