CONSTANTS
  Paths <- SmallPaths
  Regions = {1, 2}
  Texts = {1, 2, 3}
  Endings = {"lf", "crlf"}
  LineSep = "lf"
  InitialContents <- DistinctRegions
  InitialEndings = {"crlf"}
  MaxInputs = 2
  MaxFaults = 1
  MaxSteps = 2
SPECIFICATION Spec
INVARIANTS
  TypeOK
  EffectOnce
PROPERTIES
  NoClobber
  AppliedAsReviewed
CHECK_DEADLOCK FALSE
