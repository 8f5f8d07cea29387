CONSTANTS
  Paths <- SmallPaths
  Regions = {1}
  Texts = {1}
  Endings = {"lf"}
  LineSep = "lf"
  InitialContents <- OneRegion
  InitialEndings = {"lf"}
  MaxInputs = 1
  MaxFaults = 0
  MaxSteps = 1
SPECIFICATION Spec
PROPERTIES
  FailedApproveChangesNothing
CHECK_DEADLOCK FALSE
