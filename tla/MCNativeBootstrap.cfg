CONSTANTS
  Forms = {"sequence", "provision", "media", "marker", "serial", "prepare", "maintain"}
  MaxFaults = 1
  MaxLog = 3
  MaxBoots = 2
  MaxFixture = 2
  MaxRuns = 2
  MaxMessages = 2
  Operators = {o1, o2}
  MaxCalls = 3
  MaxMishaps = 2
SPECIFICATION Spec
INVARIANTS
  TypeOK
  ReportIsEarned
  StoreIsEarned
  ChannelIsHonest
  ImageIsEarned
PROPERTIES
  ImplementsMachine
  ProgramsEnd
CHECK_DEADLOCK FALSE
