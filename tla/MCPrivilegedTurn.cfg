CONSTANTS
  t1 = t1
  t2 = t2
  i1 = i1
  i2 = i2
  r1 = r1
  r2 = r2
  None = None
  Threads = {t1, t2}
  TurnIds = {i1, i2}
  RequestIds = {r1, r2}
  ARM_SECONDS = 1
  TURN_SECONDS = 1
  GRACE = 1
  MaxTime = 2
  MaxArms = 2
SPECIFICATION Spec
INVARIANTS
  IInv
  HandoffOncePerAcceptance
  ClaimBudget
  GateIsTruthful
PROPERTIES
  HandoffOnlyUnderAuthority
  WaitReturns
CHECK_DEADLOCK FALSE
