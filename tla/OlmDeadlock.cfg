SPECIFICATION FairSpec
CONSTANTS
  Parts = {"olm"}
  FAILED_SYNC_ERROR_THRESHOLD = 3
  MaxHead = 2
  MaxFailures = 3
  MaxPokes = 2
  MaxOnline = 1
  MaxThrows = 1
  keyLimit = 2
  maxKeysPerCycle = 1
  MaxKeys = 4
  MaxFallbacks = 2
  MaxClaims = 2
  MaxLost = 1
  Device = {"d1", "d2"}
  Task = {"t1", "t2", "t3"}
  MaxSessions = 4
  OlmPlans <- ThreeCalls
  Call = {"c1", "c2", "c3", "c4"}
  Flows <- MCFlows
  Inputs <- MCInputs
  MaxAuthFailures = 1
  TIMER_CHECK_PERIOD = 2
  Delay = {0, 1, 4}
  MaxTimeouts = 3
  MaxAwake = 4
  MaxJump = 1
PROPERTY TasksEnd
CHECK_DEADLOCK FALSE
