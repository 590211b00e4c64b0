SPECIFICATION Spec
CONSTANTS
  IsMacOS = FALSE
  Elevated = FALSE
  StartAttempts = 1
  MaxCalls = 3
  MaxFaults = 1
  MaxSaves = 1
INVARIANTS PacFollowsMode
CHECK_DEADLOCK FALSE
