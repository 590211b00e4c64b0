SPECIFICATION FairSpec
CONSTANTS
  IsMacOS = TRUE
  Elevated = FALSE
  StartAttempts = 1
  MaxCalls = 3
  MaxFaults = 1
  MaxSaves = 1
PROPERTIES KeepsPromise DeadSidecarIsNoticed LostServiceCoreIsNoticed
CHECK_DEADLOCK FALSE
