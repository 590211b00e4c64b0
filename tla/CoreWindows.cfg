SPECIFICATION Spec
CONSTANTS
  IsMacOS = FALSE
  Elevated = FALSE
  StartAttempts = 2
  MaxCalls = 3
  MaxFaults = 1
  MaxSaves = 0
INVARIANTS NoUnsupervisedCore ServiceCoreIsWatched GuardStopsWithCore ProxyClearedWithCore PacFollowsMode
PROPERTIES OnlyLostCoresAreGivenUp
CHECK_DEADLOCK FALSE
