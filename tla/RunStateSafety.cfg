SPECIFICATION FairSpec
CONSTANTS
  Tasks = {t1, t2}
  Actions = {"Uninstall", "Reinstall"}
  MaxCalls = 2
CHECK_DEADLOCK FALSE
INVARIANTS
  PendingExcludesSidecar
  OperationExclusive
  NoOrphanedAction
PROPERTIES
  StaleReadingNeverLands
  SidecarAllowedBetweenOperations
  SettledReturns
