SPECIFICATION Spec
CONSTANTS
  Callers = {a, b}
  Edits = {a, b, p1, p2}
  BorrowedPorts = {p1, p2}
  NoDraft = NoDraft
  None = None
  a = a
  b = b
  p1 = p1
  p2 = p2
  Kinds = {"savePorts", "patch", "patchReload", "patchRestart", "update", "tweak",
           "restart", "continueSidecar", "startup",
           "patchClash", "patchController", "changeCore", "saveAll"}
  MaxFaults = 2
  MaxRetries = 1
SYMMETRY Symmetry
INVARIANTS
  RejectedSaveLeavesNothing
  BorrowedPortIsServed
  CoreRunsCommittedRuntime
  DiskFollowsSettings
