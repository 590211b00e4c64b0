SPECIFICATION Spec
CONSTANTS
  Callers = {a, b}
  Edits = {a, b, p1, p2}
  BorrowedPorts = {p1, p2}
  NoDraft = NoDraft
  None = None
  a = a
  b = b
  p1 = p1
  p2 = p2
  Kinds = {"startup", "update"}
  MaxFaults = 1
  MaxRetries = 1
INVARIANTS
  DesiredPortIsServed
