SPECIFICATION Spec
CONSTANTS
  a = a
  b = b
  c = c
  x1 = x1
  x2 = x2
  m1 = m1
  m2 = m2
  w = w
  Layers = {a}
  Transactors = {x1}
  Modifiers = {}
  Writers = {w}
  Edits = {x1, w}
  LayersOf <- Unclaimed
  NoDraft = NoDraft
CHECK_DEADLOCK FALSE
INVARIANTS
  RollbackLeavesNoTrace
