SPECIFICATION FairSpec
CONSTANTS
  a = a
  b = b
  c = c
  x1 = x1
  x2 = x2
  m1 = m1
  m2 = m2
  w = w
  Layers = {a, b, c}
  Transactors = {x1, x2}
  Modifiers = {m1, m2}
  Writers = {w}
  Edits = {x1, x2, m1, m2, w}
  LayersOf <- OppositeOrders
  NoDraft = NoDraft
CHECK_DEADLOCK FALSE
INVARIANTS
  NoLostWakeup
  RollbackLeavesNoTrace
  CommitLandsEverywhere
PROPERTIES
  OnlyDraftsOverwrite
  ModifiersReturn
