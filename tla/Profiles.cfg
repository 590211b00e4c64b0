SPECIFICATION Spec
CONSTANTS
  p = p
  q = q
  g = g
  n1 = n1
  n2 = n2
  m1 = m1
  m2 = m2
  m3 = m3
  None = None
  Profiles = {p, q}
  Nodes = {n1, n2}
  Groups = {g}
  MaxActivations = 3
  MaxMoves = 1
  MaxSwitches = 2
  MaxStarts = 1
  MaxRequestFailures = 1
  Uids = {u}
  Intervals = {i1, i2}
  MaxEdits = 2
  MaxUpdates = 2
  Callers = {c1, c2, c3}
  MaxFailures = 1
  Ids = {i}
  Editors = {e, f}
  Timeout = 50
  Threshold = 1
  MaxListEdits = 3
  MaxPicks = 1
  Parts = {"selection", "timer", "switch", "groups"}
INVARIANTS
  ChoiceSurvives
  ScheduleIsServed
  ProfilesAreKept
  GroupsAreServed
