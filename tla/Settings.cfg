SPECIFICATION Spec
CONSTANTS
  Platforms = {"windows", "macos"}
  MaxPlans = 2
  MaxFaults = 1
  MaxHangs = 1
  Codes = {c, d}
  MaxSettled = 6
  MaxRun = 10
  Callers = {a, b}
  Sources = {s1, s2}
  None = None
  MaxCalls = 3
  MaxFileChanges = 2
  Names = {n1, n2}
  Providers = {s}
  Groups = {g}
  Tasks = {t1, t2, t3}
  MaxOperations = 3
  ProbePlatforms = {"macos", "windows"}
  Listeners = {"mixed-port", "port"}
  Numbers = {1, 2}
  MaxSockets = 1
  MaxChanges = 2
  MaxPatches = 2
  Keys = {k, l}
  Functions = {f, g}
  MaxHotkeyPatches = 2
  MaxEvents = 2
  Parts = {"proxy", "failures", "watch", "dns", "enhance", "windows", "probe", "tun", "hotkeys"}
INVARIANTS
  ProxyAnswersStand
  EnhancedIsSound
  SettingsAreInForce
  WindowsComeBack
  VerdictsAreRight
PROPERTIES
  FailedApplyIsHonest
CHECK_DEADLOCK FALSE
