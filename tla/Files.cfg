SPECIFICATION Spec
CONSTANTS
  Profiles = {p, q}
  Global = Global
  Savers = {s, t}
  None = None
  MaxFileCalls = 3
  Tasks = {t1, t2}
  Urls = {u, w}
  Settle = 2
  Attempts = 2
  MaxTime = 4
  MaxDownloads = 2
  MaxChanges = 1
  Paths = {x, y}
  BundleUrls = {u, w}
  Geo = {y}
  Outside = Outside
  MaxProviders = 3
  Callers = {a, b, c}
  Credentials = {k1, k2}
  MinInterval = 2
  Keep = 1
  Scopes = {{"scheduled", "change"}, {"change", "local"}, {"upload", "restore", "credentials"}}
  MaxCalls = 3
  MaxUpgrades = 2
  MaxRelease = 2
  MaxPatches = 2
  MaxInstalls = 2
  Starts = {p1, p2}
  Data = {d1, d2}
  Ports = {8, 9}
  MaxFailures = 1
  MaxDeaths = 1
  MaxMoveFailures = 2
  Conns = {c1}
  MaxDay = 2
  MaxBytes = 3
  MaxClears = 1
  Parts = {"profiles", "providers", "bundle", "backups", "upgrade", "updater", "startup", "relocation", "traffic"}
INVARIANTS
  ProfileFilesAreKept
  BackupsAreSound
  ReleasesAreSound
  StartsAreSound
  TrafficIsCounted
PROPERTIES
  ProvidersAreExact
CHECK_DEADLOCK FALSE
