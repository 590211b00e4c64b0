-------------------------------- MODULE MCFiles ---------------------------------
(***************************************************************************)
(* Instances for TLC of the modules about what is kept in files: profiles, *)
(* what they refer to, backups, traffic, releases, the data directory and  *)
(* the application itself.  They share no state that is modelled; a        *)
(* behaviour is one of one of them, the state of the others is left at 0.  *)
(***************************************************************************)
EXTENDS Naturals, Sequences, FiniteSets, TLC

CONSTANTS
  Profiles, Global, Savers, None, MaxFileCalls,                \* ProfileFiles
  Tasks, Urls, Settle, Attempts, MaxTime, MaxDownloads, MaxChanges,   \* ProviderSync
  Paths, BundleUrls, Geo, Outside, MaxProviders,               \* RuntimeBundle
  Callers, Credentials, MinInterval, Keep, Scopes, MaxCalls,   \* Backups
  MaxUpgrades,                                                 \* CoreUpgrade
  MaxRelease, MaxPatches, MaxInstalls,                         \* Updater
  Starts, Data, Ports, MaxFailures, MaxDeaths, MaxMoveFailures,    \* Startup, Relocation
  Conns, MaxDay, MaxBytes, MaxClears,                          \* DomainTraffic
  Parts             \* the modules a run looks at

VARIABLES
  part,             \* the module this behaviour is one of
  items, current, stored, present, update_permit, update, loaded, maker, deleter,
  refresher, saver, accepted, used, file_calls,
  windows, now, declared, core, session, sessions, change, cache, mtime, writer,
  updatedAt, downloads, changes, target, queued, serial, passes, asked, taken_back,
  todo, bundle_present, destinations, assets, remotes, rewritten, outcome,
  scope, clock, last_backup, exec_lock, temp, backups, leftover, reported, credentials,
  config, clients, calls, calls_begun, reset_overtaken,
  on_windows, service, core_file, rollback, displaced, approved, core_mode, core_run, step,
  found, restorable, staging, core_is_down, failed, answer, broke, previous, earlier, began,
  offered, auto, patch, directory, bin, meta, undeleted, update_ready, background, token, manual,
  installed, glimpsed, patches, installs,
  starts_windows, denied, kept, root, stale, at, repaired, file, locked, heard, bound,
  failures, deaths, unrestored, died, intruded, spoilt,
  place, before, bundle, destination, move_staging, backup, move_step, had,
  move_failures, move_deaths, moved, stranded,
  conn_kind, conn_moved, opened, closed, today, days, seen, dirty, traffic_file, loop,
  clear, clears, clear_before, overtaken

Kept == INSTANCE ProfileFiles
  WITH calls <- file_calls, permit <- update_permit, MaxCalls <- MaxFileCalls
Sync == INSTANCE ProviderSync
Bundled == INSTANCE RuntimeBundle
  WITH present <- bundle_present
Backup == INSTANCE Backups
  WITH now <- clock, overtaken <- reset_overtaken,
       begun <- calls_begun
Upgrade == INSTANCE CoreUpgrade
  WITH windows <- on_windows, target <- core_file, mode <- core_mode, core <- core_run
Update == INSTANCE Updater
Start == INSTANCE Startup
  WITH windows <- starts_windows
Move == INSTANCE Relocation
  WITH staging <- move_staging, failures <- move_failures, deaths <- move_deaths,
       step <- move_step, MaxFailures <- MaxMoveFailures
Traffic == INSTANCE DomainTraffic
  WITH file <- traffic_file, kind <- conn_kind, moved <- conn_moved,
       before <- clear_before

ASSUME PartsAssumption ==
  /\ Parts \subseteq {"profiles", "providers", "bundle", "backups", "upgrade", "updater", "startup",
                     "relocation", "traffic"}
  /\ None \notin Profiles \cup Savers \cup Tasks \cup Urls \cup Callers \cup Credentials \cup Starts
               \cup Data \cup Conns \cup {Global}
  /\ Global \notin Profiles /\ {"delete", "refresh"} \cap Savers = {} /\ Ports # {}

\* What a data directory may be (Startup): its owner, the user's entries and the reserved files.
Owners == {"me", "other"}
TokenFiles == [owner : Owners, whole : BOOLEAN]
RecordFiles == [owner : Owners, port : Ports, token : Starts \cup {None}]
LockFiles == [owner : Owners, id : Starts \cup {None}]
Directories ==
  [owner : Owners, data : SUBSET Data, token : TokenFiles \cup {None},
   record : RecordFiles \cup {None}, lock : LockFiles \cup {None}]

\* None is none of the values it stands beside: versions, releases, owners, files, directories.
ASSUME NoneAssumption ==
  /\ None \notin {"older", "old", "new", "broken", "part", "delete", "refresh", "publish", "staging",
                 "restart", "applying", "applied"}
  /\ None \notin Nat
  /\ None \notin TokenFiles \cup RecordFiles \cup LockFiles \cup Directories

\* RUNTIME_PROVIDER_SETTLE is some time: a write takes less.
ASSUME ProvidersAssumption == Settle \in Nat \ {0}

\* MIN_BACKUP_INTERVAL_SECS, AUTO_BACKUP_KEEP and the clock, which starts at 1.
ASSUME BackupsAssumption == MinInterval \in Nat /\ Keep \in Nat /\ MaxTime \in Nat \ {0}

\* There are days to count in, and connections that can be counted.
ASSUME TrafficAssumption == IsFiniteSet(Conns) /\ MaxDay \in Nat \ {0}

profiles_vars == <<items, current, stored, present, update_permit, update, loaded,
                   maker, deleter, refresher, saver, accepted, used, file_calls>>
providers_vars == <<windows, now, declared, core, session, sessions, change, cache,
                    mtime, writer, updatedAt, downloads, changes, target, queued,
                    serial, passes, asked, taken_back>>
bundle_vars == <<todo, bundle_present, destinations, assets, remotes, rewritten, outcome>>
backups_vars == <<scope, clock, last_backup, exec_lock, temp, backups, leftover,
                  reported, credentials, config, clients, calls, calls_begun,
                  reset_overtaken>>
upgrade_vars == <<on_windows, service, core_file, rollback, displaced, approved,
                  core_mode, core_run, step, found, restorable, staging, core_is_down,
                  failed, answer, broke, previous, earlier, began>>
updater_vars == <<offered, auto, patch, directory, bin, meta, undeleted, update_ready,
                  background, token, manual, installed, glimpsed, patches, installs>>
startup_vars == <<starts_windows, denied, kept, root, stale, at, repaired, file, locked,
                  heard, bound, failures, deaths, unrestored, died, intruded, spoilt>>
relocation_vars == <<place, before, bundle, destination, move_staging, backup,
                     move_step, had, move_failures, move_deaths, moved, stranded>>
traffic_vars == <<conn_kind, conn_moved, opened, closed, today, days, seen, dirty,
                  traffic_file, loop, clear, clears, clear_before, overtaken>>
mcvars == <<part, profiles_vars, providers_vars, bundle_vars, backups_vars, upgrade_vars,
            updater_vars, startup_vars, relocation_vars, traffic_vars>>

NoKept ==
  /\ items = 0 /\ current = 0 /\ stored = 0 /\ present = 0 /\ update_permit = 0
  /\ update = 0 /\ loaded = 0 /\ maker = 0 /\ deleter = 0 /\ refresher = 0 /\ saver = 0
  /\ accepted = 0 /\ used = 0 /\ file_calls = 0

NoSync ==
  /\ windows = 0 /\ now = 0 /\ declared = 0 /\ core = 0 /\ session = 0 /\ sessions = 0
  /\ change = 0 /\ cache = 0 /\ mtime = 0 /\ writer = 0 /\ updatedAt = 0
  /\ downloads = 0 /\ changes = 0 /\ target = 0 /\ queued = 0 /\ serial = 0
  /\ passes = 0 /\ asked = 0 /\ taken_back = 0

NoBundled ==
  /\ todo = 0 /\ bundle_present = 0 /\ destinations = 0 /\ assets = 0 /\ remotes = 0
  /\ rewritten = 0 /\ outcome = 0

NoBackup ==
  /\ scope = 0 /\ clock = 0 /\ last_backup = 0 /\ exec_lock = 0 /\ temp = 0
  /\ backups = 0 /\ leftover = 0 /\ reported = 0 /\ credentials = 0 /\ config = 0
  /\ clients = 0 /\ calls = 0 /\ calls_begun = 0 /\ reset_overtaken = 0

NoUpgrade ==
  /\ on_windows = 0 /\ service = 0 /\ core_file = 0 /\ rollback = 0 /\ displaced = 0
  /\ approved = 0 /\ core_mode = 0 /\ core_run = 0 /\ step = 0 /\ found = 0
  /\ restorable = 0 /\ staging = 0 /\ core_is_down = 0 /\ failed = 0 /\ answer = 0
  /\ broke = 0 /\ previous = 0 /\ earlier = 0 /\ began = 0

NoUpdate ==
  /\ offered = 0 /\ auto = 0 /\ patch = 0 /\ directory = 0 /\ bin = 0 /\ meta = 0
  /\ undeleted = 0 /\ update_ready = 0 /\ background = 0 /\ token = 0 /\ manual = 0 /\ installed = 0
  /\ glimpsed = 0 /\ patches = 0 /\ installs = 0

NoStart ==
  /\ starts_windows = 0 /\ denied = 0 /\ kept = 0 /\ root = 0 /\ stale = 0 /\ at = 0
  /\ repaired = 0 /\ file = 0 /\ locked = 0 /\ heard = 0 /\ bound = 0 /\ failures = 0
  /\ deaths = 0 /\ unrestored = 0 /\ died = 0 /\ intruded = 0 /\ spoilt = 0

NoMove ==
  /\ place = 0 /\ before = 0 /\ bundle = 0 /\ destination = 0 /\ move_staging = 0
  /\ backup = 0 /\ move_step = 0 /\ had = 0 /\ move_failures = 0 /\ move_deaths = 0
  /\ moved = 0 /\ stranded = 0

NoTraffic ==
  /\ conn_kind = 0 /\ conn_moved = 0 /\ opened = 0 /\ closed = 0 /\ today = 0
  /\ days = 0 /\ seen = 0 /\ dirty = 0 /\ traffic_file = 0 /\ loop = 0 /\ clear = 0
  /\ clears = 0 /\ clear_before = 0 /\ overtaken = 0

Init ==
  /\ part \in Parts
  /\ IF part = "profiles" THEN Kept!Init ELSE NoKept
  /\ IF part = "providers" THEN Sync!Init ELSE NoSync
  /\ IF part = "bundle" THEN Bundled!Init ELSE NoBundled
  /\ IF part = "backups" THEN Backup!Init ELSE NoBackup
  /\ IF part = "upgrade" THEN Upgrade!Init ELSE NoUpgrade
  /\ IF part = "updater" THEN Update!Init ELSE NoUpdate
  /\ IF part = "startup" THEN Start!Init ELSE NoStart
  /\ IF part = "relocation" THEN Move!Init ELSE NoMove
  /\ IF part = "traffic" THEN Traffic!Init ELSE NoTraffic

Next ==
  \/ /\ part = "profiles" /\ Kept!Next
     /\ UNCHANGED <<part, providers_vars, bundle_vars, backups_vars, upgrade_vars,
                      updater_vars, startup_vars, relocation_vars, traffic_vars>>
  \/ /\ part = "providers" /\ Sync!Next
     /\ UNCHANGED <<part, profiles_vars, bundle_vars, backups_vars, upgrade_vars,
                      updater_vars, startup_vars, relocation_vars, traffic_vars>>
  \/ /\ part = "bundle" /\ Bundled!Next
     /\ UNCHANGED <<part, profiles_vars, providers_vars, backups_vars, upgrade_vars,
                      updater_vars, startup_vars, relocation_vars, traffic_vars>>
  \/ /\ part = "backups" /\ Backup!Next
     /\ UNCHANGED <<part, profiles_vars, providers_vars, bundle_vars, upgrade_vars,
                      updater_vars, startup_vars, relocation_vars, traffic_vars>>
  \/ /\ part = "upgrade" /\ Upgrade!Next
     /\ UNCHANGED <<part, profiles_vars, providers_vars, bundle_vars, backups_vars,
                      updater_vars, startup_vars, relocation_vars, traffic_vars>>
  \/ /\ part = "updater" /\ Update!Next
     /\ UNCHANGED <<part, profiles_vars, providers_vars, bundle_vars, backups_vars,
                      upgrade_vars, startup_vars, relocation_vars, traffic_vars>>
  \/ /\ part = "startup" /\ Start!Next
     /\ UNCHANGED <<part, profiles_vars, providers_vars, bundle_vars, backups_vars,
                      upgrade_vars, updater_vars, relocation_vars, traffic_vars>>
  \/ /\ part = "relocation" /\ Move!Next
     /\ UNCHANGED <<part, profiles_vars, providers_vars, bundle_vars, backups_vars,
                      upgrade_vars, updater_vars, startup_vars, traffic_vars>>
  \/ /\ part = "traffic" /\ Traffic!Next
     /\ UNCHANGED <<part, profiles_vars, providers_vars, bundle_vars, backups_vars,
                      upgrade_vars, updater_vars, startup_vars, relocation_vars>>

Spec == Init /\ [][Next]_mcvars

-----------------------------------------------------------------------------
\* What profiles.yaml lists is there, and what was saved for the profile at work reaches the
\* Core (ProfileFiles).
ProfileFilesAreKept ==
  part = "profiles" => Kept!ListedFilesExist /\ Kept!AcceptedSavesReachCore

\* A copy of a provider that is published is one whole download of it, a request for a pass
\* is not swallowed by one that had begun before (ProviderSync), and in a bundle each
\* destination has one source (RuntimeBundle).
ProvidersAreExact ==
  [][/\ part = "providers" => Sync!PublishesLoaded /\ Sync!RequestsAreServed'
     /\ part = "bundle" => Bundled!DestinationsAreExact']_mcvars

\* Automatic backups keep their distance and, but for what failures leave, their number, and
\* a WebDAV client serves the credentials in the settings (Backups).
BackupsAreSound ==
  part = "backups" => Backup!AutoBackupsAreRationed /\ Backup!ClientsAreCurrent

\* Where the Service ran the Core, an upgrade that failed can be retried, and one that is
\* reported reached the Service (CoreUpgrade); what is installed is what was asked for, and
\* disabled updates leave nothing that could be removed (Updater); moving the application never leaves the user
\* without one (Relocation).
ReleasesAreSound ==
  /\ part = "upgrade" => Upgrade!FailedUpgradeCanBeRetried /\ Upgrade!ReportedCoreRuns
  /\ part = "updater" => Update!InstallsWhatWasAsked /\ Update!DisabledKeepsNothing
  /\ part = "relocation" => Move!ApplicationIsKept

\* One process at a time owns the data, whose root is the user's own and whole (Startup).
StartsAreSound ==
  part = "startup" => Start!OnePrimary /\ Start!DataStaysTogether /\ Start!RepairedRootIsOurs

\* Traffic is counted once, and what was cleared stays cleared (DomainTraffic).
TrafficIsCounted == part = "traffic" => Traffic!CountedOnce /\ Traffic!ClearedStaysCleared
=============================================================================
