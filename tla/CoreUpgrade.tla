------------------------------ MODULE CoreUpgrade ------------------------------
(***************************************************************************)
(* The upgrade of the Core's executable (feat::core_upgrade): a verified   *)
(* copy is renamed over the file, the Service is handed its own copy, the  *)
(* Core restarts, and a failure puts the previous file back.  Every file   *)
(* operation may fail, the application may die after each, and the Core    *)
(* may end or be started beside it.  A file is the version it holds;       *)
(* "broken" is one that cannot report a version.                           *)
(***************************************************************************)
EXTENDS Naturals

CONSTANTS
  None,
  MaxUpgrades       \* bound: upgrades begun

VARIABLES
  windows,          \* a running executable can be moved aside, not replaced
  service,          \* a Service is installed; it runs its approved copy
  target,           \* the managed Core's file
  rollback,         \* the hard link to the previous Core
  displaced,        \* on Windows the file moved aside
  approved,         \* the Service's copy
  mode,             \* get_running_mode
  core,             \* what the running Core executes, or None
  step,             \* of the upgrade under way
  found,            \* the running mode before the file was touched
  restorable,
  staging,          \* ServiceStaging
  core_is_down,     \* the Core was down when the failure was seen
  failed,           \* why the upgrade fails, or None
  answer,           \* what the last upgrade answered
  broke,            \* the rollback of the last upgrade failed or had no link, or the
                    \* application died, kept to state a property
  previous,         \* the file the last upgrade was to replace, kept likewise
  earlier,          \* the Service's copy before it, kept likewise
  began             \* upgrades begun

uvars == <<windows, service, target, rollback, displaced, approved, mode, core, step, found,
           restorable, staging, core_is_down, failed, answer, broke, previous, earlier, began>>
platform == <<windows, service>>
files == <<target, rollback, displaced, approved>>
running == <<mode, core>>
history == <<previous, earlier>>
decided == <<found, restorable>>
plan == <<decided, staging, core_is_down, failed>>

\* read_core_version
Installed == IF target \in {"old", "new"} THEN target ELSE None

\* What a start may end with: no Core, a Sidecar, or a Core of the Service.
StartOutcomes ==
  {[mode |-> "NotRunning", core |-> None]}
    \cup (IF Installed # None THEN {[mode |-> "Sidecar", core |-> target]} ELSE {})
    \cup (IF service THEN {[mode |-> "Service", core |-> approved]} ELSE {})
Becomes(s) == mode' = s.mode /\ core' = s.core
StartEnds == \E s \in StartOutcomes : Becomes(s)

Init ==
  /\ windows \in BOOLEAN /\ service \in BOOLEAN
  /\ target \in {"old", "broken"}
  /\ rollback = None
  /\ displaced = None
  /\ approved \in IF service THEN {"older", "old"} ELSE {None}
  /\ \E s \in StartOutcomes : mode = s.mode /\ core = s.core
  /\ step = "idle"
  /\ found = "NotRunning"
  /\ restorable = FALSE
  /\ staging = "not-attempted"
  /\ core_is_down = FALSE
  /\ failed = None
  /\ answer = "none"
  /\ broke = FALSE
  /\ previous = None
  /\ earlier = None
  /\ began = 0

Fails(why, from, to) ==
  /\ step = from /\ step' = to
  /\ failed' = why

-----------------------------------------------------------------------------
\* The version and the package are fetched, and the staged copy has run, before the
\* file is touched; what fails until then removes the staged copy and no more.
Begin ==
  /\ step = "idle"
  /\ began < MaxUpgrades
  /\ began' = began + 1
  /\ \/ \E force \in BOOLEAN :
          IF ~force /\ Installed = "new" THEN answer' = "nothing-to-do" /\ UNCHANGED step
          ELSE answer' = "none" /\ step' = "linking"
     \/ answer' = "not-begun" /\ UNCHANGED step
  /\ UNCHANGED <<platform, files, running, plan, broke, history>>

\* A Core that reports no version is not worth a link.  The running mode is read now.
Link ==
  /\ step = "linking"
  /\ \/ /\ Installed # None
        /\ rollback' = target /\ restorable' = TRUE
     \/ rollback' = None /\ restorable' = FALSE
  /\ found' = mode
  /\ previous' = target /\ earlier' = approved
  /\ broke' = FALSE
  /\ staging' = "not-attempted" /\ core_is_down' = FALSE
  /\ failed' = None
  /\ step' = "publishing"
  /\ UNCHANGED <<platform, target, displaced, approved, running, answer, began>>

\* Only a Service that was found running the Core is handed the new one.
Published ==
  step' = (IF found = "Service" THEN "staging" ELSE "restarting") /\ UNCHANGED failed

Publish ==
  /\ step = "publishing"
  /\ \/ target' = "new" /\ Published
     \/ ~windows /\ Fails("publish", "publishing", "failing") /\ UNCHANGED target
  /\ UNCHANGED <<platform, rollback, displaced, approved, running, decided, staging, core_is_down,
                 answer, broke, history, began>>

MoveAside ==
  /\ windows
  /\ \/ /\ step = "publishing"
        /\ displaced' = target /\ target' = None
        /\ step' = "moving-in" /\ UNCHANGED failed
     \/ Fails("publish", "publishing", "failing") /\ displaced' \in {displaced, None} /\ UNCHANGED target
  /\ UNCHANGED <<platform, rollback, approved, running, decided, staging, core_is_down, answer,
                 broke, history, began>>

\* The file that was moved aside cannot be removed while it executes.
MoveIn ==
  /\ step = "moving-in"
  /\ \/ target' = "new" /\ displaced' \in {displaced, None} /\ Published
     \/ Fails("publish", "moving-in", "failing") /\ target' = displaced /\ displaced' = None
     \/ Fails("publish", "moving-in", "failing") /\ UNCHANGED <<target, displaced>>
  /\ UNCHANGED <<platform, rollback, approved, running, decided, staging, core_is_down, answer,
                 broke, history, began>>

\* stage_approved_core
StageService ==
  /\ step = "staging"
  /\ \/ approved' = target /\ staging' = "succeeded" /\ step' = "restarting" /\ UNCHANGED failed
     \/ Fails("staging", "staging", "failing") /\ staging' = "refused" /\ UNCHANGED approved
  /\ UNCHANGED <<platform, target, rollback, displaced, running, decided, core_is_down, answer,
                 broke, history, began>>

\* restart_core may refuse and leave the Core alone, fail before or after one runs.
Restart ==
  /\ step = "restarting"
  /\ \/ StartEnds /\ core' # None /\ step' = "cleaning" /\ UNCHANGED failed
     \/ Fails("restart", "restarting", "failing") /\ (StartEnds \/ UNCHANGED running)
  /\ UNCHANGED <<platform, files, decided, staging, core_is_down, answer, broke, history, began>>

-----------------------------------------------------------------------------
(* A failure *)

Down == mode = "NotRunning"

\* Mutation of MustRestore: a Service that refused the new Core is no reason.
MustRestoreOnlyWhenDown == restorable /\ (Down \/ target = None)

MustRestore == restorable /\ (staging = "refused" \/ Down \/ target = None)

\* The previous file comes back by the link; the Service's copy follows when it was changed.
Restore ==
  /\ step = "failing"
  /\ core_is_down' = Down
  /\ IF ~MustRestore THEN step' = "cleaning" /\ broke' = ~restorable /\ UNCHANGED target
     ELSE \/ target' = rollback /\ UNCHANGED broke
             /\ step' = (IF staging = "succeeded" THEN "restaging" ELSE IF Down THEN "recovering" ELSE "cleaning")
          \/ step' = "cleaning" /\ broke' = TRUE /\ UNCHANGED target
  /\ UNCHANGED <<platform, rollback, displaced, approved, running, decided, staging, failed, answer,
                 history, began>>

Restage ==
  /\ step = "restaging"
  /\ \/ approved' = target /\ UNCHANGED broke
     \/ broke' = TRUE /\ UNCHANGED approved
  /\ step' = IF core_is_down THEN "recovering" ELSE "cleaning"
  /\ UNCHANGED <<platform, target, rollback, displaced, running, plan, answer, history, began>>

Recover ==
  /\ step = "recovering"
  /\ StartEnds \/ UNCHANGED running
  /\ step' = "cleaning"
  /\ UNCHANGED <<platform, files, plan, answer, broke, history, began>>

\* The link goes first, then the file moved aside when there was a link.
Clean ==
  /\ step = "cleaning"
  /\ rollback' = None
  /\ displaced' \in IF failed = None \/ restorable THEN {displaced, None} ELSE {displaced}
  /\ answer' = IF failed = None THEN "upgraded" ELSE "failed"
  /\ step' = "idle"
  /\ UNCHANGED <<platform, target, approved, running, plan, broke, history, began>>

\* The application dies; what it left is found by the next one, which starts the Core.
Dies ==
  /\ step # "idle"
  /\ step' = "idle"
  /\ answer' = "none"
  /\ broke' = TRUE
  /\ StartEnds
  /\ UNCHANGED <<platform, files, plan, history, began>>

\* The Core ends, or the user starts it, at any time.
CoreMoves ==
  /\ StartEnds
  /\ UNCHANGED <<platform, files, step, plan, answer, broke, history, began>>

Next ==
  \/ Begin \/ Link \/ Publish \/ MoveAside \/ MoveIn \/ StageService \/ Restart
  \/ Restore \/ Restage \/ Recover \/ Clean \/ Dies \/ CoreMoves

UpgradeSpec == Init /\ [][Next]_uvars

-----------------------------------------------------------------------------
\* After an upgrade that failed a Core it found down has its previous file again, and the file
\* and the Service's copy are not left apart: what the Service was handed is in both, and when
\* the Service ran the Core the new file stays only where the Service has it, so that a retry
\* finds what there is to do.  Excepted are rollbacks that failed or had no link; the last part
\* says nothing of upgrades that found no Service running the Core (upgrade_core).
FailedUpgradeCanBeRetried ==
  step = "idle" /\ answer = "failed" /\ ~broke =>
    /\ core_is_down => target = previous
    /\ approved \in {earlier, target}
    /\ found = "Service" => target = previous \/ approved = target

\* A Service that ran the Core does not "keep running the previous core while the app reports
\* the new version", however the Core moves meanwhile; an upgrade that found the Core down, or
\* a Sidecar, hands the Service nothing and is excepted (upgrade_core).
ReportedCoreRuns ==
  step = "idle" /\ answer = "upgraded" /\ found = "Service" /\ mode = "Service" => core = target
=============================================================================
