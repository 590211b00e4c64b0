-------------------------------- MODULE Updater --------------------------------
(***************************************************************************)
(* Updates of the application (core::updater): the background loop that    *)
(* downloads one into a cache of two files, the start of the application,  *)
(* which may install it, an installation by hand, and the setting that     *)
(* disables updates and discards the cache.  Releases are numbered, 0 is   *)
(* the one that runs; bytes are the release they were signed for.          *)
(***************************************************************************)
EXTENDS Naturals

CONSTANTS
  None,
  MaxRelease,       \* bound: the newest release
  MaxPatches,       \* bound: changes of the setting
  MaxInstalls       \* bound: installations by hand

VARIABLES
  offered,          \* what the server offers
  auto,             \* committed auto_check_update
  patch,            \* the change of the setting under way: its step, and what it stages
  directory,        \* update_cache exists
  bin, meta,        \* pending_update.bin, pending_update.json: a release or None
  undeleted,        \* history: the last removal of the cache failed
  update_ready,
  background,       \* the background cycle, its release, and whether its token is cancelled
  token,            \* background_cancel holds the token of the cycle
  manual,           \* the installation by hand or at start-up, likewise
  installed,        \* [bytes, asked] of the last installation
  glimpsed,         \* history: start-up has read a setting that was only staged
  patches, installs

updvars == <<offered, auto, patch, directory, bin, meta, undeleted, update_ready, background, token,
             manual, installed, glimpsed, patches, installs>>
cache == <<directory, bin, meta, undeleted>>
setting == <<auto, patch, glimpsed, patches>>
cycle == <<update_ready, background, token>>
installation == <<manual, installed, installs>>

NoPatch == [step |-> "none", on |-> FALSE]
Rest(step) == [step |-> step, release |-> None, cancelled |-> FALSE]

\* The cache may be the one an earlier run was writing when it ended.
Init ==
  /\ offered = 1
  /\ auto \in BOOLEAN
  /\ patch = NoPatch
  /\ directory \in BOOLEAN
  /\ bin \in IF directory THEN {0, 1, None} ELSE {None}
  /\ meta \in IF directory THEN {0, 1, None} ELSE {None}
  /\ undeleted = FALSE
  /\ update_ready = FALSE
  /\ background = Rest("not-started")
  /\ token = FALSE
  /\ manual = Rest("starting-up")
  /\ installed = [bytes |-> None, asked |-> None]
  /\ glimpsed = FALSE
  /\ patches = 0 /\ installs = 0

Release ==
  /\ offered < MaxRelease
  /\ offered' = offered + 1
  /\ UNCHANGED <<setting, cache, cycle, installation>>

\* A removal that fails, or stops half way, is logged.
DeleteCache ==
  \/ directory' = FALSE /\ bin' = None /\ meta' = None /\ undeleted' = FALSE
  \/ /\ directory /\ UNCHANGED directory
     /\ bin' \in {bin, None} /\ meta' \in {meta, None}
     /\ undeleted' = TRUE

\* What readers see: the setting a patch has staged.
Latest == IF patch.step = "staged" THEN patch.on ELSE auto
Locked == patch.step # "none"

-----------------------------------------------------------------------------
(* check_and_download *)

At(step) == background.step = step
Goes(step) == background' = [background EXCEPT !.step = step]

CycleBegins ==
  /\ At("idle")
  /\ background' = Rest("checking")
  /\ token' = TRUE
  /\ UNCHANGED <<offered, setting, cache, update_ready, installation>>

\* A release that is not newer is not offered; one with a breaking change is announced only.
CycleChecks ==
  /\ At("checking")
  /\ \/ Goes("idle")
     \/ /\ Latest /\ ~update_ready
        /\ background' = [background EXCEPT !.step = "downloading", !.release = offered]
  /\ UNCHANGED <<offered, setting, cache, update_ready, token, installation>>

CycleDownloads ==
  /\ At("downloading")
  /\ Goes("idle") \/ Goes("writing-bytes")
  /\ UNCHANGED <<offered, setting, cache, update_ready, token, installation>>

\* write_cache: what fails is logged.
CycleWritesBytes ==
  /\ At("writing-bytes")
  /\ \/ directory' = TRUE /\ bin' = background.release /\ Goes("writing-version")
     \/ Goes("finishing") /\ UNCHANGED <<directory, bin>>
  /\ UNCHANGED <<offered, setting, meta, undeleted, update_ready, token, installation>>

CycleWritesVersion ==
  /\ At("writing-version")
  /\ \/ directory /\ meta' = background.release
     \/ UNCHANGED meta
  /\ Goes("finishing")
  /\ UNCHANGED <<offered, setting, directory, bin, undeleted, update_ready, token, installation>>

\* Mutation of CycleFinishes: updates disabled meanwhile are not noticed.
CycleFinishesRegardless ==
  /\ At("finishing")
  /\ ~Locked
  /\ update_ready' = TRUE /\ UNCHANGED cache
  /\ Goes("idle")
  /\ UNCHANGED <<offered, setting, token, installation>>

CycleFinishes ==
  /\ At("finishing")
  /\ ~Locked
  /\ IF background.cancelled \/ ~auto THEN DeleteCache /\ UNCHANGED update_ready
     ELSE update_ready' = TRUE /\ UNCHANGED cache
  /\ Goes("idle")
  /\ UNCHANGED <<offered, setting, token, installation>>

-----------------------------------------------------------------------------
(* apply_verge_patch and discard_pending *)

PatchStages ==
  /\ patch.step = "none"
  /\ patches < MaxPatches
  /\ patches' = patches + 1
  /\ \E on \in BOOLEAN : patch' = [step |-> "staged", on |-> on]
  /\ UNCHANGED <<offered, auto, glimpsed, cache, cycle, installation>>

PatchFails ==
  /\ patch.step = "staged"
  /\ patch' = NoPatch
  /\ UNCHANGED <<offered, auto, glimpsed, patches, cache, cycle, installation>>

PatchCommits ==
  /\ patch.step = "staged"
  /\ auto' = patch.on
  /\ patch' = IF patch.on THEN NoPatch ELSE [patch EXCEPT !.step = "discarding"]
  /\ UNCHANGED <<offered, glimpsed, patches, cache, cycle, installation>>

DiscardPending ==
  /\ patch.step = "discarding"
  /\ token' = FALSE
  /\ background' = [background EXCEPT !.cancelled = token \/ @]
  /\ update_ready' = FALSE
  /\ DeleteCache
  /\ patch' = NoPatch
  /\ UNCHANGED <<offered, auto, glimpsed, patches, installation>>

-----------------------------------------------------------------------------
(* try_install_on_startup and install_update *)

\* The background loop starts when start-up has not installed an update.
StartupEnds == manual' = Rest("none") /\ background' = Rest("idle")

StartupLooks ==
  /\ manual.step = "starting-up"
  /\ \/ (~Latest \/ meta = 0) /\ DeleteCache /\ StartupEnds
     \/ Latest /\ meta = None /\ StartupEnds /\ UNCHANGED cache
     \/ /\ Latest /\ meta \notin {0, None}
        /\ \/ StartupEnds
           \/ manual' = [step |-> "start-up-reads-version", release |-> offered, cancelled |-> FALSE]
              /\ UNCHANGED background
        /\ UNCHANGED cache
  /\ glimpsed' = (Latest # auto)
  /\ UNCHANGED <<offered, auto, patch, patches, update_ready, token, installed, installs>>

InstallBegins ==
  /\ manual.step = "none"
  /\ installs < MaxInstalls
  /\ installs' = installs + 1
  /\ manual' = [step |-> "reads-version", release |-> offered, cancelled |-> FALSE]
  /\ UNCHANGED <<offered, setting, cache, cycle, installed>>

\* Without a cache that can be used, an installation by hand downloads the release.
NoCache(step) ==
  IF step \in {"start-up-reads-version", "start-up-reads-bytes"} THEN StartupEnds
  ELSE manual' = [manual EXCEPT !.step = "downloading"] /\ UNCHANGED background

ReadsVersion ==
  /\ manual.step \in {"reads-version", "start-up-reads-version"}
  /\ IF meta = manual.release
     THEN /\ manual' = [manual EXCEPT !.step = IF @ = "reads-version" THEN "reads-bytes"
                                               ELSE "start-up-reads-bytes"]
          /\ UNCHANGED <<background, cache>>
     ELSE /\ NoCache(manual.step)
          /\ IF meta = None THEN UNCHANGED cache ELSE DeleteCache
  /\ UNCHANGED <<offered, setting, update_ready, token, installed, installs>>

\* The installer may hang at start-up; by hand the release is downloaded when need be.
Installs(bytes, asked) ==
  /\ installed' = [bytes |-> bytes, asked |-> asked]
  /\ manual' = Rest("installed")
  /\ DeleteCache

\* Mutation of ReadsBytes: the version file is believed.
ReadsBytesUnverified ==
  /\ manual.step \in {"reads-bytes", "start-up-reads-bytes"}
  /\ IF bin # None
     THEN Installs(bin, manual.release) /\ UNCHANGED background
     ELSE NoCache(manual.step) /\ DeleteCache /\ UNCHANGED installed
  /\ UNCHANGED <<offered, setting, update_ready, token, installs>>

\* verify_signature
ReadsBytes ==
  /\ manual.step \in {"reads-bytes", "start-up-reads-bytes"}
  /\ IF bin = manual.release
     THEN \/ Installs(bin, manual.release) /\ UNCHANGED background
          \/ /\ IF manual.step = "reads-bytes" THEN manual' = Rest("none") /\ UNCHANGED background
                ELSE StartupEnds
             /\ UNCHANGED <<cache, installed>>
     ELSE NoCache(manual.step) /\ DeleteCache /\ UNCHANGED installed
  /\ UNCHANGED <<offered, setting, update_ready, token, installs>>

InstallDownloads ==
  /\ manual.step = "downloading"
  /\ \/ Installs(manual.release, manual.release)
     \/ manual' = Rest("none") /\ UNCHANGED <<cache, installed>>
  /\ UNCHANGED <<offered, setting, cycle, installs>>

\* cancel_download
InstallCancelled ==
  /\ manual.step \in {"reads-version", "reads-bytes", "downloading"}
  /\ manual' = Rest("none")
  /\ UNCHANGED <<offered, setting, cache, cycle, installed, installs>>

-----------------------------------------------------------------------------
Next ==
  \/ Release
  \/ CycleBegins \/ CycleChecks \/ CycleDownloads \/ CycleWritesBytes \/ CycleWritesVersion
  \/ CycleFinishes
  \/ PatchStages \/ PatchFails \/ PatchCommits \/ DiscardPending
  \/ StartupLooks \/ InstallBegins \/ ReadsVersion \/ ReadsBytes \/ InstallDownloads
  \/ InstallCancelled

UpdaterSpec == Init /\ [][Next]_updvars

-----------------------------------------------------------------------------
\* What is installed is the release that was asked for, though the two files of the
\* cache are written while they are read, or were left by a run that was cut short
\* (verified_cache).
InstallsWhatWasAsked == installed.bytes = installed.asked

\* When updates are disabled nothing is left to install at the next start: no flag, and no
\* cache but one whose removal failed, whatever the background cycle was doing; while it
\* still writes it is excepted (discard_pending, check_and_download).
DisabledKeepsNothing ==
  /\ ~auto /\ ~Locked /\ ~glimpsed /\ manual.step # "starting-up"
  /\ background.step \notin {"writing-bytes", "writing-version", "finishing"}
  => ~update_ready /\ (undeleted \/ (bin = None /\ meta = None))
=============================================================================
