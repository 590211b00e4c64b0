-------------------------- MODULE ApplicationProofs --------------------------
(***************************************************************************)
(* What holds of the application as it is installed, updated, moved and    *)
(* started, of its backups and of the traffic it counts (MCFiles), for any *)
(* releases, processes, calls and connections, and any number of failures  *)
(* and deaths.                                                             *)
(***************************************************************************)
EXTENDS MCFiles, FiniteSetTheorems, WellFoundedInduction, TLAPS

\* No step leaves the part of the model a behaviour is one of.
LEMMA PartStays == [Next]_mcvars => part' = part
BY DEF Next, mcvars

-----------------------------------------------------------------------------
(* The upgrade of the Core *)

\* What a failed upgrade must leave.
Retriable ==
  /\ core_is_down => core_file = previous
  /\ approved \in {earlier, core_file}
  /\ found = "Service" => core_file = previous \/ approved = core_file

\* Where the files are at each step, as long as no rollback has failed.
UpgradeFollows ==
  /\ step \in {"publishing", "moving-in", "staging", "restarting", "failing"} =>
       /\ ~core_is_down
       /\ restorable => rollback = previous
  /\ step \in {"publishing", "moving-in", "staging"} => approved = earlier /\ staging = "not-attempted"
  /\ step = "staging" => found = "Service"
  /\ step = "publishing" => core_file = previous
  /\ step = "moving-in" => displaced = previous /\ core_file = None
  /\ step = "restarting" =>
       IF found = "Service" THEN approved = core_file /\ staging = "succeeded"
       ELSE approved = earlier /\ staging = "not-attempted"
  /\ step = "failing" =>
       \/ /\ approved = earlier /\ staging = "not-attempted"
          /\ found = "Service" => core_file \in {previous, None}
       \/ approved = earlier /\ staging = "refused"
       \/ approved = core_file /\ staging = "succeeded"
  /\ step = "restaging" => core_file = previous
  /\ step = "recovering" => core_file = previous /\ approved \in {earlier, core_file}
  /\ step = "cleaning" /\ failed # None => Retriable
  /\ step = "idle" /\ answer = "failed" => Retriable

\* An upgrade that succeeds, or has, found no Service running the Core, or has handed it the
\* file, and it runs that.
Delivered ==
  \/ step = "cleaning" /\ failed = None
  \/ step = "idle" /\ answer = "upgraded"
  => (found = "Service" => approved = core_file /\ (core_mode = "Service" => core_run = approved))

\* The inductive invariant of the upgrade: nothing is broken before a failure is dealt with.
UpgradeInv ==
  /\ step \in {"publishing", "moving-in", "staging", "restarting", "failing"} => ~broke
  /\ step \in {"publishing", "moving-in", "staging", "restarting"} => failed = None
  /\ step \in {"failing", "restaging", "recovering"} => failed # None
  /\ ~broke => UpgradeFollows
  /\ Delivered

\* An upgrade begins with the invariant.
LEMMA UpgradeInit == Upgrade!Init => UpgradeInv
BY NoneAssumption DEF Upgrade!Init, UpgradeInv, UpgradeFollows, Delivered

\* A Service that runs the Core after a start runs its approved copy.
LEMMA UpgradeStarts == Upgrade!StartEnds => (core_mode' = "Service" => core_run' = approved)
<1> SUFFICES ASSUME NEW s \in Upgrade!StartOutcomes, Upgrade!Becomes(s), core_mode' = "Service"
             PROVE  core_run' = approved
  BY DEF Upgrade!StartEnds
<1>1. s.mode = "Service"
  BY DEF Upgrade!Becomes
<1>2. s = [mode |-> "Service", core |-> approved]
  BY <1>1 DEF Upgrade!StartOutcomes
<1> QED
  BY <1>2 DEF Upgrade!Becomes

\* Each step of an upgrade preserves the invariant.
LEMMA UpgradeStep == UpgradeInv /\ Upgrade!Next => UpgradeInv'
<1> SUFFICES ASSUME UpgradeInv, Upgrade!Next PROVE UpgradeInv'
  OBVIOUS
<1> USE NoneAssumption DEF UpgradeInv, UpgradeFollows, Delivered, Retriable, Upgrade!platform,
    Upgrade!files, Upgrade!running, Upgrade!history, Upgrade!decided, Upgrade!plan, Upgrade!Fails
<1>1. CASE Upgrade!Begin
  BY <1>1 DEF Upgrade!Begin
<1>2. CASE Upgrade!Link
  BY <1>2 DEF Upgrade!Link
<1>3. CASE Upgrade!Publish
  BY <1>3 DEF Upgrade!Publish, Upgrade!Published
<1>4. CASE Upgrade!MoveAside
  BY <1>4 DEF Upgrade!MoveAside
<1>5. CASE Upgrade!MoveIn
  BY <1>5 DEF Upgrade!MoveIn, Upgrade!Published
<1>6. CASE Upgrade!StageService
  BY <1>6 DEF Upgrade!StageService
<1>7. CASE Upgrade!Restart
  BY <1>7, UpgradeStarts DEF Upgrade!Restart
<1>8. CASE Upgrade!Restore
  BY <1>8 DEF Upgrade!Restore, Upgrade!MustRestore, Upgrade!Down
<1>9. CASE Upgrade!Restage
  BY <1>9 DEF Upgrade!Restage
<1>10. CASE Upgrade!Recover
  BY <1>10, UpgradeStarts DEF Upgrade!Recover
<1>11. CASE Upgrade!Clean
  BY <1>11 DEF Upgrade!Clean
<1>12. CASE Upgrade!Dies
  BY <1>12, UpgradeStarts DEF Upgrade!Dies
<1>13. CASE Upgrade!CoreMoves
  BY <1>13, UpgradeStarts DEF Upgrade!CoreMoves
<1> HIDE DEF UpgradeInv
<1> QED
  BY <1>1, <1>2, <1>3, <1>4, <1>5, <1>6, <1>7, <1>8, <1>9, <1>10, <1>11, <1>12, <1>13
     DEF Upgrade!Next

\* A stutter of the upgrade keeps the invariant.
LEMMA UpgradeStutter == UpgradeInv /\ UNCHANGED upgrade_vars => UpgradeInv'
BY DEF UpgradeInv, UpgradeFollows, Delivered, Retriable, upgrade_vars

\* After an upgrade that failed while the Service ran the Core a retry finds what there is to
\* do, and after one that is reported that Service runs the new one
\* (FailedUpgradeCanBeRetried, ReportedCoreRuns, upgrade_core).
THEOREM UpgradesCanBeRetried ==
  Spec => [](part = "upgrade" => Upgrade!FailedUpgradeCanBeRetried /\ Upgrade!ReportedCoreRuns)
<1> DEFINE Inv == part = "upgrade" => UpgradeInv
<1>1. Init => Inv
  BY UpgradeInit DEF Init
<1>2. Inv /\ [Next]_mcvars => Inv'
  <2> SUFFICES ASSUME part = "upgrade", UpgradeInv, [Next]_mcvars PROVE UpgradeInv'
    BY PartStays
  <2>1. CASE Upgrade!Next
    BY <2>1, UpgradeStep
  <2>2. CASE UNCHANGED upgrade_vars
    BY <2>2, UpgradeStutter
  <2> QED
    BY <2>1, <2>2 DEF Next, mcvars
<1>3. Inv => (part = "upgrade" => Upgrade!FailedUpgradeCanBeRetried /\ Upgrade!ReportedCoreRuns)
  BY DEF UpgradeInv, UpgradeFollows, Delivered, Retriable, Upgrade!FailedUpgradeCanBeRetried,
     Upgrade!ReportedCoreRuns
<1> QED
  BY <1>1, <1>2, <1>3, PTL DEF Spec

-----------------------------------------------------------------------------
(* The updates of the application *)

\* What the cycle, an installation and a change of the setting are at.
CycleSteps == {"not-started", "idle", "checking", "downloading", "writing-bytes",
               "writing-version", "finishing"}
StartupSteps == {"starting-up", "start-up-reads-version", "start-up-reads-bytes"}
InstallSteps ==
  StartupSteps \cup {"none", "reads-version", "reads-bytes", "downloading", "installed"}

CycleState == [step : CycleSteps, release : Nat \cup {None}, cancelled : BOOLEAN]
InstallState == [step : InstallSteps, release : Nat \cup {None}, cancelled : BOOLEAN]

UpdaterTyped ==
  /\ offered \in Nat /\ token \in BOOLEAN
  /\ background \in CycleState
  /\ manual \in InstallState
  /\ patch \in [step : {"none", "staged", "discarding"}, on : BOOLEAN]

\* The background cycle is at work on the cache.
Writing == background.step \in {"writing-bytes", "writing-version", "finishing"}

\* The loop starts after start-up; updates that are disabled leave no flag, and no cache
\* unless the cycle is at work on it and will discard it when it finishes, or it could not be
\* removed.
UpdaterInv ==
  /\ UpdaterTyped
  /\ manual.step \in StartupSteps => background.step = "not-started"
  /\ ~auto /\ patch.step # "discarding" => ~update_ready
  /\ ~auto /\ patch.step # "discarding" /\ ~glimpsed /\ manual.step # "starting-up" =>
       Writing \/ undeleted \/ (bin = None /\ meta = None)
  /\ Update!InstallsWhatWasAsked

\* What an installation starts from, goes to and rests in.
LEMMA UpdaterStates ==
  /\ \A s \in CycleSteps : Update!Rest(s) \in CycleState
  /\ \A s \in InstallSteps : Update!Rest(s) \in InstallState
  /\ \A s \in InstallSteps, r \in Nat :
       [step |-> s, release |-> r, cancelled |-> FALSE] \in InstallState
  /\ \A m \in InstallState, s \in InstallSteps : [m EXCEPT !.step = s] \in InstallState
BY DEF Update!Rest, CycleState, InstallState

\* A step of an installation goes to one of its steps.
LEMMA InstallGoes ==
  ASSUME manual \in InstallState,
         \/ \E to \in InstallSteps : manual' = [manual EXCEPT !.step = to]
         \/ \E to \in InstallSteps : manual' = Update!Rest(to)
         \/ UNCHANGED manual
  PROVE  manual' \in InstallState
BY UpdaterStates

\* The updater begins with the invariant.
LEMMA UpdaterInit == Update!Init => UpdaterInv
<1> SUFFICES ASSUME Update!Init PROVE UpdaterInv
  OBVIOUS
<1>1. UpdaterTyped
  BY DEF Update!Init, Update!NoPatch, Update!Rest, UpdaterTyped, CycleState, InstallState,
     CycleSteps, StartupSteps, InstallSteps
<1>2. installed.bytes = installed.asked
  BY DEF Update!Init
<1> QED
  BY <1>1, <1>2
     DEF Update!Init, Update!Rest, UpdaterInv, StartupSteps, Update!InstallsWhatWasAsked

\* Each step of the updater preserves the invariant.
LEMMA UpdaterStep == UpdaterInv /\ Update!Next => UpdaterInv'
<1> SUFFICES ASSUME UpdaterInv, Update!Next PROVE UpdaterInv'
  OBVIOUS
<1> USE DEF UpdaterInv, UpdaterTyped, CycleState, InstallState, CycleSteps, StartupSteps,
    InstallSteps, Writing, Update!InstallsWhatWasAsked, Update!cache, Update!setting,
    Update!cycle, Update!installation, Update!At, Update!Goes, Update!DeleteCache,
    Update!Locked, Update!Latest, Update!Rest, Update!NoPatch
<1>1. CASE Update!Release
  BY <1>1 DEF Update!Release
<1>2. CASE Update!CycleBegins
  BY <1>2 DEF Update!CycleBegins
<1>3. CASE Update!CycleChecks
  BY <1>3, ZenonT(45) DEF Update!CycleChecks
<1>4. CASE Update!CycleDownloads
  BY <1>4 DEF Update!CycleDownloads
<1>5. CASE Update!CycleWritesBytes
  BY <1>5 DEF Update!CycleWritesBytes
<1>6. CASE Update!CycleWritesVersion
  BY <1>6 DEF Update!CycleWritesVersion
<1>7. CASE Update!CycleFinishes
  BY <1>7 DEF Update!CycleFinishes
<1>8. CASE Update!PatchStages
  BY <1>8 DEF Update!PatchStages
<1>9. CASE Update!PatchFails
  BY <1>9 DEF Update!PatchFails
<1>10. CASE Update!PatchCommits
  BY <1>10 DEF Update!PatchCommits
<1>11. CASE Update!DiscardPending
  BY <1>11 DEF Update!DiscardPending
<1>12. CASE Update!StartupLooks
  <2>1. UpdaterTyped'
    <3>1. background' \in CycleState
      <4> HIDE DEF CycleState, InstallState, Update!Rest
      <4> QED
        BY <1>12, UpdaterStates DEF Update!StartupLooks, Update!StartupEnds
    <3>2. manual' \in InstallState
      <4> HIDE DEF CycleState, InstallState, Update!Rest
      <4> QED
        BY <1>12, UpdaterStates DEF Update!StartupLooks, Update!StartupEnds
    <3> QED
      BY <1>12, <3>1, <3>2 DEF Update!StartupLooks, Update!StartupEnds
  <2>2. manual'.step \in StartupSteps => background'.step = "not-started"
    BY <1>12 DEF Update!StartupLooks, Update!StartupEnds
  <2>3. /\ UNCHANGED <<auto, patch, update_ready>>
      /\ \/ background'.step = background.step
         \/ background'.step = "idle" /\ background.step = "not-started"
    BY <1>12 DEF Update!StartupLooks, Update!StartupEnds
  <2>4. installed'.bytes = installed'.asked
    BY <1>12 DEF Update!StartupLooks, Update!StartupEnds
  <2> QED
    BY <1>12, <2>1, <2>2, <2>3, <2>4 DEF Update!StartupLooks, Update!StartupEnds
<1>13. CASE Update!InstallBegins
  BY <1>13 DEF Update!InstallBegins
<1>14. CASE Update!ReadsVersion
  <2>1. UpdaterTyped'
    <3>1. background' \in CycleState
      <4> HIDE DEF CycleState, InstallState, Update!Rest
      <4> QED
        BY <1>14, UpdaterStates DEF Update!ReadsVersion, Update!NoCache, Update!StartupEnds
    <3>2. manual' \in InstallState
      <4> HIDE DEF CycleState, InstallState, Update!Rest
      <4>1. \/ \E to \in InstallSteps : manual' = [manual EXCEPT !.step = to]
            \/ \E to \in InstallSteps : manual' = Update!Rest(to)
            \/ UNCHANGED manual
        BY <1>14 DEF Update!ReadsVersion, Update!NoCache, Update!StartupEnds
      <4>2. manual \in InstallState
        OBVIOUS
      <4> HIDE DEF InstallSteps, StartupSteps, CycleSteps, UpdaterTyped, UpdaterInv
      <4> QED
        BY <4>1, <4>2, InstallGoes
    <3> QED
      BY <1>14, <3>1, <3>2 DEF Update!ReadsVersion, Update!NoCache, Update!StartupEnds
  <2>2. manual'.step \in StartupSteps => background'.step = "not-started"
    BY <1>14 DEF Update!ReadsVersion, Update!NoCache, Update!StartupEnds
  <2>3. /\ UNCHANGED <<auto, patch, update_ready>>
      /\ \/ background'.step = background.step
         \/ background'.step = "idle" /\ background.step = "not-started"
    BY <1>14 DEF Update!ReadsVersion, Update!NoCache, Update!StartupEnds
  <2>4. installed'.bytes = installed'.asked
    BY <1>14 DEF Update!ReadsVersion, Update!NoCache, Update!StartupEnds
  <2> QED
    BY <1>14, <2>1, <2>2, <2>3, <2>4 DEF Update!ReadsVersion, Update!NoCache, Update!StartupEnds
<1>15. CASE Update!ReadsBytes
  <2>1. UpdaterTyped'
    <3>1. background' \in CycleState
      <4> HIDE DEF CycleState, InstallState, Update!Rest
      <4> QED
        BY <1>15, UpdaterStates DEF Update!ReadsBytes, Update!NoCache, Update!StartupEnds,
           Update!Installs
    <3>2. manual' \in InstallState
      <4> HIDE DEF CycleState, InstallState, Update!Rest
      <4>1. \/ \E to \in InstallSteps : manual' = [manual EXCEPT !.step = to]
            \/ \E to \in InstallSteps : manual' = Update!Rest(to)
            \/ UNCHANGED manual
        BY <1>15 DEF Update!ReadsBytes, Update!NoCache, Update!StartupEnds, Update!Installs
      <4>2. manual \in InstallState
        OBVIOUS
      <4> HIDE DEF InstallSteps, StartupSteps, CycleSteps, UpdaterTyped, UpdaterInv
      <4> QED
        BY <4>1, <4>2, InstallGoes
    <3> QED
      BY <1>15, <3>1, <3>2 DEF Update!ReadsBytes, Update!NoCache, Update!StartupEnds,
         Update!Installs
  <2>2. manual'.step \in StartupSteps => background'.step = "not-started"
    BY <1>15 DEF Update!ReadsBytes, Update!NoCache, Update!StartupEnds, Update!Installs
  <2>3. /\ UNCHANGED <<auto, patch, update_ready>>
      /\ \/ background'.step = background.step
         \/ background'.step = "idle" /\ background.step = "not-started"
    BY <1>15 DEF Update!ReadsBytes, Update!NoCache, Update!StartupEnds, Update!Installs
  <2>4. installed'.bytes = installed'.asked
    BY <1>15 DEF Update!ReadsBytes, Update!NoCache, Update!StartupEnds, Update!Installs
  <2> QED
    BY <1>15, <2>1, <2>2, <2>3, <2>4 DEF Update!ReadsBytes, Update!NoCache, Update!StartupEnds,
       Update!Installs
<1>16. CASE Update!InstallDownloads
  <2>1. UpdaterTyped'
    <3>1. background' \in CycleState
      <4> HIDE DEF CycleState, InstallState, Update!Rest
      <4> QED
        BY <1>16, UpdaterStates DEF Update!InstallDownloads, Update!Installs
    <3>2. manual' \in InstallState
      <4> HIDE DEF CycleState, InstallState, Update!Rest
      <4> QED
        BY <1>16, UpdaterStates DEF Update!InstallDownloads, Update!Installs
    <3> QED
      BY <1>16, <3>1, <3>2 DEF Update!InstallDownloads, Update!Installs
  <2>2. manual'.step \in StartupSteps => background'.step = "not-started"
    BY <1>16 DEF Update!InstallDownloads, Update!Installs
  <2>3. /\ UNCHANGED <<auto, patch, update_ready>>
      /\ \/ background'.step = background.step
         \/ background'.step = "idle" /\ background.step = "not-started"
    BY <1>16 DEF Update!InstallDownloads, Update!Installs
  <2>4. installed'.bytes = installed'.asked
    BY <1>16 DEF Update!InstallDownloads, Update!Installs
  <2> QED
    BY <1>16, <2>1, <2>2, <2>3, <2>4 DEF Update!InstallDownloads, Update!Installs
<1>17. CASE Update!InstallCancelled
  BY <1>17 DEF Update!InstallCancelled
<1> HIDE DEF UpdaterInv
<1> QED
  BY <1>1, <1>2, <1>3, <1>4, <1>5, <1>6, <1>7, <1>8, <1>9, <1>10, <1>11, <1>12, <1>13, <1>14,
     <1>15, <1>16, <1>17 DEF Update!Next

\* A stutter of the updater keeps the invariant.
LEMMA UpdaterStutter == UpdaterInv /\ UNCHANGED updater_vars => UpdaterInv'
BY DEF UpdaterInv, UpdaterTyped, CycleState, InstallState, CycleSteps, StartupSteps,
   InstallSteps, Writing, Update!InstallsWhatWasAsked, updater_vars

\* What is installed is what was asked for, and disabled updates leave nothing to install, a
\* cache that could not be removed excepted (verified_cache, discard_pending, delete_cache).
THEOREM UpdatesAreSound ==
  Spec => [](part = "updater" => Update!InstallsWhatWasAsked /\ Update!DisabledKeepsNothing)
<1> DEFINE Inv == part = "updater" => UpdaterInv
<1>1. Init => Inv
  BY UpdaterInit DEF Init
<1>2. Inv /\ [Next]_mcvars => Inv'
  <2> SUFFICES ASSUME part = "updater", UpdaterInv, [Next]_mcvars PROVE UpdaterInv'
    BY PartStays
  <2>1. CASE Update!Next
    BY <2>1, UpdaterStep
  <2>2. CASE UNCHANGED updater_vars
    BY <2>2, UpdaterStutter
  <2> QED
    BY <2>1, <2>2 DEF Next, mcvars
<1>3. Inv => (part = "updater" => Update!InstallsWhatWasAsked /\ Update!DisabledKeepsNothing)
  BY DEF UpdaterInv, UpdaterTyped, CycleState, InstallState, CycleSteps, StartupSteps,
     InstallSteps, Writing, Update!DisabledKeepsNothing, Update!Locked
<1> QED
  BY <1>1, <1>2, <1>3, PTL DEF Spec

-----------------------------------------------------------------------------
(* Moving the application *)

\* What may be in a place, and where a process that moves the application is.
Bundles == {None, "old", "new", "part"}
MoveSteps == {"start", "runs", "copy", "aside", "swap", "undo", "open", "take-back", "restore",
              "clean", "exited"}
Halfway == {"swap", "undo", "open", "take-back", "restore"}

MoveTyped ==
  /\ before \in {None, "old"} /\ bundle \in Bundles /\ destination \in Bundles
  /\ move_staging \in [Starts -> Bundles] /\ backup \in [Starts -> Bundles]
  /\ move_step \in [Starts -> MoveSteps]
  /\ had \in SUBSET Starts /\ IsFiniteSet(had)

\* A process that set the destination aside still has it while it is halfway.
BackupsHeld ==
  /\ \A p \in Starts : move_step[p] \in {"aside", "swap"} => move_staging[p] = "new"
  /\ \A p \in Starts : move_step[p] \in {"start", "runs", "copy", "aside"} => p \notin had
  /\ \A p \in had : move_step[p] \in Halfway => backup[p] # None
  /\ \A p \in Starts : move_step[p] \in {"undo", "take-back", "restore"} => p \in had
  /\ \A p \in Starts : move_step[p] = "clean" => moved
  /\ bundle = None => moved

\* Somebody owes a destination that is empty though there was something.
DestinationOwed ==
  destination = None /\ (before # None \/ moved) =>
    stranded \/ \E p \in had : move_step[p] \in {"swap", "undo", "restore"}

\* With one process at most that set a destination aside, it is the one there was at first.
EarlierKept ==
  before # None /\ ~moved /\ ~stranded =>
    /\ had = {} => destination = before
    /\ \A p \in Starts : had = {p} =>
         IF move_step[p] \in Halfway THEN backup[p] = before
         ELSE move_step[p] = "exited" /\ destination = before

MoveInv == MoveTyped /\ BackupsHeld /\ DestinationOwed /\ EarlierKept

\* Moving begins with the invariant.
LEMMA MoveInit == Move!Init => MoveInv
<1> SUFFICES ASSUME Move!Init PROVE MoveInv
  OBVIOUS
<1> USE FS_EmptySet DEF Move!Init
<1>1. MoveTyped
  BY DEF MoveTyped, Bundles, MoveSteps
<1>2. BackupsHeld /\ DestinationOwed /\ EarlierKept
  BY NoneAssumption DEF BackupsHeld, DestinationOwed, EarlierKept, Halfway
<1> QED
  BY <1>1, <1>2 DEF MoveInv

\* Evaluate preserves the invariant.
LEMMA MoveEvaluate ==
  ASSUME MoveInv, NEW p \in Starts, Move!Evaluate(p)
  PROVE  MoveInv'
<1> USE NoneAssumption DEF MoveInv, Move!Evaluate, Move!Goes
<1>1. MoveTyped'
  BY FS_AddElement DEF MoveTyped, Bundles, MoveSteps
<1>2. BackupsHeld'
  BY DEF MoveTyped, BackupsHeld, Halfway
<1>3. DestinationOwed'
  BY DEF MoveTyped, BackupsHeld, DestinationOwed, Halfway
<1>4. EarlierKept'
  BY DEF MoveTyped, BackupsHeld, EarlierKept, Halfway
<1> QED
  BY <1>1, <1>2, <1>3, <1>4

\* Copy preserves the invariant.
LEMMA MoveCopy ==
  ASSUME MoveInv, NEW p \in Starts, Move!Copy(p)
  PROVE  MoveInv'
<1> USE NoneAssumption DEF MoveInv, Move!Copy, Move!Goes, Move!Works, Move!Fails
<1>1. MoveTyped'
  BY FS_AddElement DEF MoveTyped, Bundles, MoveSteps
<1>2. BackupsHeld'
  BY DEF MoveTyped, BackupsHeld, Halfway
<1>3. DestinationOwed'
  BY DEF MoveTyped, BackupsHeld, DestinationOwed, Halfway
<1>4. EarlierKept'
  BY DEF MoveTyped, BackupsHeld, EarlierKept, Halfway
<1> QED
  BY <1>1, <1>2, <1>3, <1>4

\* SetAside preserves the invariant.
LEMMA MoveSetAside ==
  ASSUME MoveInv, NEW p \in Starts, Move!SetAside(p)
  PROVE  MoveInv'
<1> USE NoneAssumption DEF MoveInv, Move!SetAside, Move!Goes, Move!Works, Move!Fails
<1>1. MoveTyped'
  BY FS_AddElement DEF MoveTyped, Bundles, MoveSteps
<1>2. BackupsHeld'
  BY DEF MoveTyped, BackupsHeld, Halfway
<1>3. DestinationOwed'
  BY DEF MoveTyped, BackupsHeld, DestinationOwed, Halfway
<1>4. EarlierKept'
  BY DEF MoveTyped, BackupsHeld, EarlierKept, Halfway
<1> QED
  BY <1>1, <1>2, <1>3, <1>4

\* SwapIn preserves the invariant.
LEMMA MoveSwapIn ==
  ASSUME MoveInv, NEW p \in Starts, Move!SwapIn(p)
  PROVE  MoveInv'
<1> USE NoneAssumption DEF MoveInv, Move!SwapIn, Move!Goes, Move!Works, Move!Fails
<1>1. MoveTyped'
  BY FS_AddElement DEF MoveTyped, Bundles, MoveSteps
<1>2. BackupsHeld'
  BY DEF MoveTyped, BackupsHeld, Halfway
<1>3. DestinationOwed'
  BY DEF MoveTyped, BackupsHeld, DestinationOwed, Halfway
<1>4. EarlierKept'
  BY DEF MoveTyped, BackupsHeld, EarlierKept, Halfway
<1> QED
  BY <1>1, <1>2, <1>3, <1>4

\* Undo preserves the invariant.
LEMMA MoveUndo ==
  ASSUME MoveInv, NEW p \in Starts, Move!Undo(p)
  PROVE  MoveInv'
<1> USE NoneAssumption DEF MoveInv, Move!Undo, Move!PutBack, Move!Goes, Move!Works, Move!Fails
<1>1. MoveTyped'
  BY FS_AddElement DEF MoveTyped, Bundles, MoveSteps
<1>2. BackupsHeld'
  BY DEF MoveTyped, BackupsHeld, Halfway
<1>3. DestinationOwed'
  BY DEF MoveTyped, BackupsHeld, DestinationOwed, Halfway
<1>4. EarlierKept'
  BY DEF MoveTyped, BackupsHeld, EarlierKept, Halfway
<1> QED
  BY <1>1, <1>2, <1>3, <1>4

\* Open preserves the invariant.
LEMMA MoveOpen ==
  ASSUME MoveInv, NEW p \in Starts, Move!Open(p)
  PROVE  MoveInv'
<1> USE NoneAssumption DEF MoveInv, Move!Open, Move!NotStarted, Move!Goes, Move!Works, Move!Fails
<1>1. MoveTyped'
  BY FS_AddElement DEF MoveTyped, Bundles, MoveSteps
<1>2. BackupsHeld'
  BY DEF MoveTyped, BackupsHeld, Halfway
<1>3. DestinationOwed'
  BY DEF MoveTyped, BackupsHeld, DestinationOwed, Halfway
<1>4. EarlierKept'
  BY DEF MoveTyped, BackupsHeld, EarlierKept, Halfway
<1> QED
  BY <1>1, <1>2, <1>3, <1>4

\* TakeBack preserves the invariant.
LEMMA MoveTakeBack ==
  ASSUME MoveInv, NEW p \in Starts, Move!TakeBack(p)
  PROVE  MoveInv'
<1> USE NoneAssumption DEF MoveInv, Move!TakeBack, Move!Goes, Move!Works, Move!Fails
<1>1. MoveTyped'
  BY FS_AddElement DEF MoveTyped, Bundles, MoveSteps
<1>2. BackupsHeld'
  BY DEF MoveTyped, BackupsHeld, Halfway
<1>3. DestinationOwed'
  BY DEF MoveTyped, BackupsHeld, DestinationOwed, Halfway
<1>4. EarlierKept'
  BY DEF MoveTyped, BackupsHeld, EarlierKept, Halfway
<1> QED
  BY <1>1, <1>2, <1>3, <1>4

\* RestoreOld preserves the invariant.
LEMMA MoveRestoreOld ==
  ASSUME MoveInv, NEW p \in Starts, Move!RestoreOld(p)
  PROVE  MoveInv'
<1> USE NoneAssumption DEF MoveInv, Move!RestoreOld, Move!PutBack, Move!Goes, Move!Works, Move!Fails
<1>1. MoveTyped'
  BY FS_AddElement DEF MoveTyped, Bundles, MoveSteps
<1>2. BackupsHeld'
  BY DEF MoveTyped, BackupsHeld, Halfway
<1>3. DestinationOwed'
  BY DEF MoveTyped, BackupsHeld, DestinationOwed, Halfway
<1>4. EarlierKept'
  BY DEF MoveTyped, BackupsHeld, EarlierKept, Halfway
<1> QED
  BY <1>1, <1>2, <1>3, <1>4

\* Clean preserves the invariant.
LEMMA MoveClean ==
  ASSUME MoveInv, NEW p \in Starts, Move!Clean(p)
  PROVE  MoveInv'
<1> USE NoneAssumption DEF MoveInv, Move!Clean, Move!Goes
<1>1. MoveTyped'
  BY FS_AddElement DEF MoveTyped, Bundles, MoveSteps
<1>2. BackupsHeld'
  BY DEF MoveTyped, BackupsHeld, Halfway
<1>3. DestinationOwed'
  BY DEF MoveTyped, BackupsHeld, DestinationOwed, Halfway
<1>4. EarlierKept'
  BY DEF MoveTyped, BackupsHeld, EarlierKept, Halfway
<1> QED
  BY <1>1, <1>2, <1>3, <1>4

\* Dies preserves the invariant.
LEMMA MoveDies ==
  ASSUME MoveInv, NEW p \in Starts, Move!Dies(p)
  PROVE  MoveInv'
<1> USE NoneAssumption DEF MoveInv, Move!Dies
<1>1. MoveTyped'
  BY FS_AddElement DEF MoveTyped, Bundles, MoveSteps
<1>2. BackupsHeld'
  BY DEF MoveTyped, BackupsHeld, Halfway
<1>3. DestinationOwed'
  BY DEF MoveTyped, BackupsHeld, DestinationOwed, Halfway
<1>4. EarlierKept'
  BY DEF MoveTyped, BackupsHeld, EarlierKept, Halfway
<1> QED
  BY <1>1, <1>2, <1>3, <1>4

\* A stutter of the move preserves the invariant.
LEMMA MoveStutter == MoveInv /\ UNCHANGED relocation_vars => MoveInv'
BY DEF MoveInv, MoveTyped, BackupsHeld, DestinationOwed, EarlierKept, relocation_vars

\* Moving the application never leaves the user without one (ApplicationIsKept).
THEOREM MovesKeepTheApplication ==
  Spec => [](part = "relocation" => Move!ApplicationIsKept)
<1> DEFINE Inv == part = "relocation" => MoveInv
<1>1. Init => Inv
  BY MoveInit DEF Init
<1>2. Inv /\ [Next]_mcvars => Inv'
  <2> SUFFICES ASSUME part = "relocation", MoveInv, [Next]_mcvars PROVE MoveInv'
    BY PartStays
  <2>1. CASE Move!Next
    BY <2>1, MoveEvaluate, MoveCopy, MoveSetAside, MoveSwapIn, MoveUndo, MoveOpen, MoveTakeBack,
       MoveRestoreOld, MoveClean, MoveDies DEF Move!Next
  <2>2. CASE UNCHANGED relocation_vars
    BY <2>2, MoveStutter
  <2> QED
    BY <2>1, <2>2 DEF Next, mcvars
<1>3. MoveInv => Move!ApplicationIsKept
  <2> SUFFICES ASSUME MoveInv, ~stranded,
                      \A p \in Starts : move_step[p] \in {"start", "runs", "exited"}
               PROVE  /\ bundle # None \/ destination # None
                      /\ before # None => destination # None
                      /\ before # None /\ ~moved /\ Cardinality(had) <= 1 => destination = before
    BY DEF Move!ApplicationIsKept, Move!Cardinality, Cardinality
  <2>1. destination = None => before = None /\ ~moved
    BY DEF MoveInv, MoveTyped, DestinationOwed
  <2>2. bundle # None \/ destination # None
    BY <2>1 DEF MoveInv, BackupsHeld
  <2>3. ASSUME before # None, ~moved, Cardinality(had) <= 1 PROVE destination = before
    <3>1. IsFiniteSet(had) /\ had \subseteq Starts
      BY DEF MoveInv, MoveTyped
    <3>2. Cardinality(had) \in {0, 1}
      BY <2>3, <3>1, FS_CardinalityType
    <3>3. had = {} \/ \E p \in Starts : had = {p}
      BY <3>1, <3>2, FS_EmptySet, FS_Singleton
    <3> QED
      BY <2>3, <3>3 DEF MoveInv, EarlierKept, Halfway
  <2> QED
    BY <2>1, <2>2, <2>3
<1> QED
  BY <1>1, <1>2, <1>3, PTL DEF Spec

-----------------------------------------------------------------------------
(* The data directory and the one primary *)

\* Where a process that starts may be; the lock file is open in those of LockOpen.
LockOpen == {"lock", "ask", "told", "bind", "record", "serving", "ready", "token", "closed"}
LockHeld == {"bind", "record", "serving", "ready", "token", "closed"}
RebuildSteps == {"create", "own", "move", "back"}
StartSteps == {"off", "check", "take", "aside", "drop", "open", "ended"}
              \cup RebuildSteps \cup LockOpen

StartTyped ==
  /\ starts_windows \in BOOLEAN /\ denied \in BOOLEAN /\ kept \in SUBSET Data
  /\ root \in Directories \cup {None}
  /\ stale \in [Starts -> Directories \cup {None}]
  /\ at \in [Starts -> StartSteps]
  /\ repaired \in SUBSET Starts /\ locked \in SUBSET Starts
  /\ file \in [Starts -> {None} \cup {<<id>> : id \in Starts \cup {None}}]
  /\ bound \in [Ports -> Starts \cup {None}]

\* Whoever has the lock file open has the one of the directory, which is therefore neither
\* removed nor set aside; who works without the lock does not have it.
LockFollows ==
  /\ \A p \in Starts : at[p] \in LockOpen =>
       root # None /\ root.lock # None /\ file[p] = <<root.lock.id>>
  /\ \A p \in locked : at[p] \in LockHeld
  /\ \A p, q \in locked : p = q
  /\ \A p \in Starts : at[p] = "record" => \E n \in Ports : bound[n] = p
  /\ \A p \in Starts : at[p] \in RebuildSteps => stale[p] # None

\* What a directory may have of the files of others, and a token that will be accepted.
Swept(dir) == \A n \in Start!Reserved : ~Start!Theirs(dir, n)
Accepted(dir) == dir.token = None \/ spoilt \/ dir.token.whole

\* Somebody has found the directory this user's.
FoundOurs == repaired # {} \/ \E p \in Starts : at[p] = "drop"

\* While one process rebuilds the directory nobody else is in it.
RebuildFollows(q) ==
  /\ denied /\ \A p \in Starts : at[p] \notin LockOpen
  /\ IF at[q] = "create" THEN root = None
     ELSE root # None /\ root.token = None /\ root.record = None /\ root.lock = None
  /\ at[q] = "move" => root.owner = "me"
  /\ kept # {} => kept = stale[q].data \cup (IF at[q] = "create" THEN {} ELSE root.data)
  /\ stale[q].owner = "me" => Swept(stale[q])
  /\ FoundOurs => stale[q].owner = "me"
  /\ Accepted(stale[q])

\* When nobody does, what was found this user's still is.
DirectoryFollows ==
  /\ kept # {} => root # None /\ root.data = kept
  /\ root = None => ~FoundOurs
  /\ root # None =>
       /\ FoundOurs => root.owner = "me"
       /\ repaired # {} => Swept(root)
       /\ root.owner = "me" /\ denied /\ (\E p \in Starts : at[p] \in {"take", "aside"}) =>
            Swept(root)
       /\ Accepted(root) \/ \E p \in Starts : at[p] = "token"

Undisturbed == ~died /\ ~unrestored /\ ~intruded

DataFollows ==
  /\ \A p \in Starts : at[p] = "aside" => denied
  /\ \A p \in Starts : at[p] = "token" => root.token # None /\ root.token.owner = "me"
  /\ Undisturbed =>
       /\ \A p, q \in Start!Rebuilding : p = q
       /\ \A q \in Start!Rebuilding : RebuildFollows(q)
       /\ Start!Rebuilding = {} => DirectoryFollows

\* A directory is not None, and what a step makes of one is one.
LEMMA DirectoryUpdates ==
  ASSUME NEW dir \in Directories
  PROVE  /\ dir # None
         /\ dir.owner \in {"me", "other"} /\ dir.data \in SUBSET Data
         /\ \A o \in {"me", "other"} : [dir EXCEPT !.owner = o] \in Directories
         /\ \A d \in SUBSET Data : [dir EXCEPT !.data = d] \in Directories
         /\ \A p \in Starts : [dir EXCEPT !.lock = [owner |-> "me", id |-> p]] \in Directories
         /\ \A w \in BOOLEAN :
              [dir EXCEPT !.token = [owner |-> "me", whole |-> w]] \in Directories
         /\ \A n \in Ports, p \in Starts :
              [dir EXCEPT !.record = [owner |-> "me", port |-> n, token |-> p]] \in Directories
BY NoneAssumption DEF Directories, TokenFiles, RecordFiles, LockFiles, Owners

\* A lock file and a token that a process creates are there.
LEMMA LockIsSome ==
  ASSUME NEW p \in Starts
  PROVE  [owner |-> "me", id |-> p] # None
BY NoneAssumption DEF LockFiles, Owners

\* A token that is there is not None.
LEMMA TokenIsSome ==
  ASSUME NEW o \in {"me", "other"}
  PROVE  [owner |-> o, whole |-> TRUE] # None /\ [owner |-> o, whole |-> FALSE] # None
<1>1. [owner |-> o, whole |-> TRUE] \in TokenFiles /\ [owner |-> o, whole |-> FALSE] \in TokenFiles
  BY DEF TokenFiles, Owners
<1>2. None \notin TokenFiles
  BY NoneAssumption
<1> QED
  BY <1>1, <1>2

\* A token that is written out leaves a directory one.
LEMMA TokenFilled ==
  ASSUME NEW dir \in Directories, dir.token # None
  PROVE  [dir EXCEPT !.token.whole = TRUE] \in Directories
BY DEF Directories, TokenFiles, RecordFiles, LockFiles, Owners

\* What is made of nothing is a directory.
LEMMA MadeTyped ==
  ASSUME NEW o \in {"me", "other"}
  PROVE  Start!Made(o) \in Directories
BY DEF Directories, TokenFiles, RecordFiles, LockFiles, Owners, Start!Made

\* So is what an earlier version left.
LEMMA LeftTyped ==
  ASSUME NEW o \in {"me", "other"}, NEW r \in {"me", "other"}
  PROVE  Start!Left(o, r) \in Directories
BY PartsAssumption DEF Directories, TokenFiles, RecordFiles, LockFiles, Owners, Start!Left

\* What is put back is a directory with the data of both.
LEMMA RestoredTyped ==
  ASSUME NEW p \in Starts, stale \in [Starts -> Directories \cup {None}],
         stale[p] # None, root \in Directories
  PROVE  /\ Start!Restored(p) \in Directories
         /\ Start!Restored(p).owner = stale[p].owner
         /\ Start!Restored(p).data = stale[p].data \cup root.data
         /\ \A n \in Start!Reserved :
              Start!Restored(p)[n] = IF root[n] = None THEN stale[p][n] ELSE root[n]
<1> DEFINE T == TokenFiles \cup {None}
           R == RecordFiles \cup {None}
           L == LockFiles \cup {None}
           d == stale[p].data \cup root.data
           t == IF root.token = None THEN stale[p].token ELSE root.token
           r == IF root.record = None THEN stale[p].record ELSE root.record
           l == IF root.lock = None THEN stale[p].lock ELSE root.lock
<1>1. /\ stale[p] \in [owner : Owners, data : SUBSET Data, token : T, record : R, lock : L]
      /\ root \in [owner : Owners, data : SUBSET Data, token : T, record : R, lock : L]
  BY DEF Directories
<1>2. Start!Restored(p) =
        [stale[p] EXCEPT !.data = d, !.token = t, !.record = r, !.lock = l]
  BY DEF Start!Restored
<1> HIDE DEF T, R, L
<1>3. d \in SUBSET Data /\ t \in T /\ r \in R /\ l \in L
  BY <1>1
<1> HIDE DEF d, t, r, l
<1>4. /\ Start!Restored(p) \in
           [owner : Owners, data : SUBSET Data, token : T, record : R, lock : L]
      /\ Start!Restored(p).owner = stale[p].owner /\ Start!Restored(p).data = d
      /\ Start!Restored(p).token = t /\ Start!Restored(p).record = r
      /\ Start!Restored(p).lock = l
  BY <1>1, <1>2, <1>3
<1>5. Start!Restored(p) \in Directories
  BY <1>4 DEF Directories, T, R, L
<1> QED
  BY <1>4, <1>5 DEF Start!Reserved, d, t, r, l

\* Reserved files that are dropped leave the directory its owner and data.
LEMMA DroppedTyped ==
  ASSUME NEW dir \in Directories, NEW names \in SUBSET Start!Reserved
  PROVE  /\ Start!Dropped(dir, names) \in Directories
         /\ Start!Dropped(dir, names).owner = dir.owner
         /\ Start!Dropped(dir, names).data = dir.data
         /\ \A n \in Start!Reserved : Start!Dropped(dir, names)[n] =
              IF n \in names /\ Start!Theirs(dir, n) THEN None ELSE dir[n]
<1>1. DOMAIN dir = {"owner", "data", "token", "record", "lock"}
  BY DEF Directories, TokenFiles, RecordFiles, LockFiles, Owners
<1>2. Start!Dropped(dir, names) =
        [owner |-> dir.owner, data |-> dir.data,
         token |-> IF "token" \in names /\ Start!Theirs(dir, "token") THEN None ELSE dir.token,
         record |-> IF "record" \in names /\ Start!Theirs(dir, "record") THEN None ELSE dir.record,
         lock |-> IF "lock" \in names /\ Start!Theirs(dir, "lock") THEN None ELSE dir.lock]
  BY <1>1 DEF Start!Dropped, Start!Reserved
<1>3. Start!Dropped(dir, names) \in Directories
  BY <1>2 DEF Directories, TokenFiles, RecordFiles, LockFiles, Owners
<1> QED
  BY <1>2, <1>3 DEF Start!Reserved

\* A directory is swept if no reserved file in it is another user's.
LEMMA SweptIs ==
  ASSUME NEW dir \in Directories
  PROVE  Swept(dir) <=> /\ dir.token # None => dir.token.owner # "other"
                        /\ dir.record # None => dir.record.owner # "other"
                        /\ dir.lock # None => dir.lock.owner # "other"
BY DEF Swept, Start!Reserved, Start!Theirs

\* The inductive invariant of the processes that start.
StartInv == StartTyped /\ LockFollows /\ DataFollows

\* Nobody removes the lock file of the directory while anybody has it open.
LEMMA OpenIsHeld ==
  ASSUME LockFollows, NEW p \in Starts, at[p] \in LockOpen
  PROVE  Start!Held(root)
BY DEF LockFollows, Start!Held

\* What a process does that concerns neither the directory nor its repair.
LEMMA QuietStarts ==
  ASSUME StartTyped, DataFollows, NEW p \in Starts, NEW to \in StartSteps,
         at' = [at EXCEPT ![p] = to],
         at[p] \notin RebuildSteps \cup {"token"},
         to \notin RebuildSteps \cup {"take", "aside", "drop", "token"},
         to \in LockOpen => at[p] \in LockOpen,
         UNCHANGED <<denied, kept, root, stale, repaired>>,
         Undisturbed' => Undisturbed, spoilt => spoilt'
  PROVE  DataFollows'
<1> USE DEF StartTyped, RebuildSteps
<1>1. Start!Rebuilding' = Start!Rebuilding
  BY DEF Start!Rebuilding
<1>2. FoundOurs' => FoundOurs
  BY DEF FoundOurs
<1>3. \A q \in Start!Rebuilding : RebuildFollows(q) => RebuildFollows(q)'
  BY <1>2 DEF RebuildFollows, Start!Rebuilding, Accepted, Swept, Start!Theirs
<1>4. DirectoryFollows => DirectoryFollows'
  BY <1>2 DEF DirectoryFollows, Accepted, Swept, Start!Theirs
<1> QED
  BY <1>1, <1>3, <1>4 DEF DataFollows, Undisturbed, Start!Rebuilding

\* Begin preserves the invariant.
LEMMA StartBegin ==
  ASSUME StartInv, NEW p \in Starts, Start!Begin(p)
  PROVE  StartInv'
<1> USE DEF StartInv, Start!Begin, Start!Goes, Start!host, Start!singleton, Start!histories
<1>1. StartTyped'
  BY DEF StartTyped, StartSteps, RebuildSteps, LockOpen
<1>2. LockFollows'
  BY DEF StartTyped, LockFollows, LockOpen, LockHeld, RebuildSteps
<1>3. DataFollows'
  <2>1. CASE at' = [at EXCEPT ![p] = "check"]
    BY <2>1, QuietStarts DEF StartSteps, RebuildSteps, LockOpen, Undisturbed
  <2>2. CASE at' = [at EXCEPT ![p] = "open"]
    BY <2>2, QuietStarts DEF StartSteps, RebuildSteps, LockOpen, Undisturbed
  <2> QED
    BY <2>1, <2>2
<1> QED
  BY <1>1, <1>2, <1>3

\* TryLock preserves the invariant.
LEMMA StartTryLock ==
  ASSUME StartInv, NEW p \in Starts, Start!TryLock(p)
  PROVE  StartInv'
<1> USE DEF StartInv, Start!TryLock, Start!Goes, Start!host, Start!singleton, Start!histories
<1>1. StartTyped'
  BY DEF StartTyped, StartSteps, RebuildSteps, LockOpen
<1>2. LockFollows'
  BY DEF StartTyped, LockFollows, LockOpen, LockHeld, RebuildSteps
<1>3. DataFollows'
  <2>1. CASE at' = [at EXCEPT ![p] = "ask"]
    BY <2>1, QuietStarts DEF StartSteps, RebuildSteps, LockOpen, Undisturbed
  <2>2. CASE at' = [at EXCEPT ![p] = "bind"]
    BY <2>2, QuietStarts DEF StartSteps, RebuildSteps, LockOpen, Undisturbed
  <2> QED
    BY <2>1, <2>2
<1> QED
  BY <1>1, <1>2, <1>3

\* Ask preserves the invariant.
LEMMA StartAsk ==
  ASSUME StartInv, NEW p \in Starts, Start!Ask(p)
  PROVE  StartInv'
<1> USE DEF StartInv, Start!Ask, Start!Goes, Start!host, Start!singleton, Start!histories
<1>1. StartTyped'
  BY DEF StartTyped, StartSteps, RebuildSteps, LockOpen
<1>2. LockFollows'
  BY DEF StartTyped, LockFollows, LockOpen, LockHeld, RebuildSteps
<1>3. DataFollows'
  BY QuietStarts DEF StartSteps, RebuildSteps, LockOpen, Undisturbed
<1> QED
  BY <1>1, <1>2, <1>3

\* Told preserves the invariant.
LEMMA StartTold ==
  ASSUME StartInv, NEW p \in Starts, Start!Told(p)
  PROVE  StartInv'
<1> USE DEF StartInv, Start!Told, Start!Goes, Start!host, Start!singleton, Start!histories,
    Start!Leave
<1>1. StartTyped'
  BY DEF StartTyped, StartSteps, RebuildSteps, LockOpen
<1>2. LockFollows'
  BY DEF StartTyped, LockFollows, LockOpen, LockHeld, RebuildSteps
<1>3. DataFollows'
  <2>1. CASE at' = [at EXCEPT ![p] = "ended"]
    BY <2>1, QuietStarts DEF StartSteps, RebuildSteps, LockOpen, Undisturbed
  <2>2. CASE at' = [at EXCEPT ![p] = "lock"]
    BY <2>2, QuietStarts DEF StartSteps, RebuildSteps, LockOpen, Undisturbed
  <2> QED
    BY <2>1, <2>2
<1> QED
  BY <1>1, <1>2, <1>3

\* Bind preserves the invariant.
LEMMA StartBind ==
  ASSUME StartInv, NEW p \in Starts, Start!Bind(p)
  PROVE  StartInv'
<1> USE DEF StartInv, Start!Bind, Start!Goes, Start!host, Start!singleton, Start!histories
<1>1. StartTyped'
  BY DEF StartTyped, StartSteps, RebuildSteps, LockOpen
<1>2. LockFollows'
  <2>1. PICK n \in Ports : bound[n] = None /\ bound' = [bound EXCEPT ![n] = p]
    OBVIOUS
  <2>2. bound'[n] = p /\ \A q \in Starts, m \in Ports : bound[m] = q => bound'[m] = q
    BY <2>1, PartsAssumption DEF StartTyped
  <2> QED
    BY <2>2 DEF StartTyped, LockFollows, LockOpen, LockHeld, RebuildSteps
<1>3. DataFollows'
  BY QuietStarts DEF StartSteps, RebuildSteps, LockOpen, Undisturbed
<1> QED
  BY <1>1, <1>2, <1>3

\* Ready preserves the invariant.
LEMMA StartReady ==
  ASSUME StartInv, NEW p \in Starts, Start!Ready(p)
  PROVE  StartInv'
<1> USE DEF StartInv, Start!Ready, Start!Goes, Start!host, Start!singleton, Start!histories
<1>1. StartTyped'
  BY DEF StartTyped, StartSteps, RebuildSteps, LockOpen
<1>2. LockFollows'
  BY DEF StartTyped, LockFollows, LockOpen, LockHeld, RebuildSteps
<1>3. DataFollows'
  BY QuietStarts DEF StartSteps, RebuildSteps, LockOpen, Undisturbed
<1> QED
  BY <1>1, <1>2, <1>3

\* CloseServer preserves the invariant.
LEMMA StartCloseServer ==
  ASSUME StartInv, NEW p \in Starts, Start!CloseServer(p)
  PROVE  StartInv'
<1> USE DEF StartInv, Start!CloseServer, Start!Goes, Start!host, Start!singleton, Start!histories
<1>1. StartTyped'
  BY DEF StartTyped, StartSteps, RebuildSteps, LockOpen
<1>2. LockFollows'
  BY DEF StartTyped, LockFollows, LockOpen, LockHeld, RebuildSteps
<1>3. DataFollows'
  BY QuietStarts DEF StartSteps, RebuildSteps, LockOpen, Undisturbed
<1> QED
  BY <1>1, <1>2, <1>3

\* Ends preserves the invariant.
LEMMA StartEnds ==
  ASSUME StartInv, NEW p \in Starts, Start!Ends(p)
  PROVE  StartInv'
<1> USE DEF StartInv, Start!Ends, Start!Goes, Start!host, Start!singleton, Start!histories,
    Start!Leave
<1>1. StartTyped'
  BY DEF StartTyped, StartSteps, RebuildSteps, LockOpen
<1>2. LockFollows'
  BY DEF StartTyped, LockFollows, LockOpen, LockHeld, RebuildSteps
<1>3. DataFollows'
  BY QuietStarts DEF StartSteps, RebuildSteps, LockOpen, Undisturbed
<1> QED
  BY <1>1, <1>2, <1>3

\* Dies preserves the invariant.
LEMMA StartDies ==
  ASSUME StartInv, NEW p \in Starts, Start!Dies(p)
  PROVE  StartInv'
<1> USE DEF StartInv, Start!Dies, Start!Leave, Start!host, Start!histories
<1>1. StartTyped'
  BY DEF StartTyped, StartSteps, RebuildSteps, LockOpen
<1>2. LockFollows'
  BY DEF StartTyped, LockFollows, LockOpen, LockHeld, RebuildSteps
<1>3. DataFollows'
  <2>1. CASE at[p] \in RebuildSteps
    <3>1. died'
      BY <2>1 DEF RebuildSteps, Start!Rebuilding
    <3> QED
      BY <3>1 DEF DataFollows, Undisturbed, StartTyped
  <2>2. CASE at[p] = "token"
    <3>1. spoilt' /\ Start!Rebuilding' = Start!Rebuilding
      BY <2>2 DEF StartTyped, Start!Rebuilding
    <3>2. FoundOurs' => FoundOurs
      BY DEF FoundOurs, StartTyped
    <3>3. \A q \in Start!Rebuilding : RebuildFollows(q) => RebuildFollows(q)'
      BY <2>2, <3>1, <3>2
         DEF RebuildFollows, Start!Rebuilding, LockOpen, StartTyped
    <3>4. DirectoryFollows => DirectoryFollows'
      BY <3>1, <3>2 DEF DirectoryFollows, Accepted, Swept, Start!Theirs, StartTyped
    <3> QED
      BY <3>1, <3>3, <3>4 DEF DataFollows, Undisturbed, Start!Rebuilding, StartTyped
  <2>3. CASE at[p] \notin RebuildSteps \cup {"token"}
    <3>1. ~(p \in Start!Rebuilding)
      BY <2>3 DEF Start!Rebuilding, RebuildSteps
    <3>2. (Undisturbed' => Undisturbed) /\ (spoilt => spoilt')
      BY <3>1 DEF Undisturbed
    <3> QED
      BY <2>3, <3>2, QuietStarts DEF StartSteps, RebuildSteps, LockOpen, Undisturbed
  <2> QED
    BY <2>1, <2>2, <2>3
<1> QED
  BY <1>1, <1>2, <1>3

\* Take preserves the invariant.
LEMMA StartTake ==
  ASSUME StartInv, NEW p \in Starts, Start!Take(p),
         UNCHANGED <<Start!host, Start!singleton, stale, repaired, Start!histories>>
  PROVE  StartInv'
<1> USE DEF StartInv, Start!Take, Start!Goes, Start!host, Start!singleton, Start!histories
<1>1. root # None /\ root' # root =>
        /\ root' \in Directories /\ root'.owner = "me" /\ root'.data = root.data
        /\ root'.token = root.token /\ root'.record = root.record /\ root'.lock = root.lock
  BY DEF StartTyped, Directories, Owners
<1>2. root' \in Directories \cup {None} /\ (root' = None <=> root = None)
  BY <1>1, DirectoryUpdates DEF StartTyped
<1>3. StartTyped'
  BY <1>2 DEF StartTyped, StartSteps, RebuildSteps, LockOpen
<1>4. LockFollows'
  BY <1>1, <1>2 DEF StartTyped, LockFollows, LockOpen, LockHeld, RebuildSteps
<1>5. DataFollows'
  <2>1. CASE at' = [at EXCEPT ![p] = "open"] /\ UNCHANGED root
    BY <2>1, QuietStarts DEF StartSteps, RebuildSteps, LockOpen, Undisturbed
  <2>2. CASE at' = [at EXCEPT ![p] = "aside"] /\ denied /\ UNCHANGED root
    <3>1. Start!Rebuilding' = Start!Rebuilding /\ (FoundOurs' => FoundOurs)
      BY <2>2 DEF StartTyped, Start!Rebuilding, FoundOurs
    <3>2. \A q \in Start!Rebuilding : RebuildFollows(q) => RebuildFollows(q)'
      BY <2>2, <3>1 DEF RebuildFollows, Start!Rebuilding, Accepted, Swept, Start!Theirs,
                        StartTyped, LockOpen
    <3>3. DirectoryFollows => DirectoryFollows'
      BY <2>2, <3>1 DEF DirectoryFollows, Accepted, Swept, Start!Theirs, StartTyped
    <3> QED
      BY <2>2, <3>1, <3>2, <3>3 DEF DataFollows, Undisturbed, Start!Rebuilding, StartTyped
  <2>3. CASE at' = [at EXCEPT ![p] = "drop"] /\ ~denied /\ root # None
             /\ root' = [root EXCEPT !.owner = "me"]
    <3>1. Start!Rebuilding' = Start!Rebuilding
      BY <2>3 DEF StartTyped, Start!Rebuilding
    <3>2. /\ root' \in Directories /\ root'.owner = "me" /\ root'.data = root.data
          /\ root'.token = root.token /\ root'.record = root.record /\ root'.lock = root.lock
      BY <2>3 DEF StartTyped, Directories, Owners
    <3>3. Swept(root) => Swept(root)'
      BY <3>2, <2>3, SweptIs DEF StartTyped
    <3>4. DirectoryFollows => DirectoryFollows'
      BY <1>2, <2>3, <3>2, <3>3 DEF DirectoryFollows, Accepted, StartTyped
    <3> QED
      BY <1>2, <2>3, <3>1, <3>2, <3>4
         DEF DataFollows, RebuildFollows, Undisturbed, Start!Rebuilding, StartTyped
  <2> QED
    BY <2>1, <2>2, <2>3
<1> QED
  BY <1>3, <1>4, <1>5

\* Check preserves the invariant.
LEMMA StartCheck ==
  ASSUME StartInv, NEW p \in Starts, Start!Check(p),
         UNCHANGED <<Start!host, Start!singleton, stale, repaired, deaths>>
  PROVE  StartInv'
<1> USE DEF StartInv, Start!Check, Start!Goes, Start!ComesIn, Start!host, Start!singleton,
       Start!histories
<1>1. CASE at' = [at EXCEPT ![p] = "open"] /\ UNCHANGED <<root, Start!histories>>
  <2>1. StartTyped' /\ LockFollows'
    BY <1>1 DEF StartTyped, StartSteps, LockFollows, RebuildSteps, LockOpen, LockHeld
  <2>2. DataFollows'
    BY <1>1, QuietStarts DEF StartSteps, RebuildSteps, LockOpen, Undisturbed
  <2> QED
    BY <2>1, <2>2
<1>2. ASSUME NEW owner \in {"me", "other"},
             root' = IF root = None THEN Start!Made(owner) ELSE root,
             at' = [at EXCEPT ![p] = IF root'.owner = "me" THEN "drop" ELSE "take"],
             intruded' = (intruded \/ Start!Rebuilding \ {p} # {}),
             UNCHANGED <<unrestored, died, spoilt>>
      PROVE  StartInv'
  <2>1. /\ Start!Made(owner) \in Directories /\ Start!Made(owner).data = {}
        /\ Start!Made(owner).token = None /\ Start!Made(owner).record = None
        /\ Start!Made(owner).lock = None /\ Start!Made(owner) # None
    BY MadeTyped, DirectoryUpdates DEF Start!Made
  <2>2. root' \in Directories /\ root' # None /\ (root # None => root' = root)
    BY <1>2, <2>1 DEF StartTyped
  <2>3. StartTyped'
    BY <1>2, <2>2 DEF StartTyped, StartSteps, RebuildSteps, LockOpen
  <2>4. LockFollows'
    BY <1>2, <2>2 DEF StartTyped, LockFollows, LockOpen, LockHeld, RebuildSteps
  <2>5. /\ \A q \in Starts : at'[q] = "aside" => denied'
        /\ \A q \in Starts : at'[q] = "token" => root'.token # None /\ root'.token.owner = "me"
    <3>1. \A q \in Starts : at[q] = "token" => root # None
      BY DEF LockFollows, LockOpen
    <3> QED
      BY <1>2, <2>2, <3>1 DEF StartTyped, DataFollows
  <2>6. ASSUME Undisturbed' PROVE Start!Rebuilding' = {} /\ DirectoryFollows'
    <3>1. Start!Rebuilding = {} /\ Start!Rebuilding' = {} /\ DirectoryFollows
      BY <1>2, <2>6 DEF Undisturbed, Start!Rebuilding, StartTyped, DataFollows
    <3>2. CASE root # None
      <4>1. root' = root
        BY <2>2, <3>2
      <4>2. FoundOurs' => FoundOurs \/ root.owner = "me"
        BY <1>2, <4>1 DEF FoundOurs, StartTyped
      <4>3. (\E q \in Starts : at'[q] \in {"take", "aside"}) /\ root.owner = "me" =>
              \E q \in Starts : at[q] \in {"take", "aside"}
        BY <1>2, <4>1 DEF StartTyped
      <4>4. (\E q \in Starts : at[q] = "token") => \E q \in Starts : at'[q] = "token"
        BY <1>2 DEF StartTyped
      <4>5. (Swept(root) => Swept(root)') /\ kept' = kept /\ repaired' = repaired
        BY <4>1 DEF Swept, Start!Theirs
      <4>6. Accepted(root) => Accepted(root)'
        BY <1>2, <4>1 DEF Accepted
      <4>7. /\ kept' # {} => root'.data = kept'
            /\ FoundOurs' => root'.owner = "me"
            /\ repaired' # {} => Swept(root)'
        BY <3>1, <3>2, <4>1, <4>2, <4>5 DEF DirectoryFollows
      <4>8. root'.owner = "me" /\ denied' /\ (\E q \in Starts : at'[q] \in {"take", "aside"}) =>
              Swept(root)'
        BY <3>1, <3>2, <4>1, <4>3, <4>5 DEF DirectoryFollows
      <4>9. Accepted(root)' \/ \E q \in Starts : at'[q] = "token"
        BY <3>1, <3>2, <4>4, <4>6 DEF DirectoryFollows
      <4> QED
        BY <2>2, <3>1, <4>7, <4>8, <4>9 DEF DirectoryFollows, Accepted
    <3>3. CASE root = None
      <4>1. kept = {} /\ ~FoundOurs /\ root' = Start!Made(owner)
        BY <1>2, <3>1, <3>3 DEF DirectoryFollows
      <4>2. FoundOurs' => root'.owner = "me"
        BY <1>2, <4>1 DEF FoundOurs, StartTyped
      <4>3. Swept(root)' /\ Accepted(root)'
        BY <2>1, <2>2, <4>1, SweptIs DEF Accepted
      <4> QED
        BY <1>2, <2>2, <3>1, <4>1, <4>2, <4>3 DEF DirectoryFollows, Accepted
    <3> QED
      BY <3>1, <3>2, <3>3
  <2>7. DataFollows'
    BY <2>5, <2>6 DEF DataFollows
  <2> QED
    BY <2>3, <2>4, <2>7
<1> QED
  BY <1>1, <1>2

\* OpenLock preserves the invariant.
LEMMA StartOpenLock ==
  ASSUME StartInv, NEW p \in Starts, Start!OpenLock(p)
  PROVE  StartInv'
<1> DEFINE dir == IF root = None THEN Start!Made("me") ELSE root
<1> USE DEF StartInv, Start!Goes, Start!ComesIn, Start!host
<1>1. /\ Start!Made("me") \in Directories /\ Start!Made("me").data = {}
      /\ Start!Made("me").owner = "me"
      /\ Start!Made("me").token = None /\ Start!Made("me").record = None
      /\ Start!Made("me").lock = None
  BY MadeTyped DEF Start!Made
<1>2. dir \in Directories /\ (root # None => dir = root)
  BY <1>1 DEF StartTyped
<1>3. /\ root' = IF dir.lock = None THEN [dir EXCEPT !.lock = [owner |-> "me", id |-> p]]
                 ELSE dir
      /\ intruded' = (intruded \/ Start!Rebuilding \ {p} # {})
      /\ UNCHANGED <<denied, kept, starts_windows, stale, repaired, locked, bound,
                     unrestored, died, spoilt>>
  BY NoneAssumption DEF Start!OpenLock
<1>4. /\ root' \in Directories /\ root'.owner = dir.owner /\ root'.data = dir.data
      /\ root'.token = dir.token /\ root'.record = dir.record
      /\ IF dir.lock = None THEN root'.lock = [owner |-> "me", id |-> p]
         ELSE root'.lock = dir.lock
  BY <1>2, <1>3 DEF Directories, LockFiles, Owners
<1>5. /\ at[p] = "open"
      /\ \/ at' = [at EXCEPT ![p] = "ended"] /\ file' = file
         \/ /\ at' = [at EXCEPT ![p] = "lock"] /\ file' = [file EXCEPT ![p] = <<root'.lock.id>>]
            /\ root'.lock # None
  <2>1. [owner |-> "me", id |-> p] # None
    BY <1>2, <1>3, <1>4, LockIsSome
  <2> QED
    BY <1>3, <1>4, <2>1 DEF Start!OpenLock
<1> HIDE DEF dir
<1>6. root' # None
  BY <1>4, DirectoryUpdates
<1>7. StartTyped'
  <2>1. root'.lock # None => root'.lock.id \in Starts \cup {None}
    BY <1>4 DEF Directories, LockFiles
  <2> QED
    BY <1>3, <1>4, <1>5, <2>1 DEF StartTyped, StartSteps, RebuildSteps, LockOpen
<1>8. LockFollows'
  <2>1. \A q \in Starts : at[q] \in LockOpen =>
          root' # None /\ root'.lock # None /\ file[q] = <<root'.lock.id>>
    BY <1>2, <1>4, <1>6 DEF LockFollows
  <2> QED
    BY <1>3, <1>5, <1>6, <2>1 DEF StartTyped, LockFollows, LockOpen, LockHeld, RebuildSteps
<1>9. /\ \A q \in Starts : at'[q] = "aside" => denied'
      /\ \A q \in Starts : at'[q] = "token" => root'.token # None /\ root'.token.owner = "me"
  <2>1. \A q \in Starts : at[q] = "token" => root # None
    BY DEF LockFollows, LockOpen
  <2> QED
    BY <1>2, <1>3, <1>4, <1>5, <2>1 DEF StartTyped, DataFollows
<1>10. ASSUME Undisturbed' PROVE Start!Rebuilding' = {} /\ DirectoryFollows'
  <2>1. Start!Rebuilding = {} /\ Start!Rebuilding' = {} /\ DirectoryFollows
    BY <1>3, <1>5, <1>10 DEF Undisturbed, Start!Rebuilding, StartTyped, DataFollows
  <2>2. /\ FoundOurs' => FoundOurs
        /\ (\E q \in Starts : at'[q] \in {"take", "aside"}) =>
             \E q \in Starts : at[q] \in {"take", "aside"}
        /\ (\E q \in Starts : at[q] = "token") => \E q \in Starts : at'[q] = "token"
    BY <1>3, <1>5 DEF FoundOurs, StartTyped
  <2>3. Swept(dir) => Swept(root)'
    BY <1>2, <1>4, SweptIs
  <2>4. CASE root # None
    BY <1>2, <1>3, <1>4, <1>6, <2>1, <2>2, <2>3, <2>4 DEF DirectoryFollows, Accepted
  <2>5. CASE root = None
    <3>1. kept = {} /\ ~FoundOurs /\ dir = Start!Made("me")
      BY <2>1, <2>5 DEF DirectoryFollows, dir
    <3>2. Swept(dir) /\ root'.token = None
      BY <1>1, <1>4, <3>1, SweptIs
    <3>3. kept' = {} /\ ~FoundOurs' /\ Swept(root)' /\ Accepted(root)'
      BY <1>3, <2>2, <2>3, <3>1, <3>2 DEF Accepted
    <3>4. repaired' # {} => FoundOurs'
      BY DEF FoundOurs
    <3> QED
      BY <1>6, <2>1, <3>3, <3>4 DEF DirectoryFollows, Accepted
  <2> QED
    BY <2>1, <2>4, <2>5
<1>11. DataFollows'
  BY <1>9, <1>10 DEF DataFollows
<1> QED
  BY <1>7, <1>8, <1>11

\* SetAside preserves the invariant.
LEMMA StartSetAside ==
  ASSUME StartInv, NEW p \in Starts, Start!SetAside(p),
         UNCHANGED <<repaired, unrestored, died, spoilt>>,
         UNCHANGED <<Start!host, Start!singleton, deaths>>
  PROVE  StartInv'
<1> USE DEF StartInv, Start!Goes, Start!ComesIn, Start!host, Start!singleton
<1>1. CASE at[p] = "aside" /\ at' = [at EXCEPT ![p] = "open"] /\ UNCHANGED <<root, stale, intruded>>
  <2>1. StartTyped' /\ LockFollows'
    BY <1>1 DEF StartTyped, StartSteps, LockFollows, RebuildSteps, LockOpen, LockHeld
  <2>2. DataFollows'
    BY <1>1, QuietStarts DEF StartSteps, RebuildSteps, LockOpen, Undisturbed
  <2> QED
    BY <2>1, <2>2
<1>2. CASE /\ root # None /\ ~Start!Held(root) /\ at[p] = "aside"
           /\ at' = [at EXCEPT ![p] = "create"] /\ stale' = [stale EXCEPT ![p] = root]
           /\ root' = None /\ intruded' = (intruded \/ Start!Rebuilding \ {p} # {})
  <2>1. \A q \in Starts : at[q] \notin LockOpen
    BY <1>2, OpenIsHeld
  <2>2. StartTyped'
    BY <1>2 DEF StartTyped, StartSteps, RebuildSteps, LockOpen
  <2>3. LockFollows'
    BY <1>2, <2>1 DEF StartTyped, LockFollows, LockOpen, LockHeld, RebuildSteps
  <2>4. /\ \A q \in Starts : at'[q] = "aside" => denied'
        /\ \A q \in Starts : at'[q] # "token" /\ at'[q] \notin LockOpen
    BY <1>2, <2>1 DEF StartTyped, DataFollows, LockOpen
  <2>5. ASSUME Undisturbed'
        PROVE  Start!Rebuilding' = {p} /\ RebuildFollows(p)'
    <3>1. Start!Rebuilding = {} /\ Start!Rebuilding' = {p} /\ DirectoryFollows
      BY <1>2, <2>5 DEF Undisturbed, Start!Rebuilding, StartTyped, DataFollows
    <3>2. /\ FoundOurs' => FoundOurs
          /\ \A q \in Starts : at[q] # "token"
          /\ stale'[p] = root /\ at'[p] = "create" /\ denied /\ root \in Directories
      BY <1>2, <2>1 DEF FoundOurs, StartTyped, DataFollows, LockOpen
    <3>3. (kept # {} => root.data = kept) /\ (FoundOurs => root.owner = "me") /\ Accepted(root)
      BY <1>2, <3>1, <3>2 DEF DirectoryFollows
    <3>4. root.owner = "me" => Swept(root)
      BY <1>2, <3>1, <3>2 DEF DirectoryFollows
    <3> QED
      BY <1>2, <2>4, <3>1, <3>2, <3>3, <3>4 DEF RebuildFollows, Accepted
  <2>6. DataFollows'
    BY <2>4, <2>5 DEF DataFollows
  <2> QED
    BY <2>2, <2>3, <2>6
<1> QED
  BY <1>1, <1>2 DEF Start!SetAside

\* While it rebuilds the directory a process is the only one that does.
LEMMA RebuildsAlone ==
  ASSUME StartTyped, DataFollows, NEW p \in Starts, NEW to \in StartSteps,
         at[p] \in RebuildSteps, at' = [at EXCEPT ![p] = to], Undisturbed
  PROVE  /\ RebuildFollows(p)
         /\ Start!Rebuilding' = IF to \in RebuildSteps THEN {p} ELSE {}
         /\ \A q \in Starts : at'[q] \in LockOpen => q = p /\ to \in LockOpen
BY DEF StartTyped, DataFollows, RebuildFollows, Start!Rebuilding, RebuildSteps, LockOpen

\* Create preserves the invariant.
LEMMA StartCreate ==
  ASSUME StartInv, NEW p \in Starts, Start!Create(p),
         UNCHANGED <<repaired, died, intruded, spoilt>>,
         UNCHANGED <<Start!host, Start!singleton, deaths>>
  PROVE  StartInv'
<1> USE DEF StartInv, Start!Goes, Start!host, Start!singleton
<1>1. at[p] = "create" /\ at[p] \in RebuildSteps /\ stale[p] \in Directories
  BY DEF Start!Create, RebuildSteps, StartTyped, LockFollows
<1>2. \A q \in Starts : at[q] = "token" => root # None
  BY DEF LockFollows, LockOpen
<1>3. ASSUME NEW owner \in {"me", "other"}, root = None, root' = Start!Made(owner),
             at' = [at EXCEPT ![p] = "own"], UNCHANGED <<stale, unrestored>>
      PROVE  StartInv'
  <2>1. /\ root' \in Directories /\ root'.data = {} /\ root' # None
        /\ root'.token = None /\ root'.record = None /\ root'.lock = None
    BY <1>3, MadeTyped, DirectoryUpdates DEF Start!Made
  <2>2. StartTyped'
    BY <1>3, <2>1 DEF StartTyped, StartSteps, RebuildSteps, LockOpen
  <2>3. LockFollows'
    BY <1>1, <1>3 DEF StartTyped, LockFollows, LockOpen, LockHeld, RebuildSteps
  <2>4. /\ \A q \in Starts : at'[q] = "aside" => denied'
        /\ \A q \in Starts : at'[q] # "token"
    BY <1>2, <1>3 DEF StartTyped, DataFollows
  <2>5. ASSUME Undisturbed' PROVE Start!Rebuilding' = {p} /\ RebuildFollows(p)'
    <3>1. RebuildFollows(p) /\ Start!Rebuilding' = {p} /\ \A q \in Starts : at'[q] \notin LockOpen
      BY <1>1, <1>3, <2>5, RebuildsAlone
         DEF Undisturbed, StartSteps, RebuildSteps, LockOpen
    <3>2. at'[p] = "own" /\ (FoundOurs' => FoundOurs)
      BY <1>1, <1>3 DEF FoundOurs, StartTyped
    <3> QED
      BY <1>1, <1>3, <2>1, <3>1, <3>2 DEF RebuildFollows, Accepted
  <2>6. DataFollows'
    BY <2>4, <2>5 DEF DataFollows
  <2> QED
    BY <2>2, <2>3, <2>6
<1>4. CASE /\ root = None /\ root' = stale[p] /\ stale' = [stale EXCEPT ![p] = None]
           /\ at' = [at EXCEPT ![p] = "open"] /\ UNCHANGED unrestored
  <2>1. root' \in Directories /\ root' # None
    BY <1>1, <1>4, DirectoryUpdates
  <2>2. StartTyped'
    BY <1>4, <2>1 DEF StartTyped, StartSteps, RebuildSteps, LockOpen
  <2>3. LockFollows'
    BY <1>1, <1>4 DEF StartTyped, LockFollows, LockOpen, LockHeld, RebuildSteps
  <2>4. /\ \A q \in Starts : at'[q] = "aside" => denied'
        /\ \A q \in Starts : at'[q] # "token"
    BY <1>2, <1>4 DEF StartTyped, DataFollows
  <2>5. ASSUME Undisturbed' PROVE Start!Rebuilding' = {} /\ DirectoryFollows'
    <3>1. RebuildFollows(p) /\ Start!Rebuilding' = {}
      <4>1. "open" \in StartSteps /\ "open" \notin RebuildSteps
        BY DEF StartSteps, RebuildSteps
      <4>2. Undisturbed
        BY <1>4, <2>5 DEF Undisturbed
      <4> QED
        BY <1>1, <1>4, <4>1, <4>2, RebuildsAlone
    <3>2. (FoundOurs' => FoundOurs) /\ (repaired # {} => FoundOurs)
      BY <1>4 DEF FoundOurs, StartTyped
    <3>3. /\ kept # {} => kept = root'.data
          /\ FoundOurs => root'.owner = "me"
          /\ root'.owner = "me" => Swept(root)'
          /\ Accepted(root)'
      BY <1>1, <1>4, <3>1 DEF RebuildFollows, Accepted
    <3> QED
      BY <2>1, <3>1, <3>2, <3>3 DEF DirectoryFollows, Accepted
  <2>6. DataFollows'
    BY <2>4, <2>5 DEF DataFollows
  <2> QED
    BY <2>2, <2>3, <2>6
<1>5. CASE unrestored' /\ UNCHANGED <<root, stale>> /\ at' = [at EXCEPT ![p] = "open"]
  <2>1. StartTyped'
    BY <1>5 DEF StartTyped, StartSteps, RebuildSteps, LockOpen
  <2>2. LockFollows'
    BY <1>1, <1>5 DEF StartTyped, LockFollows, LockOpen, LockHeld, RebuildSteps
  <2>3. DataFollows'
    BY <1>5 DEF StartTyped, DataFollows, Undisturbed
  <2> QED
    BY <2>1, <2>2, <2>3
<1> QED
  BY <1>3, <1>4, <1>5 DEF Start!Create

\* Own preserves the invariant.
LEMMA StartOwn ==
  ASSUME StartInv, NEW p \in Starts, Start!Own(p),
         UNCHANGED <<stale, repaired, Start!histories>>,
         UNCHANGED <<Start!host, Start!singleton, deaths>>
  PROVE  StartInv'
<1> USE DEF StartInv, Start!Goes, Start!host, Start!singleton, Start!histories
<1>1. at[p] = "own" /\ at[p] \in RebuildSteps
  BY DEF Start!Own, RebuildSteps
<1>2. ASSUME NEW to \in {"move", "back"}, at' = [at EXCEPT ![p] = to],
             \/ root' = root /\ to = "back"
             \/ root # None /\ root' = [root EXCEPT !.owner = "me"] /\ to = "move"
      PROVE  StartInv'
  <2>1. /\ root' \in Directories \cup {None} /\ (root' = None <=> root = None)
        /\ root # None =>
             /\ root'.data = root.data /\ root'.token = root.token
             /\ root'.record = root.record /\ root'.lock = root.lock
             /\ to = "move" => root'.owner = "me"
    <3>1. CASE root # None /\ root' = [root EXCEPT !.owner = "me"]
      <4>1. /\ root' \in Directories /\ root'.data = root.data /\ root'.token = root.token
            /\ root'.record = root.record /\ root'.lock = root.lock /\ root'.owner = "me"
        BY <3>1 DEF StartTyped, Directories, Owners
      <4> QED
        BY <3>1, <4>1, DirectoryUpdates
    <3>2. CASE root' = root /\ to = "back"
      BY <3>2 DEF StartTyped
    <3> QED
      BY <1>2, <3>1, <3>2
  <2>2. StartTyped'
    BY <1>2, <2>1 DEF StartTyped, StartSteps, RebuildSteps, LockOpen
  <2>3. LockFollows'
    BY <1>1, <1>2, <2>1 DEF StartTyped, LockFollows, LockOpen, LockHeld, RebuildSteps
  <2>4. /\ \A q \in Starts : at'[q] = "aside" => denied'
        /\ \A q \in Starts : at'[q] = "token" => root'.token # None /\ root'.token.owner = "me"
    <3>1. \A q \in Starts : at[q] = "token" => root # None
      BY DEF LockFollows, LockOpen
    <3> QED
      BY <1>2, <2>1, <3>1 DEF StartTyped, DataFollows
  <2>5. ASSUME Undisturbed' PROVE Start!Rebuilding' = {p} /\ RebuildFollows(p)'
    <3>1. RebuildFollows(p) /\ Start!Rebuilding' = {p} /\ \A q \in Starts : at'[q] \notin LockOpen
      BY <1>1, <1>2, <2>5, RebuildsAlone DEF Undisturbed, StartSteps, RebuildSteps, LockOpen
    <3>2. at'[p] = to /\ (FoundOurs' => FoundOurs)
      BY <1>1, <1>2 DEF FoundOurs, StartTyped
    <3> QED
      BY <1>1, <1>2, <2>1, <3>1, <3>2 DEF RebuildFollows, Accepted
  <2>6. DataFollows'
    BY <2>4, <2>5 DEF DataFollows
  <2> QED
    BY <2>2, <2>3, <2>6
<1> QED
  BY <1>2 DEF Start!Own

\* Move preserves the invariant.
LEMMA StartMove ==
  ASSUME StartInv, NEW p \in Starts, Start!Move(p),
         UNCHANGED <<repaired, Start!histories>>,
         UNCHANGED <<Start!host, Start!singleton, deaths>>
  PROVE  StartInv'
<1> USE DEF StartInv, Start!Goes, Start!host, Start!singleton, Start!histories
<1>1. at[p] = "move" /\ at[p] \in RebuildSteps /\ stale[p] \in Directories
  BY DEF Start!Move, RebuildSteps, StartTyped, LockFollows
<1>2. ASSUME NEW to \in {"move", "back"}, at' = [at EXCEPT ![p] = to],
             \/ root' = root /\ stale' = stale
             \/ /\ root # None
                /\ \E d \in stale[p].data :
                     /\ stale' = [stale EXCEPT ![p].data = @ \ {d}]
                     /\ root' = [root EXCEPT !.data = @ \cup {d}]
      PROVE  StartInv'
  <2>1. /\ root' \in Directories \cup {None} /\ (root' = None <=> root = None)
        /\ stale' \in [Starts -> Directories \cup {None}] /\ stale'[p] # None
        /\ \A q \in Starts : q # p => stale'[q] = stale[q]
        /\ stale'[p].owner = stale[p].owner /\ stale'[p].token = stale[p].token
        /\ stale'[p].record = stale[p].record /\ stale'[p].lock = stale[p].lock
        /\ root # None =>
             /\ root'.owner = root.owner /\ root'.token = root.token
             /\ root'.record = root.record /\ root'.lock = root.lock
             /\ stale'[p].data \cup root'.data = stale[p].data \cup root.data
    <3>1. CASE root' = root /\ stale' = stale
      BY <1>1, <3>1, DirectoryUpdates DEF StartTyped
    <3>2. CASE /\ root # None
               /\ \E d \in stale[p].data :
                    /\ stale' = [stale EXCEPT ![p].data = @ \ {d}]
                    /\ root' = [root EXCEPT !.data = @ \cup {d}]
      <4>0. PICK d \in stale[p].data :
              /\ stale' = [stale EXCEPT ![p].data = @ \ {d}]
              /\ root' = [root EXCEPT !.data = @ \cup {d}]
        BY <3>2
      <4>1. root \in Directories /\ d \in Data
        BY <1>1, <3>2, DirectoryUpdates DEF StartTyped
      <4>2. /\ root' \in Directories /\ root'.data = root.data \cup {d}
            /\ root'.owner = root.owner /\ root'.token = root.token
            /\ root'.record = root.record /\ root'.lock = root.lock
        BY <3>2, <4>0, <4>1 DEF Directories
      <4>3. stale'[p] = [stale[p] EXCEPT !.data = stale[p].data \ {d}]
            /\ \A q \in Starts : q # p => stale'[q] = stale[q]
        BY <4>0 DEF StartTyped
      <4>4. /\ stale'[p] \in Directories /\ stale'[p].data = stale[p].data \ {d}
            /\ stale'[p].owner = stale[p].owner /\ stale'[p].token = stale[p].token
            /\ stale'[p].record = stale[p].record /\ stale'[p].lock = stale[p].lock
        BY <1>1, <4>3 DEF Directories
      <4>5. stale' \in [Starts -> Directories \cup {None}]
        BY <4>0, <4>3, <4>4 DEF StartTyped
      <4> QED
        BY <3>2, <4>1, <4>2, <4>3, <4>4, <4>5, DirectoryUpdates, ZenonT(45)
    <3> QED
      BY <1>2, <3>1, <3>2
  <2>2. StartTyped'
    BY <1>2, <2>1 DEF StartTyped, StartSteps, RebuildSteps, LockOpen
  <2>3. LockFollows'
    BY <1>1, <1>2, <2>1 DEF StartTyped, LockFollows, LockOpen, LockHeld, RebuildSteps
  <2>4. /\ \A q \in Starts : at'[q] = "aside" => denied'
        /\ \A q \in Starts : at'[q] = "token" => root'.token # None /\ root'.token.owner = "me"
    <3>1. \A q \in Starts : at[q] = "token" => root # None
      BY DEF LockFollows, LockOpen
    <3> QED
      BY <1>2, <2>1, <3>1 DEF StartTyped, DataFollows
  <2>5. ASSUME Undisturbed' PROVE Start!Rebuilding' = {p} /\ RebuildFollows(p)'
    <3>1. RebuildFollows(p) /\ Start!Rebuilding' = {p} /\ \A q \in Starts : at'[q] \notin LockOpen
      BY <1>1, <1>2, <2>5, RebuildsAlone DEF Undisturbed, StartSteps, RebuildSteps, LockOpen
    <3>2. at'[p] = to /\ (FoundOurs' => FoundOurs)
      BY <1>1, <1>2 DEF FoundOurs, StartTyped
    <3>3. Swept(stale[p]) => Swept(stale[p])'
      BY <1>1, <2>1, SweptIs DEF StartTyped
    <3> QED
      BY <1>1, <1>2, <2>1, <3>1, <3>2, <3>3 DEF RebuildFollows, Accepted
  <2>6. DataFollows'
    BY <2>4, <2>5 DEF DataFollows
  <2> QED
    BY <2>2, <2>3, <2>6
<1>3. CASE /\ at' = [at EXCEPT ![p] = "drop"] /\ stale[p].data = {} /\ root' = root
           /\ stale' \in {stale, [stale EXCEPT ![p] = None]}
  <2>1. StartTyped'
    BY <1>3 DEF StartTyped, StartSteps, RebuildSteps, LockOpen
  <2>2. LockFollows'
    BY <1>1, <1>3 DEF StartTyped, LockFollows, LockOpen, LockHeld, RebuildSteps
  <2>3. /\ \A q \in Starts : at'[q] = "aside" => denied'
        /\ \A q \in Starts : at'[q] = "token" => root'.token # None /\ root'.token.owner = "me"
    BY <1>3 DEF StartTyped, DataFollows
  <2>4. ASSUME Undisturbed' PROVE Start!Rebuilding' = {} /\ DirectoryFollows'
    <3>1. RebuildFollows(p) /\ Start!Rebuilding' = {}
      <4>1. "drop" \in StartSteps /\ "drop" \notin RebuildSteps
        BY DEF StartSteps, RebuildSteps
      <4>2. Undisturbed
        BY <1>3, <2>4 DEF Undisturbed
      <4> QED
        BY <1>1, <1>3, <4>1, <4>2, RebuildsAlone
    <3>2. /\ root # None /\ root.token = None /\ root.record = None /\ root.lock = None
          /\ root.owner = "me" /\ (kept # {} => root.data = kept)
      BY <1>1, <1>3, <3>1 DEF RebuildFollows
    <3>3. Swept(root)
      BY <3>2, SweptIs DEF StartTyped
    <3>4. Swept(root)' /\ Accepted(root)'
      BY <1>3, <3>2, <3>3 DEF Swept, Start!Theirs, Accepted
    <3> QED
      BY <1>3, <3>1, <3>2, <3>4 DEF DirectoryFollows, Accepted
  <2>5. DataFollows'
    BY <2>3, <2>4 DEF DataFollows
  <2> QED
    BY <2>1, <2>2, <2>5
<1> QED
  BY <1>2, <1>3 DEF Start!Move

\* Back preserves the invariant.
LEMMA StartBack ==
  ASSUME StartInv, NEW p \in Starts, Start!Back(p),
         UNCHANGED <<repaired, died, intruded, spoilt>>,
         UNCHANGED <<Start!host, Start!singleton, deaths>>
  PROVE  StartInv'
<1> USE DEF StartInv, Start!Goes, Start!host, Start!singleton
<1>1. /\ at[p] = "back" /\ at[p] \in RebuildSteps /\ stale[p] \in Directories
      /\ at' = [at EXCEPT ![p] = "open"]
  BY DEF Start!Back, RebuildSteps, StartTyped, LockFollows
<1>2. CASE /\ root # None /\ ~Start!Held(root) /\ root' = Start!Restored(p)
           /\ stale' = [stale EXCEPT ![p] = None] /\ UNCHANGED unrestored
  <2>1. \A q \in Starts : at[q] \notin LockOpen
    BY <1>2, OpenIsHeld
  <2>2. /\ root' \in Directories /\ root' # None /\ root'.owner = stale[p].owner
        /\ root'.data = stale[p].data \cup root.data
        /\ \A n \in Start!Reserved : root'[n] = IF root[n] = None THEN stale[p][n] ELSE root[n]
    BY <1>1, <1>2, RestoredTyped, DirectoryUpdates DEF StartTyped
  <2>3. StartTyped'
    BY <1>1, <1>2, <2>2 DEF StartTyped, StartSteps, RebuildSteps, LockOpen
  <2>4. LockFollows'
    BY <1>1, <1>2, <2>1 DEF StartTyped, LockFollows, LockOpen, LockHeld, RebuildSteps
  <2>5. /\ \A q \in Starts : at'[q] = "aside" => denied'
        /\ \A q \in Starts : at'[q] # "token"
    BY <1>1, <2>1 DEF StartTyped, DataFollows, LockOpen
  <2>6. ASSUME Undisturbed' PROVE Start!Rebuilding' = {} /\ DirectoryFollows'
    <3>1. RebuildFollows(p) /\ Start!Rebuilding' = {}
      <4>1. "open" \in StartSteps /\ "open" \notin RebuildSteps
        BY DEF StartSteps, RebuildSteps
      <4>2. Undisturbed
        BY <1>2, <2>6 DEF Undisturbed
      <4> QED
        BY <1>1, <4>1, <4>2, RebuildsAlone
    <3>2. (FoundOurs' => FoundOurs) /\ (repaired # {} => FoundOurs)
      BY <1>1 DEF FoundOurs, StartTyped
    <3>3. /\ root'.token = stale[p].token /\ root'.record = stale[p].record
          /\ root'.lock = stale[p].lock
      BY <1>1, <2>2, <3>1 DEF RebuildFollows, Start!Reserved
    <3>4. Swept(stale[p]) => Swept(root)'
      BY <1>1, <2>2, <3>3, SweptIs
    <3>5. /\ kept # {} => kept = root'.data
          /\ FoundOurs => root'.owner = "me"
          /\ root'.owner = "me" => Swept(root)'
          /\ Accepted(root)'
      BY <1>1, <2>2, <3>1, <3>3, <3>4 DEF RebuildFollows, Accepted
    <3> QED
      BY <2>2, <3>1, <3>2, <3>5 DEF DirectoryFollows, Accepted
  <2>7. DataFollows'
    BY <2>5, <2>6 DEF DataFollows
  <2> QED
    BY <2>3, <2>4, <2>7
<1>3. CASE /\ unrestored'
           /\ \/ UNCHANGED <<root, stale>>
              \/ \E d \in (IF root = None THEN {} ELSE root.data) :
                   /\ root' = [root EXCEPT !.data = @ \ {d}]
                   /\ stale' = [stale EXCEPT ![p].data = @ \cup {d}]
  <2>1. /\ root' \in Directories \cup {None} /\ (root' = None <=> root = None)
        /\ stale' \in [Starts -> Directories \cup {None}]
        /\ \A q \in Starts : q # p => stale'[q] = stale[q]
        /\ root # None => root'.token = root.token /\ root'.lock = root.lock
    <3>1. CASE UNCHANGED <<root, stale>>
      BY <3>1 DEF StartTyped
    <3>2. CASE /\ root # None
               /\ \E d \in root.data :
                    /\ root' = [root EXCEPT !.data = @ \ {d}]
                    /\ stale' = [stale EXCEPT ![p].data = @ \cup {d}]
      <4>0. PICK d \in root.data :
              /\ root' = [root EXCEPT !.data = @ \ {d}]
              /\ stale' = [stale EXCEPT ![p].data = @ \cup {d}]
        BY <3>2
      <4>1. root \in Directories /\ d \in Data
        BY <3>2, DirectoryUpdates DEF StartTyped
      <4>2. root' \in Directories /\ root'.token = root.token /\ root'.lock = root.lock
        BY <3>2, <4>0, <4>1 DEF Directories
      <4>3. stale'[p] = [stale[p] EXCEPT !.data = stale[p].data \cup {d}]
            /\ \A q \in Starts : q # p => stale'[q] = stale[q]
        BY <4>0 DEF StartTyped
      <4>4. stale'[p] \in Directories
        BY <1>1, <4>1, <4>3 DEF Directories
      <4>5. stale' \in [Starts -> Directories \cup {None}]
        BY <4>0, <4>3, <4>4 DEF StartTyped
      <4> QED
        BY <3>2, <4>2, <4>3, <4>5, DirectoryUpdates
    <3> QED
      BY <1>3, <3>1, <3>2
  <2>2. StartTyped'
    BY <1>1, <2>1 DEF StartTyped, StartSteps, RebuildSteps, LockOpen
  <2>3. LockFollows'
    BY <1>1, <2>1 DEF StartTyped, LockFollows, LockOpen, LockHeld, RebuildSteps
  <2>4. \A q \in Starts : at[q] = "token" => root # None
    BY DEF LockFollows, LockOpen
  <2>5. DataFollows'
    BY <1>1, <1>3, <2>1, <2>4 DEF StartTyped, DataFollows, Undisturbed
  <2> QED
    BY <2>2, <2>3, <2>5
<1> QED
  BY <1>2, <1>3 DEF Start!Back

\* Drop preserves the invariant.
LEMMA StartDrop ==
  ASSUME StartInv, NEW p \in Starts, Start!Drop(p),
         UNCHANGED <<stale, Start!histories>>,
         UNCHANGED <<Start!host, Start!singleton, deaths>>
  PROVE  StartInv'
<1> USE DEF StartInv, Start!Goes, Start!host, Start!singleton, Start!histories
<1>1. PICK names \in SUBSET Start!Reserved :
        /\ root' = IF root = None THEN None ELSE Start!Dropped(root, names)
        /\ root # None /\ Start!Held(root) => "lock" \notin names \/ ~Start!Theirs(root, "lock")
        /\ repaired' = repaired \/ (repaired' = repaired \cup {p} /\ names = Start!Reserved)
  BY DEF Start!Drop, Start!Reserved
<1>2. at[p] = "drop" /\ at' = [at EXCEPT ![p] = "open"] /\ repaired' \in SUBSET Starts
  BY <1>1 DEF Start!Drop, StartTyped
<1>3. /\ root' \in Directories \cup {None} /\ (root' = None <=> root = None)
      /\ root # None =>
           /\ root \in Directories /\ root' \in Directories
           /\ root'.owner = root.owner /\ root'.data = root.data
           /\ \A n \in Start!Reserved : root'[n] =
                IF n \in names /\ Start!Theirs(root, n) THEN None ELSE root[n]
  <2>1. CASE root = None
    BY <1>1, <2>1
  <2>2. CASE root # None
    <3>1. root \in Directories /\ root' = Start!Dropped(root, names)
      BY <1>1, <2>2 DEF StartTyped
    <3>2. root' \in Directories /\ root'.owner = root.owner /\ root'.data = root.data
      BY <3>1, DroppedTyped
    <3>3. \A n \in Start!Reserved : root'[n] =
            IF n \in names /\ Start!Theirs(root, n) THEN None ELSE root[n]
      BY <3>1, DroppedTyped
    <3> QED
      BY <2>2, <3>1, <3>2, <3>3, DirectoryUpdates
  <2> QED
    BY <2>1, <2>2
<1>4. /\ root'.token \in {root.token, None} /\ root'.record \in {root.record, None}
      /\ root'.lock \in {root.lock, None}
      /\ root.token # None /\ root.token.owner = "me" => root'.token = root.token
      /\ Start!Held(root) => root'.lock = root.lock
      \/ root = None
  BY <1>1, <1>3 DEF Start!Reserved, Start!Theirs
<1>5. StartTyped'
  BY <1>2, <1>3 DEF StartTyped, StartSteps, RebuildSteps, LockOpen
<1>6. LockFollows'
  <2>1. \A q \in Starts : at[q] \in LockOpen => root # None /\ Start!Held(root)
    BY OpenIsHeld DEF LockFollows
  <2> QED
    BY <1>2, <1>3, <1>4, <2>1 DEF StartTyped, LockFollows, LockOpen, LockHeld, RebuildSteps
<1>7. /\ \A q \in Starts : at'[q] = "aside" => denied'
      /\ \A q \in Starts : at'[q] = "token" => root'.token # None /\ root'.token.owner = "me"
  <2>1. \A q \in Starts : at[q] = "token" => root # None
    BY DEF LockFollows, LockOpen
  <2> QED
    BY <1>2, <1>4, <2>1 DEF StartTyped, DataFollows
<1>8. FoundOurs
  BY <1>2 DEF FoundOurs
<1>9. Start!Rebuilding' = Start!Rebuilding
  BY <1>2 DEF StartTyped, Start!Rebuilding
<1>10. root # None => /\ Swept(root) => Swept(root)'
                      /\ Accepted(root) => Accepted(root)'
                      /\ names = Start!Reserved => Swept(root)'
  <2>1. root # None /\ names = Start!Reserved => Swept(root)'
    BY <1>3 DEF Swept, Start!Theirs
  <2>2. root # None /\ Swept(root) => Swept(root)'
    BY <1>3 DEF Swept, Start!Theirs
  <2>3. root # None /\ Accepted(root) => Accepted(root)'
    BY <1>4 DEF Accepted
  <2> QED
    BY <2>1, <2>2, <2>3
<1>11. ASSUME Undisturbed PROVE \A q \in Start!Rebuilding : RebuildFollows(q)'
  <2> SUFFICES ASSUME NEW q \in Start!Rebuilding PROVE RebuildFollows(q)'
    OBVIOUS
  <2>1. RebuildFollows(q) /\ q \in Starts /\ at'[q] = at[q]
    BY <1>2, <1>11 DEF DataFollows, Start!Rebuilding, StartTyped
  <2>2. denied /\ \A r \in Starts : at'[r] \notin LockOpen
    BY <1>2, <2>1 DEF RebuildFollows, StartTyped, LockOpen
  <2>3. IF at'[q] = "create" THEN root' = None
        ELSE root' # None /\ root'.token = None /\ root'.record = None /\ root'.lock = None
    BY <1>3, <1>4, <2>1 DEF RebuildFollows
  <2>4. at'[q] # "create" => root'.owner = root.owner /\ root'.data = root.data
    BY <1>3, <2>1 DEF RebuildFollows
  <2> QED
    BY <1>8, <2>1, <2>2, <2>3, <2>4 DEF RebuildFollows, Accepted
<1>12. ASSUME Undisturbed, Start!Rebuilding = {} PROVE DirectoryFollows'
  <2>1. DirectoryFollows /\ root # None /\ root' # None
    BY <1>3, <1>8, <1>12 DEF DataFollows, DirectoryFollows
  <2>2. repaired' # {} => Swept(root)'
    BY <1>1, <1>10, <2>1 DEF DirectoryFollows, Start!Reserved
  <2>3. (\E q \in Starts : at'[q] \in {"take", "aside"}) =>
          \E q \in Starts : at[q] \in {"take", "aside"}
    BY <1>2 DEF StartTyped
  <2>4. root'.owner = "me" /\ denied' /\ (\E q \in Starts : at'[q] \in {"take", "aside"}) =>
          Swept(root)'
    BY <1>3, <1>10, <2>1, <2>3 DEF DirectoryFollows
  <2>5. Accepted(root)' \/ \E q \in Starts : at'[q] = "token"
    <3>1. (\E q \in Starts : at[q] = "token") => \E q \in Starts : at'[q] = "token"
      BY <1>2 DEF StartTyped
    <3> QED
      BY <1>10, <2>1, <3>1 DEF DirectoryFollows
  <2>6. (kept # {} => root'.data = kept) /\ root'.owner = "me"
    BY <1>3, <1>8, <2>1 DEF DirectoryFollows
  <2> QED
    BY <2>1, <2>2, <2>4, <2>5, <2>6 DEF DirectoryFollows, Accepted
<1>13. DataFollows'
  BY <1>7, <1>9, <1>11, <1>12 DEF DataFollows, Undisturbed
<1> QED
  BY <1>5, <1>6, <1>13

\* What a process that has the lock file open does to the directory: nobody rebuilds it.
LEMMA WritesWhileOpen ==
  ASSUME StartTyped, LockFollows, DataFollows, NEW p \in Starts, NEW to \in LockOpen,
         at[p] \in LockOpen, at' = [at EXCEPT ![p] = to],
         root # None, root' \in Directories, root'.owner = root.owner, root'.data = root.data,
         Swept(root) => Swept(root)',
         Accepted(root)' \/ to = "token"
           \/ (root'.token = root.token /\ at[p] # "token" /\ (spoilt => spoilt')),
         UNCHANGED <<denied, kept, stale, repaired>>, Undisturbed' => Undisturbed,
         \A q \in Starts : at'[q] = "token" => root'.token # None /\ root'.token.owner = "me"
  PROVE  DataFollows'
<1>1. /\ root' # None /\ Start!Rebuilding' = Start!Rebuilding
      /\ \A q \in Starts : at'[q] = "aside" => denied'
  <2>1. root' # None
    BY DirectoryUpdates
  <2>2. \A q \in Starts : at'[q] = IF q = p THEN to ELSE at[q]
    BY DEF StartTyped
  <2>3. at[p] \notin RebuildSteps \cup {"aside"} /\ to \notin RebuildSteps \cup {"aside"}
    BY DEF LockOpen, RebuildSteps
  <2>4. Start!Rebuilding' = Start!Rebuilding
    BY <2>2, <2>3 DEF Start!Rebuilding, RebuildSteps
  <2>5. \A q \in Starts : at[q] = "aside" => denied
    BY DEF DataFollows
  <2> QED
    BY <2>1, <2>2, <2>3, <2>4, <2>5
<1>2. ASSUME Undisturbed PROVE Start!Rebuilding = {} /\ DirectoryFollows'
  <2>1. Start!Rebuilding = {} /\ DirectoryFollows
    BY <1>2 DEF DataFollows, RebuildFollows
  <2>2. /\ FoundOurs' => FoundOurs
        /\ (\E q \in Starts : at'[q] \in {"take", "aside"}) =>
             \E q \in Starts : at[q] \in {"take", "aside"}
    BY DEF FoundOurs, StartTyped, LockOpen
  <2>3. Accepted(root)' \/ \E q \in Starts : at'[q] = "token"
    <3>1. CASE to = "token"
      BY <3>1 DEF StartTyped
    <3>2. CASE root'.token = root.token /\ at[p] # "token" /\ (spoilt => spoilt')
      <4>1. (\E q \in Starts : at[q] = "token") => \E q \in Starts : at'[q] = "token"
        BY <3>2 DEF StartTyped
      <4> QED
        BY <2>1, <3>2, <4>1 DEF DirectoryFollows, Accepted
    <3> QED
      BY <3>1, <3>2
  <2> QED
    BY <1>1, <2>1, <2>2, <2>3 DEF DirectoryFollows, Accepted
<1> QED
  BY <1>1, <1>2 DEF DataFollows

\* Record preserves the invariant.
LEMMA StartRecord ==
  ASSUME StartInv, NEW p \in Starts, Start!Record(p)
  PROVE  StartInv'
<1> USE DEF StartInv, Start!Goes, Start!host, Start!histories, Start!Leave
<1>1. CASE /\ root # None /\ at[p] = "record" /\ at' = [at EXCEPT ![p] = "serving"]
           /\ root' = [root EXCEPT !.record =
                 [owner |-> "me", port |-> CHOOSE n \in Ports : bound[n] = p, token |-> p]]
           /\ UNCHANGED <<file, locked, heard, bound>>
           /\ UNCHANGED <<Start!host, stale, repaired, deaths, Start!histories>>
  <2> DEFINE port == CHOOSE n \in Ports : bound[n] = p
  <2>1. port \in Ports
    BY <1>1 DEF LockFollows
  <2> HIDE DEF port
  <2>2. /\ root' \in Directories /\ root'.owner = root.owner /\ root'.data = root.data
        /\ root'.token = root.token /\ root'.lock = root.lock
        /\ root'.record = [owner |-> "me", port |-> port, token |-> p]
    BY <1>1, <2>1 DEF StartTyped, Directories, RecordFiles, Owners, port
  <2>3. StartTyped'
    BY <1>1, <2>2 DEF StartTyped, StartSteps, RebuildSteps, LockOpen
  <2>4. LockFollows'
    <3>1. root' # None
      BY <2>2, DirectoryUpdates
    <3> QED
      BY <1>1, <2>2, <3>1 DEF StartTyped, LockFollows, LockOpen, LockHeld, RebuildSteps
  <2>5. Swept(root) => Swept(root)'
    <3>1. root'.record.owner = "me"
      BY <2>2
    <3>2. root \in Directories
      BY <1>1 DEF StartTyped
    <3> QED
      BY <2>2, <3>1, <3>2, SweptIs
  <2>6. \A q \in Starts : at'[q] = "token" => root'.token # None /\ root'.token.owner = "me"
    BY <1>1, <2>2 DEF StartTyped, DataFollows
  <2>7. DataFollows'
    BY <1>1, <2>2, <2>5, <2>6, WritesWhileOpen DEF LockOpen, Undisturbed
  <2> QED
    BY <2>3, <2>4, <2>7
<1>2. CASE /\ at[p] = "record" /\ at' = [at EXCEPT ![p] = "ended"] /\ UNCHANGED root
           /\ Start!Leave(p) /\ bound' = [n \in Ports |-> IF bound[n] = p THEN None ELSE bound[n]]
           /\ UNCHANGED <<Start!host, stale, repaired, deaths, Start!histories>>
  <2>1. StartTyped'
    BY <1>2 DEF StartTyped, StartSteps, RebuildSteps, LockOpen
  <2>2. LockFollows'
    BY <1>2 DEF StartTyped, LockFollows, LockOpen, LockHeld, RebuildSteps
  <2>3. DataFollows'
    BY <1>2, QuietStarts DEF StartSteps, RebuildSteps, LockOpen, Undisturbed
  <2> QED
    BY <2>1, <2>2, <2>3
<1> QED
  BY <1>1, <1>2 DEF Start!Record

\* Token preserves the invariant.
LEMMA StartToken ==
  ASSUME StartInv, NEW p \in Starts, Start!Token(p)
  PROVE  StartInv'
<1> USE DEF StartInv, Start!Goes, Start!host, Start!singleton
<1>1. ASSUME NEW to \in {"ready", "token"}, at[p] \in {"ready", "token"},
             at' = [at EXCEPT ![p] = to], root # None,
             root' \in Directories, root'.owner = root.owner, root'.data = root.data,
             root'.record = root.record, root'.lock = root.lock,
             root'.token # None /\ root'.token.owner = "me",
             Accepted(root)' \/ to = "token", spoilt => spoilt'
      PROVE  StartInv'
  <2>1. UNCHANGED <<Start!host, stale, repaired, Start!singleton, deaths, unrestored, died,
                    intruded>>
    BY DEF Start!Token
  <2>2. StartTyped'
    BY <1>1, <2>1 DEF StartTyped, StartSteps, RebuildSteps, LockOpen
  <2>3. LockFollows'
    <3>1. root' # None
      BY <1>1, DirectoryUpdates
    <3> QED
      BY <1>1, <2>1, <3>1 DEF StartTyped, LockFollows, LockOpen, LockHeld, RebuildSteps
  <2>4. Swept(root) => Swept(root)'
    BY <1>1, SweptIs DEF StartTyped
  <2>5. DataFollows'
    BY <1>1, <2>1, <2>4, WritesWhileOpen DEF LockOpen, Undisturbed
  <2> QED
    BY <2>2, <2>3, <2>5
<1>2. CASE /\ root # None /\ root.token = None
           /\ at[p] = "ready" /\ at' = [at EXCEPT ![p] = "token"]
           /\ root' = [root EXCEPT !.token = [owner |-> "me", whole |-> FALSE]]
           /\ UNCHANGED spoilt
  <2>1. /\ root' \in Directories /\ root'.owner = root.owner /\ root'.data = root.data
        /\ root'.record = root.record /\ root'.lock = root.lock
        /\ root'.token = [owner |-> "me", whole |-> FALSE]
    BY <1>2 DEF StartTyped, Directories, TokenFiles, Owners
  <2>2. root'.token # None /\ root'.token.owner = "me"
    <3>1. [owner |-> "me", whole |-> FALSE] # None
      BY TokenIsSome
    <3> QED
      BY <2>1, <3>1
  <2> QED
    BY <1>1, <1>2, <2>1, <2>2
<1>3. CASE /\ root # None /\ at[p] = "token" /\ at' = [at EXCEPT ![p] = "ready"]
           /\ root' = [root EXCEPT !.token.whole = TRUE] /\ UNCHANGED spoilt
  <2>1. root.token # None /\ root.token.owner = "me" /\ root.token \in TokenFiles
    BY <1>3 DEF DataFollows, StartTyped, Directories
  <2>2. root' = [root EXCEPT !.token = [root.token EXCEPT !.whole = TRUE]]
    BY <1>3
  <2>3. /\ [root.token EXCEPT !.whole = TRUE] \in TokenFiles
        /\ [root.token EXCEPT !.whole = TRUE].owner = "me"
        /\ [root.token EXCEPT !.whole = TRUE].whole
    BY <2>1 DEF TokenFiles
  <2>4. /\ root' \in Directories /\ root'.owner = root.owner /\ root'.data = root.data
        /\ root'.record = root.record /\ root'.lock = root.lock
        /\ root'.token = [root.token EXCEPT !.whole = TRUE]
    BY <1>3, <2>2, <2>3 DEF StartTyped, Directories
  <2>5. root'.token # None /\ root'.token.owner = "me" /\ Accepted(root)'
    BY <2>3, <2>4, NoneAssumption DEF Accepted
  <2> QED
    BY <1>1, <1>3, <2>4, <2>5
<1>4. CASE /\ at[p] = "token" /\ at' = [at EXCEPT ![p] = "ready"] /\ spoilt' = TRUE
           /\ UNCHANGED root
  <2>1. root # None /\ root.token # None /\ root.token.owner = "me" /\ root \in Directories
    BY <1>4 DEF DataFollows, LockFollows, LockOpen, StartTyped
  <2>2. Accepted(root)'
    BY <1>4 DEF Accepted
  <2> QED
    BY <1>1, <1>4, <2>1, <2>2
<1> QED
  BY <1>2, <1>3, <1>4 DEF Start!Token

\* The processes begin with the invariant.
LEMMA StartInit == Start!Init => StartInv
<1> SUFFICES ASSUME Start!Init PROVE StartInv
  OBVIOUS
<1>1. root # None =>
        /\ root \in Directories /\ root.data = Data /\ root.token # None /\ root.token.whole
  <2>1. ASSUME NEW o \in {"me", "other"}, NEW r \in {"me", "other"}, root = Start!Left(o, r)
        PROVE  /\ root \in Directories /\ root.data = Data
               /\ root.token = [owner |-> r, whole |-> TRUE]
    BY <2>1, LeftTyped DEF Start!Left
  <2>2. \A r \in {"me", "other"} : [owner |-> r, whole |-> TRUE] # None
    BY TokenIsSome
  <2> QED
    BY <2>1, <2>2 DEF Start!Init
<1>2. StartTyped
  BY <1>1 DEF Start!Init, StartTyped, StartSteps, RebuildSteps, LockOpen
<1>3. LockFollows
  BY DEF Start!Init, LockFollows, LockOpen, LockHeld, RebuildSteps
<1>4. Start!Rebuilding = {} /\ ~FoundOurs /\ repaired = {}
      /\ (\A q \in Starts : at[q] = "off") /\ (root = None => kept = {})
      /\ (root # None => kept = Data)
  BY DEF Start!Init, Start!Rebuilding, FoundOurs
<1>5. DataFollows
  BY <1>1, <1>4 DEF DataFollows, DirectoryFollows, Accepted
<1> QED
  BY <1>2, <1>3, <1>5 DEF StartInv

\* Each step of the processes preserves the invariant.
LEMMA StartStep == StartInv /\ Start!Next => StartInv'
<1> SUFFICES ASSUME StartInv, NEW p \in Starts,
                    \/ Start!Begin(p) \/ Start!Repair(p) \/ Start!OpenLock(p)
                    \/ Start!TryLock(p) \/ Start!Ask(p) \/ Start!Told(p) \/ Start!Bind(p)
                    \/ Start!Record(p) \/ Start!Ready(p) \/ Start!Token(p)
                    \/ Start!CloseServer(p) \/ Start!Ends(p) \/ Start!Dies(p)
             PROVE  StartInv'
  BY DEF Start!Next
<1>1. CASE Start!Repair(p)
  BY <1>1, StartCheck, StartTake, StartSetAside, StartCreate, StartOwn, StartMove, StartBack,
     StartDrop DEF Start!Repair
<1> QED
  BY <1>1, StartBegin, StartOpenLock, StartTryLock, StartAsk, StartTold, StartBind, StartRecord,
     StartReady, StartToken, StartCloseServer, StartEnds, StartDies

\* A stutter of the processes keeps the invariant.
LEMMA StartStutter == StartInv /\ UNCHANGED startup_vars => StartInv'
<1> SUFFICES ASSUME StartInv, UNCHANGED startup_vars PROVE StartInv'
  OBVIOUS
<1> USE DEF StartInv, startup_vars
<1>1. StartTyped' /\ LockFollows'
  BY DEF StartTyped, LockFollows
<1>2. Start!Rebuilding' = Start!Rebuilding /\ (FoundOurs' <=> FoundOurs)
  BY DEF Start!Rebuilding, FoundOurs
<1>3. \A q \in Start!Rebuilding : RebuildFollows(q) => RebuildFollows(q)'
  BY <1>2 DEF RebuildFollows, Accepted, Swept, Start!Theirs
<1>4. DirectoryFollows => DirectoryFollows'
  BY <1>2 DEF DirectoryFollows, Accepted, Swept, Start!Theirs
<1>5. DataFollows'
  BY <1>2, <1>3, <1>4 DEF DataFollows, Undisturbed
<1> QED
  BY <1>1, <1>5

\* One process at a time is the primary; the user's entries stay together whichever step of a
\* repair fails; a directory that was repaired is this user's, with a token that will be
\* accepted (StartsAreSound, check_singleton, repair_root_owner).
THEOREM StartsHold == Spec => []StartsAreSound
<1> DEFINE Inv == part = "startup" => StartInv
<1>1. Init => Inv
  BY StartInit DEF Init
<1>2. Inv /\ [Next]_mcvars => Inv'
  <2> SUFFICES ASSUME part = "startup", StartInv, [Next]_mcvars PROVE StartInv'
    BY PartStays
  <2>1. CASE Start!Next
    BY <2>1, StartStep
  <2>2. CASE UNCHANGED startup_vars
    BY <2>2, StartStutter
  <2> QED
    BY <2>1, <2>2 DEF Next, mcvars
<1>3. StartInv => Start!OnePrimary /\ Start!DataStaysTogether /\ Start!RepairedRootIsOurs
  <2> SUFFICES ASSUME StartInv
               PROVE  Start!OnePrimary /\ Start!DataStaysTogether /\ Start!RepairedRootIsOurs
    OBVIOUS
  <2>1. Start!OnePrimary
    <3>1. locked = {} \/ \E p \in Starts : locked = {p}
      BY DEF StartInv, StartTyped, LockFollows
    <3>2. Cardinality(locked) \in {0, 1}
      BY <3>1, FS_EmptySet, FS_Singleton
    <3>3. Start!Cardinality(locked) = Cardinality(locked)
      BY DEF Start!Cardinality, Cardinality
    <3> QED
      BY <3>2, <3>3 DEF Start!OnePrimary
  <2>2. ASSUME Undisturbed, Start!Rebuilding = {} PROVE DirectoryFollows
    BY <2>2 DEF StartInv, DataFollows
  <2>3. Start!DataStaysTogether
    BY <2>2 DEF Start!DataStaysTogether, DirectoryFollows, Undisturbed
  <2>4. Start!RepairedRootIsOurs
    BY <2>2 DEF Start!RepairedRootIsOurs, DirectoryFollows, Undisturbed, FoundOurs, Swept, Accepted
  <2> QED
    BY <2>1, <2>3, <2>4
<1> QED
  BY <1>1, <1>2, <1>3, PTL DEF Spec, StartsAreSound

-----------------------------------------------------------------------------
(* Backups *)

\* Archives in the backup directory, those of them that were made automatically, and those of
\* these that no failure has left.
Autos(files) == {b \in files : b.by \in Backup!Triggers}
Counted(files, left) == Autos(files) \ left

BackupOps == {"none", "local", "upload", "restore", "credentials"} \cup Backup!Triggers
BackupSteps == {"none", "locking", "creating", "writing", "reporting", "cleaning", "asking",
                "configuring", "making", "transferring", "extracting", "saving", "resetting",
                "finalizing"}
Archives == [at : Nat, by : BackupOps]
CallState == [op : BackupOps, step : BackupSteps, at : Nat, keeps : Credentials \cup {None},
              with : Credentials \cup {None}]

BackupTyped ==
  /\ clock \in Nat \ {0} /\ last_backup \in Nat /\ exec_lock \in Callers \cup {None}
  /\ backups \in SUBSET Archives /\ IsFiniteSet(Autos(backups))
  /\ reported \in SUBSET [from : Nat, to : Nat]
  /\ credentials \in Credentials /\ config \in Credentials \cup {None}
  /\ clients \in [Backup!Operations -> Credentials \cup {None}]
  /\ calls \in [Callers -> CallState] /\ reset_overtaken \in BOOLEAN
  /\ \A c \in Callers : calls[c].op = "restore" => calls[c].keeps \in Credentials

\* The lock is with the automatic backup under way.
Executes(c) ==
  /\ calls[c].op \in Backup!Triggers
  /\ calls[c].step \in {"creating", "writing", "reporting", "cleaning"}

LockIsHeld ==
  /\ \A c \in Callers : exec_lock = c <=> Executes(c)
  /\ \A c \in Callers :
       /\ calls[c].step \in {"locking", "reporting", "cleaning"} => calls[c].op \in Backup!Triggers
       /\ calls[c].op = "credentials" => calls[c].step \in {"saving", "resetting"}

\* An automatic backup is one too many until it has cleaned up.
Over == \E c \in Callers : calls[c].step \in {"reporting", "cleaning"}
FewKept == Keep # 0 => Cardinality(Counted(backups, leftover)) <= IF Over THEN Keep + 1 ELSE Keep

\* The backup under way began long enough after the last one has ended.
Away(t) == last_backup = 0 \/ t >= last_backup + MinInterval
Spaced ==
  /\ last_backup <= clock
  /\ last_backup = 0 => reported = {}
  /\ \A x \in reported : x.to <= last_backup
  /\ \A x, y \in reported :
       x = y \/ x.from >= y.to + MinInterval \/ y.from >= x.to + MinInterval
  /\ \A c \in Callers : Executes(c) /\ calls[c].step = "creating" => Away(clock)
  /\ \A c \in Callers : Executes(c) /\ calls[c].step \in {"writing", "reporting"} =>
       calls[c].at <= clock /\ Away(calls[c].at)

\* While no credentials are being saved clients and what makes one have those of the settings,
\* until others get past the last reset.
Current ==
  ~reset_overtaken /\ (\A c \in Callers : calls[c].op # "credentials") =>
    /\ config \in {None, credentials}
    /\ \A o \in Backup!Operations : clients[o] \in {None, credentials}
    /\ \A c \in Callers : calls[c].step \in {"configuring", "making"} => calls[c].with = credentials

\* The inductive invariant of the backups.
BackupInv == BackupTyped /\ LockIsHeld /\ FewKept /\ Spaced /\ Current

\* What a call that begins, goes on or ends leaves of it and of the others.
LEMMA BackupGoes ==
  ASSUME calls \in [Callers -> CallState], NEW c \in Callers, NEW s \in BackupSteps,
         Backup!Goes(c, s)
  PROVE  /\ calls' \in [Callers -> CallState]
         /\ calls'[c].op = calls[c].op /\ calls'[c].step = s /\ calls'[c].at = calls[c].at
         /\ calls'[c].keeps = calls[c].keeps /\ calls'[c].with = calls[c].with
         /\ \A d \in Callers \ {c} : calls'[d] = calls[d]
BY DEF Backup!Goes, CallState

\* What a call that ends leaves.
LEMMA BackupEnds ==
  ASSUME calls \in [Callers -> CallState], NEW c \in Callers, Backup!Ends(c)
  PROVE  /\ calls' \in [Callers -> CallState]
         /\ calls'[c].op = "none" /\ calls'[c].step = "none"
         /\ \A d \in Callers \ {c} : calls'[d] = calls[d]
BY DEF Backup!Ends, Backup!Idle, CallState, BackupOps, BackupSteps

\* A call that begins was idle.
LEMMA BackupBegins ==
  ASSUME calls \in [Callers -> CallState], NEW o \in BackupOps, NEW s \in BackupSteps,
         NEW k \in Credentials \cup {None}, Backup!Begins(o, s, k)
  PROVE  \E c \in Callers :
           /\ calls[c].op = "none" /\ calls[c].step = "none"
           /\ calls' \in [Callers -> CallState]
           /\ calls'[c].op = o /\ calls'[c].step = s /\ calls'[c].keeps = k
           /\ \A d \in Callers \ {c} : calls'[d] = calls[d]
BY DEF Backup!Begins, Backup!Idle, CallState

\* Archives that stay, go, or are joined by one are still as many as can be counted.
LEMMA AutosFinite ==
  ASSUME BackupTyped, NEW files, NEW a, Autos(files) \subseteq Autos(backups) \cup {a}
  PROVE  IsFiniteSet(Autos(files))
<1>1. IsFiniteSet(Autos(backups) \cup {a})
  BY FS_AddElement DEF BackupTyped
<1> QED
  BY <1>1, FS_Subset

\* There are fewer to count when there are fewer of them.
LEMMA CountedLess ==
  ASSUME BackupTyped, NEW files, NEW left, IsFiniteSet(Autos(files)),
         Counted(files, left) \subseteq Counted(backups, leftover)
  PROVE  /\ Cardinality(Counted(files, left)) \in Nat
         /\ Cardinality(Counted(backups, leftover)) \in Nat
         /\ Cardinality(Counted(files, left)) <= Cardinality(Counted(backups, leftover))
<1>1. IsFiniteSet(Counted(files, left)) /\ IsFiniteSet(Counted(backups, leftover))
  BY FS_Subset DEF BackupTyped, Counted
<1> QED
  BY <1>1, FS_Subset, FS_CardinalityType

\* Few enough are kept when no more are counted.
LEMMA FewKeptStays ==
  ASSUME BackupTyped, FewKept, IsFiniteSet(Autos(backups')), Over' <=> Over,
         Counted(backups', leftover') \subseteq Counted(backups, leftover)
  PROVE  FewKept'
<1>1. /\ Cardinality(Counted(backups', leftover')) \in Nat
      /\ Cardinality(Counted(backups, leftover)) \in Nat
      /\ Cardinality(Counted(backups', leftover')) <= Cardinality(Counted(backups, leftover))
  BY CountedLess
<1>2. Counted(backups, leftover)' = Counted(backups', leftover')
  BY DEF Counted, Autos
<1>3. CASE Keep = 0
  BY <1>3 DEF FewKept
<1>4. CASE Keep # 0
  <2>1. Cardinality(Counted(backups, leftover)) <= IF Over THEN Keep + 1 ELSE Keep
    BY <1>4 DEF FewKept
  <2>2. Cardinality(Counted(backups', leftover')) <= IF Over' THEN Keep + 1 ELSE Keep
    BY <1>1, <2>1, BackupsAssumption
  <2> QED
    BY <1>2, <2>2 DEF FewKept
<1> QED
  BY <1>3, <1>4

\* Tick preserves the invariant.
LEMMA BackupTick ==
  ASSUME BackupInv, Backup!Tick
  PROVE  BackupInv'
<1> USE BackupsAssumption, PartsAssumption
    DEF BackupInv, Backup!Tick, Backup!automatic, Backup!archives, Backup!kept, Backup!webdav
<1>t. BackupTyped'
  BY DEF BackupTyped
<1>l. LockIsHeld'
  BY DEF LockIsHeld, Executes
<1>f. FewKept'
  BY DEF FewKept, Over
<1>s. Spaced'
  BY DEF BackupTyped, CallState, Spaced, Away, Executes
<1>w. Current'
  BY DEF Current
<1> QED
  BY <1>t, <1>l, <1>f, <1>s, <1>w

\* Trigger preserves the invariant.
LEMMA BackupTrigger ==
  ASSUME BackupInv, NEW t \in Backup!Triggers, Backup!Trigger(t)
  PROVE  BackupInv'
<1> USE BackupsAssumption, PartsAssumption
    DEF BackupInv, Backup!Trigger, Backup!automatic, Backup!archives, Backup!kept, Backup!webdav
<1>c. PICK c \in Callers :
        /\ calls[c].op = "none" /\ calls[c].step = "none"
        /\ calls' \in [Callers -> CallState]
        /\ calls'[c].op = t /\ calls'[c].step = "locking" /\ calls'[c].keeps = None
        /\ \A d \in Callers \ {c} : calls'[d] = calls[d]
  BY BackupBegins DEF BackupTyped, BackupOps, BackupSteps, Backup!Triggers
<1>t. BackupTyped'
  BY <1>c DEF BackupTyped, CallState, Backup!Triggers
<1>l. LockIsHeld'
  BY <1>c DEF BackupTyped, LockIsHeld, Executes, BackupSteps, BackupOps, Backup!Triggers
<1>f. FewKept'
  BY <1>c DEF BackupTyped, FewKept, Over
<1>s. Spaced'
  BY <1>c DEF BackupTyped, CallState, Spaced, Away, LockIsHeld, Executes, BackupSteps,
     BackupOps, Backup!Triggers
<1>w. Current'
  BY <1>c DEF BackupTyped, CallState, Current, LockIsHeld, BackupSteps, BackupOps, Backup!Triggers
<1> QED
  BY <1>t, <1>l, <1>f, <1>s, <1>w

\* SaveCredentials preserves the invariant.
LEMMA BackupSaveCredentials ==
  ASSUME BackupInv, NEW k \in Credentials, Backup!SaveCredentials(k)
  PROVE  BackupInv'
<1> USE BackupsAssumption, PartsAssumption
    DEF BackupInv, Backup!SaveCredentials, Backup!automatic, Backup!archives, Backup!kept, Backup!webdav
<1>c. PICK c \in Callers :
        /\ calls[c].op = "none" /\ calls[c].step = "none"
        /\ calls' \in [Callers -> CallState]
        /\ calls'[c].op = "credentials" /\ calls'[c].step = "saving" /\ calls'[c].keeps = None
        /\ \A d \in Callers \ {c} : calls'[d] = calls[d]
  BY BackupBegins DEF BackupTyped, BackupOps, BackupSteps, Backup!Triggers
<1>t. BackupTyped'
  BY <1>c DEF BackupTyped, CallState, Backup!Triggers
<1>l. LockIsHeld'
  BY <1>c DEF BackupTyped, LockIsHeld, Executes, BackupSteps, BackupOps, Backup!Triggers
<1>f. FewKept'
  BY <1>c DEF BackupTyped, FewKept, Over
<1>s. Spaced'
  BY <1>c DEF BackupTyped, CallState, Spaced, Away, LockIsHeld, Executes, BackupSteps,
     BackupOps, Backup!Triggers
<1>w. Current'
  BY <1>c DEF BackupTyped, CallState, Current, LockIsHeld, BackupSteps, BackupOps, Backup!Triggers
<1> QED
  BY <1>t, <1>l, <1>f, <1>s, <1>w, SMTT(30)

\* CreateFails preserves the invariant.
LEMMA BackupCreateFails ==
  ASSUME BackupInv, NEW c \in Callers, Backup!CreateFails(c)
  PROVE  BackupInv'
<1> USE BackupsAssumption, PartsAssumption
    DEF BackupInv, Backup!CreateFails, Backup!automatic, Backup!archives, Backup!kept, Backup!webdav,
        Backup!FreesLock
<1>c. /\ calls' \in [Callers -> CallState]
      /\ calls'[c].op = "none" /\ calls'[c].step = "none"
      /\ \A d \in Callers \ {c} : calls'[d] = calls[d]
  BY BackupEnds DEF BackupTyped
<1>t. BackupTyped'
  BY <1>c DEF BackupTyped, CallState, Backup!Triggers
<1>l. LockIsHeld'
  BY <1>c DEF BackupTyped, LockIsHeld, Executes, BackupSteps, BackupOps, Backup!Triggers
<1>f. FewKept'
  BY <1>c DEF BackupTyped, FewKept, Over
<1>s. Spaced'
  BY <1>c DEF BackupTyped, CallState, Spaced, Away, LockIsHeld, Executes, BackupSteps,
     BackupOps, Backup!Triggers
<1>w. Current'
  BY <1>c DEF BackupTyped, CallState, Current, LockIsHeld, BackupSteps, BackupOps, Backup!Triggers
<1> QED
  BY <1>t, <1>l, <1>f, <1>s, <1>w

\* Reports preserves the invariant.
LEMMA BackupReports ==
  ASSUME BackupInv, NEW c \in Callers, Backup!Reports(c)
  PROVE  BackupInv'
<1> USE BackupsAssumption, PartsAssumption
    DEF BackupInv, Backup!Reports, Backup!automatic, Backup!archives, Backup!kept, Backup!webdav
<1>c. /\ calls' \in [Callers -> CallState]
      /\ calls'[c].op = calls[c].op /\ calls'[c].step = "cleaning" /\ calls'[c].at = calls[c].at
      /\ calls'[c].keeps = calls[c].keeps /\ calls'[c].with = calls[c].with
      /\ \A d \in Callers \ {c} : calls'[d] = calls[d]
  BY BackupGoes DEF BackupTyped, BackupSteps
<1>t. BackupTyped'
  BY <1>c DEF BackupTyped, CallState, Backup!Triggers
<1>l. LockIsHeld'
  BY <1>c DEF BackupTyped, LockIsHeld, Executes, BackupSteps, BackupOps, Backup!Triggers
<1>f. FewKept'
  BY <1>c DEF BackupTyped, FewKept, Over
<1>s. Spaced'
  BY <1>c DEF BackupTyped, CallState, Spaced, Away, LockIsHeld, Executes, BackupSteps,
     BackupOps, Backup!Triggers
<1>w. Current'
  BY <1>c DEF BackupTyped, CallState, Current, LockIsHeld, BackupSteps, BackupOps, Backup!Triggers
<1> QED
  BY <1>t, <1>l, <1>f, <1>s, <1>w

\* BackUp preserves the invariant.
LEMMA BackupBackUp ==
  ASSUME BackupInv, Backup!BackUp
  PROVE  BackupInv'
<1> USE BackupsAssumption, PartsAssumption
    DEF BackupInv, Backup!BackUp, Backup!automatic, Backup!archives, Backup!kept, Backup!webdav
<1>1. CASE Backup!Begins("local", "creating", None)
  <2>c. PICK c \in Callers :
          /\ calls[c].op = "none" /\ calls[c].step = "none"
          /\ calls' \in [Callers -> CallState]
          /\ calls'[c].op = "local" /\ calls'[c].step = "creating" /\ calls'[c].keeps = None
          /\ \A d \in Callers \ {c} : calls'[d] = calls[d]
    BY <1>1, BackupBegins DEF BackupTyped, BackupOps, BackupSteps, Backup!Triggers
  <2>t. BackupTyped'
    BY <1>1, <2>c DEF BackupTyped, CallState, Backup!Triggers
  <2>l. LockIsHeld'
    BY <1>1, <2>c DEF BackupTyped, LockIsHeld, Executes, BackupSteps, BackupOps, Backup!Triggers
  <2>f. FewKept'
    BY <1>1, <2>c DEF BackupTyped, FewKept, Over
  <2>s. Spaced'
    BY <1>1, <2>c DEF BackupTyped, CallState, Spaced, Away, LockIsHeld, Executes, BackupSteps,
       BackupOps, Backup!Triggers
  <2>w. Current'
    BY <1>1, <2>c DEF BackupTyped, CallState, Current, LockIsHeld, BackupSteps, BackupOps,
       Backup!Triggers
  <2> QED
    BY <2>t, <2>l, <2>f, <2>s, <2>w, SMTT(30)
<1>2. CASE Backup!Begins("upload", "creating", None)
  <2>c. PICK c \in Callers :
          /\ calls[c].op = "none" /\ calls[c].step = "none"
          /\ calls' \in [Callers -> CallState]
          /\ calls'[c].op = "upload" /\ calls'[c].step = "creating" /\ calls'[c].keeps = None
          /\ \A d \in Callers \ {c} : calls'[d] = calls[d]
    BY <1>2, BackupBegins DEF BackupTyped, BackupOps, BackupSteps, Backup!Triggers
  <2>t. BackupTyped'
    BY <1>2, <2>c DEF BackupTyped, CallState, Backup!Triggers
  <2>l. LockIsHeld'
    BY <1>2, <2>c DEF BackupTyped, LockIsHeld, Executes, BackupSteps, BackupOps, Backup!Triggers
  <2>f. FewKept'
    BY <1>2, <2>c DEF BackupTyped, FewKept, Over
  <2>s. Spaced'
    BY <1>2, <2>c DEF BackupTyped, CallState, Spaced, Away, LockIsHeld, Executes, BackupSteps,
       BackupOps, Backup!Triggers
  <2>w. Current'
    BY <1>2, <2>c DEF BackupTyped, CallState, Current, LockIsHeld, BackupSteps, BackupOps,
       Backup!Triggers
  <2> QED
    BY <2>t, <2>l, <2>f, <2>s, <2>w
<1> QED
  BY <1>1, <1>2

\* Restore preserves the invariant.
LEMMA BackupRestore ==
  ASSUME BackupInv, Backup!Restore
  PROVE  BackupInv'
<1> USE BackupsAssumption, PartsAssumption
    DEF BackupInv, Backup!Restore, Backup!automatic, Backup!archives, Backup!kept, Backup!webdav
<1>1. CASE Backup!Begins("restore", "asking", credentials)
  <2>c. PICK c \in Callers :
          /\ calls[c].op = "none" /\ calls[c].step = "none"
          /\ calls' \in [Callers -> CallState]
          /\ calls'[c].op = "restore" /\ calls'[c].step = "asking" /\ calls'[c].keeps = credentials
          /\ \A d \in Callers \ {c} : calls'[d] = calls[d]
    BY <1>1, BackupBegins DEF BackupTyped, BackupOps, BackupSteps, Backup!Triggers
  <2>t. BackupTyped'
    BY <1>1, <2>c DEF BackupTyped, CallState, Backup!Triggers
  <2>l. LockIsHeld'
    BY <1>1, <2>c DEF BackupTyped, LockIsHeld, Executes, BackupSteps, BackupOps, Backup!Triggers
  <2>f. FewKept'
    BY <1>1, <2>c DEF BackupTyped, FewKept, Over
  <2>s. Spaced'
    BY <1>1, <2>c DEF BackupTyped, CallState, Spaced, Away, LockIsHeld, Executes, BackupSteps,
       BackupOps, Backup!Triggers
  <2>w. Current'
    BY <1>1, <2>c DEF BackupTyped, CallState, Current, LockIsHeld, BackupSteps, BackupOps,
       Backup!Triggers
  <2> QED
    BY <2>t, <2>l, <2>f, <2>s, <2>w, SMTT(30)
<1>2. CASE Backup!Begins("restore", "extracting", credentials)
  <2>c. PICK c \in Callers :
          /\ calls[c].op = "none" /\ calls[c].step = "none"
          /\ calls' \in [Callers -> CallState]
          /\ calls'[c].op = "restore" /\ calls'[c].step = "extracting"
          /\ calls'[c].keeps = credentials
          /\ \A d \in Callers \ {c} : calls'[d] = calls[d]
    BY <1>2, BackupBegins DEF BackupTyped, BackupOps, BackupSteps, Backup!Triggers
  <2>t. BackupTyped'
    BY <1>2, <2>c DEF BackupTyped, CallState, Backup!Triggers
  <2>l. LockIsHeld'
    BY <1>2, <2>c DEF BackupTyped, LockIsHeld, Executes, BackupSteps, BackupOps, Backup!Triggers
  <2>f. FewKept'
    BY <1>2, <2>c DEF BackupTyped, FewKept, Over
  <2>s. Spaced'
    BY <1>2, <2>c DEF BackupTyped, CallState, Spaced, Away, LockIsHeld, Executes, BackupSteps,
       BackupOps, Backup!Triggers
  <2>w. Current'
    BY <1>2, <2>c DEF BackupTyped, CallState, Current, LockIsHeld, BackupSteps, BackupOps,
       Backup!Triggers
  <2> QED
    BY <2>t, <2>l, <2>f, <2>s, <2>w
<1> QED
  BY <1>1, <1>2

\* LocksExecution preserves the invariant.
LEMMA BackupLocksExecution ==
  ASSUME BackupInv, NEW c \in Callers, Backup!LocksExecution(c)
  PROVE  BackupInv'
<1> USE BackupsAssumption, PartsAssumption
    DEF BackupInv, Backup!LocksExecution, Backup!automatic, Backup!archives, Backup!kept, Backup!webdav,
        Backup!ShouldRunNow
<1>1. CASE Backup!ShouldRunNow
  <2>c. /\ calls' \in [Callers -> CallState]
        /\ calls'[c].op = calls[c].op /\ calls'[c].step = "creating" /\ calls'[c].at = calls[c].at
        /\ calls'[c].keeps = calls[c].keeps /\ calls'[c].with = calls[c].with
        /\ \A d \in Callers \ {c} : calls'[d] = calls[d]
    BY <1>1, BackupGoes DEF BackupTyped, BackupSteps
  <2>t. BackupTyped'
    BY <1>1, <2>c DEF BackupTyped, CallState, Backup!Triggers
  <2>l. LockIsHeld'
    BY <1>1, <2>c DEF BackupTyped, LockIsHeld, Executes, BackupSteps, BackupOps, Backup!Triggers
  <2>f. FewKept'
    BY <1>1, <2>c DEF BackupTyped, FewKept, Over
  <2>s. Spaced'
    BY <1>1, <2>c DEF BackupTyped, CallState, Spaced, Away, LockIsHeld, Executes, BackupSteps,
       BackupOps, Backup!Triggers
  <2>w. Current'
    BY <1>1, <2>c DEF BackupTyped, CallState, Current, LockIsHeld, BackupSteps, BackupOps,
       Backup!Triggers
  <2> QED
    BY <2>t, <2>l, <2>f, <2>s, <2>w
<1>2. CASE ~Backup!ShouldRunNow
  <2>c. /\ calls' \in [Callers -> CallState]
        /\ calls'[c].op = "none" /\ calls'[c].step = "none"
        /\ \A d \in Callers \ {c} : calls'[d] = calls[d]
    BY <1>2, BackupEnds DEF BackupTyped
  <2>t. BackupTyped'
    BY <1>2, <2>c DEF BackupTyped, CallState, Backup!Triggers
  <2>l. LockIsHeld'
    BY <1>2, <2>c DEF BackupTyped, LockIsHeld, Executes, BackupSteps, BackupOps, Backup!Triggers
  <2>f. FewKept'
    BY <1>2, <2>c DEF BackupTyped, FewKept, Over
  <2>s. Spaced'
    BY <1>2, <2>c DEF BackupTyped, CallState, Spaced, Away, LockIsHeld, Executes, BackupSteps,
       BackupOps, Backup!Triggers
  <2>w. Current'
    BY <1>2, <2>c DEF BackupTyped, CallState, Current, LockIsHeld, BackupSteps, BackupOps,
       Backup!Triggers
  <2> QED
    BY <2>t, <2>l, <2>f, <2>s, <2>w
<1> QED
  BY <1>1, <1>2

\* CreateBackup preserves the invariant.
LEMMA BackupCreateBackup ==
  ASSUME BackupInv, NEW c \in Callers, Backup!CreateBackup(c)
  PROVE  BackupInv'
<1> USE BackupsAssumption, PartsAssumption
    DEF BackupInv, Backup!CreateBackup, Backup!automatic, Backup!archives, Backup!kept, Backup!webdav
<1>c. /\ calls' \in [Callers -> CallState]
      /\ calls'[c].op = calls[c].op /\ calls'[c].step = "writing" /\ calls'[c].at = clock
      /\ calls'[c].keeps = calls[c].keeps /\ calls'[c].with = calls[c].with
      /\ \A d \in Callers \ {c} : calls'[d] = calls[d]
  BY ZenonT(45) DEF BackupTyped, CallState, BackupSteps
<1>t. BackupTyped'
  BY <1>c DEF BackupTyped, CallState, Backup!Triggers
<1>l. LockIsHeld'
  BY <1>c DEF BackupTyped, LockIsHeld, Executes, BackupSteps, BackupOps, Backup!Triggers
<1>f. FewKept'
  BY <1>c DEF BackupTyped, FewKept, Over
<1>s. Spaced'
  BY <1>c DEF BackupTyped, CallState, Spaced, Away, LockIsHeld, Executes, BackupSteps,
     BackupOps, Backup!Triggers
<1>w. Current'
  BY <1>c DEF BackupTyped, CallState, Current, LockIsHeld, BackupSteps, BackupOps, Backup!Triggers
<1> QED
  BY <1>t, <1>l, <1>f, <1>s, <1>w

\* CredentialsSaved preserves the invariant.
LEMMA BackupCredentialsSaved ==
  ASSUME BackupInv, NEW c \in Callers, Backup!CredentialsSaved(c)
  PROVE  BackupInv'
<1> USE BackupsAssumption, PartsAssumption
    DEF BackupInv, Backup!CredentialsSaved, Backup!automatic, Backup!archives, Backup!kept, Backup!webdav,
        Backup!At
<1>1. CASE Backup!Goes(c, "resetting") /\ UNCHANGED reset_overtaken
  <2>c. /\ calls' \in [Callers -> CallState]
        /\ calls'[c].op = calls[c].op /\ calls'[c].step = "resetting" /\ calls'[c].at = calls[c].at
        /\ calls'[c].keeps = calls[c].keeps /\ calls'[c].with = calls[c].with
        /\ \A d \in Callers \ {c} : calls'[d] = calls[d]
    BY <1>1, BackupGoes DEF BackupTyped, BackupSteps
  <2>t. BackupTyped'
    BY <1>1, <2>c DEF BackupTyped, CallState, Backup!Triggers
  <2>l. LockIsHeld'
    BY <1>1, <2>c DEF BackupTyped, LockIsHeld, Executes, BackupSteps, BackupOps, Backup!Triggers
  <2>f. FewKept'
    BY <1>1, <2>c DEF BackupTyped, FewKept, Over
  <2>s. Spaced'
    BY <1>1, <2>c DEF BackupTyped, CallState, Spaced, Away, LockIsHeld, Executes, BackupSteps,
       BackupOps, Backup!Triggers
  <2>w. Current'
    BY <1>1, <2>c DEF BackupTyped, CallState, Current, LockIsHeld, BackupSteps, BackupOps,
       Backup!Triggers
  <2> QED
    BY <2>t, <2>l, <2>f, <2>s, <2>w
<1>2. CASE Backup!Ends(c) /\ reset_overtaken'
  <2>c. /\ calls' \in [Callers -> CallState]
        /\ calls'[c].op = "none" /\ calls'[c].step = "none"
        /\ \A d \in Callers \ {c} : calls'[d] = calls[d]
    BY <1>2, BackupEnds DEF BackupTyped
  <2>t. BackupTyped'
    BY <1>2, <2>c DEF BackupTyped, CallState, Backup!Triggers
  <2>l. LockIsHeld'
    BY <1>2, <2>c DEF BackupTyped, LockIsHeld, Executes, BackupSteps, BackupOps, Backup!Triggers
  <2>f. FewKept'
    BY <1>2, <2>c DEF BackupTyped, FewKept, Over
  <2>s. Spaced'
    BY <1>2, <2>c DEF BackupTyped, CallState, Spaced, Away, LockIsHeld, Executes, BackupSteps,
       BackupOps, Backup!Triggers
  <2>w. Current'
    BY <1>2, <2>c DEF BackupTyped, CallState, Current, LockIsHeld, BackupSteps, BackupOps,
       Backup!Triggers
  <2> QED
    BY <2>t, <2>l, <2>f, <2>s, <2>w
<1> QED
  BY <1>1, <1>2

\* Downloaded preserves the invariant.
LEMMA BackupDownloaded ==
  ASSUME BackupInv, NEW c \in Callers, Backup!Downloaded(c)
  PROVE  BackupInv'
<1> USE BackupsAssumption, PartsAssumption
    DEF BackupInv, Backup!Downloaded, Backup!automatic, Backup!archives, Backup!kept, Backup!webdav,
        Backup!At
<1>1. CASE Backup!Goes(c, "extracting")
  <2>c. /\ calls' \in [Callers -> CallState]
        /\ calls'[c].op = calls[c].op /\ calls'[c].step = "extracting" /\ calls'[c].at = calls[c].at
        /\ calls'[c].keeps = calls[c].keeps /\ calls'[c].with = calls[c].with
        /\ \A d \in Callers \ {c} : calls'[d] = calls[d]
    BY <1>1, BackupGoes DEF BackupTyped, BackupSteps
  <2>t. BackupTyped'
    BY <1>1, <2>c DEF BackupTyped, CallState, Backup!Triggers
  <2>l. LockIsHeld'
    BY <1>1, <2>c DEF BackupTyped, LockIsHeld, Executes, BackupSteps, BackupOps, Backup!Triggers
  <2>f. FewKept'
    BY <1>1, <2>c DEF BackupTyped, FewKept, Over
  <2>s. Spaced'
    BY <1>1, <2>c DEF BackupTyped, CallState, Spaced, Away, LockIsHeld, Executes, BackupSteps,
       BackupOps, Backup!Triggers
  <2>w. Current'
    BY <1>1, <2>c DEF BackupTyped, CallState, Current, LockIsHeld, BackupSteps, BackupOps,
       Backup!Triggers
  <2> QED
    BY <2>t, <2>l, <2>f, <2>s, <2>w
<1>2. CASE Backup!Ends(c)
  <2>c. /\ calls' \in [Callers -> CallState]
        /\ calls'[c].op = "none" /\ calls'[c].step = "none"
        /\ \A d \in Callers \ {c} : calls'[d] = calls[d]
    BY <1>2, BackupEnds DEF BackupTyped
  <2>t. BackupTyped'
    BY <1>2, <2>c DEF BackupTyped, CallState, Backup!Triggers
  <2>l. LockIsHeld'
    BY <1>2, <2>c DEF BackupTyped, LockIsHeld, Executes, BackupSteps, BackupOps, Backup!Triggers
  <2>f. FewKept'
    BY <1>2, <2>c DEF BackupTyped, FewKept, Over
  <2>s. Spaced'
    BY <1>2, <2>c DEF BackupTyped, CallState, Spaced, Away, LockIsHeld, Executes, BackupSteps,
       BackupOps, Backup!Triggers
  <2>w. Current'
    BY <1>2, <2>c DEF BackupTyped, CallState, Current, LockIsHeld, BackupSteps, BackupOps,
       Backup!Triggers
  <2> QED
    BY <2>t, <2>l, <2>f, <2>s, <2>w
<1> QED
  BY <1>1, <1>2

\* Extracted preserves the invariant.
LEMMA BackupExtracted ==
  ASSUME BackupInv, NEW c \in Callers, Backup!Extracted(c)
  PROVE  BackupInv'
<1> USE BackupsAssumption, PartsAssumption
    DEF BackupInv, Backup!Extracted, Backup!automatic, Backup!archives, Backup!kept, Backup!webdav,
        Backup!At
<1>1. CASE Backup!Goes(c, "finalizing")
  <2>c. /\ calls' \in [Callers -> CallState]
        /\ calls'[c].op = calls[c].op /\ calls'[c].step = "finalizing" /\ calls'[c].at = calls[c].at
        /\ calls'[c].keeps = calls[c].keeps /\ calls'[c].with = calls[c].with
        /\ \A d \in Callers \ {c} : calls'[d] = calls[d]
    BY <1>1, BackupGoes DEF BackupTyped, BackupSteps
  <2>t. BackupTyped'
    BY <1>1, <2>c DEF BackupTyped, CallState, Backup!Triggers
  <2>l. LockIsHeld'
    BY <1>1, <2>c DEF BackupTyped, LockIsHeld, Executes, BackupSteps, BackupOps, Backup!Triggers
  <2>f. FewKept'
    BY <1>1, <2>c DEF BackupTyped, FewKept, Over
  <2>s. Spaced'
    BY <1>1, <2>c DEF BackupTyped, CallState, Spaced, Away, LockIsHeld, Executes, BackupSteps,
       BackupOps, Backup!Triggers
  <2>w. Current'
    BY <1>1, <2>c DEF BackupTyped, CallState, Current, LockIsHeld, BackupSteps, BackupOps,
       Backup!Triggers
  <2> QED
    BY <2>t, <2>l, <2>f, <2>s, <2>w
<1>2. CASE Backup!Ends(c)
  <2>c. /\ calls' \in [Callers -> CallState]
        /\ calls'[c].op = "none" /\ calls'[c].step = "none"
        /\ \A d \in Callers \ {c} : calls'[d] = calls[d]
    BY <1>2, BackupEnds DEF BackupTyped
  <2>t. BackupTyped'
    BY <1>2, <2>c DEF BackupTyped, CallState, Backup!Triggers
  <2>l. LockIsHeld'
    BY <1>2, <2>c DEF BackupTyped, LockIsHeld, Executes, BackupSteps, BackupOps, Backup!Triggers
  <2>f. FewKept'
    BY <1>2, <2>c DEF BackupTyped, FewKept, Over
  <2>s. Spaced'
    BY <1>2, <2>c DEF BackupTyped, CallState, Spaced, Away, LockIsHeld, Executes, BackupSteps,
       BackupOps, Backup!Triggers
  <2>w. Current'
    BY <1>2, <2>c DEF BackupTyped, CallState, Current, LockIsHeld, BackupSteps, BackupOps,
       Backup!Triggers
  <2> QED
    BY <2>t, <2>l, <2>f, <2>s, <2>w
<1> QED
  BY <1>1, <1>2

\* DeleteLocal preserves the invariant.
LEMMA BackupDeleteLocal ==
  ASSUME BackupInv, NEW b \in backups, Backup!DeleteLocal(b)
  PROVE  BackupInv'
<1> USE BackupsAssumption, PartsAssumption
    DEF BackupInv, Backup!DeleteLocal, Backup!automatic, Backup!archives, Backup!kept, Backup!webdav
<1>1. /\ backups' \in SUBSET Archives /\ Autos(backups') \subseteq Autos(backups)
      /\ Counted(backups', leftover') \subseteq Counted(backups, leftover)
  BY DEF BackupTyped, Autos, Counted
<1>2. IsFiniteSet(Autos(backups'))
  BY <1>1, FS_Subset DEF BackupTyped
<1>t. BackupTyped'
  BY <1>1, <1>2 DEF BackupTyped, Autos
<1>l. LockIsHeld'
  BY DEF LockIsHeld, Executes
<1>f. FewKept'
  <2>1. Over' <=> Over
    BY DEF Over
  <2> QED
    BY <1>1, <1>2, <2>1, FewKeptStays
<1>s. Spaced'
  BY DEF Spaced, Away, Executes
<1>w. Current'
  BY DEF Current
<1> QED
  BY <1>t, <1>l, <1>f, <1>s, <1>w

\* MoveFile preserves the invariant.
LEMMA BackupMoveFile ==
  ASSUME BackupInv, NEW c \in Callers, Backup!MoveFile(c)
  PROVE  BackupInv'
<1> USE BackupsAssumption, PartsAssumption
    DEF BackupInv, Backup!MoveFile, Backup!automatic, Backup!archives, Backup!kept, Backup!webdav
<1>a. Backup!Archive(c) \in Archives /\ Backup!Archive(c).by = calls[c].op
  BY DEF BackupTyped, CallState, Archives, Backup!Archive
<1>b. /\ backups' \in SUBSET Archives /\ Autos(backups') \subseteq Autos(backups) \cup {Backup!Archive(c)}
      /\ Counted(backups', leftover') \subseteq Counted(backups, leftover) \cup {Backup!Archive(c)}
  BY <1>a DEF BackupTyped, Autos, Counted
<1>d. IsFiniteSet(Autos(backups'))
  BY <1>b, AutosFinite
<1>1. CASE calls[c].op \in Backup!Triggers
  <2>c. /\ calls' \in [Callers -> CallState]
        /\ calls'[c].op = calls[c].op /\ calls'[c].step = "reporting" /\ calls'[c].at = calls[c].at
        /\ calls'[c].keeps = calls[c].keeps /\ calls'[c].with = calls[c].with
        /\ \A d \in Callers \ {c} : calls'[d] = calls[d]
    BY <1>1, BackupGoes DEF BackupTyped, BackupSteps
  <2>b. Cardinality(Counted(backups', leftover')) <= Cardinality(Counted(backups, leftover)) + 1
        /\ Cardinality(Counted(backups', leftover')) \in Nat /\ Cardinality(Counted(backups, leftover)) \in Nat
    <3>1. IsFiniteSet(Counted(backups, leftover))
      BY FS_Subset DEF BackupTyped, Counted
    <3> DEFINE more == Counted(backups, leftover) \cup {Backup!Archive(c)}
    <3>2. IsFiniteSet(more) /\ Cardinality(more) \in {Cardinality(Counted(backups, leftover)),
                                                      Cardinality(Counted(backups, leftover)) + 1}
      BY <3>1, FS_AddElement
    <3>3. Cardinality(Counted(backups, leftover)) \in Nat
      BY <3>1, FS_CardinalityType
    <3> HIDE DEF more
    <3>4. Counted(backups', leftover') \subseteq more
      BY <1>b DEF more
    <3>5. /\ Cardinality(Counted(backups', leftover')) \in Nat /\ Cardinality(more) \in Nat
          /\ Cardinality(Counted(backups', leftover')) <= Cardinality(more)
      BY <3>2, <3>4, FS_Subset, FS_CardinalityType
    <3> HIDE DEF BackupInv, Backup!MoveFile
    <3> QED
      BY <3>2, <3>3, <3>5
  <2>t. BackupTyped'
    BY <1>1, <1>b, <1>d, <2>c DEF BackupTyped, CallState, Autos
  <2>l. LockIsHeld'
    BY <1>1, <2>c DEF BackupTyped, LockIsHeld, Executes, BackupSteps, BackupOps, Backup!Triggers
  <2>s. Spaced'
    BY <1>1, <2>c DEF BackupTyped, CallState, Spaced, Away, LockIsHeld, Executes, BackupSteps,
       BackupOps, Backup!Triggers
  <2>w. Current'
    BY <1>1, <2>c DEF BackupTyped, CallState, Current, LockIsHeld, BackupSteps, BackupOps,
       Backup!Triggers
  <2>f. FewKept'
    <3>1. ~Over /\ Over'
      BY <1>1, <2>c DEF Over, LockIsHeld, Executes
    <3>2. Counted(backups, leftover)' = Counted(backups', leftover')
      BY DEF Counted, Autos
    <3>3. Keep # 0 => Cardinality(Counted(backups, leftover)) <= Keep
      BY <3>1 DEF FewKept
    <3> HIDE DEF BackupInv, Backup!MoveFile
    <3>4. Keep # 0 => Cardinality(Counted(backups', leftover')) <= Keep + 1
      BY <2>b, <3>3
    <3> QED
      BY <3>1, <3>2, <3>4 DEF FewKept
  <2> QED
    BY <2>t, <2>l, <2>f, <2>s, <2>w
<1>2. CASE calls[c].op \notin Backup!Triggers
  <2>c. /\ calls' \in [Callers -> CallState]
        /\ calls'[c].op = "none" /\ calls'[c].step = "none"
        /\ \A d \in Callers \ {c} : calls'[d] = calls[d]
    BY <1>2, BackupEnds DEF BackupTyped
  <2>b. Counted(backups', leftover') \subseteq Counted(backups, leftover)
    BY <1>2, <1>a, <1>b DEF Counted, Autos
  <2>t. BackupTyped'
    BY <1>2, <1>b, <1>d, <2>c DEF BackupTyped, CallState, Autos
  <2>l. LockIsHeld'
    BY <1>2, <2>c DEF BackupTyped, LockIsHeld, Executes, BackupSteps, BackupOps, Backup!Triggers
  <2>s. Spaced'
    BY <1>2, <2>c DEF BackupTyped, CallState, Spaced, Away, LockIsHeld, Executes, BackupSteps,
       BackupOps, Backup!Triggers
  <2>w. Current'
    BY <1>2, <2>c DEF BackupTyped, CallState, Current, LockIsHeld, BackupSteps, BackupOps,
       Backup!Triggers
  <2>f. FewKept'
    <3>1. Over' <=> Over
      BY <2>c DEF Over
    <3> QED
      BY <1>b, <1>d, <2>b, <3>1, CountedLess DEF FewKept, Counted, Autos
  <2> QED
    BY <2>t, <2>l, <2>f, <2>s, <2>w
<1> QED
  BY <1>1, <1>2

\* MoveFails preserves the invariant.
LEMMA BackupMoveFails ==
  ASSUME BackupInv, NEW c \in Callers, Backup!MoveFails(c)
  PROVE  BackupInv'
<1> USE BackupsAssumption, PartsAssumption
    DEF BackupInv, Backup!MoveFails, Backup!automatic, Backup!archives, Backup!kept, Backup!webdav,
        Backup!FreesLock
<1>c. /\ calls' \in [Callers -> CallState]
      /\ calls'[c].op = "none" /\ calls'[c].step = "none"
      /\ \A d \in Callers \ {c} : calls'[d] = calls[d]
  BY BackupEnds DEF BackupTyped
<1>a. Backup!Archive(c) \in Archives
  BY DEF BackupTyped, CallState, Archives, Backup!Archive
<1>b. /\ backups' \in SUBSET Archives /\ Autos(backups') \subseteq Autos(backups) \cup {Backup!Archive(c)}
      /\ Counted(backups', leftover') \subseteq Counted(backups, leftover)
  BY <1>a DEF BackupTyped, Autos, Counted
<1>d. IsFiniteSet(Autos(backups'))
  BY <1>b, AutosFinite
<1>t. BackupTyped'
  BY <1>b, <1>c, <1>d DEF BackupTyped, CallState, Autos
<1>l. LockIsHeld'
  BY <1>c DEF BackupTyped, LockIsHeld, Executes, BackupSteps, BackupOps, Backup!Triggers
<1>s. Spaced'
  BY <1>c DEF BackupTyped, CallState, Spaced, Away, LockIsHeld, Executes, BackupSteps,
     BackupOps, Backup!Triggers
<1>w. Current'
  BY <1>c DEF BackupTyped, CallState, Current, LockIsHeld, BackupSteps, BackupOps,
     Backup!Triggers
<1>f. FewKept'
  <2>1. Over' <=> Over
    BY <1>c DEF Over
  <2> QED
    BY <1>b, <1>d, <2>1, FewKeptStays
<1> QED
  BY <1>t, <1>l, <1>f, <1>s, <1>w

\* CleanUp preserves the invariant.
LEMMA BackupCleanUp ==
  ASSUME BackupInv, NEW c \in Callers, Backup!CleanUp(c)
  PROVE  BackupInv'
<1> USE BackupsAssumption, PartsAssumption
    DEF BackupInv, Backup!CleanUp, Backup!automatic, Backup!archives, Backup!kept, Backup!webdav,
        Backup!FreesLock
<1>c. /\ calls' \in [Callers -> CallState]
      /\ calls'[c].op = "none" /\ calls'[c].step = "none"
      /\ \A d \in Callers \ {c} : calls'[d] = calls[d]
  BY BackupEnds DEF BackupTyped
<1>b. /\ backups' \in SUBSET Archives /\ Autos(backups') \subseteq Autos(backups)
      /\ Keep # 0 => Cardinality(Counted(backups', leftover')) <= Keep
  <2>a. Backup!Autos = Autos(backups)
    BY DEF Backup!Autos, Autos
  <2>n. \A s : Backup!Cardinality(s) = Cardinality(s)
    BY DEF Backup!Cardinality, Cardinality
  <2>1. CASE UNCHANGED backups /\ leftover' = {} /\ (Keep = 0 \/ Cardinality(Autos(backups)) <= Keep)
    <3>1. Counted(backups', leftover') = Autos(backups)
      BY <2>1 DEF Counted, Autos
    <3> QED
      BY <2>1, <3>1 DEF BackupTyped, Autos
  <2>2. ASSUME NEW old \in SUBSET Autos(backups), NEW lasting \in SUBSET old,
               Cardinality(Autos(backups) \ old) = Keep,
               backups' = backups \ (old \ lasting), leftover' = lasting
        PROVE  /\ backups' \in SUBSET Archives /\ Autos(backups') \subseteq Autos(backups)
               /\ Cardinality(Counted(backups', leftover')) = Keep
    <3>1. Counted(backups', leftover') = Autos(backups) \ old
      BY <2>2 DEF Counted, Autos
    <3> QED
      BY <2>2, <3>1 DEF BackupTyped, Autos
  <2>3. CASE Keep = 0 \/ Cardinality(Autos(backups)) <= Keep
    <3>1. Keep = 0 \/ Backup!Cardinality(Backup!Autos) <= Keep
      BY <2>3, <2>a, <2>n
    <3> QED
      BY <2>1, <2>3, <3>1
  <2>4. CASE ~(Keep = 0 \/ Cardinality(Autos(backups)) <= Keep)
    <3>1. ~(Keep = 0 \/ Backup!Cardinality(Backup!Autos) <= Keep)
      BY <2>4, <2>a, <2>n
    <3>2. PICK old \in Backup!Surpluses : \E lasting \in SUBSET old :
            backups' = backups \ (old \ lasting) /\ leftover' = lasting
      BY <3>1
    <3>3. PICK lasting \in SUBSET old : backups' = backups \ (old \ lasting) /\ leftover' = lasting
      BY <3>2
    <3>4. old \in SUBSET Autos(backups) /\ Cardinality(Autos(backups) \ old) = Keep
      BY <2>a, <2>n DEF Backup!Surpluses
    <3>5. /\ backups' \in SUBSET Archives /\ Autos(backups') \subseteq Autos(backups)
          /\ Cardinality(Counted(backups', leftover')) = Keep
      BY <2>2, <3>3, <3>4
    <3>6. Keep <= Keep
      BY BackupsAssumption DEF BackupsAssumption
    <3> QED
      BY <3>5, <3>6
  <2> QED
    BY <2>3, <2>4
<1>d. IsFiniteSet(Autos(backups'))
  BY <1>b, FS_Subset DEF BackupTyped
<1>t. BackupTyped'
  BY <1>b, <1>c, <1>d DEF BackupTyped, CallState, Autos
<1>l. LockIsHeld'
  BY <1>c DEF BackupTyped, LockIsHeld, Executes, BackupSteps, BackupOps, Backup!Triggers
<1>s. Spaced'
  BY <1>c DEF BackupTyped, CallState, Spaced, Away, LockIsHeld, Executes, BackupSteps,
     BackupOps, Backup!Triggers
<1>w. Current'
  BY <1>c DEF BackupTyped, CallState, Current, LockIsHeld, BackupSteps, BackupOps,
     Backup!Triggers
<1>f. FewKept'
  <2>1. IsFiniteSet(Counted(backups', leftover'))
    BY <1>d, FS_Subset DEF Counted
  <2>2. Cardinality(Counted(backups', leftover')) \in Nat
    BY <2>1, FS_CardinalityType
  <2> QED
    BY <1>b, <2>2 DEF FewKept, Counted, Autos
<1> QED
  BY <1>t, <1>l, <1>f, <1>s, <1>w

\* GetClient preserves the invariant.
LEMMA BackupGetClient ==
  ASSUME BackupInv, NEW c \in Callers, Backup!GetClient(c)
  PROVE  BackupInv'
<1> USE BackupsAssumption, PartsAssumption
    DEF BackupInv, Backup!GetClient, Backup!automatic, Backup!archives, Backup!kept, Backup!webdav,
        Backup!At
<1>1. CASE clients[Backup!OperationOf(c)] # None
  <2>c. /\ calls' \in [Callers -> CallState]
        /\ calls'[c].op = calls[c].op /\ calls'[c].step = "transferring" /\ calls'[c].at = calls[c].at
        /\ calls'[c].keeps = calls[c].keeps /\ calls'[c].with = calls[c].with
        /\ \A d \in Callers \ {c} : calls'[d] = calls[d]
    BY <1>1, BackupGoes DEF BackupTyped, BackupSteps
  <2>t. BackupTyped'
    BY <1>1, <2>c DEF BackupTyped, CallState, Backup!Triggers
  <2>l. LockIsHeld'
    BY <1>1, <2>c DEF BackupTyped, LockIsHeld, Executes, BackupSteps, BackupOps, Backup!Triggers
  <2>f. FewKept'
    BY <1>1, <2>c DEF BackupTyped, FewKept, Over
  <2>s. Spaced'
    BY <1>1, <2>c DEF BackupTyped, CallState, Spaced, Away, LockIsHeld, Executes, BackupSteps,
       BackupOps, Backup!Triggers
  <2>w. Current'
    BY <1>1, <2>c DEF BackupTyped, CallState, Current, LockIsHeld, BackupSteps, BackupOps,
       Backup!Triggers
  <2> QED
    BY <2>t, <2>l, <2>f, <2>s, <2>w
<1>2. CASE clients[Backup!OperationOf(c)] = None
  <2>1. calls' = [calls EXCEPT ![c].step = IF config = None THEN "configuring" ELSE "making",
                               ![c].with = IF config = None THEN credentials ELSE config]
    BY <1>2
  <2>c. /\ calls' \in [Callers -> CallState]
        /\ calls'[c].op = calls[c].op /\ calls'[c].step = (IF config = None THEN "configuring" ELSE "making") /\ calls'[c].at = calls[c].at
        /\ calls'[c].keeps = calls[c].keeps /\ calls'[c].with = (IF config = None THEN credentials ELSE config)
        /\ \A d \in Callers \ {c} : calls'[d] = calls[d]
    BY <2>1, ZenonT(45) DEF BackupTyped, CallState, BackupSteps
  <2>t. BackupTyped'
    BY <1>2, <2>c DEF BackupTyped, CallState, Backup!Triggers
  <2>l. LockIsHeld'
    BY <1>2, <2>c DEF BackupTyped, LockIsHeld, Executes, BackupSteps, BackupOps, Backup!Triggers
  <2>f. FewKept'
    BY <1>2, <2>c DEF BackupTyped, FewKept, Over
  <2>s. Spaced'
    BY <1>2, <2>c DEF BackupTyped, CallState, Spaced, Away, LockIsHeld, Executes, BackupSteps,
       BackupOps, Backup!Triggers
  <2>w. Current'
    BY <1>2, <2>c DEF BackupTyped, CallState, Current, LockIsHeld, BackupSteps, BackupOps,
       Backup!Triggers
  <2> QED
    BY <2>t, <2>l, <2>f, <2>s, <2>w
<1> QED
  BY <1>1, <1>2

\* StoreConfig preserves the invariant.
LEMMA BackupStoreConfig ==
  ASSUME BackupInv, NEW c \in Callers, Backup!StoreConfig(c)
  PROVE  BackupInv'
<1> USE BackupsAssumption, PartsAssumption
    DEF BackupInv, Backup!StoreConfig, Backup!automatic, Backup!archives, Backup!kept, Backup!webdav
<1>c. /\ calls' \in [Callers -> CallState]
      /\ calls'[c].op = calls[c].op /\ calls'[c].step = "making" /\ calls'[c].at = calls[c].at
      /\ calls'[c].keeps = calls[c].keeps /\ calls'[c].with = calls[c].with
      /\ \A d \in Callers \ {c} : calls'[d] = calls[d]
  BY BackupGoes DEF BackupTyped, BackupSteps
<1>t. BackupTyped'
  BY <1>c DEF BackupTyped, CallState, Backup!Triggers
<1>l. LockIsHeld'
  BY <1>c DEF BackupTyped, LockIsHeld, Executes, BackupSteps, BackupOps, Backup!Triggers
<1>f. FewKept'
  BY <1>c DEF BackupTyped, FewKept, Over
<1>s. Spaced'
  BY <1>c DEF BackupTyped, CallState, Spaced, Away, LockIsHeld, Executes, BackupSteps,
     BackupOps, Backup!Triggers
<1>w. Current'
  BY <1>c DEF BackupTyped, CallState, Current, LockIsHeld, BackupSteps, BackupOps,
     Backup!Triggers
<1> QED
  BY <1>t, <1>l, <1>f, <1>s, <1>w

\* MakeClient preserves the invariant.
LEMMA BackupMakeClient ==
  ASSUME BackupInv, NEW c \in Callers, Backup!MakeClient(c)
  PROVE  BackupInv'
<1> USE BackupsAssumption, PartsAssumption
    DEF BackupInv, Backup!MakeClient, Backup!automatic, Backup!archives, Backup!kept, Backup!webdav
<1>c. /\ calls' \in [Callers -> CallState]
      /\ calls'[c].op = calls[c].op /\ calls'[c].step = "transferring" /\ calls'[c].at = calls[c].at
      /\ calls'[c].keeps = calls[c].keeps /\ calls'[c].with = None
      /\ \A d \in Callers \ {c} : calls'[d] = calls[d]
  BY DEF BackupTyped, CallState, BackupSteps
<1>o. Backup!OperationOf(c) \in Backup!Operations
  BY DEF Backup!OperationOf, Backup!Operations
<1>t. BackupTyped'
  BY <1>c, <1>o DEF BackupTyped, CallState
<1>l. LockIsHeld'
  BY <1>c DEF BackupTyped, LockIsHeld, Executes, BackupSteps, BackupOps, Backup!Triggers
<1>f. FewKept'
  BY <1>c DEF BackupTyped, FewKept, Over
<1>s. Spaced'
  BY <1>c DEF BackupTyped, CallState, Spaced, Away, LockIsHeld, Executes, BackupSteps,
     BackupOps, Backup!Triggers
<1>w. Current'
  BY <1>c, <1>o DEF BackupTyped, CallState, Current, LockIsHeld, BackupSteps, BackupOps
<1> QED
  BY <1>t, <1>l, <1>f, <1>s, <1>w

\* MakeFails preserves the invariant.
LEMMA BackupMakeFails ==
  ASSUME BackupInv, NEW c \in Callers, Backup!MakeFails(c)
  PROVE  BackupInv'
<1> USE BackupsAssumption, PartsAssumption
    DEF BackupInv, Backup!MakeFails, Backup!automatic, Backup!archives, Backup!kept, Backup!webdav
<1>c. /\ calls' \in [Callers -> CallState]
      /\ calls'[c].op = "none" /\ calls'[c].step = "none"
      /\ \A d \in Callers \ {c} : calls'[d] = calls[d]
  BY BackupEnds DEF BackupTyped
<1>k. /\ config' \in Credentials \cup {None} /\ reset_overtaken' \in BOOLEAN
      /\ clients' \in [Backup!Operations -> Credentials \cup {None}]
  BY DEF BackupTyped, Backup!Reset, Backup!Overtaken
<1>t. BackupTyped'
  BY <1>c, <1>k DEF BackupTyped, CallState
<1>l. LockIsHeld'
  BY <1>c DEF BackupTyped, LockIsHeld, Executes, BackupSteps, BackupOps, Backup!Triggers
<1>f. FewKept'
  BY <1>c DEF BackupTyped, FewKept, Over
<1>s. Spaced'
  BY <1>c DEF BackupTyped, CallState, Spaced, Away, LockIsHeld, Executes, BackupSteps,
     BackupOps, Backup!Triggers
<1>w. Current'
  <2>1. CASE Backup!Reset(c)
    <3>1. config' = None /\ \A o \in Backup!Operations : clients'[o] = None
      BY <2>1 DEF Backup!Reset
    <3>2. ~reset_overtaken' => \A d \in Callers \ {c} :
            calls[d].step \in {"configuring", "making"} => calls[d].with = credentials
      BY <2>1 DEF Backup!Reset, Backup!Overtaken, Backup!Passes
    <3> QED
      BY <1>c, <3>1, <3>2 DEF Current
  <2>2. CASE UNCHANGED <<config, clients, reset_overtaken>>
    BY <1>c, <2>2 DEF BackupTyped, CallState, Current, LockIsHeld, BackupSteps, BackupOps,
       Backup!Triggers
  <2> QED
    BY <2>1, <2>2
<1> QED
  BY <1>t, <1>l, <1>f, <1>s, <1>w

\* UploadEnds preserves the invariant.
LEMMA BackupUploadEnds ==
  ASSUME BackupInv, NEW c \in Callers, Backup!UploadEnds(c)
  PROVE  BackupInv'
<1> USE BackupsAssumption, PartsAssumption
    DEF BackupInv, Backup!UploadEnds, Backup!automatic, Backup!archives, Backup!kept, Backup!webdav,
        Backup!At
<1>c. /\ calls' \in [Callers -> CallState]
      /\ calls'[c].op = "none" /\ calls'[c].step = "none"
      /\ \A d \in Callers \ {c} : calls'[d] = calls[d]
  BY BackupEnds DEF BackupTyped
<1>k. /\ config' \in Credentials \cup {None} /\ reset_overtaken' \in BOOLEAN
      /\ clients' \in [Backup!Operations -> Credentials \cup {None}]
  BY DEF BackupTyped, Backup!Reset, Backup!Overtaken
<1>t. BackupTyped'
  BY <1>c, <1>k DEF BackupTyped, CallState
<1>l. LockIsHeld'
  BY <1>c DEF BackupTyped, LockIsHeld, Executes, BackupSteps, BackupOps, Backup!Triggers
<1>f. FewKept'
  BY <1>c DEF BackupTyped, FewKept, Over
<1>s. Spaced'
  BY <1>c DEF BackupTyped, CallState, Spaced, Away, LockIsHeld, Executes, BackupSteps,
     BackupOps, Backup!Triggers
<1>w. Current'
  <2>1. CASE Backup!Reset(c)
    <3>1. config' = None /\ \A o \in Backup!Operations : clients'[o] = None
      BY <2>1 DEF Backup!Reset
    <3>2. ~reset_overtaken' => \A d \in Callers \ {c} :
            calls[d].step \in {"configuring", "making"} => calls[d].with = credentials
      BY <2>1 DEF Backup!Reset, Backup!Overtaken, Backup!Passes
    <3> QED
      BY <1>c, <3>1, <3>2 DEF Current
  <2>2. CASE UNCHANGED <<config, clients, reset_overtaken>>
    BY <1>c, <2>2 DEF BackupTyped, CallState, Current, LockIsHeld, BackupSteps, BackupOps,
       Backup!Triggers
  <2> QED
    BY <2>1, <2>2
<1> QED
  BY <1>t, <1>l, <1>f, <1>s, <1>w

\* CredentialsReset preserves the invariant.
LEMMA BackupCredentialsReset ==
  ASSUME BackupInv, NEW c \in Callers, Backup!CredentialsReset(c)
  PROVE  BackupInv'
<1> USE BackupsAssumption, PartsAssumption
    DEF BackupInv, Backup!CredentialsReset, Backup!automatic, Backup!archives, Backup!kept, Backup!webdav,
        Backup!At
<1>c. /\ calls' \in [Callers -> CallState]
      /\ calls'[c].op = "none" /\ calls'[c].step = "none"
      /\ \A d \in Callers \ {c} : calls'[d] = calls[d]
  BY BackupEnds DEF BackupTyped
<1>k. /\ config' \in Credentials \cup {None} /\ reset_overtaken' \in BOOLEAN
      /\ clients' \in [Backup!Operations -> Credentials \cup {None}]
  BY DEF BackupTyped, Backup!Reset, Backup!Overtaken
<1>t. BackupTyped'
  BY <1>c, <1>k DEF BackupTyped, CallState
<1>l. LockIsHeld'
  BY <1>c DEF BackupTyped, LockIsHeld, Executes, BackupSteps, BackupOps, Backup!Triggers
<1>f. FewKept'
  BY <1>c DEF BackupTyped, FewKept, Over
<1>s. Spaced'
  BY <1>c DEF BackupTyped, CallState, Spaced, Away, LockIsHeld, Executes, BackupSteps,
     BackupOps, Backup!Triggers
<1>w. Current'
  <2>1. CASE Backup!Reset(c)
    <3>1. config' = None /\ \A o \in Backup!Operations : clients'[o] = None
      BY <2>1 DEF Backup!Reset
    <3>2. ~reset_overtaken' => \A d \in Callers \ {c} :
            calls[d].step \in {"configuring", "making"} => calls[d].with = credentials
      BY <2>1 DEF Backup!Reset, Backup!Overtaken, Backup!Passes
    <3> QED
      BY <1>c, <3>1, <3>2 DEF Current
  <2> QED
    BY <2>1
<1> QED
  BY <1>t, <1>l, <1>f, <1>s, <1>w

\* Finalized preserves the invariant.
LEMMA BackupFinalized ==
  ASSUME BackupInv, NEW c \in Callers, Backup!Finalized(c)
  PROVE  BackupInv'
<1> USE BackupsAssumption, PartsAssumption
    DEF BackupInv, Backup!Finalized, Backup!automatic, Backup!archives, Backup!kept, Backup!webdav,
        Backup!At
<1>c. /\ calls' \in [Callers -> CallState]
      /\ calls'[c].op = "none" /\ calls'[c].step = "none"
      /\ \A d \in Callers \ {c} : calls'[d] = calls[d]
  BY BackupEnds DEF BackupTyped
<1>k. calls[c].keeps \in Credentials
  BY DEF BackupTyped
<1>t. BackupTyped'
  BY <1>c, <1>k DEF BackupTyped, CallState
<1>l. LockIsHeld'
  BY <1>c DEF BackupTyped, LockIsHeld, Executes, BackupSteps, BackupOps, Backup!Triggers
<1>f. FewKept'
  BY <1>c DEF BackupTyped, FewKept, Over
<1>s. Spaced'
  BY <1>c DEF BackupTyped, CallState, Spaced, Away, LockIsHeld, Executes, BackupSteps,
     BackupOps, Backup!Triggers
<1>w. Current'
  <2> SUFFICES ASSUME ~reset_overtaken', \A d \in Callers : calls'[d].op # "credentials"
               PROVE  Current'
    BY DEF Current
  <2>1. ~reset_overtaken /\ credentials' = credentials
    OBVIOUS
  <2>2. \A d \in Callers : calls[d].op # "credentials"
    BY <1>c
  <2> QED
    BY <1>c, <2>1, <2>2 DEF Current
<1> QED
  BY <1>t, <1>l, <1>f, <1>s, <1>w

\* The invariant holds at first.
LEMMA BackupInit == ASSUME Backup!Init PROVE BackupInv
<1> USE BackupsAssumption, PartsAssumption
    DEF Backup!Init
<1>1. \A c \in Callers : calls[c] = Backup!Idle
  OBVIOUS
<1>2. Backup!Idle \in CallState /\ Backup!Idle.op = "none" /\ Backup!Idle.step = "none"
  BY DEF Backup!Idle, CallState, BackupOps, BackupSteps
<1>3. Autos(backups) = {} /\ Counted(backups, leftover) = {}
  BY DEF Autos, Counted, Backup!Triggers
<1>4. BackupTyped
  <2>1. IsFiniteSet(Autos(backups))
    BY <1>3, FS_EmptySet
  <2>2. calls \in [Callers -> CallState]
    BY <1>1, <1>2
  <2>3. backups \in SUBSET Archives
    <3>1. [at |-> 0, by |-> "local"] \in Archives
      BY DEF Archives, BackupOps
    <3> QED
      BY <3>1
  <2>4. clients \in [Backup!Operations -> Credentials \cup {None}]
    OBVIOUS
  <2>5. clock \in Nat \ {0} /\ last_backup \in Nat /\ exec_lock \in Callers \cup {None}
    OBVIOUS
  <2>7. reported \in SUBSET [from : Nat, to : Nat] /\ reset_overtaken \in BOOLEAN
    OBVIOUS
  <2>8. credentials \in Credentials /\ config \in Credentials \cup {None}
    OBVIOUS
  <2>6. \A c \in Callers : calls[c].op # "restore"
    BY <1>1, <1>2
  <2> HIDE DEF Backup!Init
  <2> QED
    BY <2>1, <2>2, <2>3, <2>4, <2>5, <2>6, <2>7, <2>8 DEF BackupTyped
<1>5. LockIsHeld
  BY <1>1, <1>2 DEF LockIsHeld, Executes, Backup!Triggers
<1>6. FewKept
  <2>1. Cardinality(Counted(backups, leftover)) = 0
    BY <1>3, FS_EmptySet
  <2> QED
    BY <2>1 DEF FewKept
<1>7. Spaced
  BY <1>1, <1>2 DEF Spaced, Executes, Away
<1>8. Current
  BY <1>1, <1>2 DEF Current
<1> QED
  BY <1>4, <1>5, <1>6, <1>7, <1>8 DEF BackupInv

\* Every step of the backups preserves the invariant.
LEMMA BackupStep == ASSUME BackupInv, Backup!Next PROVE BackupInv'
<1>1. CASE Backup!Tick
  BY <1>1, BackupTick
<1>2. CASE Backup!BackUp
  BY <1>2, BackupBackUp
<1>3. CASE Backup!Restore
  BY <1>3, BackupRestore
<1>4. CASE \E t \in Backup!Triggers : Backup!Trigger(t)
  BY <1>4, BackupTrigger
<1>5. CASE \E b \in backups : Backup!DeleteLocal(b)
  BY <1>5, BackupDeleteLocal
<1>6. CASE \E k \in Credentials : Backup!SaveCredentials(k)
  BY <1>6, BackupSaveCredentials
<1>7. ASSUME NEW c \in Callers, Backup!CallStep(c) PROVE BackupInv'
  <2>1. CASE Backup!LocksExecution(c)
    BY <2>1, BackupLocksExecution
  <2>2. CASE Backup!CreateBackup(c)
    BY <2>2, BackupCreateBackup
  <2>3. CASE Backup!CreateFails(c)
    BY <2>3, BackupCreateFails
  <2>4. CASE Backup!MoveFile(c)
    BY <2>4, BackupMoveFile
  <2>5. CASE Backup!Reports(c)
    BY <2>5, BackupReports
  <2>16. CASE Backup!MoveFails(c)
    BY <2>16, BackupMoveFails
  <2>17. CASE Backup!StoreConfig(c)
    BY <2>17, BackupStoreConfig
  <2>6. CASE Backup!CleanUp(c)
    BY <2>6, BackupCleanUp
  <2>7. CASE Backup!GetClient(c)
    BY <2>7, BackupGetClient
  <2>8. CASE Backup!MakeClient(c)
    BY <2>8, BackupMakeClient
  <2>9. CASE Backup!MakeFails(c)
    BY <2>9, BackupMakeFails
  <2>10. CASE Backup!UploadEnds(c)
    BY <2>10, BackupUploadEnds
  <2>11. CASE Backup!CredentialsSaved(c)
    BY <2>11, BackupCredentialsSaved
  <2>12. CASE Backup!CredentialsReset(c)
    BY <2>12, BackupCredentialsReset
  <2>13. CASE Backup!Downloaded(c)
    BY <2>13, BackupDownloaded
  <2>14. CASE Backup!Extracted(c)
    BY <2>14, BackupExtracted
  <2>15. CASE Backup!Finalized(c)
    BY <2>15, BackupFinalized
  <2> QED
    BY <1>7, <2>1, <2>2, <2>3, <2>4, <2>5, <2>6, <2>7, <2>8, <2>9, <2>10, <2>11, <2>12, <2>13,
       <2>14, <2>15, <2>16, <2>17 DEF Backup!CallStep
<1> QED
  BY <1>1, <1>2, <1>3, <1>4, <1>5, <1>6, <1>7 DEF Backup!Next

\* Nor does it go when the backups stay what they are.
LEMMA BackupStutter == ASSUME BackupInv, UNCHANGED backups_vars PROVE BackupInv'
BY DEF BackupInv, BackupTyped, LockIsHeld, Executes, FewKept, Over, Spaced, Away, Current,
   backups_vars

\* What the invariant says of the backups and the clients.
LEMMA BackupInvSays ==
  ASSUME BackupInv
  PROVE  Backup!AutoBackupsAreRationed /\ Backup!ClientsAreCurrent
<1> USE DEF BackupInv
<1>1. exec_lock = None => ~Over
  BY PartsAssumption DEF LockIsHeld, Executes, Over
<1>2. Backup!Cardinality(Backup!Autos \ leftover) = Cardinality(Counted(backups, leftover))
  BY DEF Backup!Cardinality, Cardinality, Backup!Autos, Autos, Counted
<1>3. Backup!AutoBackupsAreRationed
  BY <1>1, <1>2 DEF Backup!AutoBackupsAreRationed, FewKept, Spaced
<1>4. Backup!ClientsAreCurrent
  BY DEF Backup!ClientsAreCurrent, Current
<1> QED
  BY <1>3, <1>4

\* Automatic backups that were reported lie MIN_BACKUP_INTERVAL_SECS apart and no more than
\* AUTO_BACKUP_KEEP are kept while none is under way, beside what failures left; and while no
\* credentials are saved a WebDAV client serves those in the settings, until others got past the
\* last reset of the clients (AutoBackupsAreRationed, ClientsAreCurrent).
THEOREM BackupsHold == Spec => []BackupsAreSound
<1>1. Init => (part = "backups" => BackupInv)
  BY BackupInit DEF Init
<1>2. (part = "backups" => BackupInv) /\ [Next]_mcvars => (part = "backups" => BackupInv)'
  <2> SUFFICES ASSUME part = "backups" => BackupInv, [Next]_mcvars, part' = "backups"
               PROVE  BackupInv'
    OBVIOUS
  <2>1. part = "backups" /\ BackupInv
    BY PartStays
  <2>2. CASE Backup!Next
    BY <2>1, <2>2, BackupStep
  <2>3. CASE ~Backup!Next
    <3>1. UNCHANGED backups_vars
      BY <2>1, <2>3, Zenon DEF Next, mcvars
    <3> QED
      BY <2>1, <3>1, BackupStutter
  <2> QED
    BY <2>2, <2>3
<1>3. (part = "backups" => BackupInv) => BackupsAreSound
  BY BackupInvSays DEF BackupsAreSound
<1> QED
  BY <1>1, <1>2, <1>3, PTL DEF Spec

-----------------------------------------------------------------------------
(* Sums over finite sets *)

\* The element of a set a fold takes next, and the function a sum is a value of.
Pick(s) == CHOOSE x \in s : TRUE
Iter(f, S) ==
  CHOOSE h : h = [s \in SUBSET S |-> IF s = {} THEN 0 ELSE f[Pick(s)] + h[s \ {Pick(s)}]]
Total(f, S) == Iter(f, S)[S]

\* What a function has to be that sums f over the subsets of S.
Sums(h, f, S) ==
  h = [s \in SUBSET S |-> IF s = {} THEN 0 ELSE f[Pick(s)] + h[s \ {Pick(s)}]]

\* Some subsets of a finite set have one that has none of the others inside.
LEMMA SmallestSubset ==
  ASSUME NEW S, IsFiniteSet(S), NEW B \in SUBSET (SUBSET S), B # {}
  PROVE  \E s \in B : \A r \in B : r \subseteq s => r = s
<1>1. B \subseteq FiniteSubsetsOf(S)
  BY FS_Subset DEF FiniteSubsetsOf
<1>2. PICK s \in B : \A r \in B : ~(<<r, s>> \in StrictSubsetOrdering(S))
  BY <1>1, FS_StrictSubsetOrderingWellFounded, WFMin
<1>3. ASSUME NEW r \in B, r \subseteq s PROVE r = s
  <2>1. r \in SUBSET S /\ s \in SUBSET S
    OBVIOUS
  <2>2. r # s => <<r, s>> \in StrictSubsetOrdering(S)
    BY <1>3, <2>1 DEF StrictSubsetOrdering
  <2> QED
    BY <1>2, <2>2
<1> QED
  BY <1>3

\* An element is taken of every set that has one.
LEMMA PickIsIn == \A s : s # {} => Pick(s) \in s
BY DEF Pick

\* Functions that sum agree where both do.
LEMMA SumsAgree ==
  ASSUME NEW f, NEW S, NEW T, NEW h, NEW g, Sums(h, f, S), Sums(g, f, T), IsFiniteSet(S)
  PROVE  \A s \in SUBSET (S \cap T) : h[s] = g[s]
<1> DEFINE B == {s \in SUBSET S : s \subseteq T /\ h[s] # g[s]}
<1> SUFFICES ASSUME B # {} PROVE FALSE
  OBVIOUS
<1>0. B \in SUBSET (SUBSET S) /\ B # {}
  OBVIOUS
<1>1. PICK s \in B : \A r \in B : r \subseteq s => r = s
  <2> HIDE DEF B
  <2> QED
    BY <1>0, SmallestSubset
<1>2. s \subseteq S /\ s \subseteq T /\ h[s] # g[s]
  OBVIOUS
<1>3. \A r : r \subseteq s /\ r # s => r \notin B /\ r \subseteq S /\ r \subseteq T
  BY <1>1, <1>2
<1>4. \A r : r \subseteq s /\ r # s => h[r] = g[r]
  BY <1>3
<1>5. /\ h[s] = IF s = {} THEN 0 ELSE f[Pick(s)] + h[s \ {Pick(s)}]
      /\ g[s] = IF s = {} THEN 0 ELSE f[Pick(s)] + g[s \ {Pick(s)}]
  BY <1>2 DEF Sums
<1>6. s # {}
  BY <1>2, <1>5
<1>7. s \ {Pick(s)} \subseteq s /\ s \ {Pick(s)} # s
  BY <1>6, PickIsIn
<1> QED
  BY <1>2, <1>4, <1>5, <1>6, <1>7

\* There is one that sums over the subsets of a finite set.
LEMMA IterSums ==
  ASSUME NEW f, NEW S, IsFiniteSet(S)
  PROVE  \A s \in SUBSET S : Sums(Iter(f, s), f, s)
<1> DEFINE B == {s \in SUBSET S : ~Sums(Iter(f, s), f, s)}
<1> SUFFICES ASSUME B # {} PROVE FALSE
  OBVIOUS
<1>0. B \in SUBSET (SUBSET S) /\ B # {}
  OBVIOUS
<1>1. PICK s \in B : \A r \in B : r \subseteq s => r = s
  <2> HIDE DEF B
  <2> QED
    BY <1>0, SmallestSubset
<1>2. \A r : r \subseteq s /\ r # s => Sums(Iter(f, r), f, r)
  BY <1>1
<1> DEFINE h == [r \in SUBSET s |-> IF r = {} THEN 0 ELSE f[Pick(r)] + Total(f, r \ {Pick(r)})]
<1>3. ASSUME NEW q, q \subseteq s, q # s PROVE h[q] = Total(f, q)
  <2>1. Sums(Iter(f, q), f, q)
    BY <1>2, <1>3
  <2>2. Total(f, q) = IF q = {} THEN 0 ELSE f[Pick(q)] + Iter(f, q)[q \ {Pick(q)}]
    BY <2>1 DEF Total, Sums
  <2>3. CASE q = {}
    BY <2>2, <2>3
  <2>4. CASE q # {}
    <3> DEFINE p == q \ {Pick(q)}
    <3>1. p \subseteq q /\ p \subseteq s /\ p # s
      BY <1>3, <2>4, PickIsIn
    <3>2. Sums(Iter(f, p), f, p)
      BY <1>2, <3>1
    <3>3. IsFiniteSet(q)
      BY <1>3, FS_Subset
    <3>4. Iter(f, q)[p] = Iter(f, p)[p]
      BY <2>1, <3>1, <3>2, <3>3, SumsAgree
    <3> QED
      BY <1>3, <2>2, <2>4, <3>4 DEF Total
  <2> QED
    BY <2>3, <2>4
<1>4. ASSUME NEW r \in SUBSET s, r # {} PROVE h[r \ {Pick(r)}] = Total(f, r \ {Pick(r)})
  <2>1. r \ {Pick(r)} \subseteq s /\ r \ {Pick(r)} # s
    BY <1>4, PickIsIn
  <2> QED
    BY <1>3, <2>1
<1>5. Sums(h, f, s)
  <2> DEFINE g == [r \in SUBSET s |-> IF r = {} THEN 0 ELSE f[Pick(r)] + h[r \ {Pick(r)}]]
  <2>1. \A r \in SUBSET s : h[r] = g[r]
    <3> SUFFICES ASSUME NEW r \in SUBSET s PROVE h[r] = g[r]
      OBVIOUS
    <3>1. h[r] = IF r = {} THEN 0 ELSE f[Pick(r)] + Total(f, r \ {Pick(r)})
      OBVIOUS
    <3>2. g[r] = IF r = {} THEN 0 ELSE f[Pick(r)] + h[r \ {Pick(r)}]
      OBVIOUS
    <3> HIDE DEF h, g
    <3> QED
      BY <1>4, <3>1, <3>2
  <2>2. h = g
    <3>1. h = [r \in SUBSET s |-> h[r]] /\ g = [r \in SUBSET s |-> g[r]]
      OBVIOUS
    <3> HIDE DEF h, g
    <3> QED
      BY <2>1, <3>1
  <2> QED
    BY <2>2 DEF Sums
<1> HIDE DEF h
<1>6. Sums(Iter(f, s), f, s)
  BY <1>5 DEF Sums, Iter
<1> QED
  BY <1>1, <1>6

\* The sum over no elements, and over some.
LEMMA TotalStep ==
  ASSUME NEW f, NEW S, IsFiniteSet(S)
  PROVE  \A s \in SUBSET S :
           Total(f, s) = IF s = {} THEN 0 ELSE f[Pick(s)] + Total(f, s \ {Pick(s)})
<1> SUFFICES ASSUME NEW s \in SUBSET S
             PROVE  Total(f, s) = IF s = {} THEN 0 ELSE f[Pick(s)] + Total(f, s \ {Pick(s)})
  OBVIOUS
<1> DEFINE p == s \ {Pick(s)}
<1>1. Sums(Iter(f, s), f, s) /\ Sums(Iter(f, p), f, p) /\ IsFiniteSet(s)
  BY IterSums, FS_Subset
<1>2. Iter(f, s)[p] = Iter(f, p)[p]
  BY <1>1, SumsAgree
<1>3. Iter(f, s)[s] = IF s = {} THEN 0 ELSE f[Pick(s)] + Iter(f, s)[p]
  BY <1>1 DEF Sums
<1> QED
  BY <1>2, <1>3 DEF Total

\* A sum of numbers is a number.
LEMMA TotalNat ==
  ASSUME NEW f, NEW S, IsFiniteSet(S), \A x \in S : f[x] \in Nat
  PROVE  Total(f, S) \in Nat
<1> DEFINE B == {s \in SUBSET S : Total(f, s) \notin Nat}
<1> SUFFICES ASSUME B # {} PROVE FALSE
  OBVIOUS
<1>0. B \in SUBSET (SUBSET S) /\ B # {}
  OBVIOUS
<1>1. PICK s \in B : \A r \in B : r \subseteq s => r = s
  <2> HIDE DEF B
  <2> QED
    BY <1>0, SmallestSubset
<1>2. s \in SUBSET S /\ Total(f, s) \notin Nat
  OBVIOUS
<1>3. s # {}
  <2>1. s = {} => Total(f, s) = 0
    BY <1>2, TotalStep
  <2> QED
    BY <1>2, <2>1
<1>4. s \ {Pick(s)} \subseteq s /\ s \ {Pick(s)} # s /\ Pick(s) \in S
  BY <1>2, <1>3, PickIsIn
<1>5. Total(f, s \ {Pick(s)}) \in Nat
  BY <1>1, <1>2, <1>4
<1>6. Total(f, s) = f[Pick(s)] + Total(f, s \ {Pick(s)})
  BY <1>2, <1>3, TotalStep
<1> QED
  BY <1>2, <1>4, <1>5, <1>6

\* Of larger numbers the sum is larger.
LEMMA TotalGrows ==
  ASSUME NEW f, NEW g, NEW S, IsFiniteSet(S),
         \A x \in S : f[x] \in Nat /\ g[x] \in Nat /\ f[x] <= g[x]
  PROVE  Total(f, S) <= Total(g, S)
<1> DEFINE B == {s \in SUBSET S : ~(Total(f, s) <= Total(g, s))}
<1> SUFFICES ASSUME B # {} PROVE FALSE
  OBVIOUS
<1>0. B \in SUBSET (SUBSET S) /\ B # {}
  OBVIOUS
<1>1. PICK s \in B : \A r \in B : r \subseteq s => r = s
  <2> HIDE DEF B
  <2> QED
    BY <1>0, SmallestSubset
<1>2. s \in SUBSET S /\ ~(Total(f, s) <= Total(g, s))
  OBVIOUS
<1>3. s # {}
  BY <1>2, TotalStep, SMTT(30)
<1> DEFINE p == s \ {Pick(s)}
<1>4. p \subseteq s /\ p # s /\ p \subseteq S /\ Pick(s) \in S /\ IsFiniteSet(p)
  BY <1>2, <1>3, PickIsIn, FS_Subset
<1>5. Total(f, p) <= Total(g, p)
  BY <1>1, <1>2, <1>4
<1>6. /\ Total(f, s) = f[Pick(s)] + Total(f, p)
      /\ Total(g, s) = g[Pick(s)] + Total(g, p)
  BY <1>2, <1>3, TotalStep
<1>7. Total(f, p) \in Nat /\ Total(g, p) \in Nat
  BY <1>4, TotalNat
<1>8. f[Pick(s)] \in Nat /\ g[Pick(s)] \in Nat /\ f[Pick(s)] <= g[Pick(s)]
  BY <1>4
<1> HIDE DEF p
<1> QED
  BY <1>2, <1>5, <1>6, <1>7, <1>8

\* The sum of sums.
LEMMA TotalAdds ==
  ASSUME NEW f, NEW g, NEW h, NEW S, IsFiniteSet(S),
         \A x \in S : f[x] \in Nat /\ g[x] \in Nat /\ h[x] = f[x] + g[x]
  PROVE  Total(h, S) = Total(f, S) + Total(g, S)
<1> DEFINE B == {s \in SUBSET S : Total(h, s) # Total(f, s) + Total(g, s)}
<1> SUFFICES ASSUME B # {} PROVE FALSE
  OBVIOUS
<1>0. B \in SUBSET (SUBSET S) /\ B # {}
  OBVIOUS
<1>1. PICK s \in B : \A r \in B : r \subseteq s => r = s
  <2> HIDE DEF B
  <2> QED
    BY <1>0, SmallestSubset
<1>2. s \in SUBSET S /\ Total(h, s) # Total(f, s) + Total(g, s)
  OBVIOUS
<1>3. s # {}
  <2>1. s = {} => Total(f, s) = 0 /\ Total(g, s) = 0 /\ Total(h, s) = 0
    BY <1>2, TotalStep
  <2> QED
    BY <1>2, <2>1
<1> DEFINE p == s \ {Pick(s)}
<1>4. p \subseteq s /\ p # s /\ p \subseteq S /\ Pick(s) \in S /\ IsFiniteSet(p)
  BY <1>2, <1>3, PickIsIn, FS_Subset
<1>5. Total(h, p) = Total(f, p) + Total(g, p)
  BY <1>1, <1>2, <1>4
<1>6. /\ Total(f, s) = f[Pick(s)] + Total(f, p)
      /\ Total(g, s) = g[Pick(s)] + Total(g, p)
      /\ Total(h, s) = h[Pick(s)] + Total(h, p)
  BY <1>2, <1>3, TotalStep
<1>7. Total(f, p) \in Nat /\ Total(g, p) \in Nat
  BY <1>4, TotalNat
<1>8. f[Pick(s)] \in Nat /\ g[Pick(s)] \in Nat /\ h[Pick(s)] = f[Pick(s)] + g[Pick(s)]
  BY <1>4
<1> HIDE DEF p
<1> QED
  BY <1>2, <1>5, <1>6, <1>7, <1>8

\* A sum grows by what one of its terms grows by.
LEMMA TotalAt ==
  ASSUME NEW f, NEW g, NEW S, IsFiniteSet(S), NEW c \in S, NEW n \in Nat,
         \A x \in S : f[x] \in Nat, g[c] = f[c] + n, \A x \in S \ {c} : g[x] = f[x]
  PROVE  Total(g, S) = Total(f, S) + n
<1> DEFINE B == {s \in SUBSET S : Total(g, s) # Total(f, s) + (IF c \in s THEN n ELSE 0)}
<1> SUFFICES ASSUME B # {} PROVE FALSE
  OBVIOUS
<1>0. B \in SUBSET (SUBSET S) /\ B # {}
  OBVIOUS
<1>1. PICK s \in B : \A r \in B : r \subseteq s => r = s
  <2> HIDE DEF B
  <2> QED
    BY <1>0, SmallestSubset
<1>2. s \in SUBSET S /\ Total(g, s) # Total(f, s) + (IF c \in s THEN n ELSE 0)
  OBVIOUS
<1>3. s # {}
  <2>1. s = {} => Total(f, s) = 0 /\ Total(g, s) = 0 /\ c \notin s
    BY <1>2, TotalStep
  <2> QED
    BY <1>2, <2>1
<1> DEFINE p == s \ {Pick(s)}
<1>4. p \subseteq s /\ p # s /\ p \subseteq S /\ Pick(s) \in S /\ IsFiniteSet(p)
  BY <1>2, <1>3, PickIsIn, FS_Subset
<1>5. Total(g, p) = Total(f, p) + (IF c \in p THEN n ELSE 0)
  BY <1>1, <1>2, <1>4
<1>6. /\ Total(f, s) = f[Pick(s)] + Total(f, p)
      /\ Total(g, s) = g[Pick(s)] + Total(g, p)
  BY <1>2, <1>3, TotalStep
<1>7. Total(f, p) \in Nat
  BY <1>4, TotalNat
<1>8. f[Pick(s)] \in Nat /\ g[Pick(s)] = f[Pick(s)] + (IF c = Pick(s) THEN n ELSE 0)
  BY <1>4
<1>9. /\ c \in s => (c \in p <=> c # Pick(s))
      /\ c \notin s => c \notin p /\ c # Pick(s)
  BY <1>2, <1>3, PickIsIn
<1> HIDE DEF p
<1> QED
  BY <1>2, <1>5, <1>6, <1>7, <1>8, <1>9

\* A sum of nothing is nothing.
LEMMA TotalNothing ==
  ASSUME NEW f, NEW S, IsFiniteSet(S), \A x \in S : f[x] = 0
  PROVE  Total(f, S) = 0
<1>1. Total(f, S) = Total(f, S) + Total(f, S)
  <2>1. \A x \in S : f[x] \in Nat /\ f[x] = f[x] + f[x]
    OBVIOUS
  <2> QED
    BY <2>1, TotalAdds
<1>2. Total(f, S) \in Nat
  <2>1. \A x \in S : f[x] \in Nat
    OBVIOUS
  <2> QED
    BY <2>1, TotalNat
<1>3. \A n \in Nat : n = n + n => n = 0
  OBVIOUS
<1> QED
  BY <1>1, <1>2, <1>3

\* The sums of the model are these.
LEMMA TotalIs == \A f, S : Traffic!SumFunctionOnSet(f, S) = Total(f, S)
BY DEF Traffic!SumFunctionOnSet, Traffic!FoldFunctionOnSet, Traffic!MapThenFoldSet,
       Total, Iter, Pick

-----------------------------------------------------------------------------
(* What is counted *)

Numbers == [Conns -> Nat]
DaysType == [Traffic!Days -> [Traffic!Counted -> Nat]]
Zero == [c \in Conns |-> 0]

\* What a set of days sums up to, and what some of the connections do.
Sum(x, k) == Total([d \in Traffic!Days |-> x[d][k]], Traffic!Days)
OfKind(K, n, k) == Total(n, {c \in Conns : K[c] = k})

\* The days count no more than has moved by m since it was b.
Fits(K, x, b, m) ==
  \A k \in Traffic!Counted :
    Sum(x, k) + OfKind(K, b, k) <= OfKind(K, m, k)

\* Where the collector counts from: what it has seen of a connection, or what it would see now.
Marks == [c \in Conns |-> IF seen[c] # None THEN seen[c] ELSE Traffic!ByNow[c]]

\* From when the counting has to be sound: the start, and the last clearing that stays.
Starting(b) == b = Zero \/ (~overtaken /\ b = clear_before)

\* The variables of the traffic, and the list or snapshot the loop has in hand.
Counting ==
  /\ conn_moved \in Numbers /\ clear_before \in Numbers /\ overtaken \in BOOLEAN
  /\ opened \subseteq Conns /\ today \in Traffic!Days
  /\ days \in DaysType /\ traffic_file \in DaysType
  /\ seen \in [Conns -> Nat \cup {None}]
  /\ \A c \in Conns : seen[c] # None => seen[c] <= conn_moved[c]

LoopTyped ==
  /\ loop.step \in {"idle", "fetched", "saves"}
  /\ loop.step = "saves" => loop.data \in DaysType
  /\ loop.step = "fetched" =>
       /\ DOMAIN loop.data \subseteq Conns
       /\ \A c \in DOMAIN loop.data :
            /\ loop.data[c] \in Nat /\ loop.data[c] <= conn_moved[c]
            /\ seen[c] # None => seen[c] <= loop.data[c]

ClearTyped ==
  /\ clear.step \in {"idle", "waits", "waits-all", "saves", "saves-all"}
  /\ clear.step = "waits-all" => clear.data \in Numbers
  /\ clear.step \in {"saves", "saves-all"} => clear.data.days \in DaysType
  /\ clear.step = "saves-all" => clear.data.moved \in Numbers

\* The days fit what is counted from, and each save of them what has moved.
DaysFit == \A b \in Numbers : Starting(b) => Fits(conn_kind, days, b, Marks)
FileFits == \A b \in Numbers : Starting(b) => Fits(conn_kind, traffic_file, b, conn_moved)
LoopFits ==
  loop.step = "saves" => \A b \in Numbers : Starting(b) => Fits(conn_kind, loop.data, b, conn_moved)
ClearFits ==
  clear.step \in {"saves", "saves-all"} =>
    \A b \in Numbers : Starting(b) => Fits(conn_kind, clear.data.days, b, conn_moved)

\* So they do from the clearing that is under way.
ClearingFits ==
  /\ clear.step = "waits-all" => Fits(conn_kind, days, clear.data, Marks)
  /\ clear.step = "saves-all" =>
       /\ Fits(conn_kind, days, clear.data.moved, Marks)
       /\ Fits(conn_kind, clear.data.days, clear.data.moved, conn_moved)
       /\ loop.step = "saves" /\ ~overtaken =>
            Fits(conn_kind, loop.data, clear.data.moved, conn_moved)

TrafficTyped == Counting /\ LoopTyped /\ ClearTyped

\* The inductive invariant of the traffic.
TrafficInv == TrafficTyped /\ DaysFit /\ FileFits /\ LoopFits /\ ClearFits /\ ClearingFits

-----------------------------------------------------------------------------
(* What fits *)

\* Days and the connections of a kind are finitely many.
LEMMA TrafficFinite == IsFiniteSet(Traffic!Days) /\ \A K, k : IsFiniteSet({c \in Conns : K[c] = k})
<1>1. IsFiniteSet(Traffic!Days)
  BY TrafficAssumption, FS_Interval DEF Traffic!Days
<1>2. \A K, k : {c \in Conns : K[c] = k} \subseteq Conns
  OBVIOUS
<1> QED
  BY <1>1, <1>2, TrafficAssumption, FS_Subset

\* What days sum up to is a number.
LEMMA SumTyped ==
  ASSUME NEW x \in DaysType, NEW k \in Traffic!Counted
  PROVE  Sum(x, k) \in Nat
BY TrafficFinite, TotalNat DEF Sum, DaysType

\* So is what the connections of a kind have moved.
LEMMA OfKindTyped ==
  ASSUME NEW K, NEW n \in Numbers, NEW k
  PROVE  OfKind(K, n, k) \in Nat
BY TrafficFinite, TotalNat DEF OfKind, Numbers

\* More has moved of a kind when more has moved of each connection.
LEMMA OfKindGrows ==
  ASSUME NEW K, NEW n \in Numbers, NEW m \in Numbers, NEW k,
         \A c \in Conns : K[c] = k => n[c] <= m[c]
  PROVE  OfKind(K, n, k) <= OfKind(K, m, k)
BY TrafficFinite, TotalGrows DEF OfKind, Numbers

\* Fewer days fit when more has moved.
LEMMA FitsStill ==
  ASSUME NEW K, NEW x \in DaysType, NEW y \in DaysType, NEW b \in Numbers, NEW m \in Numbers,
         NEW n \in Numbers, Fits(K, x, b, m), \A c \in Conns : m[c] <= n[c],
         \A d \in Traffic!Days, k \in Traffic!Counted : y[d][k] <= x[d][k]
  PROVE  Fits(K, y, b, n)
<1> SUFFICES ASSUME NEW k \in Traffic!Counted
             PROVE  Sum(y, k) + OfKind(K, b, k) <= OfKind(K, n, k)
  BY DEF Fits
<1>1. Sum(y, k) <= Sum(x, k)
  BY TrafficFinite, TotalGrows DEF Sum, DaysType
<1>2. OfKind(K, m, k) <= OfKind(K, n, k)
  BY OfKindGrows
<1>3. Sum(x, k) + OfKind(K, b, k) <= OfKind(K, m, k)
  BY DEF Fits
<1> QED
  BY <1>1, <1>2, <1>3, SumTyped, OfKindTyped

\* No days fit whatever has moved since.
LEMMA NothingFits ==
  ASSUME NEW K, NEW b \in Numbers, NEW m \in Numbers, \A c \in Conns : b[c] <= m[c]
  PROVE  Traffic!Nothing \in DaysType /\ Fits(K, Traffic!Nothing, b, m)
<1>1. Traffic!Nothing \in DaysType
  BY DEF Traffic!Nothing, DaysType
<1> SUFFICES ASSUME NEW k \in Traffic!Counted
             PROVE  Sum(Traffic!Nothing, k) + OfKind(K, b, k) <= OfKind(K, m, k)
  BY <1>1 DEF Fits
<1>2. Sum(Traffic!Nothing, k) = 0
  BY TrafficFinite, TotalNothing DEF Sum, Traffic!Nothing
<1>3. OfKind(K, b, k) <= OfKind(K, m, k)
  BY OfKindGrows
<1> QED
  BY <1>2, <1>3, OfKindTyped

\* What days fit, no days fit.
LEMMA NothingFitsToo ==
  ASSUME NEW K, NEW x \in DaysType, NEW b \in Numbers, NEW m \in Numbers, Fits(K, x, b, m)
  PROVE  Fits(K, Traffic!Nothing, b, m)
<1>1. Traffic!Nothing \in DaysType
  BY DEF Traffic!Nothing, DaysType
<1>2. \A d \in Traffic!Days, k \in Traffic!Counted : Traffic!Nothing[d][k] <= x[d][k]
  BY DEF Traffic!Nothing, DaysType
<1>3. \A c \in Conns : m[c] <= m[c]
  BY DEF Numbers
<1> QED
  BY <1>1, <1>2, <1>3, FitsStill

\* Counting what has moved since the marks moves the marks.
LEMMA FitsCounted ==
  ASSUME NEW K, NEW x \in DaysType, NEW y \in DaysType, NEW more \in Numbers,
         NEW t \in Traffic!Days,
         NEW b \in Numbers, NEW m \in Numbers, NEW n \in Numbers, Fits(K, x, b, m),
         \A d \in Traffic!Days, k \in Traffic!Counted :
           y[d][k] = IF d = t THEN x[d][k] + OfKind(K, more, k) ELSE x[d][k],
         \A c \in Conns : K[c] \in Traffic!Counted => m[c] + more[c] <= n[c]
  PROVE  Fits(K, y, b, n)
<1> SUFFICES ASSUME NEW k \in Traffic!Counted
             PROVE  Sum(y, k) + OfKind(K, b, k) <= OfKind(K, n, k)
  BY DEF Fits
<1> DEFINE both == [c \in Conns |-> m[c] + more[c]]
<1> DEFINE f == [d \in Traffic!Days |-> x[d][k]]
<1> DEFINE g == [d \in Traffic!Days |-> y[d][k]]
<1>1. both \in Numbers
  BY DEF Numbers
<1>2. OfKind(K, more, k) \in Nat
  BY OfKindTyped
<1>3. Sum(y, k) = Sum(x, k) + OfKind(K, more, k)
  <2>1. \A d \in Traffic!Days : f[d] \in Nat
    BY DEF DaysType
  <2>2. g[t] = f[t] + OfKind(K, more, k) /\ \A d \in Traffic!Days \ {t} : g[d] = f[d]
    OBVIOUS
  <2>3. Sum(x, k) = Total(f, Traffic!Days) /\ Sum(y, k) = Total(g, Traffic!Days)
    BY DEF Sum
  <2> HIDE DEF f, g
  <2> QED
    BY <1>2, <2>1, <2>2, <2>3, TrafficFinite, TotalAt
<1>4. OfKind(K, both, k) = OfKind(K, m, k) + OfKind(K, more, k)
  <2> DEFINE S == {c \in Conns : K[c] = k}
  <2>1. \A c \in S : m[c] \in Nat /\ more[c] \in Nat /\ both[c] = m[c] + more[c]
    BY DEF Numbers
  <2>2. IsFiniteSet(S)
    BY TrafficFinite
  <2>3. /\ OfKind(K, both, k) = Total(both, S)
        /\ OfKind(K, m, k) = Total(m, S)
        /\ OfKind(K, more, k) = Total(more, S)
    BY DEF OfKind
  <2> HIDE DEF both, S
  <2> QED
    BY <2>1, <2>2, <2>3, TotalAdds
<1>5. OfKind(K, both, k) <= OfKind(K, n, k)
  <2>1. \A c \in Conns : K[c] = k => both[c] <= n[c]
    OBVIOUS
  <2> HIDE DEF both
  <2> QED
    BY <1>1, <2>1, OfKindGrows
<1>6. Sum(x, k) + OfKind(K, b, k) <= OfKind(K, m, k)
  BY DEF Fits
<1> HIDE DEF both
<1> QED
  BY <1>1, <1>3, <1>4, <1>5, <1>6, SumTyped, OfKindTyped

-----------------------------------------------------------------------------
(* What each step does to the marks *)

\* A connection counts from no more than has moved.
LEMMA MarksTyped ==
  TrafficTyped =>
    /\ Marks \in Numbers /\ Traffic!ByNow \in Numbers
    /\ \A c \in Conns : Marks[c] <= Traffic!ByNow[c] /\ Traffic!ByNow[c] <= conn_moved[c]
<1> SUFFICES ASSUME TrafficTyped
             PROVE  /\ Marks \in Numbers /\ Traffic!ByNow \in Numbers
                    /\ \A c \in Conns : /\ Marks[c] <= Traffic!ByNow[c]
                                         /\ Traffic!ByNow[c] <= conn_moved[c]
  OBVIOUS
<1>1. \A c \in Conns : Traffic!ByNow[c] \in Nat /\ Traffic!ByNow[c] <= conn_moved[c]
  BY DEF TrafficTyped, Counting, LoopTyped, Numbers, Traffic!ByNow
<1>2. \A c \in Conns : seen[c] # None => seen[c] \in Nat /\ seen[c] <= Traffic!ByNow[c]
  BY DEF TrafficTyped, Counting, LoopTyped, Numbers, Traffic!ByNow
<1>3. Traffic!ByNow \in Numbers
  BY <1>1 DEF Traffic!ByNow, Numbers
<1>4. \A c \in Conns : Marks[c] = IF seen[c] # None THEN seen[c] ELSE Traffic!ByNow[c]
  BY DEF Marks
<1>5. \A c \in Conns : Marks[c] \in Nat /\ Marks[c] <= Traffic!ByNow[c]
  BY <1>1, <1>2, <1>4
<1>6. Marks \in Numbers
  BY <1>5 DEF Marks, Numbers
<1> QED
  BY <1>1, <1>3, <1>5, <1>6

\* What one sees with the list of a poll that is on its way.
More ==
  [c \in Conns |-> IF c \in {l \in DOMAIN loop.data : conn_kind[l] \in Traffic!Counted}
                   THEN loop.data[c] - Traffic!Baseline(c) ELSE 0]

\* It is a number for each connection, which moves the marks.
LEMMA MoreTyped ==
  ASSUME TrafficTyped, loop.step = "fetched"
  PROVE  /\ More \in Numbers
         /\ \A c \in DOMAIN loop.data : conn_kind[c] \in Traffic!Counted =>
              Marks[c] + More[c] = loop.data[c]
         /\ \A c \in Conns \ DOMAIN loop.data : Marks[c] + More[c] <= conn_moved[c]
<1>1. DOMAIN loop.data \subseteq Conns
  BY DEF TrafficTyped, LoopTyped
<1>2. ASSUME NEW c \in DOMAIN loop.data
      PROVE  /\ loop.data[c] \in Nat /\ Traffic!Baseline(c) \in Nat
             /\ Traffic!Baseline(c) <= loop.data[c] /\ Marks[c] = Traffic!Baseline(c)
  <2>1. c \in Conns
    BY <1>1
  <2>2. Marks[c] = IF seen[c] # None THEN seen[c] ELSE Traffic!ByNow[c]
    BY <2>1 DEF Marks
  <2>3. Traffic!ByNow[c] = loop.data[c]
    BY <2>1 DEF Traffic!ByNow
  <2>4. loop.data[c] \in Nat /\ (seen[c] # None => seen[c] \in Nat /\ seen[c] <= loop.data[c])
    BY <2>1 DEF TrafficTyped, LoopTyped, Counting
  <2> QED
    BY <2>2, <2>3, <2>4 DEF Traffic!Baseline
<1>3. \A c \in Conns : More[c] = IF c \in DOMAIN loop.data /\ conn_kind[c] \in Traffic!Counted
                                THEN loop.data[c] - Traffic!Baseline(c) ELSE 0
  BY DEF More
<1>4. \A c \in Conns : More[c] \in Nat
  BY <1>2, <1>3
<1>5. More \in Numbers
  BY <1>4 DEF More, Numbers
<1>6. \A c \in DOMAIN loop.data : conn_kind[c] \in Traffic!Counted =>
        Marks[c] + More[c] = loop.data[c]
  BY <1>1, <1>2, <1>3
<1>7. ASSUME NEW c \in Conns \ DOMAIN loop.data PROVE Marks[c] + More[c] <= conn_moved[c]
  BY <1>3, MarksTyped DEF Numbers, TrafficTyped, Counting
<1> QED
  BY <1>5, <1>6, <1>7

\* What a poll adds to the days and sees.
LEMMA PollIs ==
  ASSUME TrafficTyped, Traffic!Poll
  PROVE  /\ days' \in DaysType
         /\ \A d \in Traffic!Days, k \in Traffic!Counted :
              days'[d][k] = IF d = today THEN days[d][k] + OfKind(conn_kind, More, k)
                            ELSE days[d][k]
<1>1. days' = [days EXCEPT ![today] =
                [k \in Traffic!Counted |-> @[k] + Total(More, Traffic!Of(k))]]
  BY TotalIs DEF Traffic!Poll, More
<1>2. \A k : Total(More, Traffic!Of(k)) = OfKind(conn_kind, More, k)
  BY DEF OfKind, Traffic!Of
<1>3. \A k \in Traffic!Counted : OfKind(conn_kind, More, k) \in Nat
  BY MoreTyped, OfKindTyped DEF Traffic!Poll
<1>4. days \in DaysType /\ today \in Traffic!Days
  BY DEF TrafficTyped, Counting
<1>5. days' = [days EXCEPT ![today] =
                [k \in Traffic!Counted |-> days[today][k] + OfKind(conn_kind, More, k)]]
  BY <1>1, <1>2, <1>4 DEF DaysType
<1> HIDE DEF OfKind, More
<1> QED
  BY <1>3, <1>4, <1>5 DEF DaysType

-----------------------------------------------------------------------------
(* Types *)

\* The behaviour begins with its types.
LEMMA TrafficTypedInit == Traffic!Init => TrafficTyped
<1> SUFFICES ASSUME Traffic!Init PROVE TrafficTyped
  OBVIOUS
<1>1. Traffic!Nothing \in DaysType
  BY DEF Traffic!Nothing, DaysType
<1>2. Counting
  <2>1. 1 \in Traffic!Days
    BY TrafficAssumption DEF Traffic!Days
  <2>2. [c \in Conns |-> 0] \in Numbers /\ [c \in Conns |-> None] \in [Conns -> Nat \cup {None}]
    BY DEF Numbers
  <2> QED
    BY <1>1, <2>1, <2>2 DEF Traffic!Init, Counting
<1>3. LoopTyped /\ ClearTyped
  BY DEF Traffic!Init, Traffic!Idle, LoopTyped, ClearTyped
<1> QED
  BY <1>2, <1>3 DEF TrafficTyped

\* The Core and the clock keep the types.
LEMMA TrafficTypedCore ==
  TrafficTyped /\ (Traffic!Opens \/ Traffic!Transfers \/ Traffic!Closes \/ Traffic!NextDay) =>
    TrafficTyped'
<1> SUFFICES ASSUME TrafficTyped PROVE
      Traffic!Opens \/ Traffic!Transfers \/ Traffic!Closes \/ Traffic!NextDay => TrafficTyped'
  OBVIOUS
<1>1. CASE Traffic!Opens
  BY <1>1 DEF Traffic!Opens, Traffic!histories, TrafficTyped, Counting, LoopTyped, ClearTyped
<1>2. CASE Traffic!Closes
  BY <1>2 DEF Traffic!Closes, Traffic!histories, TrafficTyped, Counting, LoopTyped, ClearTyped
<1>3. CASE Traffic!NextDay
  BY <1>3 DEF Traffic!NextDay, Traffic!core, Traffic!histories, TrafficTyped, Counting,
     LoopTyped, ClearTyped
<1>4. CASE Traffic!Transfers
  <2>1. PICK c \in Conns : conn_moved' = [conn_moved EXCEPT ![c] = @ + 1]
    BY <1>4 DEF Traffic!Transfers, Traffic!Open, TrafficTyped, Counting
  <2>2. conn_moved' \in Numbers /\ \A d \in Conns : conn_moved[d] <= conn_moved'[d]
    BY <2>1 DEF TrafficTyped, Counting, Numbers
  <2>3. UNCHANGED <<opened, today, days, traffic_file, seen, loop, clear, clear_before, overtaken>>
    BY <1>4 DEF Traffic!Transfers, Traffic!histories
  <2>4. ASSUME NEW n, NEW d \in Conns, n \in Nat, n <= conn_moved[d] PROVE n <= conn_moved'[d]
    BY <2>2, <2>4 DEF TrafficTyped, Counting, Numbers
  <2>5. Counting'
    BY <2>2, <2>3, <2>4 DEF TrafficTyped, Counting
  <2>6. LoopTyped'
    BY <2>3, <2>4 DEF TrafficTyped, LoopTyped
  <2>7. ClearTyped'
    BY <2>3 DEF TrafficTyped, ClearTyped
  <2> QED
    BY <2>5, <2>6, <2>7 DEF TrafficTyped
<1> QED
  BY <1>1, <1>2, <1>3, <1>4

\* So does the loop,
LEMMA TrafficTypedLoop ==
  TrafficTyped /\ (Traffic!Fetch \/ Traffic!Poll \/ Traffic!SaveBegins \/ Traffic!SaveEnds) =>
    TrafficTyped'
<1> SUFFICES ASSUME TrafficTyped PROVE
      Traffic!Fetch \/ Traffic!Poll \/ Traffic!SaveBegins \/ Traffic!SaveEnds => TrafficTyped'
  OBVIOUS
<1>1. CASE Traffic!Fetch
  <2>1. UNCHANGED <<conn_moved, opened, today, days, traffic_file, seen, clear, clear_before,
                    overtaken>>
    BY <1>1 DEF Traffic!Fetch, Traffic!core, Traffic!histories
  <2>2. loop' = [step |-> "fetched", data |-> [c \in Traffic!Open |-> conn_moved[c]]]
    BY <1>1 DEF Traffic!Fetch
  <2>3. Traffic!Open \subseteq Conns
    BY DEF Traffic!Open, TrafficTyped, Counting
  <2>4. /\ DOMAIN loop'.data \subseteq Conns
        /\ \A c \in DOMAIN loop'.data : c \in Conns /\ loop'.data[c] = conn_moved[c]
    BY <2>2, <2>3
  <2>5. \A c \in Conns : /\ conn_moved[c] \in Nat
                         /\ seen[c] # None => seen[c] <= conn_moved[c]
    BY DEF TrafficTyped, Counting, Numbers
  <2>6. LoopTyped'
    BY <2>1, <2>2, <2>4, <2>5 DEF LoopTyped
  <2> QED
    BY <2>1, <2>6 DEF TrafficTyped, Counting, ClearTyped
<1>2. CASE Traffic!Poll
  <2>1. UNCHANGED <<conn_moved, opened, today, traffic_file, clear, clear_before, overtaken>>
    BY <1>2 DEF Traffic!Poll, Traffic!core, Traffic!histories
  <2>2. loop' = Traffic!Idle /\ loop.step = "fetched"
    BY <1>2 DEF Traffic!Poll
  <2>3. LoopTyped'
    BY <2>2 DEF LoopTyped, Traffic!Idle
  <2>4. /\ seen' \in [Conns -> Nat \cup {None}]
        /\ \A c \in Conns : seen'[c] # None => seen'[c] <= conn_moved[c]
    BY <1>2, <2>2 DEF Traffic!Poll, TrafficTyped, LoopTyped
  <2>5. Counting'
    BY <1>2, <2>1, <2>4, PollIs DEF TrafficTyped, Counting
  <2> QED
    BY <2>1, <2>3, <2>5 DEF TrafficTyped, ClearTyped
<1>3. CASE Traffic!SaveBegins
  <2>1. LoopTyped'
    BY <1>3 DEF Traffic!SaveBegins, TrafficTyped, LoopTyped, Counting
  <2> QED
    BY <1>3, <2>1 DEF Traffic!SaveBegins, Traffic!core, Traffic!histories, TrafficTyped,
       Counting, ClearTyped
<1>4. CASE Traffic!SaveEnds
  <2>1. LoopTyped'
    BY <1>4 DEF Traffic!SaveEnds, Traffic!Idle, LoopTyped
  <2> QED
    BY <1>4, <2>1 DEF Traffic!SaveEnds, Traffic!core, TrafficTyped, Counting, LoopTyped,
       ClearTyped
<1> QED
  BY <1>1, <1>2, <1>3, <1>4

\* and so do the clearing calls and a restart.
LEMMA TrafficTypedClear ==
  /\ TrafficTyped
  /\ \/ Traffic!ClearBefore \/ Traffic!ClearAll \/ Traffic!PersistBegins
     \/ Traffic!PersistEnds \/ Traffic!Restart
  => TrafficTyped'
<1> SUFFICES ASSUME TrafficTyped,
                    \/ Traffic!ClearBefore \/ Traffic!ClearAll \/ Traffic!PersistBegins
                    \/ Traffic!PersistEnds \/ Traffic!Restart
             PROVE  TrafficTyped'
  OBVIOUS
<1>0. Traffic!Nothing \in DaysType
  BY DEF Traffic!Nothing, DaysType
<1>1. CASE Traffic!ClearBefore
  <2>1. days' \in DaysType
    BY <1>0, <1>1 DEF Traffic!ClearBefore, TrafficTyped, Counting, DaysType
  <2>2. ClearTyped'
    BY <1>1 DEF Traffic!ClearBefore, Traffic!Idle, ClearTyped
  <2> QED
    BY <1>1, <2>1, <2>2 DEF Traffic!ClearBefore, Traffic!core, Traffic!histories, TrafficTyped,
       Counting, LoopTyped
<1>2. CASE Traffic!ClearAll
  <2>1. ClearTyped'
    BY <1>2, MarksTyped DEF Traffic!ClearAll, ClearTyped
  <2> QED
    BY <1>0, <1>2, <2>1 DEF Traffic!ClearAll, Traffic!core, Traffic!histories, TrafficTyped,
       Counting, LoopTyped
<1>3. CASE Traffic!PersistBegins
  <2>1. ClearTyped'
    BY <1>3 DEF Traffic!PersistBegins, TrafficTyped, ClearTyped, Counting
  <2>2. overtaken' \in BOOLEAN
    BY <1>3 DEF Traffic!PersistBegins, TrafficTyped, Counting
  <2> QED
    BY <1>3, <2>1, <2>2 DEF Traffic!PersistBegins, Traffic!core, TrafficTyped, Counting, LoopTyped
<1>4. CASE Traffic!PersistEnds
  <2>1. ClearTyped'
    BY <1>4 DEF Traffic!PersistEnds, Traffic!Idle, ClearTyped
  <2>2. /\ traffic_file' \in DaysType /\ clear_before' \in Numbers /\ overtaken' \in BOOLEAN
    BY <1>4 DEF Traffic!PersistEnds, TrafficTyped, Counting, ClearTyped
  <2> QED
    BY <1>4, <2>1, <2>2 DEF Traffic!PersistEnds, Traffic!core, TrafficTyped, Counting, LoopTyped
<1>5. CASE Traffic!Restart
  <2>1. LoopTyped' /\ ClearTyped'
    BY <1>5 DEF Traffic!Restart, Traffic!Idle, LoopTyped, ClearTyped
  <2> QED
    BY <1>0, <1>5, <2>1 DEF Traffic!Restart, Traffic!core, Traffic!histories, TrafficTyped, Counting
<1> QED
  BY <1>1, <1>2, <1>3, <1>4, <1>5

\* Each step keeps the types, and no step changes how a connection is routed.
LEMMA TrafficTypedStep == TrafficTyped /\ Traffic!Next => TrafficTyped' /\ UNCHANGED conn_kind
<1>1. Traffic!Next => UNCHANGED conn_kind
  BY DEF Traffic!Next, Traffic!Opens, Traffic!Transfers, Traffic!Closes, Traffic!NextDay,
     Traffic!Fetch, Traffic!Poll, Traffic!SaveBegins, Traffic!SaveEnds, Traffic!ClearBefore,
     Traffic!ClearAll, Traffic!PersistBegins, Traffic!PersistEnds, Traffic!Restart, Traffic!core
<1> QED
  BY <1>1, TrafficTypedCore, TrafficTypedLoop, TrafficTypedClear DEF Traffic!Next

-----------------------------------------------------------------------------
(* What each step leaves to fit *)

\* Where the collector counts from only moves on.
MarksMove == \A c \in Conns : Marks[c] <= Marks'[c] /\ conn_moved[c] <= conn_moved'[c]

\* After a step the marks are numbers too.
LEMMA MarksTypedNext == TrafficTyped' => Marks' \in Numbers
<1>1. TrafficTyped => Marks \in Numbers
  BY MarksTyped
<1>2. TrafficTyped' => (Marks \in Numbers)'
  BY <1>1, PTL
<1> QED
  BY <1>2

\* What fits goes on to fit when the marks move on.
LEMMA FitsOn ==
  ASSUME NEW x \in DaysType, NEW b \in Numbers, TrafficTyped, TrafficTyped', MarksMove
  PROVE  /\ Fits(conn_kind, x, b, Marks) => Fits(conn_kind, x, b, Marks')
         /\ Fits(conn_kind, x, b, conn_moved) => Fits(conn_kind, x, b, conn_moved')
         /\ Fits(conn_kind, x, b, Marks) => Fits(conn_kind, x, b, conn_moved)
<1>1. Marks \in Numbers /\ Marks' \in Numbers
  BY MarksTyped, MarksTypedNext
<1>2. conn_moved \in Numbers /\ conn_moved' \in Numbers
  BY DEF TrafficTyped, Counting
<1>3. \A d \in Traffic!Days, k \in Traffic!Counted : x[d][k] <= x[d][k]
  BY DEF DaysType
<1>4. \A c \in Conns : Marks[c] <= conn_moved[c]
  <2>1. \A c \in Conns : /\ Marks[c] <= Traffic!ByNow[c] /\ Traffic!ByNow[c] <= conn_moved[c]
    BY MarksTyped
  <2>2. \A c \in Conns : Marks[c] \in Nat /\ Traffic!ByNow[c] \in Nat /\ conn_moved[c] \in Nat
    BY <1>1, <1>2, MarksTyped DEF Numbers
  <2> QED
    BY <2>1, <2>2
<1> HIDE DEF Marks
<1> QED
  BY <1>1, <1>2, <1>3, <1>4, FitsStill DEF MarksMove

\* A step that leaves the days and the saves alone leaves them to fit.
LEMMA FitsQuiet ==
  ASSUME TrafficInv, TrafficTyped', MarksMove, conn_kind' = conn_kind,
         UNCHANGED <<days, traffic_file, clear, clear_before, overtaken>>,
         loop' = loop \/ loop'.step # "saves"
  PROVE  TrafficInv'
<1>1. \A b \in Numbers : Starting(b) <=> (b = Zero \/ (~overtaken' /\ b = clear_before'))
  BY DEF Starting
<1>2. days \in DaysType /\ traffic_file \in DaysType /\ TrafficTyped
  BY DEF TrafficInv, TrafficTyped, Counting
<1>3. DaysFit'
  <2>1. ASSUME NEW b \in Numbers, Starting(b)
        PROVE  Fits(conn_kind', days', b, Marks')
    BY <1>2, <2>1, FitsOn DEF TrafficInv, DaysFit
  <2> HIDE DEF Fits, Marks
  <2> QED
    BY <1>1, <2>1 DEF DaysFit, Starting
<1>4. FileFits'
  <2>1. ASSUME NEW b \in Numbers, Starting(b)
        PROVE  Fits(conn_kind', traffic_file', b, conn_moved')
    BY <1>2, <2>1, FitsOn DEF TrafficInv, FileFits
  <2> QED
    BY <1>1, <2>1 DEF FileFits, Starting
<1>5. LoopFits'
  <2>1. ASSUME NEW b \in Numbers, Starting(b), loop'.step = "saves"
        PROVE  Fits(conn_kind', loop'.data, b, conn_moved')
    <3>1. loop' = loop /\ loop.data \in DaysType
      BY <2>1 DEF TrafficInv, TrafficTyped, LoopTyped
    <3> QED
      BY <1>2, <2>1, <3>1, FitsOn DEF TrafficInv, LoopFits
  <2> QED
    BY <1>1, <2>1 DEF LoopFits, Starting
<1>6. ClearFits'
  <2>1. ASSUME NEW b \in Numbers, Starting(b), clear.step \in {"saves", "saves-all"}
        PROVE  Fits(conn_kind', clear'.data.days, b, conn_moved')
    <3>1. clear.data.days \in DaysType
      BY <2>1 DEF TrafficInv, TrafficTyped, ClearTyped
    <3> QED
      BY <1>2, <2>1, <3>1, FitsOn DEF TrafficInv, ClearFits
  <2> QED
    BY <1>1, <2>1 DEF ClearFits, Starting
<1>7. ClearingFits'
  <2>1. ASSUME clear.step = "waits-all" PROVE Fits(conn_kind', days', clear'.data, Marks')
    <3>1. clear.data \in Numbers /\ Fits(conn_kind, days, clear.data, Marks)
      BY <2>1 DEF TrafficInv, TrafficTyped, ClearTyped, ClearingFits
    <3> QED
      BY <1>2, <3>1, FitsOn
  <2>2. ASSUME clear.step = "saves-all"
        PROVE  /\ Fits(conn_kind', days', clear'.data.moved, Marks')
               /\ Fits(conn_kind', clear'.data.days, clear'.data.moved, conn_moved')
               /\ loop'.step = "saves" /\ ~overtaken' =>
                    Fits(conn_kind', loop'.data, clear'.data.moved, conn_moved')
    <3>1. clear.data.moved \in Numbers /\ clear.data.days \in DaysType
      BY <2>2 DEF TrafficInv, TrafficTyped, ClearTyped
    <3>2. /\ Fits(conn_kind, days, clear.data.moved, Marks)
          /\ Fits(conn_kind, clear.data.days, clear.data.moved, conn_moved)
          /\ loop.step = "saves" /\ ~overtaken =>
               Fits(conn_kind, loop.data, clear.data.moved, conn_moved)
      BY <2>2 DEF TrafficInv, ClearingFits
    <3>3. loop.step = "saves" => loop.data \in DaysType
      BY DEF TrafficInv, TrafficTyped, LoopTyped
    <3> QED
      BY <1>2, <3>1, <3>2, <3>3, FitsOn
  <2> QED
    BY <2>1, <2>2 DEF ClearingFits
<1> QED
  BY <1>3, <1>4, <1>5, <1>6, <1>7 DEF TrafficInv

\* What the Core does lets the marks move on.
LEMMA CoreFits ==
  ASSUME TrafficInv, TrafficTyped', conn_kind' = conn_kind,
         Traffic!Opens \/ Traffic!Transfers \/ Traffic!Closes \/ Traffic!NextDay
  PROVE  TrafficInv'
<1>1. UNCHANGED <<days, traffic_file, loop, clear, clear_before, overtaken, seen>>
  BY DEF Traffic!Opens, Traffic!Transfers, Traffic!Closes, Traffic!NextDay, Traffic!core,
     Traffic!histories
<1>2. \A c \in Conns : conn_moved[c] <= conn_moved'[c]
  <2>1. CASE Traffic!Transfers
    <3>1. PICK c \in Conns : conn_moved' = [conn_moved EXCEPT ![c] = @ + 1]
      BY <2>1 DEF Traffic!Transfers, Traffic!Open, TrafficInv, TrafficTyped, Counting
    <3> QED
      BY <3>1 DEF TrafficInv, TrafficTyped, Counting, Numbers
  <2>2. CASE UNCHANGED conn_moved
    BY <2>2 DEF TrafficInv, TrafficTyped, Counting, Numbers
  <2> QED
    BY <2>1, <2>2 DEF Traffic!Opens, Traffic!Closes, Traffic!NextDay, Traffic!core
<1>3. \A c \in Conns :
        /\ Traffic!ByNow[c] \in Nat /\ Traffic!ByNow'[c] \in Nat
        /\ Traffic!ByNow[c] <= Traffic!ByNow'[c]
  BY <1>1, <1>2 DEF TrafficInv, TrafficTyped, Counting, LoopTyped, Numbers, Traffic!ByNow
<1>4. \A c \in Conns : seen[c] \in Nat \cup {None}
  BY DEF TrafficInv, TrafficTyped, Counting
<1>5. \A c \in Conns : Marks[c] <= Marks'[c]
  BY <1>1, <1>3, <1>4 DEF Marks
<1> QED
  BY <1>1, <1>2, <1>5, FitsQuiet DEF MarksMove

\* A list of the connections is what they have moved.
LEMMA FetchFits ==
  ASSUME TrafficInv, TrafficTyped', conn_kind' = conn_kind, Traffic!Fetch
  PROVE  TrafficInv'
<1>1. UNCHANGED <<conn_moved, days, traffic_file, clear, clear_before, overtaken, seen>>
  BY DEF Traffic!Fetch, Traffic!core, Traffic!histories
<1>2. /\ loop.step = "idle" /\ loop'.step = "fetched"
      /\ \A c \in DOMAIN loop'.data : loop'.data[c] = conn_moved[c]
  BY DEF Traffic!Fetch
<1>3. \A c \in Conns : Traffic!ByNow[c] = conn_moved[c] /\ Traffic!ByNow'[c] = conn_moved[c]
  BY <1>1, <1>2 DEF Traffic!ByNow
<1>4. \A c \in Conns : conn_moved[c] \in Nat /\ seen[c] \in Nat \cup {None}
  BY DEF TrafficInv, TrafficTyped, Counting, Numbers
<1>5. MarksMove
  BY <1>1, <1>3, <1>4 DEF MarksMove, Marks
<1> QED
  BY <1>1, <1>2, <1>5, FitsQuiet

\* What a poll adds to the days is what the marks move on.
LEMMA PollFits ==
  ASSUME TrafficInv, TrafficTyped', conn_kind' = conn_kind, Traffic!Poll
  PROVE  TrafficInv'
<1>1. UNCHANGED <<conn_moved, today, traffic_file, clear, clear_before, overtaken>>
  BY DEF Traffic!Poll, Traffic!core, Traffic!histories
<1>2. loop.step = "fetched" /\ loop' = Traffic!Idle /\ loop'.step = "idle"
  BY DEF Traffic!Poll, Traffic!Idle
<1>3. \A c \in Conns :
        seen'[c] = IF c \in DOMAIN loop.data /\ conn_kind[c] \in Traffic!Counted
                   THEN loop.data[c] ELSE None
  BY DEF Traffic!Poll
<1>4. TrafficTyped /\ More \in Numbers /\ today \in Traffic!Days /\ conn_moved \in Numbers
  BY <1>2, MoreTyped DEF TrafficInv, TrafficTyped, Counting
<1>5. Marks \in Numbers /\ Marks' \in Numbers
  BY <1>4, MarksTyped, MarksTypedNext
<1>6. \A c \in Conns : Marks'[c] = IF seen'[c] # None THEN seen'[c] ELSE conn_moved[c]
  BY <1>1, <1>2 DEF Marks, Traffic!ByNow
<1>7. ASSUME NEW c \in Conns, conn_kind[c] \in Traffic!Counted
      PROVE  Marks[c] + More[c] <= Marks'[c]
  <2>1. CASE c \in DOMAIN loop.data
    <3>1. Marks[c] + More[c] = loop.data[c] /\ loop.data[c] \in Nat
      BY <1>2, <1>4, <1>7, <2>1, MoreTyped DEF TrafficTyped, LoopTyped
    <3>2. Marks'[c] = loop.data[c]
      BY <1>3, <1>6, <1>7, <2>1, <3>1, NoneAssumption
    <3> QED
      BY <3>1, <3>2
  <2>2. CASE c \notin DOMAIN loop.data
    <3>1. Marks[c] + More[c] <= conn_moved[c]
      BY <1>2, <1>4, <2>2, MoreTyped
    <3>2. Marks'[c] = conn_moved[c]
      BY <1>3, <1>6, <2>2
    <3> QED
      BY <3>1, <3>2
  <2> QED
    BY <2>1, <2>2
<1>8. days \in DaysType /\ days' \in DaysType
  BY <1>4, PollIs DEF TrafficTyped, Counting
<1>9. ASSUME NEW b \in Numbers, Fits(conn_kind, days, b, Marks)
      PROVE  Fits(conn_kind', days', b, Marks')
  <2>1. \A d \in Traffic!Days, k \in Traffic!Counted :
          days'[d][k] = IF d = today THEN days[d][k] + OfKind(conn_kind, More, k)
                        ELSE days[d][k]
    BY <1>4, PollIs
  <2> HIDE DEF More, Marks
  <2> QED
    BY <1>4, <1>5, <1>7, <1>8, <1>9, <2>1, FitsCounted
<1>10. DaysFit'
  <2>1. ASSUME NEW b \in Numbers, (b = Zero \/ (~overtaken' /\ b = clear_before'))
        PROVE  Fits(conn_kind', days', b, Marks')
    BY <1>1, <1>9, <2>1 DEF TrafficInv, DaysFit, Starting
  <2> QED
    BY <2>1 DEF DaysFit, Starting
<1>11. FileFits' /\ ClearFits'
  BY <1>1 DEF TrafficInv, FileFits, ClearFits, Starting
<1>12. LoopFits'
  BY <1>2 DEF LoopFits
<1>13. ClearingFits'
  <2>1. ASSUME clear.step = "waits-all" PROVE Fits(conn_kind', days', clear'.data, Marks')
    BY <1>1, <1>9, <2>1 DEF TrafficInv, TrafficTyped, ClearTyped, ClearingFits
  <2>2. ASSUME clear.step = "saves-all"
        PROVE  /\ Fits(conn_kind', days', clear'.data.moved, Marks')
               /\ Fits(conn_kind', clear'.data.days, clear'.data.moved, conn_moved')
    BY <1>1, <1>9, <2>2 DEF TrafficInv, TrafficTyped, ClearTyped, ClearingFits
  <2> QED
    BY <1>1, <1>2, <2>1, <2>2 DEF ClearingFits
<1> QED
  BY <1>10, <1>11, <1>12, <1>13 DEF TrafficInv

\* The marks stay where they are while the loop has no list.
LEMMA MarksStay ==
  ASSUME TrafficTyped, UNCHANGED <<seen, conn_moved>>, loop' = loop \/ loop'.step # "fetched",
         loop' = loop \/ loop.step # "fetched"
  PROVE  /\ \A c \in Conns : Marks'[c] = Marks[c]
         /\ MarksMove
<1>1. \A c \in Conns : Traffic!ByNow'[c] = Traffic!ByNow[c]
  BY DEF Traffic!ByNow
<1>2. \A c \in Conns : Marks'[c] = Marks[c]
  BY <1>1 DEF Marks
<1>3. Marks \in Numbers /\ conn_moved \in Numbers
  BY MarksTyped DEF TrafficTyped, Counting
<1>4. \A c \in Conns : Marks[c] <= Marks[c] /\ conn_moved[c] <= conn_moved[c]
  BY <1>3 DEF Numbers
<1> QED
  BY <1>2, <1>4 DEF MarksMove

\* The loop saves what fits,
LEMMA SaveFits ==
  ASSUME TrafficInv, TrafficTyped', conn_kind' = conn_kind,
         Traffic!SaveBegins \/ Traffic!SaveEnds
  PROVE  TrafficInv'
<1>1. TrafficTyped
  BY DEF TrafficInv
<1>2. CASE Traffic!SaveBegins
  <2>1. UNCHANGED <<conn_moved, days, seen, traffic_file, clear, clear_before, overtaken>>
    BY <1>2 DEF Traffic!SaveBegins, Traffic!core, Traffic!histories
  <2>2. loop.step = "idle" /\ loop'.step = "saves" /\ loop'.data = days
    BY <1>2 DEF Traffic!SaveBegins
  <2>3. MarksMove /\ days \in DaysType
    BY <1>1, <2>1, <2>2, MarksStay DEF TrafficTyped, Counting
  <2>4. ASSUME NEW b \in Numbers, Fits(conn_kind, days, b, Marks)
        PROVE  /\ Fits(conn_kind', days', b, Marks')
               /\ Fits(conn_kind', loop'.data, b, conn_moved')
    BY <1>1, <2>1, <2>2, <2>3, <2>4, FitsOn
  <2>5. DaysFit' /\ LoopFits'
    <3>1. ASSUME NEW b \in Numbers, (b = Zero \/ (~overtaken' /\ b = clear_before'))
          PROVE  /\ Fits(conn_kind', days', b, Marks')
                 /\ Fits(conn_kind', loop'.data, b, conn_moved')
      BY <2>1, <2>4, <3>1 DEF TrafficInv, DaysFit, Starting
    <3> QED
      BY <3>1 DEF DaysFit, LoopFits, Starting
  <2>6. FileFits' /\ ClearFits'
    BY <2>1 DEF TrafficInv, FileFits, ClearFits, Starting
  <2>7. ClearingFits'
    <3>1. ASSUME clear.step = "waits-all" PROVE Fits(conn_kind', days', clear'.data, Marks')
      BY <2>1, <2>4, <3>1 DEF TrafficInv, TrafficTyped, ClearTyped, ClearingFits
    <3>2. ASSUME clear.step = "saves-all"
          PROVE  /\ Fits(conn_kind', days', clear'.data.moved, Marks')
                 /\ Fits(conn_kind', clear'.data.days, clear'.data.moved, conn_moved')
                 /\ Fits(conn_kind', loop'.data, clear'.data.moved, conn_moved')
      BY <2>1, <2>4, <3>2 DEF TrafficInv, TrafficTyped, ClearTyped, ClearingFits
    <3> QED
      BY <2>1, <3>1, <3>2 DEF ClearingFits
  <2> QED
    BY <2>5, <2>6, <2>7 DEF TrafficInv
<1>3. CASE Traffic!SaveEnds
  <2>1. UNCHANGED <<conn_moved, days, seen, clear, clear_before>>
    BY <1>3 DEF Traffic!SaveEnds, Traffic!core
  <2>2. loop.step = "saves" /\ loop'.step = "idle"
    BY <1>3 DEF Traffic!SaveEnds, Traffic!Idle
  <2>3. \/ traffic_file' = loop.data /\ overtaken' = overtaken
        \/ traffic_file' = traffic_file /\ overtaken'
    BY <1>3 DEF Traffic!SaveEnds
  <2>4. MarksMove /\ days \in DaysType
    BY <1>1, <2>1, <2>2, MarksStay DEF TrafficTyped, Counting
  <2>5. ASSUME NEW b \in Numbers, Fits(conn_kind, days, b, Marks)
        PROVE  Fits(conn_kind', days', b, Marks')
    BY <1>1, <2>1, <2>4, <2>5, FitsOn
  <2>6. ASSUME NEW b \in Numbers, (b = Zero \/ (~overtaken' /\ b = clear_before'))
        PROVE  Starting(b)
    BY <2>1, <2>3, <2>6 DEF Starting
  <2>7. DaysFit'
    <3>1. ASSUME NEW b \in Numbers, (b = Zero \/ (~overtaken' /\ b = clear_before'))
          PROVE  Fits(conn_kind', days', b, Marks')
      BY <2>5, <2>6, <3>1 DEF TrafficInv, DaysFit
    <3> QED
      BY <3>1 DEF DaysFit, Starting
  <2>8. FileFits'
    <3>1. ASSUME NEW b \in Numbers, (b = Zero \/ (~overtaken' /\ b = clear_before'))
          PROVE  Fits(conn_kind', traffic_file', b, conn_moved')
      BY <2>1, <2>2, <2>3, <2>6, <3>1 DEF TrafficInv, FileFits, LoopFits
    <3> QED
      BY <3>1 DEF FileFits, Starting
  <2>9. ClearFits'
    <3>1. ASSUME NEW b \in Numbers, (b = Zero \/ (~overtaken' /\ b = clear_before')),
                 clear'.step \in {"saves", "saves-all"}
          PROVE  Fits(conn_kind', clear'.data.days, b, conn_moved')
      BY <2>1, <2>6, <3>1 DEF TrafficInv, ClearFits
    <3> QED
      BY <3>1 DEF ClearFits, Starting
  <2>10. LoopFits'
    BY <2>2 DEF LoopFits
  <2>11. ClearingFits'
    <3>1. ASSUME clear.step = "waits-all" PROVE Fits(conn_kind', days', clear'.data, Marks')
      BY <2>1, <2>5, <3>1 DEF TrafficInv, TrafficTyped, ClearTyped, ClearingFits
    <3>2. ASSUME clear.step = "saves-all"
          PROVE  /\ Fits(conn_kind', days', clear'.data.moved, Marks')
                 /\ Fits(conn_kind', clear'.data.days, clear'.data.moved, conn_moved')
      BY <2>1, <2>5, <3>2 DEF TrafficInv, TrafficTyped, ClearTyped, ClearingFits
    <3> QED
      BY <2>1, <2>2, <3>1, <3>2 DEF ClearingFits
  <2> QED
    BY <2>7, <2>8, <2>9, <2>10, <2>11 DEF TrafficInv
<1> QED
  BY <1>2, <1>3

\* and a clearing call leaves what fits.
LEMMA ClearFitsToo ==
  ASSUME TrafficInv, TrafficTyped', conn_kind' = conn_kind,
         Traffic!ClearBefore \/ Traffic!ClearAll
  PROVE  TrafficInv'
<1>1. TrafficTyped /\ days \in DaysType /\ days' \in DaysType
  BY DEF TrafficInv, TrafficTyped, Counting
<1>2. UNCHANGED <<conn_moved, traffic_file, loop, clear_before, overtaken>>
      /\ clear.step = "idle"
  BY DEF Traffic!ClearBefore, Traffic!ClearAll, Traffic!core, Traffic!histories
<1>3. clear'.step \in {"idle", "waits", "waits-all"}
  BY DEF Traffic!ClearBefore, Traffic!ClearAll, Traffic!Idle
<1>4. Marks \in Numbers /\ Marks' \in Numbers /\ Traffic!ByNow \in Numbers
  BY <1>1, MarksTyped, MarksTypedNext
<1>5. \A c \in Conns : Marks[c] <= Marks'[c]
  <2>1. CASE Traffic!ClearBefore
    <3>1. UNCHANGED seen
      BY <2>1 DEF Traffic!ClearBefore
    <3> QED
      BY <1>1, <1>2, <3>1, MarksStay DEF MarksMove
  <2>2. CASE Traffic!ClearAll
    <3>1. \A c \in Conns : Marks'[c] = Traffic!ByNow[c]
      BY <1>2, <2>2 DEF Traffic!ClearAll, Marks, Traffic!ByNow
    <3> QED
      BY <1>1, <3>1, MarksTyped
  <2> QED
    BY <2>1, <2>2
<1>6. \A d \in Traffic!Days, k \in Traffic!Counted : days'[d][k] <= days[d][k]
  BY <1>1 DEF Traffic!ClearBefore, Traffic!ClearAll, Traffic!Nothing, DaysType
<1>7. ASSUME NEW b \in Numbers, Fits(conn_kind, days, b, Marks)
      PROVE  Fits(conn_kind', days', b, Marks')
  <2> HIDE DEF Marks
  <2> QED
    BY <1>1, <1>4, <1>5, <1>6, <1>7, FitsStill
<1>8. DaysFit'
  <2>1. ASSUME NEW b \in Numbers, (b = Zero \/ (~overtaken' /\ b = clear_before'))
        PROVE  Fits(conn_kind', days', b, Marks')
    BY <1>2, <1>7, <2>1 DEF TrafficInv, DaysFit, Starting
  <2> QED
    BY <2>1 DEF DaysFit, Starting
<1>9. FileFits' /\ LoopFits'
  BY <1>2 DEF TrafficInv, FileFits, LoopFits, Starting
<1>10. ClearFits'
  BY <1>3 DEF ClearFits
<1>11. ClearingFits'
  <2>1. ASSUME clear'.step = "waits-all" PROVE Fits(conn_kind', days', clear'.data, Marks')
    <3>1. Traffic!ClearAll
      BY <2>1 DEF Traffic!ClearBefore, Traffic!Idle
    <3>2. clear'.data = Traffic!ByNow /\ days' = Traffic!Nothing
      BY <3>1 DEF Traffic!ClearAll
    <3>3. \A c \in Conns : Marks'[c] = Traffic!ByNow[c]
      BY <1>2, <3>1 DEF Traffic!ClearAll, Marks, Traffic!ByNow
    <3>4. \A c \in Conns : Traffic!ByNow[c] <= Marks'[c]
      BY <1>4, <3>3 DEF Numbers
    <3> HIDE DEF Marks
    <3> QED
      BY <1>4, <3>2, <3>4, NothingFits
  <2> QED
    BY <1>3, <2>1 DEF ClearingFits
<1> QED
  BY <1>1, <1>8, <1>9, <1>10, <1>11 DEF TrafficInv

\* A clearing call begins its save with what fits,
LEMMA PersistBeginsFits ==
  ASSUME TrafficInv, TrafficTyped', conn_kind' = conn_kind, Traffic!PersistBegins
  PROVE  TrafficInv'
<1>1. TrafficTyped /\ days \in DaysType
  BY DEF TrafficInv, TrafficTyped, Counting
<1>2. UNCHANGED <<conn_moved, days, seen, traffic_file, loop, clear_before>>
  BY DEF Traffic!PersistBegins, Traffic!core
<1>3. /\ \/ clear.step = "waits" /\ clear'.step = "saves"
         \/ clear.step = "waits-all" /\ clear'.step = "saves-all"
      /\ clear'.data.days = days /\ clear'.data.moved = clear.data
      /\ overtaken' = (overtaken \/ loop.step = "saves")
  <2>1. clear' = [step |-> IF clear.step = "waits" THEN "saves" ELSE "saves-all",
                  data |-> [days |-> days, moved |-> clear.data]]
    BY DEF Traffic!PersistBegins
  <2>2. clear.step \in {"waits", "waits-all"}
    BY DEF Traffic!PersistBegins
  <2>3. overtaken' = (overtaken \/ loop.step = "saves")
    BY DEF Traffic!PersistBegins
  <2> QED
    BY <2>1, <2>2, <2>3
<1>4. MarksMove
  BY <1>1, <1>2, MarksStay
<1>5. ASSUME NEW b \in Numbers, Fits(conn_kind, days, b, Marks)
      PROVE  /\ Fits(conn_kind', days', b, Marks')
             /\ Fits(conn_kind', clear'.data.days, b, conn_moved')
  BY <1>1, <1>2, <1>3, <1>4, <1>5, FitsOn
<1>6. ASSUME NEW b \in Numbers, (b = Zero \/ (~overtaken' /\ b = clear_before'))
      PROVE  Starting(b)
  BY <1>2, <1>3, <1>6 DEF Starting, TrafficTyped, Counting
<1>7. ASSUME NEW b \in Numbers, (b = Zero \/ (~overtaken' /\ b = clear_before'))
      PROVE  /\ Fits(conn_kind', days', b, Marks')
             /\ Fits(conn_kind', clear'.data.days, b, conn_moved')
  BY <1>5, <1>6, <1>7 DEF TrafficInv, DaysFit
<1>8. DaysFit' /\ ClearFits'
  BY <1>7 DEF DaysFit, ClearFits, Starting
<1>9. FileFits' /\ LoopFits'
  <2>1. ASSUME NEW b \in Numbers, (b = Zero \/ (~overtaken' /\ b = clear_before'))
        PROVE  /\ Fits(conn_kind', traffic_file', b, conn_moved')
               /\ loop'.step = "saves" => Fits(conn_kind', loop'.data, b, conn_moved')
    BY <1>2, <1>6, <2>1 DEF TrafficInv, FileFits, LoopFits
  <2> QED
    BY <2>1 DEF FileFits, LoopFits, Starting
<1>10. ClearingFits'
  <2>1. ASSUME clear'.step = "saves-all"
        PROVE  /\ Fits(conn_kind', days', clear'.data.moved, Marks')
               /\ Fits(conn_kind', clear'.data.days, clear'.data.moved, conn_moved')
               /\ ~(loop'.step = "saves" /\ ~overtaken')
    <3>1. clear.step = "waits-all"
      BY <1>3, <2>1
    <3>2. clear.data \in Numbers /\ Fits(conn_kind, days, clear.data, Marks)
      BY <3>1 DEF TrafficInv, TrafficTyped, ClearTyped, ClearingFits
    <3> QED
      BY <1>2, <1>3, <1>5, <3>2 DEF TrafficTyped, Counting
  <2>2. clear'.step # "waits-all"
    BY <1>3
  <2> QED
    BY <2>1, <2>2 DEF ClearingFits
<1> QED
  BY <1>8, <1>9, <1>10 DEF TrafficInv

\* and ends it with a file that fits, from the clearing on if it was one of everything.
LEMMA PersistEndsFits ==
  ASSUME TrafficInv, TrafficTyped', conn_kind' = conn_kind, Traffic!PersistEnds
  PROVE  TrafficInv'
<1>1. TrafficTyped /\ days \in DaysType
  BY DEF TrafficInv, TrafficTyped, Counting
<1>2. UNCHANGED <<conn_moved, days, seen, loop>> /\ clear'.step = "idle"
  BY DEF Traffic!PersistEnds, Traffic!core, Traffic!Idle
<1>3. clear.step \in {"saves", "saves-all"}
  BY DEF Traffic!PersistEnds
<1>4. \/ /\ traffic_file' = clear.data.days /\ overtaken' = overtaken
         /\ clear_before' = IF clear.step = "saves-all" THEN clear.data.moved ELSE clear_before
      \/ /\ traffic_file' = traffic_file /\ clear_before' = clear_before /\ overtaken'
  BY DEF Traffic!PersistEnds
<1>5. \A c \in Conns : Marks'[c] = Marks[c]
  BY <1>1, <1>2, MarksStay
<1>6. MarksMove
  BY <1>1, <1>2, MarksStay
<1>7. ASSUME NEW b \in Numbers, (b = Zero \/ (~overtaken' /\ b = clear_before'))
      PROVE  /\ Fits(conn_kind, days, b, Marks)
             /\ Fits(conn_kind', traffic_file', b, conn_moved')
             /\ loop'.step = "saves" => Fits(conn_kind', loop'.data, b, conn_moved')
  <2>1. CASE Starting(b)
    BY <1>2, <1>3, <1>4, <2>1 DEF TrafficInv, DaysFit, FileFits, LoopFits, ClearFits
  <2>2. CASE ~Starting(b)
    <3>1. clear.step = "saves-all" /\ b = clear.data.moved /\ ~overtaken
          /\ traffic_file' = clear.data.days
      BY <1>3, <1>4, <1>7, <2>2 DEF Starting
    <3> QED
      BY <1>2, <3>1 DEF TrafficInv, ClearingFits
  <2> QED
    BY <2>1, <2>2
<1>8. ASSUME NEW b \in Numbers, (b = Zero \/ (~overtaken' /\ b = clear_before'))
      PROVE  Fits(conn_kind', days', b, Marks')
  BY <1>1, <1>2, <1>6, <1>7, <1>8, FitsOn
<1>9. DaysFit' /\ FileFits' /\ LoopFits'
  BY <1>7, <1>8 DEF DaysFit, FileFits, LoopFits, Starting
<1>10. ClearFits' /\ ClearingFits'
  BY <1>2 DEF ClearFits, ClearingFits
<1> QED
  BY <1>9, <1>10 DEF TrafficInv

\* A restart begins with the file, or with nothing.
LEMMA RestartFits ==
  ASSUME TrafficInv, TrafficTyped', conn_kind' = conn_kind, Traffic!Restart
  PROVE  TrafficInv'
<1>1. UNCHANGED <<conn_moved, traffic_file, clear_before, overtaken>>
      /\ loop'.step = "idle" /\ clear'.step = "idle" /\ days' \in {traffic_file, Traffic!Nothing}
  BY DEF Traffic!Restart, Traffic!core, Traffic!histories, Traffic!Idle
<1>2. \A c \in Conns : Marks'[c] = conn_moved[c]
  BY <1>1 DEF Traffic!Restart, Marks, Traffic!ByNow
<1>3. conn_moved \in Numbers /\ Marks' \in Numbers /\ traffic_file \in DaysType
      /\ days' \in DaysType
  BY MarksTypedNext DEF TrafficInv, TrafficTyped, Counting
<1>4. \A c \in Conns : conn_moved[c] <= Marks'[c]
  BY <1>2, <1>3 DEF Numbers
<1>5. ASSUME NEW b \in Numbers, (b = Zero \/ (~overtaken' /\ b = clear_before'))
      PROVE  /\ Fits(conn_kind', days', b, Marks')
             /\ Fits(conn_kind', traffic_file', b, conn_moved')
  <2>1. Fits(conn_kind, traffic_file, b, conn_moved)
    BY <1>1, <1>5 DEF TrafficInv, FileFits, Starting
  <2>2. Fits(conn_kind, days', b, conn_moved)
    BY <1>1, <1>3, <2>1, NothingFitsToo
  <2>3. \A d \in Traffic!Days, k \in Traffic!Counted : days'[d][k] <= days'[d][k]
    BY <1>3 DEF DaysType
  <2>4. Fits(conn_kind, days', b, Marks')
    <3> HIDE DEF Marks
    <3> QED
      BY <1>3, <1>4, <2>2, <2>3, FitsStill
  <2> QED
    BY <1>1, <2>1, <2>4
<1>6. DaysFit' /\ FileFits'
  BY <1>5 DEF DaysFit, FileFits, Starting
<1>7. LoopFits' /\ ClearFits' /\ ClearingFits'
  BY <1>1 DEF LoopFits, ClearFits, ClearingFits
<1> QED
  BY <1>6, <1>7 DEF TrafficInv

-----------------------------------------------------------------------------
\* The behaviour begins with the invariant,
LEMMA TrafficInit == Traffic!Init => TrafficInv
<1> SUFFICES ASSUME Traffic!Init PROVE TrafficInv
  OBVIOUS
<1>1. TrafficTyped
  BY TrafficTypedInit
<1>2. /\ days = Traffic!Nothing /\ traffic_file = Traffic!Nothing
      /\ loop.step = "idle" /\ clear.step = "idle" /\ clear_before = Zero /\ conn_moved = Zero
  BY DEF Traffic!Init, Traffic!Idle, Zero
<1>3. \A c \in Conns : seen[c] = None
  BY DEF Traffic!Init
<1>4. \A c \in Conns : Marks[c] = 0 /\ conn_moved[c] = 0
  BY <1>2, <1>3 DEF Marks, Traffic!ByNow, Zero
<1>5. Zero \in Numbers /\ \A c \in Conns : Zero[c] = 0 /\ 0 <= 0
  BY DEF Zero, Numbers
<1>6. Marks \in Numbers /\ conn_moved \in Numbers
  BY <1>1, MarksTyped DEF TrafficTyped, Counting
<1>7. /\ Fits(conn_kind, Traffic!Nothing, Zero, Marks)
      /\ Fits(conn_kind, Traffic!Nothing, Zero, conn_moved)
  <2> HIDE DEF Marks
  <2> QED
    BY <1>4, <1>5, <1>6, NothingFits
<1>8. DaysFit /\ FileFits
  BY <1>2, <1>7 DEF DaysFit, FileFits, Starting
<1>9. LoopFits /\ ClearFits /\ ClearingFits
  BY <1>2 DEF LoopFits, ClearFits, ClearingFits
<1> QED
  BY <1>1, <1>8, <1>9 DEF TrafficInv

\* and every step preserves it.
LEMMA TrafficStep == TrafficInv /\ Traffic!Next => TrafficInv'
<1> SUFFICES ASSUME TrafficInv, Traffic!Next PROVE TrafficInv'
  OBVIOUS
<1>1. TrafficTyped' /\ conn_kind' = conn_kind
  BY TrafficTypedStep DEF TrafficInv
<1> QED
  BY <1>1, CoreFits, FetchFits, PollFits, SaveFits, ClearFitsToo, PersistBeginsFits,
     PersistEndsFits, RestartFits DEF Traffic!Next

\* Traffic is counted once, whatever restarts, clearings and lost saves come between, and what
\* was cleared stays cleared (poll_once, init, clear_all, persist_now).
THEOREM TrafficHolds == Spec => []TrafficIsCounted
<1> DEFINE Sound == part = "traffic" => TrafficInv
<1>1. Init => Sound
  BY TrafficInit DEF Init
<1>2. Sound /\ [Next]_mcvars => Sound'
  <2> SUFFICES ASSUME Sound, [Next]_mcvars, part' = "traffic" PROVE TrafficInv'
    OBVIOUS
  <2>1. part = "traffic" /\ TrafficInv
    BY PartStays
  <2>2. CASE Traffic!Next
    BY <2>1, <2>2, TrafficStep
  <2>3. CASE ~Traffic!Next
    <3>1. UNCHANGED traffic_vars
      BY <2>1, <2>3, Zenon DEF Next, mcvars
    <3>2. \A c \in Conns : Traffic!ByNow'[c] = Traffic!ByNow[c]
      BY <3>1 DEF Traffic!ByNow, traffic_vars
    <3>3. TrafficTyped'
      BY <2>1, <3>1 DEF TrafficInv, TrafficTyped, Counting, LoopTyped, ClearTyped, traffic_vars
    <3>4. MarksMove
      BY <2>1, <3>1, MarksStay DEF TrafficInv, traffic_vars
    <3> QED
      BY <2>1, <3>1, <3>3, <3>4, FitsQuiet DEF traffic_vars
  <2> QED
    BY <2>2, <2>3
<1>3. TrafficInv => Traffic!CountedOnce /\ Traffic!ClearedStaysCleared
  <2> SUFFICES ASSUME TrafficInv, NEW k \in Traffic!Counted,
                      NEW b \in Numbers, b = Zero \/ (~overtaken /\ b = clear_before)
               PROVE  /\ Sum(days, k) + OfKind(conn_kind, b, k) <= OfKind(conn_kind, conn_moved, k)
                      /\ OfKind(conn_kind, Zero, k) = 0 /\ Zero \in Numbers
                      /\ Sum(days, k) \in Nat
    <3>1. \A j : /\ Traffic!Stats(j) = Sum(days, j)
                 /\ Traffic!Traffic(j) = OfKind(conn_kind, conn_moved, j)
                 /\ Traffic!SumFunctionOnSet(clear_before, Traffic!Of(j)) =
                      OfKind(conn_kind, clear_before, j)
      BY TotalIs DEF Traffic!Stats, Traffic!Traffic, Traffic!Of, Sum, OfKind
    <3>2. TrafficInv => clear_before \in Numbers /\ Zero \in Numbers
      BY DEF TrafficInv, TrafficTyped, Counting, Zero, Numbers
    <3> HIDE DEF Zero
    <3> QED
      BY <3>1, <3>2 DEF Traffic!CountedOnce, Traffic!ClearedStaysCleared
  <2>1. days \in DaysType /\ Marks \in Numbers /\ conn_moved \in Numbers
    BY MarksTyped DEF TrafficInv, TrafficTyped, Counting
  <2>2. Sum(days, k) + OfKind(conn_kind, b, k) <= OfKind(conn_kind, Marks, k)
    BY DEF TrafficInv, DaysFit, Starting, Fits
  <2>3. \A c \in Conns : Marks[c] <= conn_moved[c]
    <3>1. \A c \in Conns : Marks[c] <= Traffic!ByNow[c] /\ Traffic!ByNow[c] <= conn_moved[c]
      BY MarksTyped DEF TrafficInv
    <3>2. Traffic!ByNow \in Numbers
      BY MarksTyped DEF TrafficInv
    <3> QED
      BY <2>1, <3>1, <3>2 DEF Numbers
  <2>4. OfKind(conn_kind, Marks, k) <= OfKind(conn_kind, conn_moved, k)
    <3> HIDE DEF Marks
    <3> QED
      BY <2>1, <2>3, OfKindGrows
  <2>5. OfKind(conn_kind, Zero, k) = 0
    <3> DEFINE S == {c \in Conns : conn_kind[c] = k}
    <3>1. \A c \in S : Zero[c] = 0
      BY DEF Zero
    <3>2. IsFiniteSet(S)
      BY TrafficFinite
    <3>3. OfKind(conn_kind, Zero, k) = Total(Zero, S)
      BY DEF OfKind
    <3> HIDE DEF S
    <3> QED
      BY <3>1, <3>2, <3>3, TotalNothing
  <2>6. Zero \in Numbers
    BY DEF Zero, Numbers
  <2> QED
    BY <2>1, <2>2, <2>4, <2>5, <2>6, SumTyped, OfKindTyped
<1>4. Sound => TrafficIsCounted
  BY <1>3 DEF TrafficIsCounted
<1> HIDE DEF Sound
<1> QED
  BY <1>1, <1>2, <1>4, PTL DEF Spec

-----------------------------------------------------------------------------
\* Upgrades that found the Service running the Core can be retried and are not reported while it
\* runs another; what is installed is what was asked for, and disabled updates leave nothing that
\* could be removed; moving the application never leaves the user without one.
THEOREM ReleasesHold == Spec => []ReleasesAreSound
BY UpgradesCanBeRetried, UpdatesAreSound, MovesKeepTheApplication, PTL DEF ReleasesAreSound
=============================================================================
