------------------------------ MODULE ConfigUpdate ------------------------------
(***************************************************************************)
(* How a change of the configuration reaches the Core.  Callers (Tauri     *)
(* commands, the tray, the timer, start-up) stage edits in the Clash and   *)
(* Verge layers, generate the Runtime layer from both, validate it, write  *)
(* the runtime file, hand it to the Core by a reload, a staging in the     *)
(* Service or a restart, and save the layers.  Three mechanisms serialize  *)
(* them, each for some callers only: CONFIG_WRITE_LOCK, the flag           *)
(* config_update_in_progress and the claims of a DraftTransaction.         *)
(* A layer, a file and what the Core loaded are the sets of edits they     *)
(* contain; the edit of a caller is the caller itself.  A restart, whose   *)
(* steps CoreLifecycle has, is one step here: it reads the configuration   *)
(* once.  Readiness, PAC and the system proxy are CoreLifecycle's.         *)
(***************************************************************************)
EXTENDS DraftLayer, FiniteSets

CONSTANTS
  Callers,       \* each makes one call
  Kinds,         \* the calls they may make
  BorrowedPorts, \* the edits the ports a session may borrow make
  None,          \* no caller
  MaxFaults,     \* bound: how many steps fail
  MaxRetries     \* bound: MAX_PORT_FALLBACK_RETRIES

ASSUME EditsAssumption == Edits = Callers \cup BorrowedPorts
ASSUME BoundsAssumption == MaxFaults \in Nat /\ MaxRetries \in Nat
ASSUME CallerAssumption ==
  None \notin Callers \cup BorrowedPorts /\ BorrowedPorts \cap Callers = {}

VARIABLES
  kind,        \* the call each caller makes
  layer,       \* committed data and draft of each layer
  disk,        \* config.yaml, verge.yaml and the runtime file
  core,        \* what the running Core loaded
  mode,        \* the Running Mode
  borrowed,    \* SESSION_FALLBACK, or None
  configLock,  \* who holds CONFIG_WRITE_LOCK
  updating,    \* who set config_update_in_progress
  claim,       \* who claims each layer
  pc, call, result, faults

locks == <<configLock, updating, claim>>
process == <<core, mode>>
vars == <<kind, layer, disk, process, borrowed, locks, pc, call, result, faults>>

Layers == {"clash", "verge", "runtime"}
AllKinds ==
  {"savePorts", "patch", "patchReload", "patchRestart", "update", "tweak",
   "restart", "continueSidecar", "startup",
   "patchClash", "patchController", "changeCore", "saveAll"}

\* Neither CONFIG_WRITE_LOCK nor a claim protects what these stage.
Unclaimed == {"patchClash", "patchController", "changeCore", "saveAll", "startup"}

NoFiles == [l \in Layers |-> {}]
NoCall ==
  [yaml |-> {}, files |-> NoFiles, borrowed |-> None, running |-> FALSE, answer |-> "none", tries |-> 0]

AtRest == \A t \in Callers : pc[t] \in {"idle", "done"}
Running == mode # "NotRunning"
AnyOf(kinds) == \E t \in Callers : kind[t] \in kinds

BorrowedPort == IF borrowed = None THEN {} ELSE {borrowed}

\* What enhance makes of the profiles, the Clash and the Verge layer; a borrowed
\* port is written over the chosen one in the generated configuration only.
Generated ==
  Latest(layer.clash) \cup Latest(layer.verge) \cup BorrowedPort

\* A closure that replaces the whole draft.
Redraft(l, content) == [layer EXCEPT ![l].draft = content]
Stage(l, t) == [layer EXCEPT ![l] = EditDraft(layer[l], t)]

Init ==
  /\ kind \in [Callers -> Kinds \cap AllKinds]
  /\ Cardinality({t \in Callers : kind[t] = "startup"}) <= 1
  /\ pc = [t \in Callers |-> "idle"]
  /\ call = [t \in Callers |-> NoCall]
  /\ result = [t \in Callers |-> "none"]
  /\ faults = 0
  /\ configLock = None
  /\ updating = None
  /\ claim = [l \in Layers |-> None]
  /\ borrowed \in BorrowedPorts \cup {None}
  /\ mode \in {"Service", "Sidecar", "NotRunning"}
  /\ AnyOf({"startup"}) => borrowed = None /\ mode = "NotRunning"
  /\ LET runtime == BorrowedPort IN
       /\ layer = [l \in Layers |->
                     IF l = "runtime" /\ ~AnyOf({"startup"})
                     THEN [NewLayer EXCEPT !.committed = runtime, !.identity = 1]
                     ELSE NewLayer]
       /\ disk = [l \in Layers |-> IF l = "runtime" THEN runtime ELSE {}]
       /\ core = IF Running THEN runtime ELSE {}

-----------------------------------------------------------------------------
Goto(t, step) == pc' = [pc EXCEPT ![t] = step]
At(t, step) == pc[t] = step
Note(t, field, value) == call' = [call EXCEPT ![t][field] = value]

Succeeds == UNCHANGED faults
Fails == faults < MaxFaults /\ faults' = faults + 1

\* Return: the guards of the caller drop, its transaction discards what it did
\* not commit, the flag and the lock are released.
Discarded(t) ==
  [l \in Layers |-> IF claim[l] = t THEN DiscardDraft(layer[l]) ELSE layer[l]]
Unclaim(t) == claim' = [l \in Layers |-> IF claim[l] = t THEN None ELSE claim[l]]
FinishUpdate(t) == updating' = IF updating = t THEN None ELSE updating
Unlock(t) == configLock' = IF configLock = t THEN None ELSE configLock

Answer(t, answer) ==
  /\ Goto(t, "done")
  /\ result' = [result EXCEPT ![t] = answer]
  /\ call' = [call EXCEPT ![t] = NoCall]
  /\ Unclaim(t) /\ FinishUpdate(t) /\ Unlock(t)

\* A Core that starts loads the file generate_file has just written, or the
\* given one; a stop refused by the proxy leaves everything in place, and a
\* proxy that cannot be applied leaves the new Core running.
RestartOutcomes == {"done", "stopFails", "startFails", "proxyFails"}
Replace(outcome, content) ==
  /\ IF outcome = "done" THEN Succeeds ELSE Fails
  /\ outcome = "stopFails" => Running
  /\ CASE outcome = "stopFails" -> UNCHANGED <<process, disk>>
       [] outcome = "startFails" ->
            /\ mode' = "NotRunning"
            /\ core' = {}
            /\ disk' = [disk EXCEPT !.runtime = content]
       [] OTHER ->
            /\ mode' \in {"Service", "Sidecar"}
            /\ core' = content
            /\ disk' = [disk EXCEPT !.runtime = content]

RestartCore(outcome) == Replace(outcome, Latest(layer.runtime))
Outcome(outcome) ==
  IF outcome = "done" THEN "ok" ELSE IF outcome = "proxyFails" THEN "unproxied" ELSE "failed"

-----------------------------------------------------------------------------
(* update_config_with_force, update_runtime_config, perform_config_update *)

UpdateBusy(t) ==
  /\ updating # None
  /\ Note(t, "answer", "busy")
  /\ Goto(t, "answering")
  /\ UNCHANGED <<kind, layer, disk, process, borrowed, locks, result, faults>>

\* The flag does not exclude the fallback of the mixed port at start-up.
UpdateRefused(t) ==
  /\ updating = None
  /\ claim["runtime"] # None
  /\ Note(t, "answer", "failed")
  /\ Goto(t, "answering")
  /\ UNCHANGED <<kind, layer, disk, process, borrowed, locks, result, faults>>

UpdateStarts(t) ==
  /\ updating = None
  /\ claim["runtime"] = None
  /\ updating' = t
  /\ claim' = [claim EXCEPT !["runtime"] = t]
  /\ Goto(t, "generating")
  /\ UNCHANGED <<kind, layer, disk, process, borrowed, configLock, call, result, faults>>

EnterUpdate(t) ==
  /\ At(t, "checking") \/ (At(t, "idle") /\ kind[t] \in {"update", "tweak"})
  /\ UpdateBusy(t) \/ UpdateRefused(t) \/ UpdateStarts(t)

UpdateGenerates(t) ==
  /\ At(t, "generating")
  /\ \/ /\ Succeeds
        /\ layer' = IF kind[t] = "tweak" THEN Stage("runtime", t)
                    ELSE Redraft("runtime", Generated)
        /\ Goto(t, "validating")
        /\ UNCHANGED call
     \/ /\ kind[t] # "tweak"
        /\ Fails
        /\ Goto(t, "dropping")
        /\ Note(t, "answer", "failed")
        /\ UNCHANGED layer
  /\ UNCHANGED <<kind, disk, process, borrowed, locks, result>>

\* One serialization of the latest runtime feeds the check and the run file.
UpdateValidates(t) ==
  /\ At(t, "validating")
  /\ \/ Succeeds /\ Goto(t, "writing") /\ Note(t, "yaml", Latest(layer.runtime))
     \/ Fails /\ Goto(t, "dropping") /\ Note(t, "answer", "failed")
  /\ UNCHANGED <<kind, layer, disk, process, borrowed, locks, result>>

UpdateWrites(t) ==
  /\ At(t, "writing")
  /\ \/ /\ Succeeds
        /\ disk' = [disk EXCEPT !.runtime = call[t].yaml]
        /\ Goto(t, IF mode = "Service" THEN "staging" ELSE "reloading")
        /\ UNCHANGED call
     \/ Fails /\ Goto(t, "dropping") /\ Note(t, "answer", "failed") /\ UNCHANGED disk
  /\ UNCHANGED <<kind, layer, process, borrowed, locks, result>>

\* plan_config_application: only a refusal of the bundle itself fails.
StageAttempts ==
  {"Unsupported", "RefusedTheBundle", "RefusedForAnotherReason", "Unanswered",
   "Staged", "RestartRequired"}
Plan(attempt) ==
  CASE attempt = "Staged" -> "ReloadFrom"
    [] attempt = "RefusedTheBundle" -> "Fail"
    [] OTHER -> "ReplaceCore"

\* Silence is asked about once more: the Service may have staged the bundle
\* without delivering its reply.
Confirmed(first, again) == IF first = "Unanswered" THEN again ELSE first

\* Applying ends in a commit or in a drop.
Applied(t, answer) ==
  /\ Goto(t, IF answer = "ok" THEN "committing" ELSE "dropping")
  /\ Note(t, "answer", answer)

\* The mode was read before the lifecycle lock and is read again under it.
UpdateFindsAnotherMode(t) ==
  /\ At(t, "staging")
  /\ mode # "Service"
  /\ Applied(t, "failed")
  /\ UNCHANGED <<kind, layer, disk, process, borrowed, locks, result, faults>>

UpdateStages(t, first, again) ==
  /\ At(t, "staging")
  /\ mode = "Service"
  /\ LET plan == Plan(Confirmed(first, again)) IN
       \/ /\ plan = "Fail"
          /\ Fails
          /\ Applied(t, "failed")
          /\ UNCHANGED <<process, disk>>
       \/ /\ plan = "ReloadFrom"
          /\ Succeeds
          /\ core' = disk.runtime
          /\ Applied(t, "ok")
          /\ UNCHANGED <<mode, disk>>
       \/ /\ plan # "Fail"   \* a reload that fails replaces the Core as well
          /\ \E outcome \in RestartOutcomes :
               /\ Replace(outcome, disk.runtime)
               /\ mode' # "Sidecar"
               /\ Applied(t, Outcome(outcome))
  /\ UNCHANGED <<kind, layer, borrowed, locks, result>>

UpdateReloads(t) ==
  /\ At(t, "reloading")
  /\ \/ Running /\ Succeeds /\ core' = disk.runtime /\ Applied(t, "ok")
     \/ /\ IF Running THEN Fails ELSE Succeeds
        /\ Goto(t, "restarting")
        /\ UNCHANGED <<core, call>>
  /\ UNCHANGED <<kind, layer, disk, mode, borrowed, locks, result>>

\* Mutation of UpdateRestarts: the error of the restart is only logged.
UpdateRestartsRegardless(t) ==
  /\ At(t, "restarting")
  /\ \E outcome \in RestartOutcomes : RestartCore(outcome)
  /\ Applied(t, "ok")
  /\ UNCHANGED <<kind, layer, borrowed, locks, result>>

UpdateRestarts(t) ==
  /\ At(t, "restarting")
  /\ \E outcome \in RestartOutcomes : RestartCore(outcome) /\ Applied(t, Outcome(outcome))
  /\ UNCHANGED <<kind, layer, borrowed, locks, result>>

\* Ending the update releases the Runtime layer and the flag, and nothing else.
EndUpdate(t) ==
  /\ claim' = [claim EXCEPT !["runtime"] = None]
  /\ updating' = None
  /\ Goto(t, "answering")
  /\ UNCHANGED <<kind, disk, process, borrowed, configLock, call, result, faults>>

UpdateCommits(t) ==
  /\ At(t, "committing")
  /\ layer' = [layer EXCEPT !["runtime"] = ApplyDraft(layer.runtime)]
  /\ EndUpdate(t)

UpdateDrops(t) ==
  /\ At(t, "dropping")
  /\ layer' = [layer EXCEPT !["runtime"] = DiscardDraft(layer.runtime)]
  /\ EndUpdate(t)

UpdateReturns(t) ==
  /\ At(t, "answering")
  /\ kind[t] \in {"update", "tweak"}
  /\ Answer(t, call[t].answer)
  /\ UNCHANGED <<kind, layer, disk, process, borrowed, faults>>

-----------------------------------------------------------------------------
(* save_proxy_ports *)

LockConfig(t, kinds, next) ==
  /\ At(t, "idle")
  /\ kind[t] \in kinds
  /\ configLock = None
  /\ configLock' = t
  /\ Goto(t, next)
  /\ UNCHANGED <<kind, layer, disk, process, borrowed, updating, claim, call, result, faults>>

SaveLocks(t) == LockConfig(t, {"savePorts"}, "opening")

SaveBusy(t) ==
  /\ At(t, "opening")
  /\ updating # None
  /\ Answer(t, "busy")
  /\ UNCHANGED <<kind, layer, disk, process, borrowed, faults>>

\* Before start-up commits a Runtime layer there is nothing to probe against.
RuntimeIsThere == layer.runtime.identity > 0

SaveUnavailable(t) ==
  /\ At(t, "opening")
  /\ updating = None
  /\ ~RuntimeIsThere
  /\ Answer(t, "rejected")
  /\ UNCHANGED <<kind, layer, disk, process, borrowed, faults>>

\* The three drafts are claimed, the ports staged and the borrowed port given up.
SaveStages(t) ==
  /\ At(t, "opening")
  /\ updating = None
  /\ RuntimeIsThere
  /\ \A l \in Layers : claim[l] = None
  /\ updating' = t
  /\ claim' = [l \in Layers |-> t]
  /\ layer' = [layer EXCEPT !["clash"] = EditDraft(layer.clash, t),
                            !["verge"] = EditDraft(layer.verge, t)]
  /\ Note(t, "borrowed", borrowed)
  /\ borrowed' = None
  /\ Goto(t, "assembling")
  /\ UNCHANGED <<kind, disk, process, configLock, result, faults>>

SaveGenerates(t) ==
  /\ At(t, "assembling")
  /\ layer' = Redraft("runtime", Generated)
  /\ Goto(t, "probing")
  /\ UNCHANGED <<kind, disk, process, borrowed, locks, call, result, faults>>

\* Every failing exit puts the borrowed port back, then discards the drafts.
RestoreBorrowed(t) == borrowed' = call[t].borrowed
RejectSave(t, answer) ==
  /\ Answer(t, answer)
  /\ RestoreBorrowed(t)
  /\ layer' = Discarded(t)

\* Whether the Core runs is asked here, and not again.
SaveProbes(t) ==
  /\ At(t, "probing")
  /\ \/ /\ Succeeds
        /\ call' = [call EXCEPT ![t].running = Running, ![t].yaml = Latest(layer.runtime)]
        /\ Goto(t, "validatingPorts")
        /\ UNCHANGED <<layer, locks, borrowed, result>>
     \/ Fails /\ RejectSave(t, "rejected")
  /\ UNCHANGED <<kind, disk, process>>

SaveValidates(t) ==
  /\ At(t, "validatingPorts")
  /\ \/ /\ Succeeds
        /\ Note(t, "files", disk)
        /\ Goto(t, "writingPorts")
        /\ UNCHANGED <<layer, locks, borrowed, result>>
     \/ Fails /\ RejectSave(t, "rejected")
  /\ UNCHANGED <<kind, disk, process>>

\* A failed write may have truncated the file: it is restored with the others.
SaveWrites(t) ==
  /\ At(t, "writingPorts")
  /\ \/ /\ Succeeds
        /\ disk' = [disk EXCEPT !.runtime = call[t].yaml]
        /\ Goto(t, IF call[t].running THEN "switching" ELSE "persisting")
        /\ UNCHANGED <<layer, locks, borrowed, call, result>>
     \/ Fails /\ disk' = call[t].files /\ RejectSave(t, "rejected")
     \/ /\ faults + 2 <= MaxFaults
        /\ faults' = faults + 2
        /\ RejectSave(t, "broken")
        /\ UNCHANGED disk
  /\ UNCHANGED <<kind, process>>

SaveRestarts(t) ==
  /\ At(t, "switching")
  /\ \E outcome \in RestartOutcomes :
       /\ RestartCore(outcome)
       /\ Goto(t, IF outcome = "done" THEN "persisting" ELSE "undoing")
  /\ UNCHANGED <<kind, layer, borrowed, locks, call, result>>

\* config.yaml is written before verge.yaml, and either write may fail.
SavePersists(t) ==
  /\ At(t, "persisting")
  /\ \/ Succeeds /\ disk' = [disk EXCEPT !.clash = Latest(layer.clash)] /\ Goto(t, "persistingVerge")
     \/ Fails /\ Goto(t, "undoing") /\ UNCHANGED disk
  /\ UNCHANGED <<kind, layer, process, borrowed, locks, call, result>>

SavePersistsVerge(t) ==
  /\ At(t, "persistingVerge")
  /\ \/ /\ Succeeds
        /\ disk' = [disk EXCEPT !.verge = Latest(layer.verge)]
        /\ layer' = [l \in Layers |-> ApplyDraft(layer[l])]
        /\ Answer(t, "ok")
     \/ Fails /\ Goto(t, "undoing") /\ UNCHANGED <<disk, layer, locks, call, result>>
  /\ UNCHANGED <<kind, process, borrowed>>

\* Mutation of SaveUndoes: the files that were written stay.
SaveUndoesDrafts(t) ==
  /\ At(t, "undoing")
  /\ layer' = [l \in Layers |-> DiscardDraft(layer[l])]
  /\ Unclaim(t)
  /\ RestoreBorrowed(t)
  /\ Succeeds
  /\ Goto(t, IF call[t].running THEN "returning" ELSE "refusing")
  /\ UNCHANGED <<kind, process, configLock, updating, call, result, disk>>

\* Mutation of SaveUndoes: the borrowed port is left to the scope exit, after
\* the old Core has started again.
SaveUndoesLate(t) ==
  /\ At(t, "undoing")
  /\ layer' = [l \in Layers |-> DiscardDraft(layer[l])]
  /\ Unclaim(t)
  /\ UNCHANGED borrowed
  /\ disk' = call[t].files
  /\ Succeeds
  /\ Goto(t, IF call[t].running THEN "returning" ELSE "refusing")
  /\ UNCHANGED <<kind, process, configLock, updating, call, result>>

\* The rollback releases the claims and discards the drafts, restores the
\* borrowed port, then the files, or regenerates the runtime file.
SaveUndoes(t) ==
  /\ At(t, "undoing")
  /\ layer' = [l \in Layers |-> DiscardDraft(layer[l])]
  /\ Unclaim(t)
  /\ RestoreBorrowed(t)
  /\ \/ Succeeds /\ disk' = call[t].files /\ UNCHANGED call
     \/ /\ Fails
        /\ disk' = [disk EXCEPT !.runtime = layer.runtime.committed]
        /\ Note(t, "answer", "broken")
  /\ Goto(t, IF call[t].running THEN "returning" ELSE "refusing")
  /\ UNCHANGED <<kind, process, configLock, updating, result>>

\* The old Core is started, or restarted when one runs.
SaveReturnsToOldCore(t) ==
  /\ At(t, "returning")
  /\ \E outcome \in RestartOutcomes :
       /\ RestartCore(outcome)
       /\ IF outcome = "done" THEN UNCHANGED call ELSE Note(t, "answer", "broken")
  /\ Goto(t, "refusing")
  /\ UNCHANGED <<kind, layer, borrowed, locks, result>>

\* The failed restore of the files or of the Core is reported beside the cause.
SaveRefuses(t) ==
  /\ At(t, "refusing")
  /\ Answer(t, IF call[t].answer = "broken" THEN "broken" ELSE "rejected")
  /\ UNCHANGED <<kind, layer, disk, process, borrowed, faults>>

-----------------------------------------------------------------------------
(* apply_verge_patch_locked and process_terminated_flags *)

Patches == {"patch", "patchReload", "patchRestart"}

PatchLocks(t) == LockConfig(t, Patches, "patching")

PatchStages(t) ==
  /\ At(t, "patching")
  /\ claim["verge"] = None
  /\ claim' = [claim EXCEPT !["verge"] = t]
  /\ layer' = Stage("verge", t)
  /\ Goto(t, CASE kind[t] = "patchRestart" -> "building"
               [] kind[t] = "patchReload" -> "checking"
               [] OTHER -> "finishing")
  /\ UNCHANGED <<kind, disk, process, borrowed, configLock, updating, call, result, faults>>

Give(t, answer) == Goto(t, "reverting") /\ Note(t, "answer", answer)

\* RESTART_CORE generates the Runtime layer without claiming it ...
FlagGenerates(t) ==
  /\ At(t, "building")
  /\ \/ Succeeds /\ layer' = Redraft("runtime", Generated) /\ Goto(t, "swapping") /\ UNCHANGED call
     \/ Fails /\ Give(t, "failed") /\ UNCHANGED layer
  /\ UNCHANGED <<kind, disk, process, borrowed, locks, result>>

\* ... and restarts the Core unless an update is running.
RestartBusy(t) ==
  /\ At(t, "swapping") \/ (At(t, "idle") /\ kind[t] = "restart")
  /\ updating # None
  /\ Give(t, "busy")
  /\ UNCHANGED <<kind, layer, disk, process, borrowed, locks, result, faults>>

RestartStarts(t) ==
  /\ At(t, "swapping") \/ (At(t, "idle") /\ kind[t] = "restart")
  /\ updating = None
  /\ updating' = t
  /\ Goto(t, "swappingCore")
  /\ UNCHANGED <<kind, layer, disk, process, borrowed, configLock, claim, call, result, faults>>

\* On Linux enabling TUN reloads the configuration as well.
RestartEnds(t) ==
  /\ At(t, "swappingCore")
  /\ \E outcome \in RestartOutcomes :
       /\ RestartCore(outcome)
       /\ IF outcome = "done"
          THEN /\ \/ Goto(t, "finishing")
                  \/ kind[t] = "patchRestart" /\ Goto(t, "checking")
               /\ UNCHANGED call
          ELSE Give(t, Outcome(outcome))
  /\ updating' = None
  /\ UNCHANGED <<kind, layer, borrowed, configLock, claim, result>>

\* update_config_checked turns every outcome but Valid into an error.
UpdateChecked(t) ==
  /\ At(t, "answering")
  /\ kind[t] \notin {"update", "tweak"}
  /\ IF call[t].answer = "ok" THEN Goto(t, "finishing") ELSE Goto(t, "reverting")
  /\ UNCHANGED <<kind, layer, disk, process, borrowed, locks, call, result, faults>>

\* Mutation of PatchCommits: the lock is dropped with the transaction, before the
\* file is saved.
PatchCommitsUnlocked(t) ==
  /\ At(t, "finishing")
  /\ kind[t] \in Patches
  /\ Succeeds
  /\ layer' = [layer EXCEPT !["verge"] = ApplyDraft(layer.verge)]
  /\ Unclaim(t)
  /\ Unlock(t)
  /\ Goto(t, "saving")
  /\ UNCHANGED <<kind, disk, process, borrowed, updating, call, result>>

\* The flags left (system proxy, hotkeys, tray) may fail as well.
PatchCommits(t) ==
  /\ At(t, "finishing")
  /\ kind[t] \in Patches
  /\ \/ /\ Succeeds
        /\ layer' = [layer EXCEPT !["verge"] = ApplyDraft(layer.verge)]
        /\ Unclaim(t)
        /\ Goto(t, "saving")
        /\ UNCHANGED call
     \/ Fails /\ Give(t, "failed") /\ UNCHANGED <<layer, claim>>
  /\ UNCHANGED <<kind, disk, process, borrowed, configLock, updating, result>>

PatchSaves(t) ==
  /\ At(t, "saving")
  /\ kind[t] \in Patches
  /\ \/ Succeeds /\ disk' = [disk EXCEPT !.verge = layer.verge.committed] /\ Answer(t, "ok")
     \/ Fails /\ Answer(t, "unsaved") /\ UNCHANGED disk
  /\ UNCHANGED <<kind, layer, process, borrowed>>

PatchReverts(t) ==
  /\ At(t, "reverting")
  /\ kind[t] \in Patches
  /\ layer' = Discarded(t)
  /\ Answer(t, call[t].answer)
  /\ UNCHANGED <<kind, disk, process, borrowed, faults>>

RestartAnswers(t) ==
  /\ At(t, "finishing") \/ At(t, "reverting")
  /\ kind[t] = "restart"
  /\ Answer(t, IF At(t, "finishing") THEN "ok" ELSE call[t].answer)
  /\ UNCHANGED <<kind, layer, disk, process, borrowed, faults>>

-----------------------------------------------------------------------------
(* continue_with_sidecar: the flag, then the lock, then the lifecycle lock *)

ContinueBusy(t) ==
  /\ At(t, "idle")
  /\ kind[t] = "continueSidecar"
  /\ updating # None
  /\ Answer(t, "busy")
  /\ UNCHANGED <<kind, layer, disk, process, borrowed, faults>>

ContinueStarts(t) ==
  /\ At(t, "idle")
  /\ kind[t] = "continueSidecar"
  /\ updating = None
  /\ updating' = t
  /\ Goto(t, "continuing")
  /\ UNCHANGED <<kind, layer, disk, process, borrowed, configLock, claim, call, result, faults>>

ContinueLocks(t) ==
  /\ At(t, "continuing")
  /\ configLock = None
  /\ IF Running
     THEN Answer(t, "failed")
     ELSE /\ configLock' = t
          /\ Goto(t, "settlingTun")
          /\ UNCHANGED <<updating, claim, call, result>>
  /\ UNCHANGED <<kind, layer, disk, process, borrowed, faults>>

\* disable_tun_and_persist commits the Verge draft without claiming it (nothing
\* is staged when TUN may stay); the lock is held until the Runtime layer is
\* generated, unclaimed as well.
ContinuePrepares(t) ==
  /\ At(t, "settlingTun")
  /\ \E tunOff \in BOOLEAN :
       LET verge == IF tunOff THEN ApplyDraft(EditDraft(layer.verge, t)) ELSE layer.verge IN
         \/ /\ Succeeds
            /\ disk' = IF tunOff THEN [disk EXCEPT !.verge = verge.committed] ELSE disk
            /\ layer' = [layer EXCEPT !["verge"] = verge]
            /\ Goto(t, "buildingSidecar")
            /\ UNCHANGED <<locks, call, result>>
         \/ /\ tunOff
            /\ Fails
            /\ layer' = [layer EXCEPT !["verge"] = verge]
            /\ Answer(t, "unsaved")
            /\ UNCHANGED disk
  /\ UNCHANGED <<kind, process, borrowed>>

ContinueGenerates(t) ==
  /\ At(t, "buildingSidecar")
  /\ \/ /\ Succeeds
        /\ layer' = Redraft("runtime", Generated)
        /\ Unlock(t)
        /\ Goto(t, "launchingSidecar")
        /\ UNCHANGED <<updating, claim, call, result>>
     \/ Fails /\ Answer(t, "failed") /\ UNCHANGED layer
  /\ UNCHANGED <<kind, disk, process, borrowed>>

ContinueLaunches(t) ==
  /\ At(t, "launchingSidecar")
  /\ \/ /\ Succeeds
        /\ mode' = "Sidecar"
        /\ core' = Latest(layer.runtime)
        /\ Answer(t, "ok")
     \/ Fails /\ Answer(t, "failed") /\ UNCHANGED process
  /\ disk' = [disk EXCEPT !.runtime = Latest(layer.runtime)]
  /\ UNCHANGED <<kind, layer, borrowed>>

-----------------------------------------------------------------------------
(* init_runtime_config and CoreManager::init *)

StartupLocks(t) == LockConfig(t, {"startup"}, "probingMixed")

\* The Sidecar of this session holds the port it serves on as well as anyone
\* else; only a Core of the Service is told apart.
PortServed == core \cap BorrowedPorts = BorrowedPort
HeldBySidecar == mode = "Sidecar" /\ PortServed

StartupKeepsPort(t) ==
  /\ At(t, "probingMixed")
  /\ ~HeldBySidecar
  /\ Unlock(t)
  /\ Goto(t, IF call[t].tries = 0 THEN "materializing" ELSE "givingUp")
  /\ UNCHANGED <<kind, layer, disk, process, borrowed, updating, claim, call, result, faults>>

\* A claim of the Runtime layer by an update blocks the start of the Core.
StartupBorrows(t) ==
  /\ At(t, "probingMixed")
  /\ ~(mode = "Service" /\ PortServed)
  /\ IF HeldBySidecar THEN Succeeds ELSE Fails
  /\ IF claim["runtime"] # None
     THEN /\ Answer(t, "blocked")
          /\ UNCHANGED <<layer, borrowed>>
     ELSE /\ claim' = [claim EXCEPT !["runtime"] = t]
          /\ borrowed' \in BorrowedPorts \ {borrowed}
          /\ Note(t, "borrowed", borrowed)
          /\ Goto(t, "borrowing")
          /\ UNCHANGED <<layer, configLock, updating, result>>
  /\ UNCHANGED <<kind, disk, process>>

StartupStagesFallback(t) ==
  /\ At(t, "borrowing")
  /\ layer' = Redraft("runtime", Generated)
  /\ Goto(t, "borrowed")
  /\ UNCHANGED <<kind, disk, process, borrowed, locks, call, result, faults>>

\* init_runtime_config, unlike a retry, goes on to apply whatever is staged by then.
StartupCommitsFallback(t) ==
  /\ At(t, "borrowed")
  /\ \/ /\ Succeeds
        /\ disk' = [disk EXCEPT !.runtime = Latest(layer.runtime)]
        /\ layer' = [layer EXCEPT !["runtime"] = ApplyDraft(layer.runtime)]
        /\ Unclaim(t) /\ Unlock(t)
        /\ Goto(t, IF call[t].tries = 0 THEN "adopting" ELSE "launching")
        /\ UNCHANGED <<borrowed, updating, call, result>>
     \/ /\ Fails
        /\ layer' = Discarded(t)
        /\ RestoreBorrowed(t)
        /\ Answer(t, "blocked")
        /\ UNCHANGED disk
  /\ UNCHANGED <<kind, process>>

\* generate_and_validate: the run file first, since a refusal rewrites it.
StartupGenerates(t) ==
  /\ At(t, "materializing")
  /\ layer' = Redraft("runtime", Generated)
  /\ disk' = [disk EXCEPT !.runtime = Generated]
  /\ Goto(t, "confirming")
  /\ UNCHANGED <<kind, process, borrowed, locks, call, result, faults>>

StartupValidates(t) ==
  /\ At(t, "confirming")
  /\ \/ Succeeds /\ UNCHANGED <<layer, disk>>
     \/ /\ Fails
        /\ layer' = Redraft("runtime", Latest(layer.clash))
        /\ disk' = [disk EXCEPT !.runtime = Latest(layer.clash)]
  /\ Goto(t, "adopting")
  /\ UNCHANGED <<kind, process, borrowed, locks, call, result>>

StartupAdopts(t) ==
  /\ At(t, "adopting")
  /\ layer' = [layer EXCEPT !["runtime"] = ApplyDraft(layer.runtime)]
  /\ Goto(t, "launching")
  /\ UNCHANGED <<kind, disk, process, borrowed, locks, call, result, faults>>

\* start_core: refused while an update runs; a Core that runs already will do.
StartupLaunches(t) ==
  /\ At(t, "launching")
  /\ updating = None
  /\ \/ /\ Running
        /\ Succeeds
        /\ Answer(t, "ok")
        /\ UNCHANGED <<process, disk>>
     \/ /\ ~Running
        /\ \E outcome \in RestartOutcomes :
             /\ RestartCore(outcome)
             /\ IF outcome = "startFails"
                THEN Goto(t, "retrying") /\ UNCHANGED <<locks, call, result>>
                ELSE Answer(t, Outcome(outcome))
  /\ UNCHANGED <<kind, layer, borrowed>>

StartupLaunchBusy(t) ==
  /\ At(t, "launching")
  /\ updating # None
  /\ Goto(t, "retrying")
  /\ UNCHANGED <<kind, layer, disk, process, borrowed, locks, call, result, faults>>

\* The port is resolved again while nothing runs and retries are left.
StartupRetries(t) ==
  /\ At(t, "retrying")
  /\ call[t].tries < MaxRetries
  /\ ~Running
  /\ configLock = None
  /\ configLock' = t
  /\ Note(t, "tries", call[t].tries + 1)
  /\ Goto(t, "probingMixed")
  /\ UNCHANGED <<kind, layer, disk, process, borrowed, updating, claim, result, faults>>

StartupGivesUp(t) ==
  /\ \/ At(t, "givingUp")
     \/ At(t, "retrying") /\ (call[t].tries = MaxRetries \/ Running)
  /\ Answer(t, "failed")
  /\ UNCHANGED <<kind, layer, disk, process, borrowed, faults>>

-----------------------------------------------------------------------------
(* Writers that claim nothing: patch_clash, change_core, the exit *)

ClashStages(t) ==
  /\ At(t, "idle")
  /\ kind[t] \in {"patchClash", "patchController"}
  /\ layer' = Stage("clash", t)
  /\ Goto(t, IF kind[t] = "patchController" THEN "building" ELSE "checking")
  /\ UNCHANGED <<kind, disk, process, borrowed, locks, call, result, faults>>

ClashCommits(t) ==
  /\ At(t, "finishing")
  /\ kind[t] \in {"patchClash", "patchController"}
  /\ layer' = [layer EXCEPT !["clash"] = ApplyDraft(layer.clash)]
  /\ \/ /\ Succeeds
        /\ disk' = [disk EXCEPT !.clash = layer'.clash.committed]
        /\ Answer(t, "ok")
     \/ Fails /\ Answer(t, "unsaved") /\ UNCHANGED disk
  /\ UNCHANGED <<kind, process, borrowed>>

\* The error leaves through `?` before the arm that would discard the draft.
ClashFails(t) ==
  /\ At(t, "reverting")
  /\ kind[t] \in {"patchClash", "patchController", "changeCore"}
  /\ Answer(t, call[t].answer)
  /\ UNCHANGED <<kind, layer, disk, process, borrowed, faults>>

CoreChanges(t) ==
  /\ At(t, "idle")
  /\ kind[t] = "changeCore"
  /\ layer' = [layer EXCEPT !["verge"] = ApplyDraft(EditDraft(layer.verge, t))]
  /\ Goto(t, "saving")
  /\ UNCHANGED <<kind, disk, process, borrowed, locks, call, result, faults>>

ChangedCoreSaves(t) ==
  /\ At(t, "saving")
  /\ kind[t] = "changeCore"
  /\ \/ /\ Succeeds
        /\ disk' = [disk EXCEPT !.verge = Latest(layer.verge)]
        /\ Goto(t, "checking")
        /\ UNCHANGED <<locks, call, result>>
     \/ Fails /\ Answer(t, "unsaved") /\ UNCHANGED disk
  /\ UNCHANGED <<kind, layer, process, borrowed>>

CoreChanged(t) ==
  /\ At(t, "finishing")
  /\ kind[t] = "changeCore"
  /\ Answer(t, "ok")
  /\ UNCHANGED <<kind, layer, disk, process, borrowed, faults>>

\* apply_all_and_save_file on the way out of the application.
SaveAll(t, l, next) ==
  /\ kind[t] = "saveAll"
  /\ layer' = [layer EXCEPT ![l] = ApplyDraft(layer[l])]
  /\ disk' = [disk EXCEPT ![l] = Latest(layer[l])]
  /\ IF next = "done" THEN Answer(t, "ok") ELSE Goto(t, next) /\ UNCHANGED <<locks, call, result>>
  /\ UNCHANGED <<kind, process, borrowed, faults>>

SaveAllClash(t) == At(t, "idle") /\ SaveAll(t, "clash", "savingVerge")
SaveAllVerge(t) == At(t, "savingVerge") /\ SaveAll(t, "verge", "done")

\* The Core exits or is lost at any time.
CoreExits ==
  /\ Running
  /\ Fails
  /\ mode' = "NotRunning"
  /\ core' = {}
  /\ UNCHANGED <<kind, layer, disk, borrowed, locks, pc, call, result>>

-----------------------------------------------------------------------------
UpdateStep(t) ==
  \/ EnterUpdate(t) \/ UpdateGenerates(t) \/ UpdateValidates(t) \/ UpdateWrites(t)
  \/ UpdateFindsAnotherMode(t)
  \/ \E first, again \in StageAttempts : UpdateStages(t, first, again)
  \/ UpdateReloads(t) \/ UpdateRestarts(t) \/ UpdateCommits(t) \/ UpdateDrops(t)
  \/ UpdateReturns(t) \/ UpdateChecked(t)

SaveStep(t) ==
  \/ SaveLocks(t) \/ SaveBusy(t) \/ SaveUnavailable(t) \/ SaveStages(t) \/ SaveGenerates(t) \/ SaveProbes(t)
  \/ SaveValidates(t) \/ SaveWrites(t) \/ SaveRestarts(t) \/ SavePersists(t)
  \/ SavePersistsVerge(t) \/ SaveUndoes(t) \/ SaveReturnsToOldCore(t) \/ SaveRefuses(t)

PatchStep(t) ==
  \/ PatchLocks(t) \/ PatchStages(t) \/ FlagGenerates(t) \/ RestartBusy(t) \/ RestartStarts(t)
  \/ RestartEnds(t) \/ PatchCommits(t) \/ PatchSaves(t) \/ PatchReverts(t) \/ RestartAnswers(t)

StartupStep(t) ==
  \/ StartupLocks(t) \/ StartupKeepsPort(t) \/ StartupBorrows(t) \/ StartupStagesFallback(t)
  \/ StartupCommitsFallback(t) \/ StartupGenerates(t) \/ StartupValidates(t) \/ StartupAdopts(t)
  \/ StartupLaunches(t) \/ StartupLaunchBusy(t) \/ StartupRetries(t) \/ StartupGivesUp(t)

ContinueStep(t) ==
  \/ ContinueBusy(t) \/ ContinueStarts(t) \/ ContinueLocks(t) \/ ContinuePrepares(t)
  \/ ContinueGenerates(t) \/ ContinueLaunches(t)

UnclaimedStep(t) ==
  \/ ClashStages(t) \/ ClashCommits(t) \/ ClashFails(t) \/ CoreChanges(t)
  \/ ChangedCoreSaves(t) \/ CoreChanged(t) \/ SaveAllClash(t) \/ SaveAllVerge(t)

Step(t) ==
  \/ UpdateStep(t) \/ SaveStep(t) \/ PatchStep(t) \/ StartupStep(t) \/ ContinueStep(t)
  \/ UnclaimedStep(t)

AllReturned == (\A t \in Callers : pc[t] = "done") /\ UNCHANGED vars

Next == CoreExits \/ AllReturned \/ \E t \in Callers : Step(t)

Spec == Init /\ [][Next]_vars

-----------------------------------------------------------------------------
TypeOK ==
  /\ \A l \in Layers : layer[l] \in LayerState
  /\ disk \in [Layers -> SUBSET Edits]
  /\ core \in SUBSET Edits
  /\ mode \in {"Service", "Sidecar", "NotRunning"}
  /\ configLock \in Callers \cup {None}
  /\ updating \in Callers \cup {None}
  /\ claim \in [Layers -> Callers \cup {None}]

\* A port save that reports a rejection, its files and its Core restored, leaves
\* its ports nowhere: in no layer, no file and no Core (save_proxy_ports; who
\* claims nothing may have committed its drafts).
RejectedSaveLeavesNothing ==
  ~AnyOf(Unclaimed) =>
    \A t \in Callers :
      kind[t] = "savePorts" /\ result[t] \in {"busy", "rejected"} =>
        /\ t \notin core
        /\ \A l \in Layers :
             t \notin layer[l].committed \cup Latest(layer[l]) \cup disk[l]

\* Once a save has saved, refused or brought the old Core back, the Core serves on
\* the borrowed port exactly when the session still names it: the system proxy,
\* applied as that Core starts, and PAC never point at a dead port (every exit of
\* save_proxy_ports).
BorrowedPortIsServed ==
  ~AnyOf({"startup"}) /\ Running
    /\ (\A t \in Callers : kind[t] = "savePorts" =>
          /\ pc[t] \in {"idle", "opening", "refusing", "done"}
          /\ call[t].answer # "broken" /\ result[t] # "broken") =>
      PortServed

\* Callers that claim what they stage leave the Core on the Runtime layer that is
\* committed, whichever of their steps fail; only a proxy that cannot be applied
\* after a restart rolls back a configuration the Core goes on running.
CoreRunsCommittedRuntime ==
  AtRest /\ Running
    /\ ~AnyOf(Unclaimed \cup {"patchRestart", "continueSidecar"})
    /\ (\A t \in Callers : result[t] \notin {"unproxied", "broken"}) =>
      core = layer.runtime.committed

\* verge.yaml holds the committed settings whenever no call of this module is writing
\* them, unless a save failed and said so, or a caller committed without the lock; a
\* restore and save_webdav_config write the file too and are not among the calls.
DiskFollowsSettings ==
  configLock = None
    /\ ~AnyOf(Unclaimed)
    /\ (\A t \in Callers : result[t] \notin {"unsaved", "broken"}) =>
      disk.verge = layer.verge.committed

\* The mixed port the application names (MixedPort::desired) is the one the Core
\* serves on once every call has returned.
DesiredPortIsServed ==
  AtRest /\ Running => PortServed
=============================================================================
