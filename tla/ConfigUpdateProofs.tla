--------------------------- MODULE ConfigUpdateProofs ---------------------------
(***************************************************************************)
(* What the callers of ConfigUpdate may rely on, for any callers, ports    *)
(* and failures.  Base is the common ground: what the variables hold, who  *)
(* may be at which step, and that the update flag, CONFIG_WRITE_LOCK and   *)
(* the claims on the drafts are where the places of the calls say.  Each   *)
(* safety property then has an inductive invariant of its own over Base:   *)
(*   VergeKept    verge.yaml follows the settings (SettingsFileFollows)    *)
(*   NothingLeft  where the edit of a save is (NothingIsLeftBehind)        *)
(*   RuntimeKept  what the Core has loaded (CoreFollowsRuntime)            *)
(*   PortKept     the ports a session borrows (NamedPortIsServed)          *)
(* All of them argue in one way: a step of the holder of the flag or of    *)
(* the lock keeps the invariant, and the steps of the others are those of  *)
(* bystanders.                                                             *)
(***************************************************************************)
EXTENDS ConfigUpdate, TLAPS

\* The steps of a call that are taken under the update flag, by what they are part of.
UpdateSteps == {"generating", "validating", "writing", "staging", "reloading", "restarting",
                "committing", "dropping"}
Checking == UpdateSteps \cup {"answering"}
Writing == {"writingPorts", "switching", "persisting", "persistingVerge", "undoing"}
Staged == {"assembling", "probing", "validatingPorts"} \cup Writing
Restored == {"returning", "refusing"}
Continuing == {"continuing", "settlingTun", "buildingSidecar", "launchingSidecar"}
Starting == {"probingMixed", "materializing", "givingUp", "borrowing", "borrowed",
             "confirming", "adopting", "launching", "retrying"}

\* The operations that check a configuration before they use it, and those that may
\* restart the Core.
Checkers == {"patchReload", "patchRestart", "patchClash", "changeCore"}
Restarters == {"patchRestart", "patchController"}

\* Who may be at which step.
InPlace(t) ==
  /\ pc[t] \in {"opening"} \cup Staged \cup Restored => kind[t] = "savePorts"
  /\ pc[t] = "patching" => kind[t] \in Patches
  /\ pc[t] = "checking" => kind[t] \in Checkers
  /\ pc[t] \in Checking => kind[t] \in Checkers \cup {"update", "tweak"}
  /\ pc[t] \in {"building", "swapping"} => kind[t] \in Restarters
  /\ pc[t] = "swappingCore" => kind[t] \in Restarters \cup {"restart"}
  /\ pc[t] = "saving" => kind[t] \in Patches \cup {"changeCore"}
  /\ pc[t] \in {"finishing", "reverting"} =>
       kind[t] \in Patches \cup Checkers \cup Restarters \cup {"restart"}
  /\ pc[t] \in Continuing => kind[t] = "continueSidecar"
  /\ pc[t] \in Starting => kind[t] = "startup"
  /\ pc[t] = "savingVerge" => kind[t] = "saveAll"

\* What the variables hold, the places of the calls with them.
Answers ==
  {"none", "ok", "busy", "failed", "unproxied", "rejected", "broken", "unsaved", "blocked"}
Files == [Layers -> SUBSET Edits]
CallState ==
  [yaml : SUBSET Edits, files : Files, borrowed : BorrowedPorts \cup {None},
   running : BOOLEAN, answer : Answers, tries : Nat]

Typed ==
  /\ TypeOK
  /\ layer \in [Layers -> LayerState]
  /\ borrowed \in BorrowedPorts \cup {None}
  /\ kind \in [Callers -> AllKinds]
  /\ pc = [t \in Callers |-> pc[t]]
  /\ call \in [Callers -> CallState]
  /\ result \in [Callers -> Answers]
  /\ faults \in Nat

\* Where a caller holds the update flag, CONFIG_WRITE_LOCK and the claim on a layer.
HoldsFlag(t) ==
  pc[t] \in UpdateSteps \cup Staged \cup Restored \cup Continuing \cup {"swappingCore"}
HoldsLock(t) ==
  \/ kind[t] \in Patches \cup {"savePorts"} /\ pc[t] \notin {"idle", "done"}
  \/ pc[t] \in {"settlingTun", "buildingSidecar", "probingMixed", "borrowing", "borrowed"}
Claims(t, l) ==
  \/ pc[t] \in Staged
  \/ l = "verge" /\ kind[t] \in Patches /\ pc[t] \notin {"idle", "patching", "saving", "done"}
  \/ l = "runtime" /\ pc[t] \in UpdateSteps \cup {"borrowing", "borrowed"}

-----------------------------------------------------------------------------
\* Each method of a draft (DraftLayer) gives a layer again, and says what of it.
LEMMA LayerOps ==
  ASSUME NEW s \in LayerState
  PROVE  /\ Latest(s) \in SUBSET Edits /\ s.committed \in SUBSET Edits
         /\ s.draft # NoDraft => Latest(s) = s.draft
         /\ s.draft = NoDraft => Latest(s) = s.committed
         /\ \A e \in Edits :
              /\ EditDraft(s, e) \in LayerState
              /\ EditDraft(s, e).committed = s.committed
              /\ EditDraft(s, e).draft # NoDraft
              /\ Latest(EditDraft(s, e)) = Latest(s) \cup {e}
         /\ ApplyDraft(s) \in LayerState
         /\ ApplyDraft(s).committed = Latest(s)
         /\ ApplyDraft(s).draft = NoDraft
         /\ Latest(ApplyDraft(s)) = Latest(s)
         /\ DiscardDraft(s) \in LayerState
         /\ DiscardDraft(s).committed = s.committed
         /\ DiscardDraft(s).draft = NoDraft
         /\ Latest(DiscardDraft(s)) = s.committed
<1>1. Latest(s) \in SUBSET Edits
  BY DEF LayerState, Latest
<1>2. ASSUME NEW e \in Edits
      PROVE  /\ EditDraft(s, e) \in LayerState
             /\ EditDraft(s, e).committed = s.committed
             /\ EditDraft(s, e).draft # NoDraft
             /\ Latest(EditDraft(s, e)) = Latest(s) \cup {e}
  <2>1. Latest(s) \cup {e} \in SUBSET Edits /\ Latest(s) \cup {e} # NoDraft
    BY <1>1, NoDraftAssumption
  <2>2. /\ EditDraft(s, e) \in LayerState
        /\ EditDraft(s, e).committed = s.committed
        /\ EditDraft(s, e).draft = Latest(s) \cup {e}
    BY <2>1 DEF EditDraft, LayerState
  <2> QED
    BY <2>1, <2>2 DEF Latest
<1>3. ApplyDraft(s) \in LayerState /\ ApplyDraft(s).committed = Latest(s)
        /\ ApplyDraft(s).draft = NoDraft
  BY DEF ApplyDraft, LayerState, Latest
<1>4. DiscardDraft(s) \in LayerState /\ DiscardDraft(s).committed = s.committed
        /\ DiscardDraft(s).draft = NoDraft
  BY DEF DiscardDraft, LayerState
<1> QED
  BY <1>1, <1>2, <1>3, <1>4 DEF LayerState, Latest

\* A caller stands for its edit, which is none of the ports a session borrows.
LEMMA EditsAre ==
  /\ \A t \in Callers : t \in Edits /\ t # None
  /\ BorrowedPorts \subseteq Edits
BY EditsAssumption, CallerAssumption

\* What is generated and what a layer holds are edits.
LEMMA ContentsTyped ==
  ASSUME Typed
  PROVE  Generated \in SUBSET Edits
         /\ \A l \in Layers : Latest(layer[l]) \in SUBSET Edits
<1>1. \A l \in Layers : layer[l] \in LayerState
  BY DEF Typed
<1>2. \A l \in Layers : Latest(layer[l]) \in SUBSET Edits
  BY <1>1 DEF LayerState, Latest
<1>3. BorrowedPort \in SUBSET Edits
  BY EditsAre DEF Typed, BorrowedPort
<1> QED
  BY <1>2, <1>3 DEF Generated, Layers

-----------------------------------------------------------------------------
(* What the methods of the drafts do to the layers *)

\* A draft that is written anew, edited, applied or discarded: what the layer then
\* holds, and that no other layer changes.
LEMMA RedraftMoves ==
  ASSUME layer \in [Layers -> LayerState], NEW l \in Layers, NEW content \in SUBSET Edits
  PROVE  /\ Redraft(l, content) \in [Layers -> LayerState]
         /\ Redraft(l, content)[l].draft = content /\ content # NoDraft
         /\ Latest(Redraft(l, content)[l]) = content
         /\ \A m \in Layers : /\ Redraft(l, content)[m].committed = layer[m].committed
                              /\ m # l => Redraft(l, content)[m] = layer[m]
<1> DEFINE drafted == [layer[l] EXCEPT !.draft = content]
<1>1. /\ drafted \in LayerState /\ drafted.draft = content /\ content # NoDraft
      /\ drafted.committed = layer[l].committed
  BY NoDraftAssumption DEF LayerState
<1>2. Redraft(l, content) = [layer EXCEPT ![l] = drafted]
  BY DEF Redraft
<1> HIDE DEF drafted
<1> QED
  BY <1>1, <1>2 DEF Latest

LEMMA StageMoves ==
  ASSUME layer \in [Layers -> LayerState], NEW l \in Layers, NEW t \in Callers
  PROVE  /\ Stage(l, t) \in [Layers -> LayerState]
         /\ Stage(l, t)[l].draft # NoDraft
         /\ Latest(Stage(l, t)[l]) = Latest(layer[l]) \cup {t}
         /\ \A m \in Layers : /\ Stage(l, t)[m].committed = layer[m].committed
                              /\ m # l => Stage(l, t)[m] = layer[m]
<1> DEFINE edited == EditDraft(layer[l], t)
<1>1. /\ edited \in LayerState /\ edited.committed = layer[l].committed
      /\ edited.draft # NoDraft /\ Latest(edited) = Latest(layer[l]) \cup {t}
  BY EditsAre, LayerOps
<1>2. Stage(l, t) = [layer EXCEPT ![l] = edited]
  BY DEF Stage
<1> HIDE DEF edited
<1> QED
  BY <1>1, <1>2

LEMMA ApplyMoves ==
  ASSUME layer \in [Layers -> LayerState], NEW l \in Layers, NEW new,
         new = [layer EXCEPT ![l] = ApplyDraft(layer[l])]
  PROVE  /\ new \in [Layers -> LayerState]
         /\ new[l].draft = NoDraft
         /\ new[l].committed = Latest(layer[l]) /\ Latest(new[l]) = Latest(layer[l])
         /\ \A m \in Layers : m # l => new[m] = layer[m]
BY LayerOps

LEMMA DropMoves ==
  ASSUME layer \in [Layers -> LayerState], NEW l \in Layers, NEW new,
         new = [layer EXCEPT ![l] = DiscardDraft(layer[l])]
  PROVE  /\ new \in [Layers -> LayerState]
         /\ new[l].draft = NoDraft
         /\ new[l].committed = layer[l].committed /\ Latest(new[l]) = layer[l].committed
         /\ \A m \in Layers : m # l => new[m] = layer[m]
BY LayerOps

\* A caller that gives up discards the drafts it has claimed, and no other.
LEMMA DiscardedMoves ==
  ASSUME layer \in [Layers -> LayerState], NEW t \in Callers
  PROVE  /\ Discarded(t) \in [Layers -> LayerState]
         /\ \A l \in Layers :
              /\ Discarded(t)[l].committed = layer[l].committed
              /\ claim[l] = t => /\ Discarded(t)[l].draft = NoDraft
                                 /\ Latest(Discarded(t)[l]) = layer[l].committed
              /\ claim[l] # t => Discarded(t)[l] = layer[l]
BY LayerOps DEF Discarded

\* A save of everything, and an adoption, apply or discard each layer.
LEMMA AllMove ==
  ASSUME layer \in [Layers -> LayerState], NEW new
  PROVE  /\ new = [l \in Layers |-> DiscardDraft(layer[l])] =>
              /\ new \in [Layers -> LayerState]
              /\ \A l \in Layers : /\ new[l].draft = NoDraft
                                   /\ new[l].committed = layer[l].committed
                                   /\ Latest(new[l]) = layer[l].committed
         /\ new = [l \in Layers |-> ApplyDraft(layer[l])] =>
              /\ new \in [Layers -> LayerState]
              /\ \A l \in Layers : /\ new[l].draft = NoDraft
                                   /\ new[l].committed = Latest(layer[l])
                                   /\ Latest(new[l]) = Latest(layer[l])
BY LayerOps

-----------------------------------------------------------------------------
(* Primitive steps *)

\* What each of the primitive steps changes of the caller that takes it, and that it
\* changes nothing of the others.
LEMMA Goes ==
  ASSUME Typed, NEW t \in Callers, NEW step, Goto(t, step)
  PROVE  /\ pc' = [u \in Callers |-> pc'[u]]
         /\ pc'[t] = step
         /\ \A u \in Callers : u # t => pc'[u] = pc[u]
BY DEF Goto, Typed

\* A caller keeps what it will need again: the YAML it has generated, the files, the
\* port and the answer it has read.
LEMMA NotesYaml ==
  ASSUME Typed, NEW t \in Callers, NEW v \in SUBSET Edits, Note(t, "yaml", v)
  PROVE  /\ call' \in [Callers -> CallState]
         /\ \A u \in Callers : u # t => call'[u] = call[u]
         /\ call'[t].yaml = v
         /\ call'[t].files = call[t].files /\ call'[t].borrowed = call[t].borrowed
         /\ call'[t].running = call[t].running /\ call'[t].answer = call[t].answer
         /\ call'[t].tries = call[t].tries
<1>1. call[t] \in CallState /\ call \in [Callers -> CallState]
  BY DEF Typed
<1> QED
  BY <1>1 DEF Note, CallState

LEMMA NotesFiles ==
  ASSUME Typed, NEW t \in Callers, NEW v \in Files, Note(t, "files", v)
  PROVE  /\ call' \in [Callers -> CallState]
         /\ \A u \in Callers : u # t => call'[u] = call[u]
         /\ call'[t].files = v
         /\ call'[t].yaml = call[t].yaml /\ call'[t].borrowed = call[t].borrowed
         /\ call'[t].running = call[t].running /\ call'[t].answer = call[t].answer
         /\ call'[t].tries = call[t].tries
<1>1. call[t] \in CallState /\ call \in [Callers -> CallState]
  BY DEF Typed
<1> QED
  BY <1>1 DEF Note, CallState

LEMMA NotesBorrowed ==
  ASSUME Typed, NEW t \in Callers, NEW v \in BorrowedPorts \cup {None}, Note(t, "borrowed", v)
  PROVE  /\ call' \in [Callers -> CallState]
         /\ \A u \in Callers : u # t => call'[u] = call[u]
         /\ call'[t].borrowed = v
         /\ call'[t].yaml = call[t].yaml /\ call'[t].files = call[t].files
         /\ call'[t].running = call[t].running /\ call'[t].answer = call[t].answer
         /\ call'[t].tries = call[t].tries
<1>1. call[t] \in CallState /\ call \in [Callers -> CallState]
  BY DEF Typed
<1> QED
  BY <1>1 DEF Note, CallState

LEMMA NotesAnswer ==
  ASSUME Typed, NEW t \in Callers, NEW v \in Answers, Note(t, "answer", v)
  PROVE  /\ call' \in [Callers -> CallState]
         /\ \A u \in Callers : u # t => call'[u] = call[u]
         /\ call'[t].answer = v
         /\ call'[t].yaml = call[t].yaml /\ call'[t].files = call[t].files
         /\ call'[t].borrowed = call[t].borrowed /\ call'[t].running = call[t].running
         /\ call'[t].tries = call[t].tries
<1>1. call[t] \in CallState /\ call \in [Callers -> CallState]
  BY DEF Typed
<1> QED
  BY <1>1 DEF Note, CallState

LEMMA NotesTries ==
  ASSUME Typed, NEW t \in Callers, NEW v \in Nat, Note(t, "tries", v)
  PROVE  /\ call' \in [Callers -> CallState]
         /\ \A u \in Callers : u # t => call'[u] = call[u]
         /\ call'[t].tries = v
         /\ call'[t].yaml = call[t].yaml /\ call'[t].files = call[t].files
         /\ call'[t].borrowed = call[t].borrowed /\ call'[t].running = call[t].running
         /\ call'[t].answer = call[t].answer
<1>1. call[t] \in CallState /\ call \in [Callers -> CallState]
  BY DEF Typed
<1> QED
  BY <1>1 DEF Note, CallState

\* A step that may fail counts its failure.
LEMMA Faulty == ASSUME Typed, Succeeds \/ Fails PROVE faults' \in Nat
BY DEF Typed, Succeeds, Fails

\* A call that answers has given back the flag, the lock and every claim.
LEMMA Returns ==
  ASSUME Typed, NEW t \in Callers, NEW answer \in Answers, Answer(t, answer)
  PROVE  /\ pc' = [u \in Callers |-> pc'[u]]
         /\ call' \in [Callers -> CallState]
         /\ result' \in [Callers -> Answers]
         /\ configLock' \in Callers \cup {None}
         /\ updating' \in Callers \cup {None}
         /\ claim' \in [Layers -> Callers \cup {None}]
         /\ pc'[t] = "done" /\ result'[t] = answer /\ call'[t] = NoCall
         /\ \A u \in Callers : u # t =>
              pc'[u] = pc[u] /\ call'[u] = call[u] /\ result'[u] = result[u]
<1>1. NoCall \in CallState
  BY DEF NoCall, NoFiles, CallState, Files, Answers
<1>2. /\ pc' = [u \in Callers |-> pc'[u]]
      /\ pc'[t] = "done"
      /\ \A u \in Callers : u # t => pc'[u] = pc[u]
  BY DEF Answer, Goto, Typed
<1>3. /\ call' \in [Callers -> CallState]
      /\ call'[t] = NoCall
      /\ \A u \in Callers : u # t => call'[u] = call[u]
  BY <1>1 DEF Answer, Typed
<1>4. /\ result' \in [Callers -> Answers]
      /\ result'[t] = answer
      /\ \A u \in Callers : u # t => result'[u] = result[u]
  BY DEF Answer, Typed
<1>5. configLock' \in Callers \cup {None} /\ updating' \in Callers \cup {None}
  BY DEF Answer, Unlock, FinishUpdate, Typed, TypeOK
<1>6. claim' \in [Layers -> Callers \cup {None}]
  BY DEF Answer, Unclaim, Typed, TypeOK
<1> QED
  BY <1>2, <1>3, <1>4, <1>5, <1>6

\* A Core that is stopped and started leaves files, Core and mode in range.
LEMMA Replaces ==
  ASSUME Typed, NEW outcome \in RestartOutcomes, NEW content \in SUBSET Edits, Replace(outcome,
             content)
  PROVE  /\ disk' \in [Layers -> SUBSET Edits]
         /\ core' \in SUBSET Edits
         /\ mode' \in {"Service", "Sidecar", "NotRunning"}
         /\ faults' \in Nat
         /\ Outcome(outcome) \in Answers
<1>1. /\ disk' \in [Layers -> SUBSET Edits]
      /\ core' \in SUBSET Edits
      /\ mode' \in {"Service", "Sidecar", "NotRunning"}
  BY DEF Replace, RestartOutcomes, Typed, TypeOK, process, Layers
<1> QED
  BY <1>1, Faulty DEF Replace, Outcome, Answers

\* What typing says of the caller that takes a step.
LEMMA StateFacts ==
  ASSUME Typed, NEW t \in Callers
  PROVE  /\ call \in [Callers -> CallState] /\ result \in [Callers -> Answers]
         /\ pc = [u \in Callers |-> pc[u]]
         /\ call[t] \in CallState
         /\ call[t].answer \in Answers /\ call[t].tries \in Nat /\ call[t].tries + 1 \in Nat
         /\ call[t].yaml \in SUBSET Edits /\ call[t].files \in Files
         /\ call[t].borrowed \in BorrowedPorts \cup {None}
         /\ disk \in Files /\ borrowed \in BorrowedPorts \cup {None}
         /\ core \in SUBSET Edits /\ mode \in {"Service", "Sidecar", "NotRunning"}
         /\ configLock \in Callers \cup {None}
         /\ updating \in Callers \cup {None}
         /\ claim \in [Layers -> Callers \cup {None}]
         /\ layer \in [Layers -> LayerState] /\ faults \in Nat
         /\ Generated \in SUBSET Edits
         /\ \A l \in Layers : Latest(layer[l]) \in SUBSET Edits
              /\ layer[l].committed \in SUBSET Edits
         /\ t \in Edits /\ t # None
<1>1. call \in [Callers -> CallState] /\ call[t] \in CallState
  BY DEF Typed
<1>2. /\ call[t].answer \in Answers /\ call[t].tries \in Nat /\ call[t].tries + 1 \in Nat
      /\ call[t].yaml \in SUBSET Edits /\ call[t].files \in Files
      /\ call[t].borrowed \in BorrowedPorts \cup {None}
  BY <1>1 DEF CallState
<1>3. \A l \in Layers : Latest(layer[l]) \in SUBSET Edits /\ layer[l].committed \in SUBSET Edits
  BY ContentsTyped DEF Typed, LayerState
<1> QED
  BY <1>1, <1>2, <1>3, ContentsTyped, EditsAre DEF Typed, TypeOK, Files

\* Only the caller that takes a step moves.
OneMoves(t) ==
  /\ kind' = kind
  /\ pc[t] # "done"
  /\ result'[t] = result[t] \/ pc'[t] = "done"
  /\ pc' = [u \in Callers |-> pc'[u]]
  /\ call' \in [Callers -> CallState]
  /\ result' \in [Callers -> Answers]
  /\ \A u \in Callers : u # t =>
       pc'[u] = pc[u] /\ call'[u] = call[u] /\ result'[u] = result[u]

\* What a probe of the ports notes of the call, and what staging the ports does to the
\* settings.
LEMMA ProbeNotes ==
  ASSUME Typed, NEW t \in Callers,
         call' = [call EXCEPT ![t].running = Running, ![t].yaml = Latest(layer.runtime)]
  PROVE  /\ call' \in [Callers -> CallState]
         /\ \A u \in Callers : u # t => call'[u] = call[u]
         /\ call'[t].yaml = Latest(layer["runtime"]) /\ call'[t].running = Running
         /\ call'[t].files = call[t].files /\ call'[t].borrowed = call[t].borrowed
         /\ call'[t].answer = call[t].answer
<1> DEFINE runs == Running
           content == Latest(layer.runtime)
<1>1. runs \in BOOLEAN /\ content \in SUBSET Edits /\ call[t] \in CallState
      /\ call \in [Callers -> CallState]
  BY StateFacts DEF Running, Layers
<1> DEFINE noted == [call[t] EXCEPT !.running = runs, !.yaml = content]
<1> HIDE DEF runs, content
<1>2. /\ noted \in CallState
      /\ noted.yaml = content /\ noted.running = runs /\ noted.answer = call[t].answer
      /\ noted.files = call[t].files /\ noted.borrowed = call[t].borrowed
  BY <1>1 DEF CallState
<1>4. call' = [call EXCEPT ![t] = noted]
  BY <1>1 DEF runs, content
<1> HIDE DEF noted
<1>3. /\ call' \in [Callers -> CallState]
      /\ \A u \in Callers : u # t => call'[u] = call[u]
      /\ call'[t] = noted
  BY <1>1, <1>2, <1>4
<1> QED
  BY <1>2, <1>3 DEF runs, content

\* The ports of a save go into both drafts of the settings.
LEMMA PortsMove ==
  ASSUME Typed, NEW t \in Callers,
         layer' = [layer EXCEPT !["clash"] = EditDraft(layer.clash, t),
                                !["verge"] = EditDraft(layer.verge, t)]
  PROVE  /\ \A l \in Layers : layer'[l].committed = layer[l].committed
         /\ \A l \in {"clash", "verge"} : Latest(layer'[l]) = Latest(layer[l]) \cup {t}
         /\ layer'["runtime"] = layer["runtime"]
<1> DEFINE clash == EditDraft(layer.clash, t)
           verge == EditDraft(layer.verge, t)
<1>1. /\ clash.committed = layer["clash"].committed
           /\ Latest(clash) = Latest(layer["clash"]) \cup {t}
      /\ verge.committed = layer["verge"].committed
           /\ Latest(verge) = Latest(layer["verge"]) \cup {t}
  <2>1. layer["clash"] \in LayerState /\ layer["verge"] \in LayerState /\ t \in Edits
    BY StateFacts DEF Layers
  <2> QED
    BY <2>1, LayerOps
<1>2. layer' = [layer EXCEPT !["clash"] = clash, !["verge"] = verge]
  OBVIOUS
<1> HIDE DEF clash, verge
<1> QED
  BY <1>1, <1>2, StateFacts DEF Layers

\* A step of one caller leaves the place, the notes and the result of the others alone.
LEMMA FrameUpdateStep ==
  ASSUME Typed, NEW t \in Callers, UpdateStep(t)
  PROVE  OneMoves(t)
<1> USE DEF OneMoves, Answers, Layers, Files
<1>1. CASE EnterUpdate(t)
  BY <1>1, StateFacts, Goes, NotesAnswer DEF EnterUpdate, At, UpdateBusy, UpdateRefused,
     UpdateStarts
<1>2. CASE UpdateGenerates(t)
  BY <1>2, StateFacts, Goes, NotesAnswer DEF UpdateGenerates, At
<1>3. CASE UpdateValidates(t)
  BY <1>3, StateFacts, Goes, NotesYaml, NotesAnswer DEF UpdateValidates, At
<1>4. CASE UpdateWrites(t)
  BY <1>4, StateFacts, Goes, NotesAnswer DEF UpdateWrites, At
<1>5. CASE UpdateFindsAnotherMode(t)
  BY <1>5, StateFacts, Goes, NotesAnswer DEF UpdateFindsAnotherMode, At, Applied
<1>6. ASSUME NEW first \in StageAttempts, NEW again \in StageAttempts,
             UpdateStages(t, first, again)
      PROVE  OneMoves(t)
  <2>1. PICK answer \in Answers : Applied(t, answer)
    BY <1>6, StateFacts, Replaces DEF UpdateStages
  <2> QED
    BY <1>6, <2>1, StateFacts, Goes, NotesAnswer DEF UpdateStages, Applied, At
<1>7. CASE UpdateReloads(t)
  BY <1>7, StateFacts, Goes, NotesAnswer DEF UpdateReloads, At, Applied
<1>8. CASE UpdateRestarts(t)
  BY <1>8, StateFacts, Goes, Replaces, NotesAnswer DEF UpdateRestarts, At, Applied, RestartCore
<1>9. CASE UpdateCommits(t)
  BY <1>9, StateFacts, Goes DEF UpdateCommits, At, EndUpdate
<1>10. CASE UpdateDrops(t)
  BY <1>10, StateFacts, Goes DEF UpdateDrops, At, EndUpdate
<1>11. CASE UpdateReturns(t)
  BY <1>11, StateFacts, Goes, Returns DEF UpdateReturns, At
<1>12. CASE UpdateChecked(t)
  BY <1>12, StateFacts, Goes DEF UpdateChecked, At
<1> QED
  BY <1>1, <1>2, <1>3, <1>4, <1>5, <1>6, <1>7, <1>8, <1>9, <1>10, <1>11, <1>12 DEF UpdateStep

LEMMA FrameSaveStep ==
  ASSUME Typed, NEW t \in Callers, SaveStep(t)
  PROVE  OneMoves(t)
<1> USE DEF OneMoves, Answers, Layers, Files
<1>1. CASE SaveLocks(t)
  BY <1>1, StateFacts, Goes DEF SaveLocks, At, LockConfig
<1>2. CASE SaveBusy(t)
  BY <1>2, StateFacts, Goes, Returns DEF SaveBusy, At
<1>3. CASE SaveUnavailable(t)
  BY <1>3, StateFacts, Goes, Returns DEF SaveUnavailable, At
<1>4. CASE SaveStages(t)
  BY <1>4, StateFacts, Goes, NotesBorrowed DEF SaveStages, At
<1>5. CASE SaveGenerates(t)
  BY <1>5, StateFacts, Goes DEF SaveGenerates, At
<1>6. CASE SaveProbes(t)
  <2>1. CASE RejectSave(t, "rejected")
    BY <1>6, <2>1, StateFacts, Returns DEF SaveProbes, RejectSave, At
  <2>2. CASE ~RejectSave(t, "rejected")
    BY <1>6, <2>2, StateFacts, Goes, ProbeNotes DEF SaveProbes, At
  <2> QED
    BY <2>1, <2>2
<1>7. CASE SaveValidates(t)
  BY <1>7, StateFacts, Goes, Returns, NotesFiles DEF SaveValidates, At, RejectSave
<1>8. CASE SaveWrites(t)
  BY <1>8, StateFacts, Goes, Returns DEF SaveWrites, At, RejectSave
<1>9. CASE SaveRestarts(t)
  BY <1>9, StateFacts, Goes, Replaces DEF SaveRestarts, At, RestartCore
<1>10. CASE SavePersists(t)
  BY <1>10, StateFacts, Goes DEF SavePersists, At
<1>11. CASE SavePersistsVerge(t)
  BY <1>11, StateFacts, Goes, Returns DEF SavePersistsVerge, At
<1>12. CASE SaveUndoes(t)
  BY <1>12, StateFacts, Goes, NotesAnswer DEF SaveUndoes, At
<1>13. CASE SaveReturnsToOldCore(t)
  BY <1>13, StateFacts, Goes, Replaces, NotesAnswer DEF SaveReturnsToOldCore, At, RestartCore
<1>14. CASE SaveRefuses(t)
  BY <1>14, StateFacts, Goes, Returns DEF SaveRefuses, At
<1> QED
  BY <1>1, <1>2, <1>3, <1>4, <1>5, <1>6, <1>7, <1>8, <1>9, <1>10, <1>11, <1>12, <1>13, <1>14
     DEF SaveStep

LEMMA FramePatchStep ==
  ASSUME Typed, NEW t \in Callers, PatchStep(t)
  PROVE  OneMoves(t)
<1> USE DEF OneMoves, Answers, Layers, Files
<1>1. CASE PatchLocks(t)
  BY <1>1, StateFacts, Goes DEF PatchLocks, At, LockConfig
<1>2. CASE PatchStages(t)
  BY <1>2, StateFacts, Goes DEF PatchStages, At
<1>3. CASE FlagGenerates(t)
  BY <1>3, StateFacts, Goes, NotesAnswer DEF FlagGenerates, At, Give
<1>4. CASE RestartBusy(t)
  BY <1>4, StateFacts, Goes, NotesAnswer DEF RestartBusy, At, Give
<1>5. CASE RestartStarts(t)
  BY <1>5, StateFacts, Goes DEF RestartStarts, At
<1>6. CASE RestartEnds(t)
  BY <1>6, StateFacts, Goes, Replaces, NotesAnswer DEF RestartEnds, At, Give, RestartCore
<1>7. CASE PatchCommits(t)
  BY <1>7, StateFacts, Goes, NotesAnswer DEF PatchCommits, At, Give
<1>8. CASE PatchSaves(t)
  BY <1>8, StateFacts, Goes, Returns DEF PatchSaves, At
<1>9. CASE PatchReverts(t)
  BY <1>9, StateFacts, Goes, Returns DEF PatchReverts, At
<1>10. CASE RestartAnswers(t)
  BY <1>10, StateFacts, Goes, Returns DEF RestartAnswers, At
<1> QED
  BY <1>1, <1>2, <1>3, <1>4, <1>5, <1>6, <1>7, <1>8, <1>9, <1>10 DEF PatchStep

LEMMA FrameStartupStep ==
  ASSUME Typed, NEW t \in Callers, StartupStep(t)
  PROVE  OneMoves(t)
<1> USE DEF OneMoves, Answers, Layers, Files
<1>1. CASE StartupLocks(t)
  BY <1>1, StateFacts, Goes DEF StartupLocks, At, LockConfig
<1>2. CASE StartupKeepsPort(t)
  BY <1>2, StateFacts, Goes DEF StartupKeepsPort, At
<1>3. CASE StartupBorrows(t)
  BY <1>3, StateFacts, Goes, Returns, NotesBorrowed DEF StartupBorrows, At
<1>4. CASE StartupStagesFallback(t)
  BY <1>4, StateFacts, Goes DEF StartupStagesFallback, At
<1>5. CASE StartupCommitsFallback(t)
  BY <1>5, StateFacts, Goes, Returns DEF StartupCommitsFallback, At
<1>6. CASE StartupGenerates(t)
  BY <1>6, StateFacts, Goes DEF StartupGenerates, At
<1>7. CASE StartupValidates(t)
  BY <1>7, StateFacts, Goes DEF StartupValidates, At
<1>8. CASE StartupAdopts(t)
  BY <1>8, StateFacts, Goes DEF StartupAdopts, At
<1>9. CASE StartupLaunches(t)
  BY <1>9, StateFacts, Goes, Returns, Replaces DEF StartupLaunches, At, RestartCore
<1>10. CASE StartupLaunchBusy(t)
  BY <1>10, StateFacts, Goes DEF StartupLaunchBusy, At
<1>11. CASE StartupRetries(t)
  BY <1>11, StateFacts, Goes, NotesTries DEF StartupRetries, At
<1>12. CASE StartupGivesUp(t)
  BY <1>12, StateFacts, Goes, Returns DEF StartupGivesUp, At
<1> QED
  BY <1>1, <1>2, <1>3, <1>4, <1>5, <1>6, <1>7, <1>8, <1>9, <1>10, <1>11, <1>12 DEF StartupStep

LEMMA FrameContinueStep ==
  ASSUME Typed, NEW t \in Callers, ContinueStep(t)
  PROVE  OneMoves(t)
<1> USE DEF OneMoves, Answers, Layers, Files
<1>1. CASE ContinueBusy(t)
  BY <1>1, StateFacts, Goes, Returns DEF ContinueBusy, At
<1>2. CASE ContinueStarts(t)
  BY <1>2, StateFacts, Goes DEF ContinueStarts, At
<1>3. CASE ContinueLocks(t)
  BY <1>3, StateFacts, Goes, Returns DEF ContinueLocks, At
<1>4. CASE ContinuePrepares(t)
  BY <1>4, StateFacts, Goes, Returns DEF ContinuePrepares, At
<1>5. CASE ContinueGenerates(t)
  BY <1>5, StateFacts, Goes, Returns DEF ContinueGenerates, At
<1>6. CASE ContinueLaunches(t)
  BY <1>6, StateFacts, Goes, Returns DEF ContinueLaunches, At
<1> QED
  BY <1>1, <1>2, <1>3, <1>4, <1>5, <1>6 DEF ContinueStep

LEMMA FrameUnclaimedStep ==
  ASSUME Typed, NEW t \in Callers, UnclaimedStep(t)
  PROVE  OneMoves(t)
<1> USE DEF OneMoves, Answers, Layers, Files
<1>1. CASE ClashStages(t)
  BY <1>1, StateFacts, Goes DEF ClashStages, At
<1>2. CASE ClashCommits(t)
  BY <1>2, StateFacts, Goes, Returns DEF ClashCommits, At
<1>3. CASE ClashFails(t)
  BY <1>3, StateFacts, Goes, Returns DEF ClashFails, At
<1>4. CASE CoreChanges(t)
  BY <1>4, StateFacts, Goes DEF CoreChanges, At
<1>5. CASE ChangedCoreSaves(t)
  BY <1>5, StateFacts, Goes, Returns DEF ChangedCoreSaves, At
<1>6. CASE CoreChanged(t)
  BY <1>6, StateFacts, Goes, Returns DEF CoreChanged, At
<1>7. CASE SaveAllClash(t)
  BY <1>7, StateFacts, Goes, Returns DEF SaveAllClash, At, SaveAll
<1>8. CASE SaveAllVerge(t)
  BY <1>8, StateFacts, Goes, Returns DEF SaveAllVerge, At, SaveAll
<1> QED
  BY <1>1, <1>2, <1>3, <1>4, <1>5, <1>6, <1>7, <1>8 DEF UnclaimedStep

\* A caller takes and releases for itself alone.
LocksMove(t) ==
  /\ configLock' \in Callers \cup {None}
  /\ updating' \in Callers \cup {None}
  /\ claim' \in [Layers -> Callers \cup {None}]
  /\ updating' = t <=> HoldsFlag(t)'
  /\ configLock' = t <=> HoldsLock(t)'
  /\ \A l \in Layers : claim'[l] = t <=> Claims(t, l)'
  /\ \A u \in Callers : u # t =>
       /\ updating' = u <=> updating = u
       /\ configLock' = u <=> configLock = u
       /\ \A l \in Layers : claim'[l] = u <=> claim[l] = u

\* The holders of the flag, of the lock and of the claims are those at the steps that
\* need them.
Held(t) ==
  /\ updating = t <=> HoldsFlag(t)
  /\ configLock = t <=> HoldsLock(t)
  /\ \A l \in Layers : claim[l] = t <=> Claims(t, l)

\* What is given back was held by the caller that gives it back, or by nobody.
LEMMA Releases ==
  ASSUME Typed, NEW t \in Callers
  PROVE  /\ Unclaim(t) =>
              /\ claim' \in [Layers -> Callers \cup {None}]
              /\ \A l \in Layers : claim'[l] # t
              /\ \A u \in Callers : u # t => \A l \in Layers : claim'[l] = u <=> claim[l] = u
         /\ Unlock(t) =>
              /\ configLock' \in Callers \cup {None} /\ configLock' # t
              /\ \A u \in Callers : u # t => (configLock' = u <=> configLock = u)
         /\ FinishUpdate(t) =>
              /\ updating' \in Callers \cup {None} /\ updating' # t
              /\ \A u \in Callers : u # t => (updating' = u <=> updating = u)
BY EditsAre DEF Unclaim, Unlock, FinishUpdate, Typed, TypeOK

\* A call that has answered holds nothing.
LEMMA LocksReturned ==
  ASSUME Typed, NEW t \in Callers, NEW answer, Answer(t, answer)
  PROVE  LocksMove(t) /\ InPlace(t)'
<1>1. pc'[t] = "done"
  BY Goes DEF Answer
<1>2. ~HoldsFlag(t)' /\ ~HoldsLock(t)' /\ (\A l \in Layers : ~Claims(t, l)') /\ InPlace(t)'
  BY <1>1 DEF HoldsFlag, HoldsLock, Claims, InPlace, UpdateSteps, Staged, Writing, Restored,
     Continuing, Checking, Starting
<1> QED
  BY <1>2, Releases DEF Answer, LocksMove

\* Every step takes and gives back the flag, the lock and the claims where the places of
\* its caller say it holds them.
LEMMA LocksUpdateStep ==
  ASSUME Typed, NEW t \in Callers, InPlace(t), Held(t), kind' = kind, UpdateStep(t)
  PROVE  LocksMove(t) /\ InPlace(t)'
<1> USE DEF LocksMove, HoldsFlag, HoldsLock, Claims, InPlace, Held, UpdateSteps, Checking,
        Staged, Writing, Restored, Continuing, Starting, Patches, Checkers, Restarters, Layers
<1>1. CASE EnterUpdate(t)
  BY <1>1, StateFacts, Goes DEF EnterUpdate, At, locks, UpdateBusy, UpdateRefused, UpdateStarts
<1>2. CASE UpdateGenerates(t)
  BY <1>2, StateFacts, Goes DEF UpdateGenerates, At, locks
<1>3. CASE UpdateValidates(t)
  BY <1>3, StateFacts, Goes DEF UpdateValidates, At, locks
<1>4. CASE UpdateWrites(t)
  BY <1>4, StateFacts, Goes DEF UpdateWrites, At, locks
<1>5. CASE UpdateFindsAnotherMode(t)
  BY <1>5, StateFacts, Goes DEF UpdateFindsAnotherMode, At, locks, Applied
<1>6. ASSUME NEW first \in StageAttempts, NEW again \in StageAttempts,
             UpdateStages(t, first, again)
      PROVE  LocksMove(t) /\ InPlace(t)'
  BY <1>6, StateFacts, Goes DEF UpdateStages, At, locks, Applied
<1>7. CASE UpdateReloads(t)
  BY <1>7, StateFacts, Goes DEF UpdateReloads, At, locks, Applied
<1>8. CASE UpdateRestarts(t)
  BY <1>8, StateFacts, Goes DEF UpdateRestarts, At, locks, Applied, RestartCore
<1>9. CASE UpdateCommits(t)
  BY <1>9, StateFacts, Goes DEF UpdateCommits, At, EndUpdate
<1>10. CASE UpdateDrops(t)
  BY <1>10, StateFacts, Goes DEF UpdateDrops, At, EndUpdate
<1>11. CASE UpdateReturns(t)
  BY <1>11, StateFacts, Goes, LocksReturned, Releases DEF UpdateReturns, At
<1>12. CASE UpdateChecked(t)
  BY <1>12, StateFacts, Goes DEF UpdateChecked, At, locks
<1> QED
  BY <1>1, <1>2, <1>3, <1>4, <1>5, <1>6, <1>7, <1>8, <1>9, <1>10, <1>11, <1>12 DEF UpdateStep

LEMMA LocksSaveStep ==
  ASSUME Typed, NEW t \in Callers, InPlace(t), Held(t), kind' = kind, SaveStep(t)
  PROVE  LocksMove(t) /\ InPlace(t)'
<1> USE DEF LocksMove, HoldsFlag, HoldsLock, Claims, InPlace, Held, UpdateSteps, Checking,
        Staged, Writing, Restored, Continuing, Starting, Patches, Checkers, Restarters, Layers
<1>1. CASE SaveLocks(t)
  BY <1>1, StateFacts, Goes DEF SaveLocks, At, LockConfig
<1>2. CASE SaveBusy(t)
  BY <1>2, StateFacts, Goes, LocksReturned, Releases DEF SaveBusy, At
<1>3. CASE SaveUnavailable(t)
  BY <1>3, StateFacts, Goes, LocksReturned, Releases DEF SaveUnavailable, At
<1>4. CASE SaveStages(t)
  BY <1>4, StateFacts, Goes DEF SaveStages, At
<1>5. CASE SaveGenerates(t)
  BY <1>5, StateFacts, Goes DEF SaveGenerates, At, locks
<1>6. CASE SaveProbes(t)
  BY <1>6, StateFacts, Goes, LocksReturned, Releases DEF SaveProbes, At, locks, RejectSave
<1>7. CASE SaveValidates(t)
  BY <1>7, StateFacts, Goes, LocksReturned, Releases DEF SaveValidates, At, locks, RejectSave
<1>8. CASE SaveWrites(t)
  BY <1>8, StateFacts, Goes, LocksReturned, Releases DEF SaveWrites, At, locks, RejectSave
<1>9. CASE SaveRestarts(t)
  BY <1>9, StateFacts, Goes DEF SaveRestarts, At, locks, RestartCore
<1>10. CASE SavePersists(t)
  BY <1>10, StateFacts, Goes DEF SavePersists, At, locks
<1>11. CASE SavePersistsVerge(t)
  BY <1>11, StateFacts, Goes, LocksReturned, Releases DEF SavePersistsVerge, At, locks
<1>12. CASE SaveUndoes(t)
  BY <1>12, StateFacts, Goes, Releases DEF SaveUndoes, At
<1>13. CASE SaveReturnsToOldCore(t)
  BY <1>13, StateFacts, Goes DEF SaveReturnsToOldCore, At, locks, RestartCore
<1>14. CASE SaveRefuses(t)
  BY <1>14, StateFacts, Goes, LocksReturned, Releases DEF SaveRefuses, At
<1> QED
  BY <1>1, <1>2, <1>3, <1>4, <1>5, <1>6, <1>7, <1>8, <1>9, <1>10, <1>11, <1>12, <1>13, <1>14
     DEF SaveStep

LEMMA LocksPatchStep ==
  ASSUME Typed, NEW t \in Callers, InPlace(t), Held(t), kind' = kind, PatchStep(t)
  PROVE  LocksMove(t) /\ InPlace(t)'
<1> USE DEF LocksMove, HoldsFlag, HoldsLock, Claims, InPlace, Held, UpdateSteps, Checking,
        Staged, Writing, Restored, Continuing, Starting, Patches, Checkers, Restarters, Layers
<1>1. CASE PatchLocks(t)
  BY <1>1, StateFacts, Goes DEF PatchLocks, At, LockConfig
<1>2. CASE PatchStages(t)
  BY <1>2, StateFacts, Goes DEF PatchStages, At
<1>3. CASE FlagGenerates(t)
  BY <1>3, StateFacts, Goes DEF FlagGenerates, At, locks, Give
<1>4. CASE RestartBusy(t)
  BY <1>4, StateFacts, Goes DEF RestartBusy, At, locks, Give
<1>5. CASE RestartStarts(t)
  BY <1>5, StateFacts, Goes DEF RestartStarts, At
<1>6. CASE RestartEnds(t)
  BY <1>6, StateFacts, Goes DEF RestartEnds, At, Give, RestartCore
<1>7. CASE PatchCommits(t)
  BY <1>7, StateFacts, Goes, Releases DEF PatchCommits, At, Give
<1>8. CASE PatchSaves(t)
  BY <1>8, StateFacts, Goes, LocksReturned, Releases DEF PatchSaves, At
<1>9. CASE PatchReverts(t)
  BY <1>9, StateFacts, Goes, LocksReturned, Releases DEF PatchReverts, At
<1>10. CASE RestartAnswers(t)
  BY <1>10, StateFacts, Goes, LocksReturned, Releases DEF RestartAnswers, At
<1> QED
  BY <1>1, <1>2, <1>3, <1>4, <1>5, <1>6, <1>7, <1>8, <1>9, <1>10 DEF PatchStep

LEMMA LocksStartupStep ==
  ASSUME Typed, NEW t \in Callers, InPlace(t), Held(t), kind' = kind, StartupStep(t)
  PROVE  LocksMove(t) /\ InPlace(t)'
<1> USE DEF LocksMove, HoldsFlag, HoldsLock, Claims, InPlace, Held, UpdateSteps, Checking,
        Staged, Writing, Restored, Continuing, Starting, Patches, Checkers, Restarters, Layers
<1>1. CASE StartupLocks(t)
  BY <1>1, StateFacts, Goes DEF StartupLocks, At, LockConfig
<1>2. CASE StartupKeepsPort(t)
  BY <1>2, StateFacts, Goes, Releases DEF StartupKeepsPort, At
<1>3. CASE StartupBorrows(t)
  BY <1>3, StateFacts, Goes, LocksReturned, Releases DEF StartupBorrows, At
<1>4. CASE StartupStagesFallback(t)
  BY <1>4, StateFacts, Goes DEF StartupStagesFallback, At, locks
<1>5. CASE StartupCommitsFallback(t)
  BY <1>5, StateFacts, Goes, LocksReturned, Releases DEF StartupCommitsFallback, At
<1>6. CASE StartupGenerates(t)
  BY <1>6, StateFacts, Goes DEF StartupGenerates, At, locks
<1>7. CASE StartupValidates(t)
  BY <1>7, StateFacts, Goes DEF StartupValidates, At, locks
<1>8. CASE StartupAdopts(t)
  BY <1>8, StateFacts, Goes DEF StartupAdopts, At, locks
<1>9. CASE StartupLaunches(t)
  BY <1>9, StateFacts, Goes, LocksReturned, Releases DEF StartupLaunches, At, locks, RestartCore
<1>10. CASE StartupLaunchBusy(t)
  BY <1>10, StateFacts, Goes DEF StartupLaunchBusy, At, locks
<1>11. CASE StartupRetries(t)
  BY <1>11, StateFacts, Goes DEF StartupRetries, At
<1>12. CASE StartupGivesUp(t)
  BY <1>12, StateFacts, Goes, LocksReturned, Releases DEF StartupGivesUp, At
<1> QED
  BY <1>1, <1>2, <1>3, <1>4, <1>5, <1>6, <1>7, <1>8, <1>9, <1>10, <1>11, <1>12 DEF StartupStep

LEMMA LocksContinueStep ==
  ASSUME Typed, NEW t \in Callers, InPlace(t), Held(t), kind' = kind, ContinueStep(t)
  PROVE  LocksMove(t) /\ InPlace(t)'
<1> USE DEF LocksMove, HoldsFlag, HoldsLock, Claims, InPlace, Held, UpdateSteps, Checking,
        Staged, Writing, Restored, Continuing, Starting, Patches, Checkers, Restarters, Layers
<1>1. CASE ContinueBusy(t)
  BY <1>1, StateFacts, Goes, LocksReturned, Releases DEF ContinueBusy, At
<1>2. CASE ContinueStarts(t)
  BY <1>2, StateFacts, Goes DEF ContinueStarts, At
<1>3. CASE ContinueLocks(t)
  BY <1>3, StateFacts, Goes, LocksReturned, Releases DEF ContinueLocks, At
<1>4. CASE ContinuePrepares(t)
  BY <1>4, StateFacts, Goes, LocksReturned, Releases DEF ContinuePrepares, At, locks
<1>5. CASE ContinueGenerates(t)
  BY <1>5, StateFacts, Goes, LocksReturned, Releases DEF ContinueGenerates, At
<1>6. CASE ContinueLaunches(t)
  BY <1>6, StateFacts, Goes, LocksReturned, Releases DEF ContinueLaunches, At
<1> QED
  BY <1>1, <1>2, <1>3, <1>4, <1>5, <1>6 DEF ContinueStep

LEMMA LocksUnclaimedStep ==
  ASSUME Typed, NEW t \in Callers, InPlace(t), Held(t), kind' = kind, UnclaimedStep(t)
  PROVE  LocksMove(t) /\ InPlace(t)'
<1> USE DEF LocksMove, HoldsFlag, HoldsLock, Claims, InPlace, Held, UpdateSteps, Checking,
        Staged, Writing, Restored, Continuing, Starting, Patches, Checkers, Restarters, Layers
<1>1. CASE ClashStages(t)
  BY <1>1, StateFacts, Goes DEF ClashStages, At, locks
<1>2. CASE ClashCommits(t)
  BY <1>2, StateFacts, Goes, LocksReturned, Releases DEF ClashCommits, At
<1>3. CASE ClashFails(t)
  BY <1>3, StateFacts, Goes, LocksReturned, Releases DEF ClashFails, At
<1>4. CASE CoreChanges(t)
  BY <1>4, StateFacts, Goes DEF CoreChanges, At, locks
<1>5. CASE ChangedCoreSaves(t)
  BY <1>5, StateFacts, Goes, LocksReturned, Releases DEF ChangedCoreSaves, At, locks
<1>6. CASE CoreChanged(t)
  BY <1>6, StateFacts, Goes, LocksReturned, Releases DEF CoreChanged, At
<1>7. CASE SaveAllClash(t)
  BY <1>7, StateFacts, Goes, LocksReturned, Releases DEF SaveAllClash, At, locks, SaveAll
<1>8. CASE SaveAllVerge(t)
  BY <1>8, StateFacts, Goes, LocksReturned, Releases DEF SaveAllVerge, At, locks, SaveAll
<1> QED
  BY <1>1, <1>2, <1>3, <1>4, <1>5, <1>6, <1>7, <1>8 DEF UnclaimedStep

\* What the shared state holds.
ContentsOK ==
  /\ layer \in [Layers -> LayerState]
  /\ disk \in Files
  /\ core \in SUBSET Edits
  /\ mode \in {"Service", "Sidecar", "NotRunning"}
  /\ borrowed \in BorrowedPorts \cup {None}
  /\ faults \in Nat

\* Every step leaves the shared state in range.
LEMMA ContentsUpdateStep ==
  ASSUME Typed, NEW t \in Callers, UpdateStep(t)
  PROVE  ContentsOK'
<1> USE DEF ContentsOK, Files, Layers, process
<1>1. CASE EnterUpdate(t)
  BY <1>1, StateFacts, Faulty DEF EnterUpdate, UpdateBusy, UpdateRefused, UpdateStarts
<1>2. CASE UpdateGenerates(t)
  BY <1>2, StateFacts, Faulty, RedraftMoves, StageMoves DEF UpdateGenerates
<1>3. CASE UpdateValidates(t)
  BY <1>3, StateFacts, Faulty DEF UpdateValidates
<1>4. CASE UpdateWrites(t)
  BY <1>4, StateFacts, Faulty DEF UpdateWrites
<1>5. CASE UpdateFindsAnotherMode(t)
  BY <1>5, StateFacts, Faulty DEF UpdateFindsAnotherMode, Applied
<1>6. ASSUME NEW first \in StageAttempts, NEW again \in StageAttempts,
             UpdateStages(t, first, again)
      PROVE  ContentsOK'
  BY <1>6, StateFacts, Faulty, Replaces DEF UpdateStages, Applied, Running
<1>7. CASE UpdateReloads(t)
  BY <1>7, StateFacts, Faulty DEF UpdateReloads, Applied, Running
<1>8. CASE UpdateRestarts(t)
  BY <1>8, StateFacts, Faulty, Replaces DEF UpdateRestarts, Applied, RestartCore, Running
<1>9. CASE UpdateCommits(t)
  BY <1>9, StateFacts, Faulty, ApplyMoves DEF UpdateCommits, EndUpdate
<1>10. CASE UpdateDrops(t)
  BY <1>10, StateFacts, Faulty, DropMoves DEF UpdateDrops, EndUpdate
<1>11. CASE UpdateReturns(t)
  BY <1>11, StateFacts, Faulty DEF UpdateReturns
<1>12. CASE UpdateChecked(t)
  BY <1>12, StateFacts, Faulty DEF UpdateChecked
<1> QED
  BY <1>1, <1>2, <1>3, <1>4, <1>5, <1>6, <1>7, <1>8, <1>9, <1>10, <1>11, <1>12 DEF UpdateStep

LEMMA ContentsSaveStep ==
  ASSUME Typed, NEW t \in Callers, SaveStep(t)
  PROVE  ContentsOK'
<1> USE DEF ContentsOK, Files, Layers, process
<1>1. CASE SaveLocks(t)
  BY <1>1, StateFacts, Faulty DEF SaveLocks, LockConfig
<1>2. CASE SaveBusy(t)
  BY <1>2, StateFacts, Faulty DEF SaveBusy
<1>3. CASE SaveUnavailable(t)
  BY <1>3, StateFacts, Faulty DEF SaveUnavailable
<1>4. CASE SaveStages(t)
  BY <1>4, StateFacts, Faulty, LayerOps DEF SaveStages
<1>5. CASE SaveGenerates(t)
  BY <1>5, StateFacts, Faulty, RedraftMoves DEF SaveGenerates
<1>6. CASE SaveProbes(t)
  BY <1>6, StateFacts, Faulty, DiscardedMoves DEF SaveProbes, RestoreBorrowed, RejectSave,
     Running
<1>7. CASE SaveValidates(t)
  BY <1>7, StateFacts, Faulty, DiscardedMoves DEF SaveValidates, RestoreBorrowed, RejectSave
<1>8. CASE SaveWrites(t)
  BY <1>8, StateFacts, Faulty, DiscardedMoves DEF SaveWrites, RestoreBorrowed, RejectSave
<1>9. CASE SaveRestarts(t)
  BY <1>9, StateFacts, Faulty, Replaces DEF SaveRestarts, RestartCore, Running
<1>10. CASE SavePersists(t)
  BY <1>10, StateFacts, Faulty DEF SavePersists
<1>11. CASE SavePersistsVerge(t)
  BY <1>11, StateFacts, Faulty, AllMove DEF SavePersistsVerge
<1>12. CASE SaveUndoes(t)
  BY <1>12, StateFacts, Faulty, AllMove DEF SaveUndoes, RestoreBorrowed
<1>13. CASE SaveReturnsToOldCore(t)
  BY <1>13, StateFacts, Faulty, Replaces DEF SaveReturnsToOldCore, RestartCore, Running
<1>14. CASE SaveRefuses(t)
  BY <1>14, StateFacts, Faulty DEF SaveRefuses
<1> QED
  BY <1>1, <1>2, <1>3, <1>4, <1>5, <1>6, <1>7, <1>8, <1>9, <1>10, <1>11, <1>12, <1>13, <1>14
     DEF SaveStep

LEMMA ContentsPatchStep ==
  ASSUME Typed, NEW t \in Callers, PatchStep(t)
  PROVE  ContentsOK'
<1> USE DEF ContentsOK, Files, Layers, process
<1>1. CASE PatchLocks(t)
  BY <1>1, StateFacts, Faulty DEF PatchLocks, LockConfig
<1>2. CASE PatchStages(t)
  BY <1>2, StateFacts, Faulty, StageMoves DEF PatchStages
<1>3. CASE FlagGenerates(t)
  BY <1>3, StateFacts, Faulty, RedraftMoves DEF FlagGenerates, Give
<1>4. CASE RestartBusy(t)
  BY <1>4, StateFacts, Faulty DEF RestartBusy, Give
<1>5. CASE RestartStarts(t)
  BY <1>5, StateFacts, Faulty DEF RestartStarts
<1>6. CASE RestartEnds(t)
  BY <1>6, StateFacts, Faulty, Replaces DEF RestartEnds, Give, RestartCore, Running
<1>7. CASE PatchCommits(t)
  BY <1>7, StateFacts, Faulty, ApplyMoves DEF PatchCommits, Give
<1>8. CASE PatchSaves(t)
  BY <1>8, StateFacts, Faulty DEF PatchSaves
<1>9. CASE PatchReverts(t)
  BY <1>9, StateFacts, Faulty, DiscardedMoves DEF PatchReverts
<1>10. CASE RestartAnswers(t)
  BY <1>10, StateFacts, Faulty DEF RestartAnswers
<1> QED
  BY <1>1, <1>2, <1>3, <1>4, <1>5, <1>6, <1>7, <1>8, <1>9, <1>10 DEF PatchStep

LEMMA ContentsStartupStep ==
  ASSUME Typed, NEW t \in Callers, StartupStep(t)
  PROVE  ContentsOK'
<1> USE DEF ContentsOK, Files, Layers, process
<1>1. CASE StartupLocks(t)
  BY <1>1, StateFacts, Faulty DEF StartupLocks, LockConfig
<1>2. CASE StartupKeepsPort(t)
  BY <1>2, StateFacts, Faulty DEF StartupKeepsPort
<1>3. CASE StartupBorrows(t)
  BY <1>3, StateFacts, Faulty DEF StartupBorrows
<1>4. CASE StartupStagesFallback(t)
  BY <1>4, StateFacts, Faulty, RedraftMoves DEF StartupStagesFallback
<1>5. CASE StartupCommitsFallback(t)
  BY <1>5, StateFacts, Faulty, ApplyMoves, DiscardedMoves DEF StartupCommitsFallback,
     RestoreBorrowed
<1>6. CASE StartupGenerates(t)
  BY <1>6, StateFacts, Faulty, RedraftMoves DEF StartupGenerates
<1>7. CASE StartupValidates(t)
  BY <1>7, StateFacts, Faulty, RedraftMoves DEF StartupValidates
<1>8. CASE StartupAdopts(t)
  BY <1>8, StateFacts, Faulty, ApplyMoves DEF StartupAdopts
<1>9. CASE StartupLaunches(t)
  BY <1>9, StateFacts, Faulty, Replaces DEF StartupLaunches, RestartCore, Running
<1>10. CASE StartupLaunchBusy(t)
  BY <1>10, StateFacts, Faulty DEF StartupLaunchBusy
<1>11. CASE StartupRetries(t)
  BY <1>11, StateFacts, Faulty DEF StartupRetries, Running
<1>12. CASE StartupGivesUp(t)
  BY <1>12, StateFacts, Faulty DEF StartupGivesUp, Running
<1> QED
  BY <1>1, <1>2, <1>3, <1>4, <1>5, <1>6, <1>7, <1>8, <1>9, <1>10, <1>11, <1>12 DEF StartupStep

LEMMA ContentsContinueStep ==
  ASSUME Typed, NEW t \in Callers, ContinueStep(t)
  PROVE  ContentsOK'
<1> USE DEF ContentsOK, Files, Layers, process
<1>1. CASE ContinueBusy(t)
  BY <1>1, StateFacts, Faulty DEF ContinueBusy
<1>2. CASE ContinueStarts(t)
  BY <1>2, StateFacts, Faulty DEF ContinueStarts
<1>3. CASE ContinueLocks(t)
  BY <1>3, StateFacts, Faulty DEF ContinueLocks, Running
<1>4. CASE ContinuePrepares(t)
  <2>1. PICK tunOff \in BOOLEAN, verge \in {layer.verge, ApplyDraft(EditDraft(layer.verge, t))} :
          /\ verge = IF tunOff THEN ApplyDraft(EditDraft(layer.verge, t)) ELSE layer.verge
          /\ layer' = [layer EXCEPT !["verge"] = verge]
          /\ disk' = disk \/ disk' = [disk EXCEPT !.verge = verge.committed]
    BY <1>4 DEF ContinuePrepares
  <2>2. EditDraft(layer.verge, t) \in LayerState /\ layer.verge \in LayerState
    BY StateFacts, LayerOps
  <2>3. verge \in LayerState /\ verge.committed \in SUBSET Edits
    BY <2>1, <2>2, LayerOps
  <2>4. layer' \in [Layers -> LayerState] /\ disk' \in Files
    BY <2>1, <2>3, StateFacts
  <2> QED
    BY <1>4, <2>4, StateFacts, Faulty DEF ContinuePrepares
<1>5. CASE ContinueGenerates(t)
  BY <1>5, StateFacts, Faulty, RedraftMoves DEF ContinueGenerates
<1>6. CASE ContinueLaunches(t)
  BY <1>6, StateFacts, Faulty DEF ContinueLaunches
<1> QED
  BY <1>1, <1>2, <1>3, <1>4, <1>5, <1>6 DEF ContinueStep

LEMMA ContentsUnclaimedStep ==
  ASSUME Typed, NEW t \in Callers, UnclaimedStep(t)
  PROVE  ContentsOK'
<1> USE DEF ContentsOK, Files, Layers, process
<1>1. CASE ClashStages(t)
  BY <1>1, StateFacts, Faulty, StageMoves DEF ClashStages
<1>2. CASE ClashCommits(t)
  BY <1>2, StateFacts, Faulty, ApplyMoves DEF ClashCommits
<1>3. CASE ClashFails(t)
  BY <1>3, StateFacts, Faulty DEF ClashFails
<1>4. CASE CoreChanges(t)
  BY <1>4, StateFacts, Faulty, ApplyMoves, LayerOps DEF CoreChanges
<1>5. CASE ChangedCoreSaves(t)
  BY <1>5, StateFacts, Faulty DEF ChangedCoreSaves
<1>6. CASE CoreChanged(t)
  BY <1>6, StateFacts, Faulty DEF CoreChanged
<1>7. CASE SaveAllClash(t)
  BY <1>7, StateFacts, Faulty, ApplyMoves DEF SaveAllClash, SaveAll
<1>8. CASE SaveAllVerge(t)
  BY <1>8, StateFacts, Faulty, ApplyMoves DEF SaveAllVerge, SaveAll
<1> QED
  BY <1>1, <1>2, <1>3, <1>4, <1>5, <1>6, <1>7, <1>8 DEF UnclaimedStep

-----------------------------------------------------------------------------
(* Typing, places and exclusion together *)

\* Typing, places and exclusion are inductive together: the exclusion needs the places,
\* and the places need who may be where.
Base == Typed /\ (\A t \in Callers : InPlace(t) /\ Held(t))

\* What one step does to the caller that takes it, to the others and to the shared
\* state.
LEMMA StepMoves ==
  ASSUME Base, NEW t \in Callers, Step(t)
  PROVE  OneMoves(t) /\ LocksMove(t) /\ InPlace(t)' /\ ContentsOK'
<1>1. Typed /\ InPlace(t) /\ Held(t)
  BY DEF Base
<1>2. OneMoves(t)
  BY <1>1, FrameUpdateStep, FrameSaveStep, FramePatchStep, FrameStartupStep, FrameContinueStep,
     FrameUnclaimedStep DEF Step
<1>3. kind' = kind
  BY <1>2 DEF OneMoves
<1>4. LocksMove(t) /\ InPlace(t)'
  BY <1>1, <1>3, LocksUpdateStep, LocksSaveStep, LocksPatchStep, LocksStartupStep,
     LocksContinueStep, LocksUnclaimedStep DEF Step
<1>5. ContentsOK'
  BY <1>1, ContentsUpdateStep, ContentsSaveStep, ContentsPatchStep, ContentsStartupStep,
     ContentsContinueStep, ContentsUnclaimedStep DEF Step
<1> QED
  BY <1>2, <1>4, <1>5

\* The base of every invariant below is kept by every step.
LEMMA BaseStep == ASSUME Base, [Next]_vars PROVE Base'
<1>1. ASSUME NEW t \in Callers, Step(t) PROVE Base'
  <2>1. OneMoves(t) /\ LocksMove(t) /\ InPlace(t)' /\ ContentsOK'
    BY <1>1, StepMoves
  <2>2. Typed'
    BY <2>1 DEF Base, Typed, TypeOK, OneMoves, LocksMove, ContentsOK, Files
  <2>3. ASSUME NEW u \in Callers PROVE InPlace(u)' /\ Held(u)'
    <3>1. CASE u = t
      BY <2>1, <3>1 DEF LocksMove, Held
    <3>2. CASE u # t
      <4>1. pc'[u] = pc[u] /\ kind'[u] = kind[u]
        BY <2>1, <3>2 DEF OneMoves
      <4>2. InPlace(u)'
        BY <4>1 DEF Base, InPlace
      <4>3. HoldsFlag(u)' = HoldsFlag(u) /\ HoldsLock(u)' = HoldsLock(u)
            /\ \A l \in Layers : Claims(u, l)' = Claims(u, l)
        BY <4>1 DEF HoldsFlag, HoldsLock, Claims
      <4>4. Held(u)
        BY DEF Base
      <4>5. Held(u)'
        BY <2>1, <3>2, <4>3, <4>4 DEF LocksMove, Held
      <4> QED
        BY <4>2, <4>5
    <3> QED
      BY <3>1, <3>2
  <2> QED
    BY <2>2, <2>3 DEF Base
<1>2. CASE CoreExits
  <2>1. UNCHANGED <<kind, layer, disk, borrowed, configLock, updating, claim, pc, call, result>>
        /\ mode' = "NotRunning" /\ core' = {} /\ faults' \in Nat
    BY <1>2, Faulty DEF CoreExits, locks, Base
  <2>2. Typed'
    BY <2>1 DEF Base, Typed, TypeOK
  <2>3. \A t \in Callers : InPlace(t)' /\ Held(t)'
    BY <2>1 DEF Base, InPlace, Held, HoldsFlag, HoldsLock, Claims
  <2> QED
    BY <2>2, <2>3 DEF Base
<1>3. CASE UNCHANGED vars
  <2>1. Typed'
    BY <1>3 DEF Base, Typed, TypeOK, vars, process, locks
  <2>2. \A t \in Callers : InPlace(t)' /\ Held(t)'
    BY <1>3 DEF Base, InPlace, Held, HoldsFlag, HoldsLock, Claims, vars, locks
  <2> QED
    BY <2>1, <2>2 DEF Base
<1> QED
  BY <1>1, <1>2, <1>3 DEF Next, AllReturned

\* It holds at the start.
LEMMA BaseInit == Init => Base
<1> SUFFICES ASSUME Init PROVE Base
  OBVIOUS
<1> DEFINE port == BorrowedPort
           started == [NewLayer EXCEPT !.committed = port, !.identity = 1]
<1>1. port \in SUBSET Edits /\ borrowed \in BorrowedPorts \cup {None}
  BY EditsAre DEF Init, BorrowedPort
<1>2. NewLayer \in LayerState
  BY DEF NewLayer, LayerState
<1>3. started \in LayerState
  BY <1>1, <1>2 DEF LayerState
<1>4. \A l \in Layers : layer[l] = started \/ layer[l] = NewLayer
  BY DEF Init
<1>5. layer \in [Layers -> LayerState]
  <2>1. layer = [l \in Layers |-> layer[l]]
    BY DEF Init
  <2> QED
    BY <1>2, <1>3, <1>4, <2>1
<1>6. disk \in [Layers -> SUBSET Edits] /\ core \in SUBSET Edits
  BY <1>1 DEF Init, Running
<1>7. call \in [Callers -> CallState] /\ result \in [Callers -> Answers]
      /\ kind \in [Callers -> AllKinds] /\ pc = [t \in Callers |-> pc[t]] /\ faults \in Nat
  BY DEF Init, NoCall, NoFiles, CallState, Files, Answers
<1>8. mode \in {"Service", "Sidecar", "NotRunning"} /\ configLock = None /\ updating = None
      /\ claim = [l \in Layers |-> None]
  BY DEF Init
<1>9. Typed
  BY <1>1, <1>5, <1>6, <1>7, <1>8 DEF Typed, TypeOK
<1>10. \A t \in Callers : pc[t] = "idle" /\ t # None
  BY EditsAre DEF Init
<1>11. \A t \in Callers : InPlace(t) /\ Held(t)
  BY <1>8, <1>10 DEF InPlace, Held, HoldsFlag, HoldsLock, Claims, UpdateSteps, Checking, Staged,
     Writing, Restored, Continuing, Starting, Patches
<1> QED
  BY <1>9, <1>11 DEF Base

\* The variables stay in range, and with them the flag, the lock and the claims at the
\* callers that hold them (ConfigUpdate).
THEOREM TypeCorrect == Spec => []TypeOK
<1>1. Base => TypeOK
  BY DEF Base, Typed
<1> QED
  BY <1>1, BaseInit, BaseStep, PTL DEF Spec

-----------------------------------------------------------------------------
(* Answers *)

\* A failed undo and a proxy that could not be applied are on their way to the
\* result of the call.
Answering(t) ==
  /\ result[t] # "none" => pc[t] = "done"
  /\ call[t].answer = "broken" => pc[t] \in Restored
  /\ call[t].answer = "unproxied" => pc[t] \in {"dropping", "answering", "reverting"}

\* A call that says a word says it until its caller asks again.
Tells(t, word) == call[t].answer = word \/ result[t] = word
AnswersMove(t) ==
  /\ Answering(t)'
  /\ Tells(t, "broken") => Tells(t, "broken")'
  /\ Tells(t, "unproxied") => Tells(t, "unproxied")'

\* No step forgets that its undo failed or that its proxy could not be applied.
LEMMA AnswersUpdateStep ==
  ASSUME Typed, NEW t \in Callers, Answering(t), UpdateStep(t)
  PROVE  AnswersMove(t)
<1> USE DEF AnswersMove, Answering, Tells, Restored, Answers, NoCall, Layers, Files
<1>1. CASE EnterUpdate(t)
  BY <1>1, StateFacts, Goes, NotesAnswer DEF EnterUpdate, At, UpdateBusy, UpdateRefused,
     UpdateStarts
<1>2. CASE UpdateGenerates(t)
  BY <1>2, StateFacts, Goes, NotesAnswer DEF UpdateGenerates, At
<1>3. CASE UpdateValidates(t)
  BY <1>3, StateFacts, Goes, NotesYaml, NotesAnswer DEF UpdateValidates, At
<1>4. CASE UpdateWrites(t)
  BY <1>4, StateFacts, Goes, NotesAnswer DEF UpdateWrites, At
<1>5. CASE UpdateFindsAnotherMode(t)
  BY <1>5, StateFacts, Goes, NotesAnswer DEF UpdateFindsAnotherMode, At, Applied
<1>6. ASSUME NEW first \in StageAttempts, NEW again \in StageAttempts,
             UpdateStages(t, first, again)
      PROVE  AnswersMove(t)
  BY <1>6, StateFacts, Goes, Replaces, NotesAnswer DEF UpdateStages, At, Applied, Outcome,
     RestartOutcomes
<1>7. CASE UpdateReloads(t)
  BY <1>7, StateFacts, Goes, NotesAnswer DEF UpdateReloads, At, Applied
<1>8. CASE UpdateRestarts(t)
  BY <1>8, StateFacts, Goes, Replaces, NotesAnswer DEF UpdateRestarts, At, Applied, RestartCore,
     Outcome, RestartOutcomes
<1>9. CASE UpdateCommits(t)
  BY <1>9, StateFacts, Goes DEF UpdateCommits, At, EndUpdate
<1>10. CASE UpdateDrops(t)
  BY <1>10, StateFacts, Goes DEF UpdateDrops, At, EndUpdate
<1>11. CASE UpdateReturns(t)
  BY <1>11, StateFacts, Goes, Returns DEF UpdateReturns, At
<1>12. CASE UpdateChecked(t)
  BY <1>12, StateFacts, Goes DEF UpdateChecked, At
<1> QED
  BY <1>1, <1>2, <1>3, <1>4, <1>5, <1>6, <1>7, <1>8, <1>9, <1>10, <1>11, <1>12 DEF UpdateStep

LEMMA AnswersSaveStep ==
  ASSUME Typed, NEW t \in Callers, Answering(t), SaveStep(t)
  PROVE  AnswersMove(t)
<1> USE DEF AnswersMove, Answering, Tells, Restored, Answers, NoCall, Layers, Files
<1>1. CASE SaveLocks(t)
  BY <1>1, StateFacts, Goes DEF SaveLocks, At, LockConfig
<1>2. CASE SaveBusy(t)
  BY <1>2, StateFacts, Goes, Returns DEF SaveBusy, At
<1>3. CASE SaveUnavailable(t)
  BY <1>3, StateFacts, Goes, Returns DEF SaveUnavailable, At
<1>4. CASE SaveStages(t)
  BY <1>4, StateFacts, Goes, NotesBorrowed DEF SaveStages, At
<1>5. CASE SaveGenerates(t)
  BY <1>5, StateFacts, Goes DEF SaveGenerates, At
<1>6. CASE SaveProbes(t)
  <2>1. CASE RejectSave(t, "rejected")
    BY <1>6, <2>1, StateFacts, Returns DEF SaveProbes, RejectSave, At
  <2>2. CASE ~RejectSave(t, "rejected")
    BY <1>6, <2>2, StateFacts, Goes, ProbeNotes DEF SaveProbes, At
  <2> QED
    BY <2>1, <2>2
<1>7. CASE SaveValidates(t)
  BY <1>7, StateFacts, Goes, Returns, NotesFiles DEF SaveValidates, At, RejectSave
<1>8. CASE SaveWrites(t)
  BY <1>8, StateFacts, Goes, Returns DEF SaveWrites, At, RejectSave
<1>9. CASE SaveRestarts(t)
  BY <1>9, StateFacts, Goes, Replaces DEF SaveRestarts, At, RestartCore, RestartOutcomes
<1>10. CASE SavePersists(t)
  BY <1>10, StateFacts, Goes DEF SavePersists, At
<1>11. CASE SavePersistsVerge(t)
  BY <1>11, StateFacts, Goes, Returns DEF SavePersistsVerge, At
<1>12. CASE SaveUndoes(t)
  BY <1>12, StateFacts, Goes, NotesAnswer DEF SaveUndoes, At
<1>13. CASE SaveReturnsToOldCore(t)
  BY <1>13, StateFacts, Goes, Replaces, NotesAnswer DEF SaveReturnsToOldCore, At, RestartCore,
     RestartOutcomes
<1>14. CASE SaveRefuses(t)
  BY <1>14, StateFacts, Goes, Returns DEF SaveRefuses, At
<1> QED
  BY <1>1, <1>2, <1>3, <1>4, <1>5, <1>6, <1>7, <1>8, <1>9, <1>10, <1>11, <1>12, <1>13, <1>14
     DEF SaveStep

LEMMA AnswersPatchStep ==
  ASSUME Typed, NEW t \in Callers, Answering(t), PatchStep(t)
  PROVE  AnswersMove(t)
<1> USE DEF AnswersMove, Answering, Tells, Restored, Answers, NoCall, Layers, Files
<1>1. CASE PatchLocks(t)
  BY <1>1, StateFacts, Goes DEF PatchLocks, At, LockConfig
<1>2. CASE PatchStages(t)
  BY <1>2, StateFacts, Goes DEF PatchStages, At
<1>3. CASE FlagGenerates(t)
  BY <1>3, StateFacts, Goes, NotesAnswer DEF FlagGenerates, At, Give
<1>4. CASE RestartBusy(t)
  BY <1>4, StateFacts, Goes, NotesAnswer DEF RestartBusy, At, Give
<1>5. CASE RestartStarts(t)
  BY <1>5, StateFacts, Goes DEF RestartStarts, At
<1>6. CASE RestartEnds(t)
  BY <1>6, StateFacts, Goes, Replaces, NotesAnswer DEF RestartEnds, At, Give, RestartCore,
     Outcome, RestartOutcomes
<1>7. CASE PatchCommits(t)
  BY <1>7, StateFacts, Goes, NotesAnswer DEF PatchCommits, At, Give
<1>8. CASE PatchSaves(t)
  BY <1>8, StateFacts, Goes, Returns DEF PatchSaves, At
<1>9. CASE PatchReverts(t)
  BY <1>9, StateFacts, Goes, Returns DEF PatchReverts, At
<1>10. CASE RestartAnswers(t)
  BY <1>10, StateFacts, Goes, Returns DEF RestartAnswers, At
<1> QED
  BY <1>1, <1>2, <1>3, <1>4, <1>5, <1>6, <1>7, <1>8, <1>9, <1>10 DEF PatchStep

LEMMA AnswersStartupStep ==
  ASSUME Typed, NEW t \in Callers, Answering(t), StartupStep(t)
  PROVE  AnswersMove(t)
<1> USE DEF AnswersMove, Answering, Tells, Restored, Answers, NoCall, Layers, Files
<1>1. CASE StartupLocks(t)
  BY <1>1, StateFacts, Goes DEF StartupLocks, At, LockConfig
<1>2. CASE StartupKeepsPort(t)
  BY <1>2, StateFacts, Goes DEF StartupKeepsPort, At
<1>3. CASE StartupBorrows(t)
  BY <1>3, StateFacts, Goes, Returns, NotesBorrowed DEF StartupBorrows, At
<1>4. CASE StartupStagesFallback(t)
  BY <1>4, StateFacts, Goes DEF StartupStagesFallback, At
<1>5. CASE StartupCommitsFallback(t)
  BY <1>5, StateFacts, Goes, Returns DEF StartupCommitsFallback, At
<1>6. CASE StartupGenerates(t)
  BY <1>6, StateFacts, Goes DEF StartupGenerates, At
<1>7. CASE StartupValidates(t)
  BY <1>7, StateFacts, Goes DEF StartupValidates, At
<1>8. CASE StartupAdopts(t)
  BY <1>8, StateFacts, Goes DEF StartupAdopts, At
<1>9. CASE StartupLaunches(t)
  BY <1>9, StateFacts, Goes, Returns, Replaces DEF StartupLaunches, At, RestartCore, Outcome,
     RestartOutcomes
<1>10. CASE StartupLaunchBusy(t)
  BY <1>10, StateFacts, Goes DEF StartupLaunchBusy, At
<1>11. CASE StartupRetries(t)
  BY <1>11, StateFacts, Goes, NotesTries DEF StartupRetries, At
<1>12. CASE StartupGivesUp(t)
  BY <1>12, StateFacts, Goes, Returns DEF StartupGivesUp, At
<1> QED
  BY <1>1, <1>2, <1>3, <1>4, <1>5, <1>6, <1>7, <1>8, <1>9, <1>10, <1>11, <1>12 DEF StartupStep

LEMMA AnswersContinueStep ==
  ASSUME Typed, NEW t \in Callers, Answering(t), ContinueStep(t)
  PROVE  AnswersMove(t)
<1> USE DEF AnswersMove, Answering, Tells, Restored, Answers, NoCall, Layers, Files
<1>1. CASE ContinueBusy(t)
  BY <1>1, StateFacts, Goes, Returns DEF ContinueBusy, At
<1>2. CASE ContinueStarts(t)
  BY <1>2, StateFacts, Goes DEF ContinueStarts, At
<1>3. CASE ContinueLocks(t)
  BY <1>3, StateFacts, Goes, Returns DEF ContinueLocks, At
<1>4. CASE ContinuePrepares(t)
  BY <1>4, StateFacts, Goes, Returns DEF ContinuePrepares, At
<1>5. CASE ContinueGenerates(t)
  BY <1>5, StateFacts, Goes, Returns DEF ContinueGenerates, At
<1>6. CASE ContinueLaunches(t)
  BY <1>6, StateFacts, Goes, Returns DEF ContinueLaunches, At
<1> QED
  BY <1>1, <1>2, <1>3, <1>4, <1>5, <1>6 DEF ContinueStep

LEMMA AnswersUnclaimedStep ==
  ASSUME Typed, NEW t \in Callers, Answering(t), UnclaimedStep(t)
  PROVE  AnswersMove(t)
<1> USE DEF AnswersMove, Answering, Tells, Restored, Answers, NoCall, Layers, Files
<1>1. CASE ClashStages(t)
  BY <1>1, StateFacts, Goes DEF ClashStages, At
<1>2. CASE ClashCommits(t)
  BY <1>2, StateFacts, Goes, Returns DEF ClashCommits, At
<1>3. CASE ClashFails(t)
  BY <1>3, StateFacts, Goes, Returns DEF ClashFails, At
<1>4. CASE CoreChanges(t)
  BY <1>4, StateFacts, Goes DEF CoreChanges, At
<1>5. CASE ChangedCoreSaves(t)
  BY <1>5, StateFacts, Goes, Returns DEF ChangedCoreSaves, At
<1>6. CASE CoreChanged(t)
  BY <1>6, StateFacts, Goes, Returns DEF CoreChanged, At
<1>7. CASE SaveAllClash(t)
  BY <1>7, StateFacts, Goes, Returns DEF SaveAllClash, At, SaveAll
<1>8. CASE SaveAllVerge(t)
  BY <1>8, StateFacts, Goes, Returns DEF SaveAllVerge, At, SaveAll
<1> QED
  BY <1>1, <1>2, <1>3, <1>4, <1>5, <1>6, <1>7, <1>8 DEF UnclaimedStep

\* At the start no call has answered.
LEMMA AnsweringInit == Init => \A t \in Callers : Answering(t)
BY DEF Init, Answering, NoCall

\* The same for any step, and for the callers that do not take it.
LEMMA AnswersStep ==
  ASSUME Base, \A t \in Callers : Answering(t), NEW t \in Callers, Step(t)
  PROVE  AnswersMove(t)
BY AnswersUpdateStep, AnswersSaveStep, AnswersPatchStep, AnswersStartupStep,
   AnswersContinueStep, AnswersUnclaimedStep DEF Base, Step

LEMMA AnsweringStep ==
  ASSUME Base, \A t \in Callers : Answering(t), [Next]_vars
  PROVE  \A t \in Callers : Answering(t)'
<1>1. ASSUME NEW t \in Callers, Step(t), NEW u \in Callers PROVE Answering(u)'
  <2>1. CASE u = t
    BY <1>1, <2>1, AnswersStep DEF AnswersMove
  <2>2. CASE u # t
    BY <1>1, <2>2, StepMoves DEF OneMoves, Answering
  <2> QED
    BY <2>1, <2>2
<1>2. CASE CoreExits
  BY <1>2 DEF CoreExits, Answering
<1>3. CASE UNCHANGED vars
  BY <1>3 DEF vars, Answering
<1> QED
  BY <1>1, <1>2, <1>3 DEF Next, AllReturned

-----------------------------------------------------------------------------
(* verge.yaml follows the settings *)

\* No caller writes without a claim, and no file was left behind by a failed write.
Clean ==
  /\ ~AnyOf(Unclaimed)
  /\ \A t \in Callers : result[t] \notin {"unsaved", "broken"}

\* What a save restores is the settings as well, until it commits its own.
VergeKept ==
  Clean =>
    /\ (\A t \in Callers : pc[t] # "saving") => disk["verge"] = layer["verge"].committed
    /\ \A t \in Callers : pc[t] \in Writing => call[t].files["verge"] = layer["verge"].committed

\* A save that undoes writes back the files it has read.
Restores(t) ==
  /\ pc[t] \in Writing
  /\ disk' = call[t].files
  /\ layer'["verge"].committed = layer["verge"].committed

\* A caller that touches the settings or their file holds the lock, and leaves
\* them equal, on their way, or says that the file could not be written.
VergeMoves(t) ==
  /\ \/ disk'["verge"] = disk["verge"] /\ layer'["verge"].committed = layer["verge"].committed
     \/ /\ HoldsLock(t)
        /\ \/ disk'["verge"] = layer'["verge"].committed
           \/ pc'[t] = "saving"
           \/ result'[t] = "unsaved"
           \/ Restores(t)
  /\ pc[t] = "saving" => disk'["verge"] = layer'["verge"].committed \/ result'[t] = "unsaved"
  /\ pc'[t] \in Writing =>
       /\ layer'["verge"].committed = layer["verge"].committed
       /\ \/ pc[t] \in Writing /\ call'[t].files = call[t].files
          \/ call'[t].files = disk /\ disk' = disk /\ HoldsLock(t) /\ pc[t] # "saving"

\* Every step leaves verge.yaml equal to the settings, on its way to them, or its caller
\* says so.
LEMMA VergeUpdateStep ==
  ASSUME Typed, NEW t \in Callers, InPlace(t), kind[t] \notin Unclaimed, UpdateStep(t)
  PROVE  VergeMoves(t)
<1> USE DEF VergeMoves, Restores, HoldsLock, Writing, Answers, Unclaimed, Patches, Layers, Files
<1>1. CASE EnterUpdate(t)
  BY <1>1, StateFacts, NotesAnswer, Goes DEF EnterUpdate, At, process, UpdateBusy,
     UpdateRefused, UpdateStarts
<1>2. CASE UpdateGenerates(t)
  BY <1>2, StateFacts, RedraftMoves, StageMoves, NotesAnswer, Goes DEF UpdateGenerates, At,
     process
<1>3. CASE UpdateValidates(t)
  BY <1>3, StateFacts, NotesYaml, NotesAnswer, Goes DEF UpdateValidates, At, process
<1>4. CASE UpdateWrites(t)
  BY <1>4, StateFacts, NotesAnswer, Goes DEF UpdateWrites, At, process
<1>5. CASE UpdateFindsAnotherMode(t)
  BY <1>5, StateFacts, NotesAnswer, Goes DEF UpdateFindsAnotherMode, At, process, Applied
<1>6. ASSUME NEW first \in StageAttempts, NEW again \in StageAttempts,
             UpdateStages(t, first, again)
      PROVE  VergeMoves(t)
  BY <1>6, StateFacts, NotesAnswer, Goes DEF UpdateStages, At, process, Applied, Replace,
     RestartOutcomes
<1>7. CASE UpdateReloads(t)
  BY <1>7, StateFacts, NotesAnswer, Goes DEF UpdateReloads, At, Applied
<1>8. CASE UpdateRestarts(t)
  BY <1>8, StateFacts, NotesAnswer, Goes DEF UpdateRestarts, At, process, Applied, RestartCore,
     Replace, RestartOutcomes
<1>9. CASE UpdateCommits(t)
  BY <1>9, StateFacts, ApplyMoves, Goes DEF UpdateCommits, At, process, EndUpdate
<1>10. CASE UpdateDrops(t)
  BY <1>10, StateFacts, DropMoves, Goes DEF UpdateDrops, At, process, EndUpdate
<1>11. CASE UpdateReturns(t)
  BY <1>11, StateFacts, Goes, Returns DEF UpdateReturns, At, process
<1>12. CASE UpdateChecked(t)
  BY <1>12, StateFacts, Goes DEF UpdateChecked, At, process
<1> QED
  BY <1>1, <1>2, <1>3, <1>4, <1>5, <1>6, <1>7, <1>8, <1>9, <1>10, <1>11, <1>12 DEF UpdateStep

LEMMA VergeSaveStep ==
  ASSUME Typed, NEW t \in Callers, InPlace(t), kind[t] \notin Unclaimed, SaveStep(t)
  PROVE  VergeMoves(t)
<1> USE DEF VergeMoves, Restores, HoldsLock, Writing, Answers, Unclaimed, Patches, Layers, Files
<1>1. CASE SaveLocks(t)
  BY <1>1, StateFacts, Goes DEF SaveLocks, At, process, LockConfig
<1>2. CASE SaveBusy(t)
  BY <1>2, StateFacts, Goes, Returns DEF SaveBusy, At, process
<1>3. CASE SaveUnavailable(t)
  BY <1>3, StateFacts, Goes, Returns DEF SaveUnavailable, At, process
<1>4. CASE SaveStages(t)
  <2>1. /\ disk' = disk /\ pc[t] = "opening" /\ pc'[t] = "assembling"
        /\ layer'["verge"].committed = layer["verge"].committed
    BY <1>4, PortsMove, Goes DEF SaveStages, At
  <2> QED
    BY <2>1
<1>5. CASE SaveGenerates(t)
  BY <1>5, StateFacts, RedraftMoves, Goes DEF SaveGenerates, At, process
<1>6. CASE SaveProbes(t)
  <2>1. CASE RejectSave(t, "rejected")
    BY <1>6, <2>1, StateFacts, Returns, DiscardedMoves DEF SaveProbes, RejectSave, At
  <2>2. CASE ~RejectSave(t, "rejected")
    BY <1>6, <2>2, StateFacts, Goes, ProbeNotes DEF SaveProbes, At
  <2> QED
    BY <2>1, <2>2
<1>7. CASE SaveValidates(t)
  <2>1. CASE RejectSave(t, "rejected")
    BY <1>7, <2>1, StateFacts, Returns, DiscardedMoves DEF SaveValidates, RejectSave, At
  <2>2. CASE ~RejectSave(t, "rejected")
    BY <1>7, <2>2, StateFacts, Goes, NotesFiles DEF SaveValidates, At, InPlace, Staged
  <2> QED
    BY <2>1, <2>2
<1>8. CASE SaveWrites(t)
  <2>1. pc[t] = "writingPorts" /\ pc[t] \in Writing /\ HoldsLock(t)
    BY <1>8 DEF SaveWrites, At, InPlace, Staged
  <2>2. ASSUME NEW answer \in {"rejected", "broken"}, RejectSave(t, answer)
        PROVE  pc'[t] = "done" /\ layer'["verge"].committed = layer["verge"].committed
    BY <2>2, StateFacts, Returns, DiscardedMoves DEF RejectSave
  <2>3. CASE disk' = [disk EXCEPT !.runtime = call[t].yaml] /\ UNCHANGED <<layer, call>>
             /\ Goto(t, IF call[t].running THEN "switching" ELSE "persisting")
    BY <2>1, <2>3, StateFacts, Goes
  <2>4. CASE disk' = call[t].files /\ RejectSave(t, "rejected")
    BY <2>1, <2>2, <2>4
  <2>5. CASE UNCHANGED disk /\ RejectSave(t, "broken")
    BY <2>1, <2>2, <2>5
  <2> QED
    BY <1>8, <2>3, <2>4, <2>5 DEF SaveWrites
<1>9. CASE SaveRestarts(t)
  BY <1>9, StateFacts, Goes DEF SaveRestarts, At, process, RestartCore, Replace, RestartOutcomes
<1>10. CASE SavePersists(t)
  BY <1>10, StateFacts, Goes DEF SavePersists, At, process
<1>11. CASE SavePersistsVerge(t)
  <2>1. pc[t] = "persistingVerge" /\ pc[t] \in Writing /\ HoldsLock(t)
    BY <1>11 DEF SavePersistsVerge, At, InPlace, Staged
  <2>2. CASE Answer(t, "ok") /\ disk' = [disk EXCEPT !.verge = Latest(layer.verge)]
             /\ layer' = [l \in Layers |-> ApplyDraft(layer[l])]
    <3>1. pc'[t] = "done"
      BY <2>2, Returns
    <3>2. disk'["verge"] = layer'["verge"].committed
      BY <2>2, StateFacts, AllMove
    <3> QED
      BY <2>1, <3>1, <3>2
  <2>3. CASE Goto(t, "undoing") /\ UNCHANGED <<disk, layer, call>>
    BY <2>1, <2>3, Goes
  <2> QED
    BY <1>11, <2>2, <2>3 DEF SavePersistsVerge
<1>12. CASE SaveUndoes(t)
  <2>1. pc[t] = "undoing" /\ pc[t] \in Writing /\ HoldsLock(t)
    BY <1>12 DEF SaveUndoes, At, InPlace, Staged
  <2>2. pc'[t] \notin Writing \cup {"saving"}
    BY <1>12, Goes DEF SaveUndoes
  <2>3. layer'["verge"].committed = layer["verge"].committed
    BY <1>12, StateFacts, AllMove DEF SaveUndoes
  <2>4. disk' = call[t].files \/ disk'["verge"] = disk["verge"]
    BY <1>12, StateFacts DEF SaveUndoes
  <2> QED
    BY <2>1, <2>2, <2>3, <2>4
<1>13. CASE SaveReturnsToOldCore(t)
  BY <1>13, StateFacts, NotesAnswer, Goes DEF SaveReturnsToOldCore, At, process, RestartCore,
     Replace, RestartOutcomes
<1>14. CASE SaveRefuses(t)
  BY <1>14, StateFacts, Goes, Returns DEF SaveRefuses, At, process
<1> QED
  BY <1>1, <1>2, <1>3, <1>4, <1>5, <1>6, <1>7, <1>8, <1>9, <1>10, <1>11, <1>12, <1>13, <1>14
     DEF SaveStep

LEMMA VergePatchStep ==
  ASSUME Typed, NEW t \in Callers, InPlace(t), kind[t] \notin Unclaimed, PatchStep(t)
  PROVE  VergeMoves(t)
<1> USE DEF VergeMoves, Restores, HoldsLock, Writing, Answers, Unclaimed, Patches, Layers, Files
<1>1. CASE PatchLocks(t)
  BY <1>1, StateFacts, Goes DEF PatchLocks, At, process, LockConfig
<1>2. CASE PatchStages(t)
  BY <1>2, StateFacts, StageMoves, Goes DEF PatchStages, At, process
<1>3. CASE FlagGenerates(t)
  BY <1>3, StateFacts, RedraftMoves, NotesAnswer, Goes DEF FlagGenerates, At, process, Give
<1>4. CASE RestartBusy(t)
  BY <1>4, StateFacts, NotesAnswer, Goes DEF RestartBusy, At, process, Give
<1>5. CASE RestartStarts(t)
  BY <1>5, StateFacts, Goes DEF RestartStarts, At, process
<1>6. CASE RestartEnds(t)
  BY <1>6, StateFacts, NotesAnswer, Goes DEF RestartEnds, At, process, Give, RestartCore,
     Replace, RestartOutcomes
<1>7. CASE PatchCommits(t)
  BY <1>7, StateFacts, ApplyMoves, NotesAnswer, Goes DEF PatchCommits, At, process, Give
<1>8. CASE PatchSaves(t)
  BY <1>8, StateFacts, Goes, Returns DEF PatchSaves, At, process
<1>9. CASE PatchReverts(t)
  BY <1>9, StateFacts, DiscardedMoves, Goes, Returns DEF PatchReverts, At, process
<1>10. CASE RestartAnswers(t)
  BY <1>10, StateFacts, Goes, Returns DEF RestartAnswers, At, process
<1> QED
  BY <1>1, <1>2, <1>3, <1>4, <1>5, <1>6, <1>7, <1>8, <1>9, <1>10 DEF PatchStep

LEMMA VergeContinueStep ==
  ASSUME Typed, NEW t \in Callers, InPlace(t), kind[t] \notin Unclaimed, ContinueStep(t)
  PROVE  VergeMoves(t)
<1> USE DEF VergeMoves, Restores, HoldsLock, Writing, Answers, Unclaimed, Patches, Layers, Files
<1>1. CASE ContinueBusy(t)
  BY <1>1, StateFacts, Goes, Returns DEF ContinueBusy, At, process
<1>2. CASE ContinueStarts(t)
  BY <1>2, StateFacts, Goes DEF ContinueStarts, At, process
<1>3. CASE ContinueLocks(t)
  BY <1>3, StateFacts, Goes, Returns DEF ContinueLocks, At, process
<1>4. CASE ContinuePrepares(t)
  <2>1. PICK tunOff \in BOOLEAN, verge \in {layer.verge, ApplyDraft(EditDraft(layer.verge, t))} :
          /\ verge = IF tunOff THEN ApplyDraft(EditDraft(layer.verge, t)) ELSE layer.verge
          /\ layer' = [layer EXCEPT !["verge"] = verge]
          /\ \/ /\ disk' = IF tunOff THEN [disk EXCEPT !.verge = verge.committed] ELSE disk
                /\ Goto(t, "buildingSidecar")
             \/ Answer(t, "unsaved")
    BY <1>4 DEF ContinuePrepares
  <2>2. HoldsLock(t) /\ pc[t] = "settlingTun"
    BY <1>4 DEF ContinuePrepares, At
  <2>3. layer'["verge"] = verge
    BY <2>1, StateFacts
  <2>4. CASE Answer(t, "unsaved")
    BY <2>2, <2>4, Returns
  <2>5. CASE ~Answer(t, "unsaved")
    <3>1. pc'[t] = "buildingSidecar"
      BY <2>1, <2>5, Goes
    <3>2. CASE tunOff
      <4>1. disk'["verge"] = layer'["verge"].committed
        BY <2>1, <2>3, <2>5, <3>2, StateFacts
      <4> QED
        BY <2>2, <3>1, <4>1
    <3>3. CASE ~tunOff
      BY <2>1, <2>2, <2>3, <2>5, <3>1, <3>3
    <3> QED
      BY <3>2, <3>3
  <2> QED
    BY <2>4, <2>5
<1>5. CASE ContinueGenerates(t)
  BY <1>5, StateFacts, RedraftMoves, Goes, Returns DEF ContinueGenerates, At, process
<1>6. CASE ContinueLaunches(t)
  BY <1>6, StateFacts, Goes, Returns DEF ContinueLaunches, At, process
<1> QED
  BY <1>1, <1>2, <1>3, <1>4, <1>5, <1>6 DEF ContinueStep

\* Without unclaimed callers, only the steps of the other ones are taken.
LEMMA ClaimersOnly ==
  ASSUME Base, ~AnyOf(Unclaimed), NEW t \in Callers, Step(t)
  PROVE  /\ kind[t] \notin Unclaimed
         /\ UpdateStep(t) \/ SaveStep(t) \/ PatchStep(t) \/ ContinueStep(t)
<1>1. kind[t] \notin Unclaimed /\ InPlace(t)
  BY DEF AnyOf, Base
<1>2. ~StartupStep(t)
  BY <1>1 DEF StartupStep, StartupLocks, StartupKeepsPort, StartupBorrows,
     StartupStagesFallback, StartupCommitsFallback, StartupGenerates, StartupValidates,
     StartupAdopts, StartupLaunches, StartupLaunchBusy, StartupRetries, StartupGivesUp,
     LockConfig, At, InPlace, Starting, Unclaimed
<1>3. ~UnclaimedStep(t)
  BY <1>1 DEF UnclaimedStep, ClashStages, ClashCommits, ClashFails, CoreChanges,
     ChangedCoreSaves, CoreChanged, SaveAllClash, SaveAllVerge, SaveAll, Unclaimed
<1> QED
  BY <1>1, <1>2, <1>3 DEF Step

\* Whoever holds the lock is the only one at the steps that need it.
LEMMA LockExcludes ==
  ASSUME Base, NEW t \in Callers, HoldsLock(t), NEW u \in Callers, u # t
  PROVE  ~HoldsLock(u)
BY DEF Base, Held

\* A caller that is not the holder of the lock touches neither the settings nor their
\* file.
LEMMA VergeStep ==
  ASSUME Base, \A t \in Callers : Answering(t), VergeKept, [Next]_vars
  PROVE  VergeKept'
<1>1. ASSUME NEW t \in Callers, Step(t), Clean' PROVE VergeKept'
  <2>1. OneMoves(t)
    BY <1>1, StepMoves
  <2>2. Clean
    <3>1. \A u \in Callers : result[u] = "none" \/ result'[u] = result[u]
      BY <2>1 DEF OneMoves, Answering
    <3>2. kind' = kind
      BY <2>1 DEF OneMoves
    <3> QED
      BY <1>1, <3>1, <3>2 DEF Clean, AnyOf
  <2>3. kind[t] \notin Unclaimed /\ (UpdateStep(t) \/ SaveStep(t) \/ PatchStep(t)
          \/ ContinueStep(t))
    BY <1>1, <2>2, ClaimersOnly DEF Clean
  <2>4. VergeMoves(t)
    BY <2>3, VergeUpdateStep, VergeSaveStep, VergePatchStep, VergeContinueStep DEF Base
  <2>5. result'[t] # "unsaved"
    BY <1>1 DEF Clean
  <2>6. \A u \in Callers : u # t => pc'[u] = pc[u] /\ call'[u] = call[u]
    BY <2>1 DEF OneMoves
  <2>7. \A u \in Callers : pc[u] \in Writing \cup {"saving"} => HoldsLock(u)
    BY <2>2 DEF Clean, AnyOf, Unclaimed, Base, InPlace, HoldsLock, Writing, Staged, Patches
  <2>8. HoldsLock(t) => \A u \in Callers : u # t => pc[u] \notin Writing \cup {"saving"}
    BY <2>7, LockExcludes
  <2>9. (\A u \in Callers : pc'[u] # "saving") => disk'["verge"] = layer'["verge"].committed
    <3> SUFFICES ASSUME \A u \in Callers : pc'[u] # "saving"
                 PROVE  disk'["verge"] = layer'["verge"].committed
      OBVIOUS
    <3>1. CASE pc[t] = "saving"
      BY <2>4, <2>5, <3>1 DEF VergeMoves
    <3>2. CASE pc[t] # "saving"
      <4>1. disk["verge"] = layer["verge"].committed
        BY <2>2, <2>6, <3>2 DEF VergeKept
      <4>2. pc'[t] # "saving"
        OBVIOUS
      <4>3. Restores(t) => disk'["verge"] = layer'["verge"].committed
        BY <2>2 DEF Restores, VergeKept
      <4> QED
        BY <2>4, <2>5, <4>1, <4>2, <4>3 DEF VergeMoves
    <3> QED
      BY <3>1, <3>2
  <2>10. ASSUME NEW u \in Callers, pc'[u] \in Writing
         PROVE  call'[u].files["verge"] = layer'["verge"].committed
    <3>1. CASE u = t
      <4>1. CASE pc[t] \in Writing /\ call'[t].files = call[t].files
        BY <2>2, <2>4, <2>10, <3>1, <4>1 DEF VergeMoves, VergeKept
      <4>2. CASE call'[t].files = disk /\ disk' = disk /\ HoldsLock(t) /\ pc[t] # "saving"
        <5>1. disk["verge"] = layer["verge"].committed
          BY <2>2, <2>8, <4>2 DEF VergeKept
        <5> QED
          BY <2>4, <2>10, <3>1, <4>2, <5>1 DEF VergeMoves
      <4> QED
        BY <2>4, <2>10, <3>1, <4>1, <4>2 DEF VergeMoves
    <3>2. CASE u # t
      <4>1. pc[u] \in Writing /\ call'[u] = call[u]
        BY <2>6, <2>10, <3>2
      <4>2. ~HoldsLock(t)
        BY <2>8, <3>2, <4>1
      <4>3. layer'["verge"].committed = layer["verge"].committed
        BY <2>4, <4>2 DEF VergeMoves
      <4> QED
        BY <2>2, <4>1, <4>3 DEF VergeKept
    <3> QED
      BY <3>1, <3>2
  <2> QED
    BY <2>9, <2>10 DEF VergeKept
<1>2. CASE CoreExits
  BY <1>2 DEF CoreExits, VergeKept, Clean, AnyOf
<1>3. CASE UNCHANGED vars
  BY <1>3 DEF vars, VergeKept, Clean, AnyOf
<1> QED
  BY <1>1, <1>2, <1>3 DEF Next, AllReturned, VergeKept

\* verge.yaml holds the committed settings whenever nobody is writing them
\* (DiskFollowsSettings): every writer of the file holds CONFIG_WRITE_LOCK
\* from the commit to the save.
THEOREM SettingsFileFollows == Spec => []DiskFollowsSettings
<1> DEFINE Inv == Base /\ (\A t \in Callers : Answering(t)) /\ VergeKept
<1>1. Init => Inv
  <2> SUFFICES ASSUME Init PROVE Inv
    OBVIOUS
  <2>1. \A t \in Callers : Answering(t) /\ pc[t] = "idle"
    BY AnsweringInit DEF Init
  <2>2. VergeKept
    BY <2>1 DEF Init, VergeKept, Clean, AnyOf, Unclaimed, Writing, NewLayer, Layers
  <2> QED
    BY <2>1, <2>2, BaseInit
<1>2. Inv /\ [Next]_vars => Inv'
  BY BaseStep, AnsweringStep, VergeStep
<1>3. Inv => DiskFollowsSettings
  <2> SUFFICES ASSUME Inv, configLock = None, Clean PROVE disk.verge = layer.verge.committed
    BY DEF DiskFollowsSettings, Clean
  <2>1. ASSUME NEW t \in Callers PROVE pc[t] # "saving"
    BY <2>1, EditsAre DEF Base, Held, HoldsLock, InPlace, Clean, AnyOf, Unclaimed, Patches
  <2> QED
    BY <2>1 DEF VergeKept
<1> QED
  BY <1>1, <1>2, <1>3, PTL DEF Spec

-----------------------------------------------------------------------------
(* Nothing is left of a save that reports a rejection *)

\* An edit is not in what a caller has kept, is in no layer, and is nowhere.
Apart(e, u) == e \notin call[u].yaml /\ \A l \in Layers : e \notin call[u].files[l]
InNoLayer(e) ==
  \A l \in Layers : e \notin layer[l].committed /\ e \notin Latest(layer[l]) /\ e \notin disk[l]
Nowhere(e) == e \notin core /\ InNoLayer(e) /\ \A u \in Callers : Apart(e, u)
Elsewhere(s) == \A u \in Callers : u # s => Apart(s, u)

\* What a save has staged is in the drafts, in the files it has written so far
\* and in the Core it has restarted; what it would restore is free of it.
StagedOnly(s) ==
  /\ \A l \in Layers : s \notin layer[l].committed
  /\ pc[s] \in Writing => \A l \in Layers : s \notin call[s].files[l]
  /\ s \notin disk["verge"]
  /\ s \in disk["clash"] => pc[s] \in {"persistingVerge", "undoing"}
  /\ s \in disk["runtime"] => pc[s] \in {"switching", "persisting", "persistingVerge", "undoing"}
  /\ s \in core => call[s].running /\ pc[s] \in {"persisting", "persistingVerge", "undoing"}
  /\ pc[s] = "switching" => call[s].running

\* A save that has staged nothing, or has reported a rejection, has left nothing; one
\* under way has staged its edit where StagedOnly says; and no other caller has kept it.
Outside(s) == pc[s] \in {"idle", "opening"} \/ result[s] \in {"busy", "rejected"}
Own(s) ==
  /\ Outside(s) => s \notin core /\ InNoLayer(s) /\ Apart(s, s)
  /\ pc[s] \in Staged => StagedOnly(s)
  /\ pc[s] \in Restored /\ call[s].answer # "broken" =>
       InNoLayer(s) /\ (s \in core => pc[s] = "returning")
Absent(s) == Own(s) /\ (Outside(s) \/ pc[s] \in Staged \cup Restored => Elsewhere(s))

NothingLeft == ~AnyOf(Unclaimed) => \A s \in Callers : kind[s] = "savePorts" => Absent(s)

\* An edit that is nowhere enters by its own caller alone.
StaysOut(t, e) == e \notin core' /\ InNoLayer(e)' /\ Apart(e, t)'

\* A step that leaves the configuration alone.
Quiet(t) ==
  /\ UNCHANGED <<layer, disk, core, mode, borrowed>>
  /\ \/ call'[t].yaml = call[t].yaml /\ call'[t].files = call[t].files
     \/ call'[t] = NoCall

\* An edit gets into the Core and the files by way of what a step loads.
LEMMA ReplaceFlow ==
  ASSUME Typed, NEW outcome \in RestartOutcomes, NEW content, Replace(outcome, content),
         NEW e, e \notin content, e \notin core, \A l \in Layers : e \notin disk[l]
  PROVE  e \notin core' /\ \A l \in Layers : e \notin disk'[l]
BY DEF Replace, RestartOutcomes, process, Typed, TypeOK

\* What is in no layer is not generated.
LEMMA NoEditIn ==
  ASSUME Typed, NEW e \in Callers, InNoLayer(e)
  PROVE  e \notin Generated /\ e \notin Latest(layer["runtime"]) /\ e \notin disk["runtime"]
BY CallerAssumption DEF InNoLayer, Generated, BorrowedPort, Typed, Layers

\* A save that rejects brings back nothing but what the layers have committed.
LEMMA RejectFlow ==
  ASSUME Typed, NEW t \in Callers, NEW answer \in Answers, RejectSave(t, answer), NEW e
  PROVE  /\ Apart(e, t)'
         /\ (\A l \in Layers : e \notin layer[l].committed /\ e \notin Latest(layer[l])) =>
              \A l \in Layers : e \notin layer'[l].committed /\ e \notin Latest(layer'[l])
<1>1. Apart(e, t)'
  BY Returns DEF RejectSave, Apart, NoCall, NoFiles
<1>2. \A l \in Layers : \/ layer'[l] = layer[l]
                        \/ /\ layer'[l].committed = layer[l].committed
                           /\ Latest(layer'[l]) = layer[l].committed
  BY StateFacts, DiscardedMoves DEF RejectSave
<1> QED
  BY <1>1, <1>2

\* A save that rejects has claimed the three drafts: all of them are discarded.
LEMMA Rejected ==
  ASSUME Typed, NEW t \in Callers, Held(t), pc[t] \in Staged,
         NEW answer \in Answers, RejectSave(t, answer)
  PROVE  /\ \A l \in Layers : /\ layer'[l].committed = layer[l].committed
                              /\ layer'[l].draft = NoDraft
                              /\ Latest(layer'[l]) = layer[l].committed
         /\ borrowed' = call[t].borrowed
         /\ pc'[t] = "done" /\ result'[t] = answer /\ call'[t] = NoCall
         /\ LocksMove(t)
<1>1. \A l \in Layers : claim[l] = t
  BY DEF Held, Claims
<1> QED
  BY <1>1, StateFacts, Returns, DiscardedMoves, LocksReturned DEF RejectSave, RestoreBorrowed

\* An edit that is nowhere stays so while anyone but its own caller takes a step.
LEMMA FlowUpdateStep ==
  ASSUME Typed, NEW t \in Callers, NEW e \in Callers, e # t, Nowhere(e), e \notin Generated,
      UpdateStep(t)
  PROVE  StaysOut(t, e)
<1> USE DEF StaysOut, Nowhere, InNoLayer, Apart, Answers, NoCall, NoFiles, Layers, Files
<1>1. CASE EnterUpdate(t)
  BY <1>1, StateFacts, NotesAnswer DEF EnterUpdate, process, UpdateBusy, UpdateRefused,
     UpdateStarts
<1>2. CASE UpdateGenerates(t)
  BY <1>2, StateFacts, RedraftMoves, StageMoves, NotesAnswer DEF UpdateGenerates, process
<1>3. CASE UpdateValidates(t)
  BY <1>3, StateFacts, NotesYaml, NotesAnswer DEF UpdateValidates, process
<1>4. CASE UpdateWrites(t)
  BY <1>4, StateFacts, NotesAnswer DEF UpdateWrites, process
<1>5. CASE UpdateFindsAnotherMode(t)
  BY <1>5, StateFacts, NotesAnswer DEF UpdateFindsAnotherMode, process, Applied
<1>6. ASSUME NEW first \in StageAttempts, NEW again \in StageAttempts,
             UpdateStages(t, first, again)
      PROVE  StaysOut(t, e)
  <2>1. disk["runtime"] = disk.runtime /\ e \notin disk["runtime"]
          /\ \A l \in Layers : e \notin disk[l]
    BY DEF Nowhere, InNoLayer, Layers
  <2>2. PICK answer \in Answers : Applied(t, answer)
    BY <1>6, StateFacts, Replaces DEF UpdateStages
  <2>3. Apart(e, t)'
    BY <2>2, NotesAnswer DEF Applied
  <2>4. e \notin core' /\ \A l \in Layers : e \notin disk'[l]
    BY <1>6, <2>1, ReplaceFlow DEF UpdateStages, process
  <2> QED
    BY <1>6, <2>3, <2>4 DEF UpdateStages
<1>7. CASE UpdateReloads(t)
  BY <1>7, StateFacts, NotesAnswer DEF UpdateReloads, Applied
<1>8. CASE UpdateRestarts(t)
  <2>1. e \notin Latest(layer.runtime) /\ \A l \in Layers : e \notin disk[l]
    BY NoEditIn
  <2>2. PICK outcome \in RestartOutcomes : RestartCore(outcome)
    BY <1>8 DEF UpdateRestarts
  <2>3. Apart(e, t)'
    <3>1. PICK o \in RestartOutcomes : Applied(t, Outcome(o)) /\ Outcome(o) \in Answers
      BY <1>8 DEF UpdateRestarts, Outcome
    <3> QED
      BY <3>1, NotesAnswer DEF Applied
  <2>4. e \notin core' /\ \A l \in Layers : e \notin disk'[l]
    BY <2>1, <2>2, ReplaceFlow DEF RestartCore
  <2> QED
    BY <1>8, <2>3, <2>4 DEF UpdateRestarts
<1>9. CASE UpdateCommits(t)
  BY <1>9, StateFacts, ApplyMoves DEF UpdateCommits, process, EndUpdate
<1>10. CASE UpdateDrops(t)
  BY <1>10, StateFacts, DropMoves DEF UpdateDrops, process, EndUpdate
<1>11. CASE UpdateReturns(t)
  BY <1>11, StateFacts, Returns DEF UpdateReturns, process
<1>12. CASE UpdateChecked(t)
  BY <1>12, StateFacts DEF UpdateChecked, process
<1> QED
  BY <1>1, <1>2, <1>3, <1>4, <1>5, <1>6, <1>7, <1>8, <1>9, <1>10, <1>11, <1>12 DEF UpdateStep

LEMMA FlowSaveStep ==
  ASSUME Typed, NEW t \in Callers, NEW e \in Callers, e # t, Nowhere(e), e \notin Generated,
      SaveStep(t)
  PROVE  StaysOut(t, e)
<1> USE DEF StaysOut, Nowhere, InNoLayer, Apart, Answers, NoCall, NoFiles, Layers, Files
<1>1. CASE SaveLocks(t)
  BY <1>1, StateFacts DEF SaveLocks, process, LockConfig
<1>2. CASE SaveBusy(t)
  BY <1>2, StateFacts, Returns DEF SaveBusy, process
<1>3. CASE SaveUnavailable(t)
  BY <1>3, StateFacts, Returns DEF SaveUnavailable, process
<1>4. CASE SaveStages(t)
  <2>1. InNoLayer(e)'
    BY <1>4, PortsMove DEF SaveStages
  <2>2. Apart(e, t)'
    BY <1>4, StateFacts, NotesBorrowed DEF SaveStages
  <2> QED
    BY <1>4, <2>1, <2>2 DEF SaveStages, process
<1>5. CASE SaveGenerates(t)
  BY <1>5, StateFacts, RedraftMoves DEF SaveGenerates, process
<1>6. CASE SaveProbes(t)
  <2>1. CASE RejectSave(t, "rejected")
    BY <1>6, <2>1, RejectFlow DEF SaveProbes, process
  <2>2. CASE ~RejectSave(t, "rejected")
    BY <1>6, <2>2, ProbeNotes, NoEditIn DEF SaveProbes, process
  <2> QED
    BY <2>1, <2>2
<1>7. CASE SaveValidates(t)
  <2>1. CASE RejectSave(t, "rejected")
    BY <1>7, <2>1, RejectFlow DEF SaveValidates, process
  <2>2. CASE ~RejectSave(t, "rejected")
    BY <1>7, <2>2, StateFacts, NotesFiles DEF SaveValidates, process
  <2> QED
    BY <2>1, <2>2
<1>8. CASE SaveWrites(t)
  BY <1>8, StateFacts, DiscardedMoves, Returns DEF SaveWrites, process, RejectSave
<1>9. CASE SaveRestarts(t)
  BY <1>9, StateFacts DEF SaveRestarts, process, RestartCore, Replace, RestartOutcomes
<1>10. CASE SavePersists(t)
  BY <1>10, StateFacts DEF SavePersists, process
<1>11. CASE SavePersistsVerge(t)
  BY <1>11, StateFacts, AllMove, Returns DEF SavePersistsVerge, process
<1>12. CASE SaveUndoes(t)
  BY <1>12, StateFacts, AllMove, NotesAnswer DEF SaveUndoes, process
<1>13. CASE SaveReturnsToOldCore(t)
  BY <1>13, StateFacts, NotesAnswer DEF SaveReturnsToOldCore, process, RestartCore, Replace,
     RestartOutcomes
<1>14. CASE SaveRefuses(t)
  BY <1>14, StateFacts, Returns DEF SaveRefuses, process
<1> QED
  BY <1>1, <1>2, <1>3, <1>4, <1>5, <1>6, <1>7, <1>8, <1>9, <1>10, <1>11, <1>12, <1>13, <1>14
     DEF SaveStep

LEMMA FlowPatchStep ==
  ASSUME Typed, NEW t \in Callers, NEW e \in Callers, e # t, Nowhere(e), e \notin Generated,
      PatchStep(t)
  PROVE  StaysOut(t, e)
<1> USE DEF StaysOut, Nowhere, InNoLayer, Apart, Answers, NoCall, NoFiles, Layers, Files
<1>1. CASE PatchLocks(t)
  BY <1>1, StateFacts DEF PatchLocks, process, LockConfig
<1>2. CASE PatchStages(t)
  BY <1>2, StateFacts, StageMoves DEF PatchStages, process
<1>3. CASE FlagGenerates(t)
  BY <1>3, StateFacts, RedraftMoves, NotesAnswer DEF FlagGenerates, process, Give
<1>4. CASE RestartBusy(t)
  BY <1>4, StateFacts, NotesAnswer DEF RestartBusy, process, Give
<1>5. CASE RestartStarts(t)
  BY <1>5, StateFacts DEF RestartStarts, process
<1>6. CASE RestartEnds(t)
  <2>1. e \notin Latest(layer.runtime) /\ \A l \in Layers : e \notin disk[l]
    BY NoEditIn
  <2>2. PICK outcome \in RestartOutcomes : RestartCore(outcome)
    BY <1>6 DEF RestartEnds
  <2>3. Apart(e, t)'
    <3>1. PICK o \in RestartOutcomes :
            call' = call \/ (Give(t, Outcome(o)) /\ Outcome(o) \in Answers)
      BY <1>6 DEF RestartEnds, Outcome
    <3> QED
      BY <3>1, NotesAnswer DEF Give
  <2>4. e \notin core' /\ \A l \in Layers : e \notin disk'[l]
    BY <2>1, <2>2, ReplaceFlow DEF RestartCore
  <2> QED
    BY <1>6, <2>3, <2>4 DEF RestartEnds
<1>7. CASE PatchCommits(t)
  BY <1>7, StateFacts, ApplyMoves, NotesAnswer DEF PatchCommits, process, Give
<1>8. CASE PatchSaves(t)
  BY <1>8, StateFacts, Returns DEF PatchSaves, process
<1>9. CASE PatchReverts(t)
  <2>1. InNoLayer(e)'
    <3>1. \A l \in Layers : \/ layer'[l] = layer[l]
                           \/ /\ layer'[l].committed = layer[l].committed
                              /\ Latest(layer'[l]) = layer[l].committed
      BY <1>9, StateFacts, DiscardedMoves DEF PatchReverts
    <3> QED
      BY <1>9, <3>1 DEF PatchReverts
  <2>2. Apart(e, t)'
    BY <1>9, StateFacts, Returns DEF PatchReverts
  <2> QED
    BY <1>9, <2>1, <2>2 DEF PatchReverts, process
<1>10. CASE RestartAnswers(t)
  BY <1>10, StateFacts, Returns DEF RestartAnswers, process
<1> QED
  BY <1>1, <1>2, <1>3, <1>4, <1>5, <1>6, <1>7, <1>8, <1>9, <1>10 DEF PatchStep

LEMMA FlowContinueStep ==
  ASSUME Typed, NEW t \in Callers, NEW e \in Callers, e # t, Nowhere(e), e \notin Generated,
      ContinueStep(t)
  PROVE  StaysOut(t, e)
<1> USE DEF StaysOut, Nowhere, InNoLayer, Apart, Answers, NoCall, NoFiles, Layers, Files
<1>1. CASE ContinueBusy(t)
  BY <1>1, StateFacts, Returns DEF ContinueBusy, process
<1>2. CASE ContinueStarts(t)
  BY <1>2, StateFacts DEF ContinueStarts, process
<1>3. CASE ContinueLocks(t)
  BY <1>3, StateFacts, Returns DEF ContinueLocks, process
<1>4. CASE ContinuePrepares(t)
  <2>1. PICK tunOff \in BOOLEAN, verge \in {layer.verge, ApplyDraft(EditDraft(layer.verge, t))} :
          /\ verge = IF tunOff THEN ApplyDraft(EditDraft(layer.verge, t)) ELSE layer.verge
          /\ layer' = [layer EXCEPT !["verge"] = verge]
          /\ disk' = disk \/ disk' = [disk EXCEPT !.verge = verge.committed]
    BY <1>4 DEF ContinuePrepares
  <2>2. layer.verge \in LayerState /\ EditDraft(layer.verge, t) \in LayerState
        /\ Latest(EditDraft(layer.verge, t)) = Latest(layer.verge) \cup {t}
    <3>1. layer["verge"] \in LayerState /\ t \in Edits
      BY StateFacts
    <3> QED
      BY <3>1, LayerOps
  <2>3. e \notin verge.committed /\ e \notin Latest(verge)
    BY <2>1, <2>2, LayerOps
  <2>4. InNoLayer(e)'
    BY <2>1, <2>3, StateFacts
  <2>5. Apart(e, t)'
    BY <1>4, StateFacts, Returns DEF ContinuePrepares
  <2> QED
    BY <1>4, <2>4, <2>5 DEF ContinuePrepares, process
<1>5. CASE ContinueGenerates(t)
  BY <1>5, StateFacts, RedraftMoves, Returns DEF ContinueGenerates, process
<1>6. CASE ContinueLaunches(t)
  BY <1>6, StateFacts, Returns DEF ContinueLaunches, process
<1> QED
  BY <1>1, <1>2, <1>3, <1>4, <1>5, <1>6 DEF ContinueStep

\* While a save holds the flag, the others leave the configuration alone.
LEMMA QuietUpdateStep ==
  ASSUME Typed, NEW t \in Callers, InPlace(t), kind[t] \notin Unclaimed, updating # None,
      configLock # None, updating # t, configLock # t, Held(t), UpdateStep(t)
  PROVE  Quiet(t)
<1> USE DEF Quiet, Held, HoldsFlag, HoldsLock, InPlace, UpdateSteps, Staged, Writing, Restored,
        Continuing, Patches, Restarters, Checkers, Unclaimed, Answers, NoCall, Layers
<1>1. CASE EnterUpdate(t)
  BY <1>1, StateFacts, NotesAnswer DEF EnterUpdate, At, process, UpdateBusy, UpdateRefused,
     UpdateStarts
<1>2. CASE UpdateGenerates(t)
  BY <1>2, StateFacts, NotesAnswer DEF UpdateGenerates, At, process
<1>3. CASE UpdateValidates(t)
  BY <1>3, StateFacts, NotesYaml, NotesAnswer DEF UpdateValidates, At, process
<1>4. CASE UpdateWrites(t)
  BY <1>4, StateFacts, NotesAnswer DEF UpdateWrites, At, process
<1>5. CASE UpdateFindsAnotherMode(t)
  BY <1>5, StateFacts, NotesAnswer DEF UpdateFindsAnotherMode, At, process, Applied
<1>6. ASSUME NEW first \in StageAttempts, NEW again \in StageAttempts,
             UpdateStages(t, first, again)
      PROVE  Quiet(t)
  BY <1>6, StateFacts, NotesAnswer DEF UpdateStages, At, process, Applied
<1>7. CASE UpdateReloads(t)
  BY <1>7, StateFacts, NotesAnswer DEF UpdateReloads, At, Applied
<1>8. CASE UpdateRestarts(t)
  BY <1>8, StateFacts, NotesAnswer DEF UpdateRestarts, At, process, Applied, RestartCore
<1>9. CASE UpdateCommits(t)
  BY <1>9, StateFacts DEF UpdateCommits, At, process, EndUpdate
<1>10. CASE UpdateDrops(t)
  BY <1>10, StateFacts DEF UpdateDrops, At, process, EndUpdate
<1>11. CASE UpdateReturns(t)
  BY <1>11, StateFacts, Returns DEF UpdateReturns, At, process
<1>12. CASE UpdateChecked(t)
  BY <1>12, StateFacts DEF UpdateChecked, At, process
<1> QED
  BY <1>1, <1>2, <1>3, <1>4, <1>5, <1>6, <1>7, <1>8, <1>9, <1>10, <1>11, <1>12 DEF UpdateStep

LEMMA QuietSaveStep ==
  ASSUME Typed, NEW t \in Callers, InPlace(t), kind[t] \notin Unclaimed, updating # None,
      configLock # None, updating # t, configLock # t, Held(t), SaveStep(t)
  PROVE  Quiet(t)
<1> USE DEF Quiet, Held, HoldsFlag, HoldsLock, InPlace, UpdateSteps, Staged, Writing, Restored,
        Continuing, Patches, Restarters, Checkers, Unclaimed, Answers, NoCall, Layers
<1>1. CASE SaveLocks(t)
  BY <1>1, StateFacts DEF SaveLocks, At, process, LockConfig
<1>2. CASE SaveBusy(t)
  BY <1>2, StateFacts, Returns DEF SaveBusy, At, process
<1>3. CASE SaveUnavailable(t)
  BY <1>3, StateFacts, Returns DEF SaveUnavailable, At, process
<1>4. CASE SaveStages(t)
  BY <1>4, StateFacts, NotesBorrowed DEF SaveStages, At, process
<1>5. CASE SaveGenerates(t)
  BY <1>5, StateFacts DEF SaveGenerates, At, process
<1>6. CASE SaveProbes(t)
  BY <1>6, StateFacts, Returns DEF SaveProbes, At, process, RejectSave
<1>7. CASE SaveValidates(t)
  BY <1>7, StateFacts, NotesFiles, Returns DEF SaveValidates, At, process, RejectSave
<1>8. CASE SaveWrites(t)
  BY <1>8, StateFacts, Returns DEF SaveWrites, At, process, RejectSave
<1>9. CASE SaveRestarts(t)
  BY <1>9, StateFacts DEF SaveRestarts, At, process, RestartCore
<1>10. CASE SavePersists(t)
  BY <1>10, StateFacts DEF SavePersists, At, process
<1>11. CASE SavePersistsVerge(t)
  BY <1>11, StateFacts, Returns DEF SavePersistsVerge, At, process
<1>12. CASE SaveUndoes(t)
  BY <1>12, StateFacts, NotesAnswer DEF SaveUndoes, At, process
<1>13. CASE SaveReturnsToOldCore(t)
  BY <1>13, StateFacts, NotesAnswer DEF SaveReturnsToOldCore, At, process, RestartCore
<1>14. CASE SaveRefuses(t)
  BY <1>14, StateFacts, Returns DEF SaveRefuses, At, process
<1> QED
  BY <1>1, <1>2, <1>3, <1>4, <1>5, <1>6, <1>7, <1>8, <1>9, <1>10, <1>11, <1>12, <1>13, <1>14
     DEF SaveStep

LEMMA QuietPatchStep ==
  ASSUME Typed, NEW t \in Callers, InPlace(t), kind[t] \notin Unclaimed, updating # None,
      configLock # None, updating # t, configLock # t, Held(t), PatchStep(t)
  PROVE  Quiet(t)
<1> USE DEF Quiet, Held, HoldsFlag, HoldsLock, InPlace, UpdateSteps, Staged, Writing, Restored,
        Continuing, Patches, Restarters, Checkers, Unclaimed, Answers, NoCall, Layers
<1>1. CASE PatchLocks(t)
  BY <1>1, StateFacts DEF PatchLocks, At, process, LockConfig
<1>2. CASE PatchStages(t)
  BY <1>2, StateFacts DEF PatchStages, At, process
<1>3. CASE FlagGenerates(t)
  BY <1>3, StateFacts, NotesAnswer DEF FlagGenerates, At, process, Give
<1>4. CASE RestartBusy(t)
  BY <1>4, StateFacts, NotesAnswer DEF RestartBusy, At, process, Give
<1>5. CASE RestartStarts(t)
  BY <1>5, StateFacts DEF RestartStarts, At, process
<1>6. CASE RestartEnds(t)
  BY <1>6, StateFacts, NotesAnswer DEF RestartEnds, At, process, Give, RestartCore
<1>7. CASE PatchCommits(t)
  BY <1>7, StateFacts, NotesAnswer DEF PatchCommits, At, process, Give
<1>8. CASE PatchSaves(t)
  BY <1>8, StateFacts, Returns DEF PatchSaves, At, process
<1>9. CASE PatchReverts(t)
  BY <1>9, StateFacts, Returns DEF PatchReverts, At, process
<1>10. CASE RestartAnswers(t)
  BY <1>10, StateFacts, Returns DEF RestartAnswers, At, process
<1> QED
  BY <1>1, <1>2, <1>3, <1>4, <1>5, <1>6, <1>7, <1>8, <1>9, <1>10 DEF PatchStep

LEMMA QuietContinueStep ==
  ASSUME Typed, NEW t \in Callers, InPlace(t), kind[t] \notin Unclaimed, updating # None,
      configLock # None, updating # t, configLock # t, Held(t), ContinueStep(t)
  PROVE  Quiet(t)
<1> USE DEF Quiet, Held, HoldsFlag, HoldsLock, InPlace, UpdateSteps, Staged, Writing, Restored,
        Continuing, Patches, Restarters, Checkers, Unclaimed, Answers, NoCall, Layers
<1>1. CASE ContinueBusy(t)
  BY <1>1, StateFacts, Returns DEF ContinueBusy, At, process
<1>2. CASE ContinueStarts(t)
  BY <1>2, StateFacts DEF ContinueStarts, At, process
<1>3. CASE ContinueLocks(t)
  BY <1>3, StateFacts, Returns DEF ContinueLocks, At, process
<1>4. CASE ContinuePrepares(t)
  BY <1>4, StateFacts, Returns DEF ContinuePrepares, At, process
<1>5. CASE ContinueGenerates(t)
  BY <1>5, StateFacts, Returns DEF ContinueGenerates, At, process
<1>6. CASE ContinueLaunches(t)
  BY <1>6, StateFacts, Returns DEF ContinueLaunches, At, process
<1> QED
  BY <1>1, <1>2, <1>3, <1>4, <1>5, <1>6 DEF ContinueStep

\* The steps of the save itself: where its edit then is, and where it is no longer.
LEMMA OwnSaveStep ==
  ASSUME Typed, NEW t \in Callers, InPlace(t), kind[t] = "savePorts", Held(t), Answering(t),
      Own(t), SaveStep(t)
  PROVE  Own(t)'
<1> USE DEF Own, Outside, StagedOnly, InNoLayer, Apart, Answering, Answers, NoCall, NoFiles,
        Staged, Writing, Restored, Layers, Files
<1>1. CASE SaveLocks(t)
  BY <1>1, StateFacts, Goes DEF SaveLocks, At, process, LockConfig
<1>2. CASE SaveBusy(t)
  BY <1>2, StateFacts, Returns, Goes DEF SaveBusy, At, process
<1>3. CASE SaveUnavailable(t)
  BY <1>3, StateFacts, Returns, Goes DEF SaveUnavailable, At, process
<1>4. CASE SaveStages(t)
  <2>1. /\ pc[t] = "opening" /\ pc'[t] = "assembling" /\ UNCHANGED <<disk, core, result>>
        /\ t \notin core /\ InNoLayer(t)
    BY <1>4, Goes DEF SaveStages, At, process
  <2>2. \A l \in Layers : layer'[l].committed = layer[l].committed
    BY <1>4, PortsMove DEF SaveStages
  <2>3. StagedOnly(t)'
    BY <2>1, <2>2
  <2> QED
    BY <2>1, <2>3
<1>5. CASE SaveGenerates(t)
  BY <1>5, StateFacts, RedraftMoves, Goes DEF SaveGenerates, At, process
<1>6. CASE SaveProbes(t)
  <2>1. pc[t] \in Staged /\ StagedOnly(t)
    BY <1>6 DEF SaveProbes, At
  <2>2. ASSUME NEW answer \in {"rejected", "broken"}, RejectSave(t, answer),
               t \notin core', \A l \in Layers : t \notin disk'[l]
        PROVE  Own(t)'
    <3>1. answer \in Answers
      BY DEF Answers
    <3>2. InNoLayer(t)' /\ Apart(t, t)'
      BY <2>1, <2>2, <3>1, Rejected
    <3> QED
      BY <2>1, <2>2, <3>1, <3>2, Rejected
  <2>3. pc[t] = "probing" /\ disk' = disk /\ core' = core /\ t \notin core
        /\ \A l \in Layers : t \notin disk[l]
    BY <1>6, <2>1 DEF SaveProbes, At, process
  <2>4. CASE RejectSave(t, "rejected")
    BY <2>2, <2>3, <2>4
  <2>5. CASE ~RejectSave(t, "rejected")
    <3>1. pc'[t] = "validatingPorts" /\ UNCHANGED <<layer, result>>
      BY <1>6, <2>5, Goes DEF SaveProbes
    <3>2. StagedOnly(t)'
      BY <2>1, <2>3, <3>1
    <3> QED
      BY <2>3, <3>1, <3>2
  <2> QED
    BY <2>4, <2>5
<1>7. CASE SaveValidates(t)
  <2>1. pc[t] \in Staged /\ StagedOnly(t)
    BY <1>7 DEF SaveValidates, At
  <2>2. ASSUME NEW answer \in {"rejected", "broken"}, RejectSave(t, answer),
               t \notin core', \A l \in Layers : t \notin disk'[l]
        PROVE  Own(t)'
    <3>1. answer \in Answers
      BY DEF Answers
    <3>2. InNoLayer(t)' /\ Apart(t, t)'
      BY <2>1, <2>2, <3>1, Rejected
    <3> QED
      BY <2>1, <2>2, <3>1, <3>2, Rejected
  <2>3. pc[t] = "validatingPorts" /\ disk' = disk /\ core' = core /\ t \notin core
        /\ \A l \in Layers : t \notin disk[l]
    BY <1>7, <2>1 DEF SaveValidates, At, process
  <2>4. CASE RejectSave(t, "rejected")
    BY <2>2, <2>3, <2>4
  <2>5. CASE ~RejectSave(t, "rejected")
    <3>1. pc'[t] = "writingPorts" /\ call'[t].files = disk /\ UNCHANGED <<layer, result>>
      BY <1>7, <2>5, StateFacts, Goes, NotesFiles DEF SaveValidates
    <3>2. StagedOnly(t)'
      BY <2>1, <2>3, <3>1
    <3> QED
      BY <2>3, <3>1, <3>2
  <2> QED
    BY <2>4, <2>5
<1>8. CASE SaveWrites(t)
  <2>1. pc[t] \in Staged /\ StagedOnly(t)
    BY <1>8 DEF SaveWrites, At
  <2>2. ASSUME NEW answer \in {"rejected", "broken"}, RejectSave(t, answer),
               t \notin core', \A l \in Layers : t \notin disk'[l]
        PROVE  Own(t)'
    <3>1. answer \in Answers
      BY DEF Answers
    <3>2. InNoLayer(t)' /\ Apart(t, t)'
      BY <2>1, <2>2, <3>1, Rejected
    <3> QED
      BY <2>1, <2>2, <3>1, <3>2, Rejected
  <2>3. pc[t] = "writingPorts" /\ t \notin core' /\ \A l \in Layers : t \notin disk[l]
          /\ t \notin call[t].files[l]
    BY <1>8, <2>1 DEF SaveWrites, At, process
  <2>4. CASE disk' = call[t].files /\ RejectSave(t, "rejected")
    BY <2>2, <2>3, <2>4
  <2>5. CASE UNCHANGED disk /\ RejectSave(t, "broken")
    BY <2>2, <2>3, <2>5
  <2>6. CASE UNCHANGED <<layer, call, result>> /\ disk' = [disk EXCEPT !.runtime = call[t].yaml]
             /\ Goto(t, IF call[t].running THEN "switching" ELSE "persisting")
    <3>1. pc'[t] = IF call[t].running THEN "switching" ELSE "persisting"
      BY <2>6, Goes
    <3>2. \A l \in Layers : l # "runtime" => disk'[l] = disk[l]
      BY <2>6, StateFacts
    <3>3. StagedOnly(t)'
      BY <2>1, <2>3, <2>6, <3>1, <3>2
    <3> QED
      BY <2>3, <2>6, <3>1, <3>3
  <2> QED
    BY <1>8, <2>4, <2>5, <2>6 DEF SaveWrites
<1>9. CASE SaveRestarts(t)
  BY <1>9, StateFacts, Goes DEF SaveRestarts, At, process, RestartCore, Replace, RestartOutcomes
<1>10. CASE SavePersists(t)
  BY <1>10, StateFacts, Goes DEF SavePersists, At, process
<1>11. CASE SavePersistsVerge(t)
  BY <1>11, StateFacts, AllMove, Returns, Goes DEF SavePersistsVerge, At, process
<1>12. CASE SaveUndoes(t)
  BY <1>12, StateFacts, AllMove, NotesAnswer, Goes DEF SaveUndoes, At, process
<1>13. CASE SaveReturnsToOldCore(t)
  BY <1>13, StateFacts, NotesAnswer, Goes DEF SaveReturnsToOldCore, At, process, RestartCore,
     Replace, RestartOutcomes
<1>14. CASE SaveRefuses(t)
  BY <1>14, StateFacts, Returns, Goes DEF SaveRefuses, At, process
<1> QED
  BY <1>1, <1>2, <1>3, <1>4, <1>5, <1>6, <1>7, <1>8, <1>9, <1>10, <1>11, <1>12, <1>13, <1>14
     DEF SaveStep

\* Only a save is where a save may be.
LEMMA SaversSave ==
  ASSUME Base, NEW t \in Callers, kind[t] = "savePorts", Step(t)
  PROVE  SaveStep(t) /\ pc[t] \in {"idle", "opening"} \cup Staged \cup Restored
<1>1. InPlace(t)
  BY DEF Base
<1>2. ~UpdateStep(t)
  BY <1>1 DEF UpdateStep, EnterUpdate, UpdateGenerates, UpdateValidates, UpdateWrites,
     UpdateFindsAnotherMode, UpdateStages, UpdateReloads, UpdateRestarts, UpdateCommits,
     UpdateDrops, UpdateReturns, UpdateChecked, At, InPlace, Checking, UpdateSteps, Checkers
<1>3. ~PatchStep(t)
  BY <1>1 DEF PatchStep, PatchLocks, PatchStages, FlagGenerates, RestartBusy, RestartStarts,
     RestartEnds, PatchCommits, PatchSaves, PatchReverts, RestartAnswers, LockConfig, At,
     InPlace, Patches, Restarters
<1>4. ~ContinueStep(t)
  BY <1>1 DEF ContinueStep, ContinueBusy, ContinueStarts, ContinueLocks, ContinuePrepares,
     ContinueGenerates, ContinueLaunches, At, InPlace, Continuing
<1>5. ~StartupStep(t) /\ ~UnclaimedStep(t)
  BY <1>1 DEF StartupStep, StartupLocks, StartupKeepsPort, StartupBorrows,
     StartupStagesFallback, StartupCommitsFallback, StartupGenerates, StartupValidates,
     StartupAdopts, StartupLaunches, StartupLaunchBusy, StartupRetries, StartupGivesUp,
     LockConfig, At, InPlace, Starting, UnclaimedStep, ClashStages, ClashCommits, ClashFails,
     CoreChanges, ChangedCoreSaves, CoreChanged, SaveAllClash, SaveAllVerge, SaveAll
<1>6. SaveStep(t)
  BY <1>2, <1>3, <1>4, <1>5 DEF Step
<1>7. pc[t] \in {"idle", "opening"} \cup Staged \cup Restored
  BY <1>6 DEF SaveStep, SaveLocks, SaveBusy, SaveUnavailable, SaveStages, SaveGenerates,
     SaveProbes, SaveValidates, SaveWrites, SaveRestarts, SavePersists, SavePersistsVerge,
     SaveUndoes, SaveReturnsToOldCore, SaveRefuses, LockConfig, At, Staged, Writing, Restored
<1> QED
  BY <1>6, <1>7

\* While a save is under way everybody else waits or is refused.
LEMMA SaveExcludes ==
  ASSUME Base, ~AnyOf(Unclaimed), NEW s \in Callers, pc[s] \in Staged \cup Restored,
         NEW t \in Callers, t # s, Step(t)
  PROVE  Quiet(t)
<1>1. kind[s] = "savePorts" /\ Held(s)
  BY DEF Base, InPlace
<1>2. updating = s /\ configLock = s
  BY <1>1 DEF Held, HoldsFlag, HoldsLock, Staged, Writing, Restored, Patches
<1>3. updating # None /\ configLock # None /\ updating # t /\ configLock # t
  BY <1>2, EditsAre
<1>4. /\ Typed /\ InPlace(t) /\ Held(t) /\ kind[t] \notin Unclaimed
      /\ UpdateStep(t) \/ SaveStep(t) \/ PatchStep(t) \/ ContinueStep(t)
  BY ClaimersOnly DEF Base
<1> QED
  BY <1>3, <1>4, QuietUpdateStep, QuietSaveStep, QuietPatchStep, QuietContinueStep

\* Every step keeps every save free of what it has rejected.
LEMMA NothingLeftStep ==
  ASSUME Base, \A t \in Callers : Answering(t), NothingLeft, [Next]_vars
  PROVE  NothingLeft'
<1>1. ASSUME NEW t \in Callers, Step(t), ~AnyOf(Unclaimed), NEW s \in Callers, kind[s] = "savePorts"
      PROVE  Absent(s)'
  <2>1. OneMoves(t)
    BY <1>1, StepMoves
  <2>2. Absent(s) /\ Typed /\ InPlace(t) /\ Held(t) /\ Answering(s)
    BY <1>1 DEF NothingLeft, Base
  <2>3. Elsewhere(s) /\ Apart(s, t)' => Elsewhere(s)'
    BY <2>1 DEF OneMoves, Elsewhere, Apart
  <2>4. CASE s = t
    <3>1. SaveStep(t) /\ pc[t] \in {"idle", "opening"} \cup Staged \cup Restored
      BY <1>1, <2>4, SaversSave
    <3>2. Own(t)'
      BY <1>1, <2>2, <2>4, <3>1, OwnSaveStep DEF Absent
    <3>3. Elsewhere(t)
      BY <2>2, <2>4, <3>1 DEF Absent, Outside
    <3>4. Elsewhere(t)'
      BY <2>1, <3>3 DEF OneMoves, Elsewhere, Apart
    <3> QED
      BY <2>4, <3>2, <3>4 DEF Absent
  <2>5. CASE s # t
    <3>1. pc'[s] = pc[s] /\ call'[s] = call[s] /\ result'[s] = result[s]
      BY <2>1, <2>5 DEF OneMoves
    <3>2. CASE Outside(s)
      <4>1. s \notin core /\ InNoLayer(s) /\ Apart(s, s) /\ Elsewhere(s)
        BY <2>2, <3>2 DEF Absent, Own
      <4>2. Nowhere(s) /\ s \notin Generated
        BY <2>2, <4>1, NoEditIn DEF Nowhere, Elsewhere
      <4>3. StaysOut(t, s)
        BY <1>1, <2>2, <2>5, <4>2, ClaimersOnly, FlowUpdateStep, FlowSaveStep, FlowPatchStep,
           FlowContinueStep
      <4>4. pc[s] \notin Staged \cup Restored
        BY <2>2, <3>2 DEF Outside, Answering, Staged, Writing, Restored
      <4>5. Apart(s, s)' /\ Elsewhere(s)'
        BY <2>3, <3>1, <4>1, <4>3 DEF StaysOut, Apart
      <4> QED
        BY <3>1, <4>3, <4>4, <4>5 DEF StaysOut, Absent, Own
    <3>3. CASE pc[s] \in Staged \cup Restored
      <4>1. Quiet(t)
        BY <1>1, <2>5, <3>3, SaveExcludes
      <4>2. Elsewhere(s)
        BY <2>2, <3>3 DEF Absent
      <4>3. Apart(s, t)'
        BY <2>5, <4>1, <4>2 DEF Quiet, Elsewhere, Apart, NoCall, NoFiles
      <4>4. Own(s)'
        BY <2>2, <3>1, <4>1 DEF Absent, Own, Outside, StagedOnly, InNoLayer, Apart, Quiet
      <4> QED
        BY <2>3, <4>2, <4>3, <4>4 DEF Absent
    <3>4. CASE ~Outside(s) /\ pc[s] \notin Staged \cup Restored
      BY <3>1, <3>4 DEF Absent, Own, Outside
    <3> QED
      BY <3>2, <3>3, <3>4
  <2> QED
    BY <2>4, <2>5
<1>2. CASE CoreExits
  <2>1. UNCHANGED <<kind, layer, disk, pc, call, result>> /\ core' = {}
    BY <1>2 DEF CoreExits
  <2> QED
    BY <2>1 DEF NothingLeft, AnyOf, Absent, Own, Outside, StagedOnly, InNoLayer, Apart,
       Elsewhere
<1>3. CASE UNCHANGED vars
  <2>1. UNCHANGED <<kind, layer, disk, core, pc, call, result>>
    BY <1>3 DEF vars, process
  <2> QED
    BY <2>1 DEF NothingLeft, AnyOf, Absent, Own, Outside, StagedOnly, InNoLayer, Apart,
       Elsewhere
<1>4. ASSUME NEW t \in Callers, Step(t) PROVE NothingLeft'
  <2>1. kind' = kind
    BY <1>4, StepMoves DEF OneMoves
  <2> QED
    BY <1>1, <1>4, <2>1 DEF NothingLeft, AnyOf
<1> QED
  BY <1>2, <1>3, <1>4 DEF Next, AllReturned

\* At the start no edit is anywhere.
LEMMA NothingLeftInit == Init => NothingLeft
<1> SUFFICES ASSUME Init, NEW s \in Callers PROVE Absent(s)
  BY DEF NothingLeft
<1>1. pc[s] = "idle" /\ result[s] = "none" /\ call = [t \in Callers |-> NoCall]
  BY DEF Init
<1>2. s \notin BorrowedPort
  BY CallerAssumption DEF Init, BorrowedPort
<1>3. s \notin core /\ \A l \in Layers : s \notin disk[l]
  BY <1>2 DEF Init
<1>4. \A l \in Layers : layer[l].draft = NoDraft /\ s \notin layer[l].committed
  BY <1>2 DEF Init, NewLayer
<1>5. InNoLayer(s) /\ \A u \in Callers : Apart(s, u)
  BY <1>1, <1>3, <1>4 DEF InNoLayer, Apart, Latest, NoCall, NoFiles
<1> QED
  BY <1>1, <1>3, <1>5 DEF Absent, Own, Elsewhere, Staged, Writing, Restored

\* A port save that reports a rejection, its files and its Core restored, leaves
\* its ports in no layer, no file and no Core, whichever calls interleave with it
\* (RejectedSaveLeavesNothing; save_proxy_ports).
THEOREM NothingIsLeftBehind == Spec => []RejectedSaveLeavesNothing
<1> DEFINE Inv == Base /\ (\A t \in Callers : Answering(t)) /\ NothingLeft
<1>1. Init => Inv
  BY BaseInit, AnsweringInit, NothingLeftInit
<1>2. Inv /\ [Next]_vars => Inv'
  BY BaseStep, AnsweringStep, NothingLeftStep
<1>3. Inv => RejectedSaveLeavesNothing
  BY DEF RejectedSaveLeavesNothing, NothingLeft, Absent, Own, Outside, InNoLayer
<1> QED
  BY <1>1, <1>2, <1>3, PTL DEF Spec

-----------------------------------------------------------------------------
(* What a caller may change while another one holds the flag *)

\* Another caller may generate a draft in the Runtime layer or return; no more.
Bystands(t) ==
  /\ UNCHANGED <<core, mode, borrowed>>
  /\ disk'["runtime"] = disk["runtime"]
  /\ layer'["runtime"].committed = layer["runtime"].committed
  /\ \/ layer'["runtime"] = layer["runtime"]
     \/ pc[t] = "building" /\ Latest(layer'["runtime"]) = Generated
  /\ \/ call'[t].yaml = call[t].yaml /\ call'[t].borrowed = call[t].borrowed
     \/ call'[t] = NoCall

\* A caller that does not hold the flag is such a bystander.
LEMMA BystanderUpdateStep ==
  ASSUME Typed, NEW t \in Callers, InPlace(t), kind[t] # "startup", updating # None,
      updating # t, Held(t), UpdateStep(t)
  PROVE  Bystands(t)
<1> USE DEF Bystands, Held, HoldsFlag, Claims, InPlace, UpdateSteps, Staged, Writing, Restored,
        Continuing, Patches, Restarters, Checkers, Answers, NoCall, Layers, Files
<1>1. CASE EnterUpdate(t)
  BY <1>1, StateFacts, NotesAnswer DEF EnterUpdate, At, process, UpdateBusy, UpdateRefused,
     UpdateStarts
<1>2. CASE UpdateGenerates(t)
  BY <1>2, StateFacts, RedraftMoves, StageMoves, NotesAnswer DEF UpdateGenerates, At, process
<1>3. CASE UpdateValidates(t)
  BY <1>3, StateFacts, NotesYaml, NotesAnswer DEF UpdateValidates, At, process
<1>4. CASE UpdateWrites(t)
  BY <1>4, StateFacts, NotesAnswer DEF UpdateWrites, At, process
<1>5. CASE UpdateFindsAnotherMode(t)
  BY <1>5, StateFacts, NotesAnswer DEF UpdateFindsAnotherMode, At, process, Applied
<1>6. ASSUME NEW first \in StageAttempts, NEW again \in StageAttempts,
             UpdateStages(t, first, again)
      PROVE  Bystands(t)
  BY <1>6, StateFacts, NotesAnswer DEF UpdateStages, At, process, Applied
<1>7. CASE UpdateReloads(t)
  BY <1>7, StateFacts, NotesAnswer DEF UpdateReloads, At, Applied
<1>8. CASE UpdateRestarts(t)
  BY <1>8, StateFacts, NotesAnswer DEF UpdateRestarts, At, process, Applied, RestartCore
<1>9. CASE UpdateCommits(t)
  BY <1>9, StateFacts, ApplyMoves DEF UpdateCommits, At, process, EndUpdate
<1>10. CASE UpdateDrops(t)
  BY <1>10, StateFacts, DropMoves DEF UpdateDrops, At, process, EndUpdate
<1>11. CASE UpdateReturns(t)
  BY <1>11, StateFacts, Returns DEF UpdateReturns, At, process
<1>12. CASE UpdateChecked(t)
  BY <1>12, StateFacts DEF UpdateChecked, At, process
<1> QED
  BY <1>1, <1>2, <1>3, <1>4, <1>5, <1>6, <1>7, <1>8, <1>9, <1>10, <1>11, <1>12 DEF UpdateStep

LEMMA BystanderSaveStep ==
  ASSUME Typed, NEW t \in Callers, InPlace(t), kind[t] # "startup", updating # None,
      updating # t, Held(t), SaveStep(t)
  PROVE  Bystands(t)
<1> USE DEF Bystands, Held, HoldsFlag, Claims, InPlace, UpdateSteps, Staged, Writing, Restored,
        Continuing, Patches, Restarters, Checkers, Answers, NoCall, Layers, Files
<1>1. CASE SaveLocks(t)
  BY <1>1, StateFacts DEF SaveLocks, At, process, LockConfig
<1>2. CASE SaveBusy(t)
  BY <1>2, StateFacts, Returns DEF SaveBusy, At, process
<1>3. CASE SaveUnavailable(t)
  BY <1>3, StateFacts, Returns DEF SaveUnavailable, At, process
<1>4. CASE SaveStages(t)
  BY <1>4, StateFacts, LayerOps, NotesBorrowed DEF SaveStages, At, process
<1>5. CASE SaveGenerates(t)
  BY <1>5, StateFacts, RedraftMoves DEF SaveGenerates, At, process
<1>6. CASE SaveProbes(t)
  BY <1>6, StateFacts, DiscardedMoves, Returns DEF SaveProbes, At, process, RejectSave
<1>7. CASE SaveValidates(t)
  BY <1>7, StateFacts, DiscardedMoves, NotesFiles, Returns DEF SaveValidates, At, process,
     RejectSave
<1>8. CASE SaveWrites(t)
  BY <1>8, StateFacts, DiscardedMoves, Returns DEF SaveWrites, At, process, RejectSave
<1>9. CASE SaveRestarts(t)
  BY <1>9, StateFacts DEF SaveRestarts, At, process, RestartCore
<1>10. CASE SavePersists(t)
  BY <1>10, StateFacts DEF SavePersists, At, process
<1>11. CASE SavePersistsVerge(t)
  BY <1>11, StateFacts, AllMove, Returns DEF SavePersistsVerge, At, process
<1>12. CASE SaveUndoes(t)
  BY <1>12, StateFacts, AllMove, NotesAnswer DEF SaveUndoes, At, process
<1>13. CASE SaveReturnsToOldCore(t)
  BY <1>13, StateFacts, NotesAnswer DEF SaveReturnsToOldCore, At, process, RestartCore
<1>14. CASE SaveRefuses(t)
  BY <1>14, StateFacts, Returns DEF SaveRefuses, At, process
<1> QED
  BY <1>1, <1>2, <1>3, <1>4, <1>5, <1>6, <1>7, <1>8, <1>9, <1>10, <1>11, <1>12, <1>13, <1>14
     DEF SaveStep

LEMMA BystanderPatchStep ==
  ASSUME Typed, NEW t \in Callers, InPlace(t), kind[t] # "startup", updating # None,
      updating # t, Held(t), PatchStep(t)
  PROVE  Bystands(t)
<1> USE DEF Bystands, Held, HoldsFlag, Claims, InPlace, UpdateSteps, Staged, Writing, Restored,
        Continuing, Patches, Restarters, Checkers, Answers, NoCall, Layers, Files
<1>1. CASE PatchLocks(t)
  BY <1>1, StateFacts DEF PatchLocks, At, process, LockConfig
<1>2. CASE PatchStages(t)
  BY <1>2, StateFacts, StageMoves DEF PatchStages, At, process
<1>3. CASE FlagGenerates(t)
  BY <1>3, StateFacts, RedraftMoves, NotesAnswer DEF FlagGenerates, At, process, Give
<1>4. CASE RestartBusy(t)
  BY <1>4, StateFacts, NotesAnswer DEF RestartBusy, At, process, Give
<1>5. CASE RestartStarts(t)
  BY <1>5, StateFacts DEF RestartStarts, At, process
<1>6. CASE RestartEnds(t)
  BY <1>6, StateFacts, NotesAnswer DEF RestartEnds, At, process, Give, RestartCore
<1>7. CASE PatchCommits(t)
  BY <1>7, StateFacts, ApplyMoves, NotesAnswer DEF PatchCommits, At, process, Give
<1>8. CASE PatchSaves(t)
  BY <1>8, StateFacts, Returns DEF PatchSaves, At, process
<1>9. CASE PatchReverts(t)
  BY <1>9, StateFacts, DiscardedMoves, Returns DEF PatchReverts, At, process
<1>10. CASE RestartAnswers(t)
  BY <1>10, StateFacts, Returns DEF RestartAnswers, At, process
<1> QED
  BY <1>1, <1>2, <1>3, <1>4, <1>5, <1>6, <1>7, <1>8, <1>9, <1>10 DEF PatchStep

LEMMA BystanderContinueStep ==
  ASSUME Typed, NEW t \in Callers, InPlace(t), kind[t] # "startup", updating # None,
      updating # t, Held(t), ContinueStep(t)
  PROVE  Bystands(t)
<1> USE DEF Bystands, Held, HoldsFlag, Claims, InPlace, UpdateSteps, Staged, Writing, Restored,
        Continuing, Patches, Restarters, Checkers, Answers, NoCall, Layers, Files
<1>1. CASE ContinueBusy(t)
  BY <1>1, StateFacts, Returns DEF ContinueBusy, At, process
<1>2. CASE ContinueStarts(t)
  BY <1>2, StateFacts DEF ContinueStarts, At, process
<1>3. CASE ContinueLocks(t)
  BY <1>3, StateFacts, Returns DEF ContinueLocks, At, process
<1>4. CASE ContinuePrepares(t)
  BY <1>4, StateFacts, LayerOps, Returns DEF ContinuePrepares, At, process
<1>5. CASE ContinueGenerates(t)
  BY <1>5, StateFacts, RedraftMoves, Returns DEF ContinueGenerates, At, process
<1>6. CASE ContinueLaunches(t)
  BY <1>6, StateFacts, Returns DEF ContinueLaunches, At, process
<1> QED
  BY <1>1, <1>2, <1>3, <1>4, <1>5, <1>6 DEF ContinueStep

LEMMA BystanderUnclaimedStep ==
  ASSUME Typed, NEW t \in Callers, InPlace(t), kind[t] # "startup", updating # None,
      updating # t, Held(t), UnclaimedStep(t)
  PROVE  Bystands(t)
<1> USE DEF Bystands, Held, HoldsFlag, Claims, InPlace, UpdateSteps, Staged, Writing, Restored,
        Continuing, Patches, Restarters, Checkers, Answers, NoCall, Layers, Files
<1>1. CASE ClashStages(t)
  BY <1>1, StateFacts, StageMoves DEF ClashStages, At, process
<1>2. CASE ClashCommits(t)
  BY <1>2, StateFacts, ApplyMoves, Returns DEF ClashCommits, At, process
<1>3. CASE ClashFails(t)
  BY <1>3, StateFacts, Returns DEF ClashFails, At, process
<1>4. CASE CoreChanges(t)
  BY <1>4, StateFacts, ApplyMoves, LayerOps DEF CoreChanges, At, process
<1>5. CASE ChangedCoreSaves(t)
  BY <1>5, StateFacts, Returns DEF ChangedCoreSaves, At, process
<1>6. CASE CoreChanged(t)
  BY <1>6, StateFacts, Returns DEF CoreChanged, At, process
<1>7. CASE SaveAllClash(t)
  BY <1>7, StateFacts, ApplyMoves, Returns DEF SaveAllClash, At, process, SaveAll
<1>8. CASE SaveAllVerge(t)
  BY <1>8, StateFacts, ApplyMoves, Returns DEF SaveAllVerge, At, process, SaveAll
<1> QED
  BY <1>1, <1>2, <1>3, <1>4, <1>5, <1>6, <1>7, <1>8 DEF UnclaimedStep

\* Nobody but the tweaks and the borrowed ports puts a port a session may borrow
\* into the settings.
SettingsHoldNoPort ==
  \A l \in {"clash", "verge"} :
    layer[l].committed \subseteq Callers /\ Latest(layer[l]) \subseteq Callers

\* It holds at the start, and every step keeps it.
LEMMA SettingsInit == Init => SettingsHoldNoPort
BY DEF Init, SettingsHoldNoPort, NewLayer, Latest, Layers

LEMMA SettingsUpdateStep ==
  ASSUME Typed, NEW t \in Callers, SettingsHoldNoPort, UpdateStep(t)
  PROVE  SettingsHoldNoPort'
<1> USE DEF SettingsHoldNoPort, Layers
<1>1. CASE EnterUpdate(t)
  BY <1>1, StateFacts DEF EnterUpdate, UpdateBusy, UpdateRefused, UpdateStarts
<1>2. CASE UpdateGenerates(t)
  BY <1>2, StateFacts, RedraftMoves, StageMoves DEF UpdateGenerates
<1>3. CASE UpdateValidates(t)
  BY <1>3, StateFacts DEF UpdateValidates
<1>4. CASE UpdateWrites(t)
  BY <1>4, StateFacts DEF UpdateWrites
<1>5. CASE UpdateFindsAnotherMode(t)
  BY <1>5, StateFacts DEF UpdateFindsAnotherMode, Applied
<1>6. ASSUME NEW first \in StageAttempts, NEW again \in StageAttempts,
             UpdateStages(t, first, again)
      PROVE  SettingsHoldNoPort'
  BY <1>6, StateFacts DEF UpdateStages, Applied
<1>7. CASE UpdateReloads(t)
  BY <1>7, StateFacts DEF UpdateReloads, Applied
<1>8. CASE UpdateRestarts(t)
  BY <1>8, StateFacts DEF UpdateRestarts, Applied, RestartCore
<1>9. CASE UpdateCommits(t)
  BY <1>9, StateFacts, ApplyMoves DEF UpdateCommits, EndUpdate
<1>10. CASE UpdateDrops(t)
  BY <1>10, StateFacts, DropMoves DEF UpdateDrops, EndUpdate
<1>11. CASE UpdateReturns(t)
  BY <1>11, StateFacts DEF UpdateReturns
<1>12. CASE UpdateChecked(t)
  BY <1>12, StateFacts DEF UpdateChecked
<1> QED
  BY <1>1, <1>2, <1>3, <1>4, <1>5, <1>6, <1>7, <1>8, <1>9, <1>10, <1>11, <1>12 DEF UpdateStep

LEMMA SettingsSaveStep ==
  ASSUME Typed, NEW t \in Callers, SettingsHoldNoPort, SaveStep(t)
  PROVE  SettingsHoldNoPort'
<1> USE DEF SettingsHoldNoPort, Layers
<1>1. CASE SaveLocks(t)
  BY <1>1, StateFacts DEF SaveLocks, LockConfig
<1>2. CASE SaveBusy(t)
  BY <1>2, StateFacts DEF SaveBusy
<1>3. CASE SaveUnavailable(t)
  BY <1>3, StateFacts DEF SaveUnavailable
<1>4. CASE SaveStages(t)
  <2>1. /\ \A l \in Layers : layer'[l].committed = layer[l].committed
        /\ \A l \in {"clash", "verge"} : Latest(layer'[l]) = Latest(layer[l]) \cup {t}
    BY <1>4, PortsMove DEF SaveStages
  <2> QED
    BY <2>1
<1>5. CASE SaveGenerates(t)
  BY <1>5, StateFacts, RedraftMoves DEF SaveGenerates
<1>6. CASE SaveProbes(t)
  BY <1>6, StateFacts, DiscardedMoves DEF SaveProbes, RejectSave
<1>7. CASE SaveValidates(t)
  BY <1>7, StateFacts, DiscardedMoves DEF SaveValidates, RejectSave
<1>8. CASE SaveWrites(t)
  BY <1>8, StateFacts, DiscardedMoves DEF SaveWrites, RejectSave
<1>9. CASE SaveRestarts(t)
  BY <1>9, StateFacts DEF SaveRestarts, RestartCore
<1>10. CASE SavePersists(t)
  BY <1>10, StateFacts DEF SavePersists
<1>11. CASE SavePersistsVerge(t)
  BY <1>11, StateFacts, AllMove DEF SavePersistsVerge
<1>12. CASE SaveUndoes(t)
  BY <1>12, StateFacts, AllMove DEF SaveUndoes
<1>13. CASE SaveReturnsToOldCore(t)
  BY <1>13, StateFacts DEF SaveReturnsToOldCore, RestartCore
<1>14. CASE SaveRefuses(t)
  BY <1>14, StateFacts DEF SaveRefuses
<1> QED
  BY <1>1, <1>2, <1>3, <1>4, <1>5, <1>6, <1>7, <1>8, <1>9, <1>10, <1>11, <1>12, <1>13, <1>14
     DEF SaveStep

LEMMA SettingsPatchStep ==
  ASSUME Typed, NEW t \in Callers, SettingsHoldNoPort, PatchStep(t)
  PROVE  SettingsHoldNoPort'
<1> USE DEF SettingsHoldNoPort, Layers
<1>1. CASE PatchLocks(t)
  BY <1>1, StateFacts DEF PatchLocks, LockConfig
<1>2. CASE PatchStages(t)
  BY <1>2, StateFacts, StageMoves DEF PatchStages
<1>3. CASE FlagGenerates(t)
  BY <1>3, StateFacts, RedraftMoves DEF FlagGenerates, Give
<1>4. CASE RestartBusy(t)
  BY <1>4, StateFacts DEF RestartBusy, Give
<1>5. CASE RestartStarts(t)
  BY <1>5, StateFacts DEF RestartStarts
<1>6. CASE RestartEnds(t)
  BY <1>6, StateFacts DEF RestartEnds, Give, RestartCore
<1>7. CASE PatchCommits(t)
  BY <1>7, StateFacts, ApplyMoves DEF PatchCommits, Give
<1>8. CASE PatchSaves(t)
  BY <1>8, StateFacts DEF PatchSaves
<1>9. CASE PatchReverts(t)
  BY <1>9, StateFacts, DiscardedMoves DEF PatchReverts
<1>10. CASE RestartAnswers(t)
  BY <1>10, StateFacts DEF RestartAnswers
<1> QED
  BY <1>1, <1>2, <1>3, <1>4, <1>5, <1>6, <1>7, <1>8, <1>9, <1>10 DEF PatchStep

LEMMA SettingsStartupStep ==
  ASSUME Typed, NEW t \in Callers, SettingsHoldNoPort, StartupStep(t)
  PROVE  SettingsHoldNoPort'
<1> USE DEF SettingsHoldNoPort, Layers
<1>1. CASE StartupLocks(t)
  BY <1>1, StateFacts DEF StartupLocks, LockConfig
<1>2. CASE StartupKeepsPort(t)
  BY <1>2, StateFacts DEF StartupKeepsPort
<1>3. CASE StartupBorrows(t)
  BY <1>3, StateFacts DEF StartupBorrows
<1>4. CASE StartupStagesFallback(t)
  BY <1>4, StateFacts, RedraftMoves DEF StartupStagesFallback
<1>5. CASE StartupCommitsFallback(t)
  <2>1. \A l \in {"clash", "verge"} :
          \/ layer'[l] = layer[l]
          \/ layer'[l].committed = layer[l].committed /\ Latest(layer'[l]) = layer[l].committed
    BY <1>5, StateFacts, ApplyMoves, DiscardedMoves DEF StartupCommitsFallback
  <2> QED
    BY <2>1
<1>6. CASE StartupGenerates(t)
  BY <1>6, StateFacts, RedraftMoves DEF StartupGenerates
<1>7. CASE StartupValidates(t)
  BY <1>7, StateFacts, RedraftMoves DEF StartupValidates
<1>8. CASE StartupAdopts(t)
  BY <1>8, StateFacts, ApplyMoves DEF StartupAdopts
<1>9. CASE StartupLaunches(t)
  BY <1>9, StateFacts DEF StartupLaunches, RestartCore
<1>10. CASE StartupLaunchBusy(t)
  BY <1>10, StateFacts DEF StartupLaunchBusy
<1>11. CASE StartupRetries(t)
  BY <1>11, StateFacts DEF StartupRetries
<1>12. CASE StartupGivesUp(t)
  BY <1>12, StateFacts DEF StartupGivesUp
<1> QED
  BY <1>1, <1>2, <1>3, <1>4, <1>5, <1>6, <1>7, <1>8, <1>9, <1>10, <1>11, <1>12 DEF StartupStep

LEMMA SettingsContinueStep ==
  ASSUME Typed, NEW t \in Callers, SettingsHoldNoPort, ContinueStep(t)
  PROVE  SettingsHoldNoPort'
<1> USE DEF SettingsHoldNoPort, Layers
<1>1. CASE ContinueBusy(t)
  BY <1>1, StateFacts DEF ContinueBusy
<1>2. CASE ContinueStarts(t)
  BY <1>2, StateFacts DEF ContinueStarts
<1>3. CASE ContinueLocks(t)
  BY <1>3, StateFacts DEF ContinueLocks
<1>4. CASE ContinuePrepares(t)
  <2>1. PICK tunOff \in BOOLEAN, verge \in {layer.verge, ApplyDraft(EditDraft(layer.verge, t))} :
          /\ verge = IF tunOff THEN ApplyDraft(EditDraft(layer.verge, t)) ELSE layer.verge
          /\ layer' = [layer EXCEPT !["verge"] = verge]
    BY <1>4 DEF ContinuePrepares
  <2>2. layer.verge \in LayerState /\ EditDraft(layer.verge, t) \in LayerState
        /\ Latest(EditDraft(layer.verge, t)) = Latest(layer.verge) \cup {t}
    <3>1. layer["verge"] \in LayerState /\ t \in Edits
      BY StateFacts
    <3> QED
      BY <3>1, LayerOps
  <2>3. verge.committed \subseteq Callers /\ Latest(verge) \subseteq Callers
    BY <2>1, <2>2, LayerOps
  <2> QED
    BY <2>1, <2>3, StateFacts
<1>5. CASE ContinueGenerates(t)
  BY <1>5, StateFacts, RedraftMoves DEF ContinueGenerates
<1>6. CASE ContinueLaunches(t)
  BY <1>6, StateFacts DEF ContinueLaunches
<1> QED
  BY <1>1, <1>2, <1>3, <1>4, <1>5, <1>6 DEF ContinueStep

LEMMA SettingsUnclaimedStep ==
  ASSUME Typed, NEW t \in Callers, SettingsHoldNoPort, UnclaimedStep(t)
  PROVE  SettingsHoldNoPort'
<1> USE DEF SettingsHoldNoPort, Layers
<1>1. CASE ClashStages(t)
  BY <1>1, StateFacts, StageMoves DEF ClashStages
<1>2. CASE ClashCommits(t)
  BY <1>2, StateFacts, ApplyMoves DEF ClashCommits
<1>3. CASE ClashFails(t)
  BY <1>3, StateFacts DEF ClashFails
<1>4. CASE CoreChanges(t)
  BY <1>4, StateFacts, ApplyMoves, LayerOps DEF CoreChanges
<1>5. CASE ChangedCoreSaves(t)
  BY <1>5, StateFacts DEF ChangedCoreSaves
<1>6. CASE CoreChanged(t)
  BY <1>6, StateFacts DEF CoreChanged
<1>7. CASE SaveAllClash(t)
  BY <1>7, StateFacts, ApplyMoves DEF SaveAllClash, SaveAll
<1>8. CASE SaveAllVerge(t)
  BY <1>8, StateFacts, ApplyMoves DEF SaveAllVerge, SaveAll
<1> QED
  BY <1>1, <1>2, <1>3, <1>4, <1>5, <1>6, <1>7, <1>8 DEF UnclaimedStep

\* The ports a session borrows stay out of the settings.
LEMMA SettingsStep == ASSUME Base, SettingsHoldNoPort, [Next]_vars PROVE SettingsHoldNoPort'
<1>1. ASSUME NEW t \in Callers, Step(t) PROVE SettingsHoldNoPort'
  BY <1>1, SettingsUpdateStep, SettingsSaveStep, SettingsPatchStep, SettingsStartupStep,
     SettingsContinueStep, SettingsUnclaimedStep DEF Base, Step
<1>2. CASE CoreExits
  BY <1>2 DEF CoreExits, SettingsHoldNoPort
<1>3. CASE UNCHANGED vars
  BY <1>3 DEF vars, SettingsHoldNoPort
<1> QED
  BY <1>1, <1>2, <1>3 DEF Next, AllReturned

-----------------------------------------------------------------------------
(* The Core runs the committed Runtime layer *)

\* A Core that runs has loaded this content.
Loaded(content) == Running => core = content

\* Callers that claim what they stage, and whose proxy could be applied.
Sound ==
  /\ ~AnyOf(Unclaimed \cup {"patchRestart", "continueSidecar"})
  /\ \A t \in Callers : ~Tells(t, "unproxied") /\ ~Tells(t, "broken")

\* What the flag is given back with.
Settled == layer["runtime"].draft = NoDraft /\ Loaded(layer["runtime"].committed)

\* What the holder of the flag has staged, written and loaded so far.
Drafting ==
  {"validating", "writing", "staging", "reloading", "restarting", "committing", "probing",
   "validatingPorts", "writingPorts", "switching", "persisting", "persistingVerge"}
Undrafted == {"generating", "swappingCore", "assembling", "returning", "refusing"}
Untouched ==
  {"generating", "validating", "writing", "staging", "reloading", "restarting", "dropping",
   "swappingCore", "assembling", "probing", "validatingPorts", "writingPorts", "switching",
   "refusing"}
Replaced == {"committing", "persisting", "persistingVerge"}

\* Where a step is, the draft is there or not, the Core still runs the committed layer
\* or already the draft, and the file and the notes of the call hold the draft.
Progress(t) ==
  /\ pc[t] \in Drafting => layer["runtime"].draft # NoDraft
  /\ pc[t] \in Undrafted => layer["runtime"].draft = NoDraft
  /\ pc[t] \in Untouched => Loaded(layer["runtime"].committed)
  /\ pc[t] \in Replaced => Loaded(layer["runtime"].draft)
  /\ pc[t] \in {"writing", "staging", "reloading"} => call[t].yaml = layer["runtime"].draft
  /\ pc[t] \in {"staging", "reloading"} => disk["runtime"] = layer["runtime"].draft
  /\ pc[t] \in {"validatingPorts", "writingPorts", "switching", "persisting", "persistingVerge",
         "undoing"}
       /\ Running => call[t].running
  /\ pc[t] = "switching" => call[t].running

\* The Runtime layer is settled whenever nobody holds the flag.
RuntimeKept ==
  Sound => /\ updating = None => Settled
           /\ \A t \in Callers : Progress(t)

\* Whoever holds the flag makes progress or gives it back settled.
Proceeds(t) ==
  /\ pc'[t] \in UpdateSteps \cup Staged \cup Restored \cup {"swappingCore"} => Progress(t)'
  /\ ~HoldsFlag(t)' => Settled'

\* The latest content of the Runtime layer is its draft if it has one.
LEMMA LatestIs ==
  /\ layer["runtime"].draft # NoDraft => Latest(layer.runtime) = layer["runtime"].draft
  /\ layer["runtime"].draft = NoDraft => Latest(layer.runtime) = layer["runtime"].committed
BY DEF Latest

\* What a restart leaves running, by its outcome.
LEMMA RestartLoads ==
  ASSUME NEW outcome \in RestartOutcomes, RestartCore(outcome)
  PROVE  /\ outcome \in {"done", "proxyFails"} =>
              core' = Latest(layer.runtime) /\ mode' \in {"Service", "Sidecar"}
         /\ outcome = "startFails" => mode' = "NotRunning" /\ core' = {}
         /\ outcome = "stopFails" => mode' = mode /\ core' = core
         /\ outcome \in {"done", "proxyFails", "startFails", "stopFails"}
BY DEF RestartCore, Replace, RestartOutcomes, process

\* A step of the holder of the flag proceeds: each of its failures gives the flag back
\* with the committed layer loaded.
LEMMA RuntimeUpdateStep ==
  ASSUME Typed, NEW t \in Callers, InPlace(t), Held(t),
      kind[t] \in {"savePorts", "patch", "patchReload", "update", "tweak", "restart"},
      updating \in {None, t}, updating = None => Settled, Progress(t), ~Tells(t, "unproxied")',
      ~Tells(t, "broken")', UpdateStep(t)
  PROVE  Proceeds(t)
<1> USE DEF Proceeds, Progress, Settled, Loaded, Tells, Drafting, Undrafted, Untouched, Replaced,
        Held, HoldsFlag, Claims, InPlace, UpdateSteps, Checking, Staged, Writing, Restored,
        Continuing, Patches, Restarters, Checkers, Answers, NoCall, Layers, Files, Running
<1>1. CASE EnterUpdate(t)
  BY <1>1, StateFacts, NotesAnswer, Goes DEF EnterUpdate, At, process, UpdateBusy,
     UpdateRefused, UpdateStarts
<1>2. CASE UpdateGenerates(t)
  BY <1>2, StateFacts, RedraftMoves, StageMoves, NotesAnswer, Goes DEF UpdateGenerates, At,
     process
<1>3. CASE UpdateValidates(t)
  <2>1. /\ pc[t] = "validating" /\ layer["runtime"].draft # NoDraft
        /\ Loaded(layer["runtime"].committed)
        /\ UNCHANGED <<layer, core, mode, disk>>
    BY <1>3 DEF UpdateValidates, At, process
  <2>2. \/ pc'[t] = "writing" /\ call'[t].yaml = layer["runtime"].draft
        \/ pc'[t] = "dropping"
    <3>1. CASE Goto(t, "writing") /\ Note(t, "yaml", Latest(layer.runtime))
      BY <2>1, <3>1, StateFacts, LatestIs, NotesYaml, Goes
    <3>2. CASE Goto(t, "dropping")
      BY <3>2, Goes
    <3> QED
      BY <1>3, <3>1, <3>2 DEF UpdateValidates
  <2> QED
    BY <2>1, <2>2
<1>4. CASE UpdateWrites(t)
  BY <1>4, StateFacts, NotesAnswer, Goes DEF UpdateWrites, At, process
<1>5. CASE UpdateFindsAnotherMode(t)
  BY <1>5, StateFacts, NotesAnswer, Goes DEF UpdateFindsAnotherMode, At, process, Applied
<1>6. ASSUME NEW first \in StageAttempts, NEW again \in StageAttempts,
             UpdateStages(t, first, again)
      PROVE  Proceeds(t)
  BY <1>6, StateFacts, NotesAnswer, Goes DEF UpdateStages, At, process, Applied, Replace,
     Outcome, RestartOutcomes
<1>7. CASE UpdateReloads(t)
  BY <1>7, StateFacts, NotesAnswer, Goes DEF UpdateReloads, At, Applied
<1>8. CASE UpdateRestarts(t)
  <2>1. PICK outcome \in RestartOutcomes : RestartCore(outcome) /\ Applied(t, Outcome(outcome))
    BY <1>8 DEF UpdateRestarts
  <2>2. /\ call'[t].answer = Outcome(outcome)
        /\ pc'[t] = IF Outcome(outcome) = "ok" THEN "committing" ELSE "dropping"
    BY <2>1, NotesAnswer, Goes DEF Applied, Outcome
  <2>3. outcome # "proxyFails"
    BY <2>2 DEF Outcome
  <2>4. /\ layer["runtime"].draft # NoDraft /\ Loaded(layer["runtime"].committed) /\ layer' = layer
    BY <1>8 DEF UpdateRestarts, At
  <2>5. CASE outcome = "done"
    <3>1. Loaded(layer["runtime"].draft)'
      BY <2>1, <2>4, <2>5, RestartLoads, LatestIs
    <3> QED
      BY <2>2, <2>4, <2>5, <3>1 DEF Outcome
  <2>6. CASE outcome # "done"
    <3>1. Loaded(layer["runtime"].committed)'
      BY <2>1, <2>3, <2>4, <2>6, RestartLoads
    <3> QED
      BY <2>2, <2>3, <2>4, <2>6, <3>1 DEF Outcome
  <2> QED
    BY <2>5, <2>6
<1>9. CASE UpdateCommits(t)
  <2>1. /\ pc[t] = "committing" /\ pc'[t] = "answering"
        /\ layer'["runtime"].draft = NoDraft
        /\ layer'["runtime"].committed = Latest(layer.runtime)
        /\ mode' = mode /\ core' = core
    BY <1>9, StateFacts, ApplyMoves, Goes DEF UpdateCommits, EndUpdate, At, process
  <2>2. Loaded(Latest(layer.runtime))
    BY <2>1, LatestIs
  <2>3. Settled'
    BY <2>1, <2>2
  <2> QED
    BY <2>1, <2>3
<1>10. CASE UpdateDrops(t)
  BY <1>10, StateFacts, DropMoves, Goes DEF UpdateDrops, At, process, EndUpdate
<1>11. CASE UpdateReturns(t)
  BY <1>11, StateFacts, Returns, Goes DEF UpdateReturns, At, process
<1>12. CASE UpdateChecked(t)
  BY <1>12, StateFacts, Goes DEF UpdateChecked, At, process
<1> QED
  BY <1>1, <1>2, <1>3, <1>4, <1>5, <1>6, <1>7, <1>8, <1>9, <1>10, <1>11, <1>12 DEF UpdateStep

LEMMA RuntimeSaveStep ==
  ASSUME Typed, NEW t \in Callers, InPlace(t), Held(t),
      kind[t] \in {"savePorts", "patch", "patchReload", "update", "tweak", "restart"},
      updating \in {None, t}, updating = None => Settled, Progress(t), ~Tells(t, "unproxied")',
      ~Tells(t, "broken")', SaveStep(t)
  PROVE  Proceeds(t)
<1> USE DEF Proceeds, Progress, Settled, Loaded, Tells, Drafting, Undrafted, Untouched, Replaced,
        Held, HoldsFlag, Claims, InPlace, UpdateSteps, Checking, Staged, Writing, Restored,
        Continuing, Patches, Restarters, Checkers, Answers, NoCall, Layers, Files, Running
<1>1. CASE SaveLocks(t)
  BY <1>1, StateFacts, Goes DEF SaveLocks, At, process, LockConfig
<1>2. CASE SaveBusy(t)
  BY <1>2, StateFacts, Returns, Goes DEF SaveBusy, At, process
<1>3. CASE SaveUnavailable(t)
  BY <1>3, StateFacts, Returns, Goes DEF SaveUnavailable, At, process
<1>4. CASE SaveStages(t)
  BY <1>4, StateFacts, LayerOps, NotesBorrowed, Goes DEF SaveStages, At, process
<1>5. CASE SaveGenerates(t)
  BY <1>5, StateFacts, RedraftMoves, Goes DEF SaveGenerates, At, process
<1>6. CASE SaveProbes(t)
  <2>1. /\ pc[t] = "probing" /\ mode' = mode /\ core' = core /\ disk' = disk
        /\ Loaded(layer["runtime"].committed) /\ layer["runtime"].draft # NoDraft
    BY <1>6 DEF SaveProbes, At, process
  <2>2. CASE RejectSave(t, "rejected")
    <3>1. /\ pc'[t] = "done" /\ layer'["runtime"].draft = NoDraft
          /\ layer'["runtime"].committed = layer["runtime"].committed
      BY <2>1, <2>2, Rejected
    <3> QED
      BY <2>1, <3>1
  <2>3. CASE ~RejectSave(t, "rejected")
    <3>1. pc'[t] = "validatingPorts" /\ layer' = layer /\ call'[t].running = Running
      BY <1>6, <2>3, Goes, ProbeNotes DEF SaveProbes
    <3> QED
      BY <2>1, <3>1
  <2> QED
    BY <2>2, <2>3
<1>7. CASE SaveValidates(t)
  BY <1>7, StateFacts, DiscardedMoves, NotesFiles, Returns, Goes DEF SaveValidates, At, process,
     RejectSave
<1>8. CASE SaveWrites(t)
  BY <1>8, StateFacts, DiscardedMoves, Returns, Goes DEF SaveWrites, At, process, RejectSave
<1>9. CASE SaveRestarts(t)
  <2>1. PICK outcome \in RestartOutcomes :
          /\ RestartCore(outcome)
          /\ Goto(t, IF outcome = "done" THEN "persisting" ELSE "undoing")
    BY <1>9 DEF SaveRestarts
  <2>2. pc'[t] = IF outcome = "done" THEN "persisting" ELSE "undoing"
    BY <2>1, Goes
  <2>3. /\ pc[t] = "switching" /\ layer["runtime"].draft # NoDraft /\ call[t].running
        /\ layer' = layer /\ call' = call
    BY <1>9 DEF SaveRestarts, At
  <2>4. outcome = "done" => Loaded(layer["runtime"].draft)'
    BY <2>1, <2>3, RestartLoads, LatestIs
  <2> QED
    BY <2>2, <2>3, <2>4
<1>10. CASE SavePersists(t)
  BY <1>10, StateFacts, Goes DEF SavePersists, At, process
<1>11. CASE SavePersistsVerge(t)
  <2>1. /\ pc[t] = "persistingVerge" /\ layer["runtime"].draft # NoDraft
        /\ Loaded(layer["runtime"].draft) /\ core' = core /\ mode' = mode
        /\ Running => call[t].running
    BY <1>11 DEF SavePersistsVerge, At, process
  <2>2. CASE Answer(t, "ok") /\ layer' = [l \in Layers |-> ApplyDraft(layer[l])]
    <3>1. /\ pc'[t] = "done" /\ layer'["runtime"].draft = NoDraft
          /\ layer'["runtime"].committed = layer["runtime"].draft
      BY <2>1, <2>2, StateFacts, Returns, AllMove, LatestIs
    <3> QED
      BY <2>1, <3>1
  <2>3. CASE Goto(t, "undoing") /\ UNCHANGED <<layer, call>>
    <3>1. pc'[t] = "undoing"
      BY <2>3, Goes
    <3> QED
      BY <2>1, <2>3, <3>1
  <2> QED
    BY <1>11, <2>2, <2>3 DEF SavePersistsVerge
<1>12. CASE SaveUndoes(t)
  BY <1>12, StateFacts, AllMove, NotesAnswer, Goes DEF SaveUndoes, At, process
<1>13. CASE SaveReturnsToOldCore(t)
  <2>1. PICK outcome \in RestartOutcomes :
          /\ RestartCore(outcome)
          /\ IF outcome = "done" THEN UNCHANGED call ELSE Note(t, "answer", "broken")
    BY <1>13 DEF SaveReturnsToOldCore
  <2>2. outcome = "done"
    BY <2>1, NotesAnswer
  <2>3. pc[t] = "returning" /\ pc'[t] = "refusing" /\ layer["runtime"].draft = NoDraft
        /\ layer' = layer
    BY <1>13, Goes DEF SaveReturnsToOldCore, At
  <2>4. Loaded(layer["runtime"].committed)'
    BY <2>1, <2>2, <2>3, RestartLoads, LatestIs
  <2> QED
    BY <2>3, <2>4
<1>14. CASE SaveRefuses(t)
  BY <1>14, StateFacts, Returns, Goes DEF SaveRefuses, At, process
<1> QED
  BY <1>1, <1>2, <1>3, <1>4, <1>5, <1>6, <1>7, <1>8, <1>9, <1>10, <1>11, <1>12, <1>13, <1>14
     DEF SaveStep

LEMMA RuntimePatchStep ==
  ASSUME Typed, NEW t \in Callers, InPlace(t), Held(t),
      kind[t] \in {"savePorts", "patch", "patchReload", "update", "tweak", "restart"},
      updating \in {None, t}, updating = None => Settled, Progress(t), ~Tells(t, "unproxied")',
      ~Tells(t, "broken")', PatchStep(t)
  PROVE  Proceeds(t)
<1> USE DEF Proceeds, Progress, Settled, Loaded, Tells, Drafting, Undrafted, Untouched, Replaced,
        Held, HoldsFlag, Claims, InPlace, UpdateSteps, Checking, Staged, Writing, Restored,
        Continuing, Patches, Restarters, Checkers, Answers, NoCall, Layers, Files, Running
<1>1. CASE PatchLocks(t)
  BY <1>1, StateFacts, Goes DEF PatchLocks, At, process, LockConfig
<1>2. CASE PatchStages(t)
  BY <1>2, StateFacts, StageMoves, Goes DEF PatchStages, At, process
<1>3. CASE FlagGenerates(t)
  BY <1>3, StateFacts, RedraftMoves, NotesAnswer, Goes DEF FlagGenerates, At, process, Give
<1>4. CASE RestartBusy(t)
  BY <1>4, StateFacts, NotesAnswer, Goes DEF RestartBusy, At, process, Give
<1>5. CASE RestartStarts(t)
  BY <1>5, StateFacts, Goes DEF RestartStarts, At, process
<1>6. CASE RestartEnds(t)
  <2>1. kind[t] = "restart" /\ pc[t] = "swappingCore"
    BY <1>6 DEF RestartEnds, At
  <2>2. PICK outcome \in RestartOutcomes :
          /\ RestartCore(outcome)
          /\ IF outcome = "done" THEN Goto(t, "finishing") ELSE Give(t, Outcome(outcome))
    BY <1>6, <2>1 DEF RestartEnds
  <2>3. pc'[t] = IF outcome = "done" THEN "finishing" ELSE "reverting"
    BY <2>2, Goes DEF Give
  <2>4. outcome # "proxyFails"
    <3> SUFFICES ASSUME outcome = "proxyFails" PROVE FALSE
      OBVIOUS
    <3>1. call'[t].answer = "unproxied"
      BY <2>2, NotesAnswer DEF Give, Outcome
    <3> QED
      BY <3>1
  <2>5. layer["runtime"].draft = NoDraft /\ Loaded(layer["runtime"].committed) /\ layer' = layer
    BY <1>6, <2>1 DEF RestartEnds
  <2>6. Settled'
    BY <2>2, <2>4, <2>5, RestartLoads, LatestIs
  <2> QED
    BY <2>3, <2>6
<1>7. CASE PatchCommits(t)
  BY <1>7, StateFacts, ApplyMoves, NotesAnswer, Goes DEF PatchCommits, At, process, Give
<1>8. CASE PatchSaves(t)
  BY <1>8, StateFacts, Returns, Goes DEF PatchSaves, At, process
<1>9. CASE PatchReverts(t)
  <2>1. /\ pc[t] = "reverting" /\ pc'[t] = "done" /\ core' = core /\ mode' = mode
    BY <1>9, StateFacts, Returns DEF PatchReverts, At, process
  <2>2. ~HoldsFlag(t) /\ ~Claims(t, "runtime")
    BY <2>1
  <2>3. updating = None /\ claim["runtime"] # t
    BY <2>2
  <2>4. layer'["runtime"] = layer["runtime"]
    BY <1>9, <2>3, StateFacts, DiscardedMoves DEF PatchReverts
  <2> QED
    BY <2>1, <2>3, <2>4
<1>10. CASE RestartAnswers(t)
  BY <1>10, StateFacts, Returns, Goes DEF RestartAnswers, At, process
<1> QED
  BY <1>1, <1>2, <1>3, <1>4, <1>5, <1>6, <1>7, <1>8, <1>9, <1>10 DEF PatchStep

\* Every step keeps the Runtime layer settled or in progress.
LEMMA RuntimeKeptStep ==
  ASSUME Base, \A t \in Callers : Answering(t), RuntimeKept, [Next]_vars
  PROVE  RuntimeKept'
<1>1. ASSUME NEW t \in Callers, Step(t), Sound' PROVE RuntimeKept'
  <2>1. OneMoves(t) /\ LocksMove(t)
    BY <1>1, StepMoves
  <2>2. AnswersMove(t)
    BY <1>1, AnswersStep
  <2>3. Sound
    <3>1. \A u \in Callers : /\ Tells(u, "unproxied") => Tells(u, "unproxied")'
                             /\ Tells(u, "broken") => Tells(u, "broken")'
      BY <2>1, <2>2 DEF OneMoves, AnswersMove, Tells
    <3> QED
      BY <1>1, <2>1, <3>1 DEF Sound, AnyOf, OneMoves
  <2>4. /\ kind[t] \in {"savePorts", "patch", "patchReload", "update", "tweak", "restart"}
        /\ kind[t] \notin Unclaimed /\ ~AnyOf(Unclaimed)
    BY <2>3 DEF Sound, AnyOf, Base, Typed, AllKinds, Unclaimed
  <2>5. /\ Typed /\ InPlace(t) /\ Held(t)
        /\ UpdateStep(t) \/ SaveStep(t) \/ PatchStep(t) \/ ContinueStep(t)
    BY <1>1, <2>4, ClaimersOnly DEF Base
  <2>6. ~ContinueStep(t)
    BY <2>4, <2>5 DEF ContinueStep, ContinueBusy, ContinueStarts, ContinueLocks,
       ContinuePrepares, ContinueGenerates, ContinueLaunches, At, InPlace, Continuing
  <2>7. /\ updating = None => Settled
        /\ \A u \in Callers : Progress(u)
    BY <2>3 DEF RuntimeKept
  <2>8. \A u \in Callers : u # t =>
          pc'[u] = pc[u] /\ call'[u] = call[u] /\ (updating' = u <=> updating = u)
    BY <2>1 DEF OneMoves, LocksMove
  <2>9. \A u \in Callers : updating # u /\ u # t => Progress(u)'
    <3> SUFFICES ASSUME NEW u \in Callers, updating # u, u # t PROVE Progress(u)'
      OBVIOUS
    <3>1. ~HoldsFlag(u)
      BY DEF Base, Held
    <3> QED
      BY <2>8, <3>1 DEF Progress, HoldsFlag, Drafting, Undrafted, Untouched, Replaced,
         UpdateSteps, Staged, Writing, Restored
  <2>10. CASE updating \in {None, t}
    <3>1. Proceeds(t)
      BY <1>1, <2>4, <2>5, <2>6, <2>7, <2>10, RuntimeUpdateStep, RuntimeSaveStep,
         RuntimePatchStep DEF Sound
    <3>2. Progress(t)'
      BY <3>1 DEF Proceeds, Progress, Drafting, Undrafted, Untouched, Replaced, UpdateSteps,
         Staged, Writing, Restored
    <3>3. \A u \in Callers : u # t => updating # u
      BY <2>10, EditsAre
    <3>4. updating' = None => Settled'
      BY <2>1, <3>1, EditsAre DEF LocksMove, Proceeds
    <3> QED
      BY <2>9, <3>2, <3>3, <3>4 DEF RuntimeKept
  <2>11. CASE updating \notin {None, t}
    <3>1. Bystands(t) /\ pc[t] # "building"
      <4>1. pc[t] # "building"
        BY <2>4, <2>5 DEF InPlace, Restarters
      <4> QED
        BY <2>4, <2>5, <2>6, <2>11, <4>1, BystanderUpdateStep, BystanderSaveStep,
           BystanderPatchStep DEF Unclaimed
    <3>2. layer'["runtime"] = layer["runtime"] /\ core' = core /\ mode' = mode
          /\ disk'["runtime"] = disk["runtime"]
      BY <3>1 DEF Bystands
    <3>3. updating \in Callers /\ updating' = updating
      <4>1. updating \in Callers
        BY <2>5, <2>11 DEF Typed, TypeOK
      <4> QED
        BY <2>8, <2>11, <4>1
    <3>4. ASSUME NEW u \in Callers PROVE Progress(u)'
      <4>1. CASE u # t
        BY <2>7, <2>8, <3>2, <4>1 DEF Progress, Loaded, Running
      <4>2. CASE u = t
        <5>1. ~HoldsFlag(t)'
          BY <2>1, <2>11, <3>3 DEF LocksMove
        <5> QED
          BY <4>2, <5>1 DEF Progress, HoldsFlag, Drafting, Undrafted, Untouched, Replaced,
             UpdateSteps, Staged, Writing, Restored
      <4> QED
        BY <4>1, <4>2
    <3> QED
      BY <2>11, <3>3, <3>4, EditsAre DEF RuntimeKept
  <2> QED
    BY <2>10, <2>11
<1>2. CASE CoreExits
  <2>1. UNCHANGED <<kind, layer, disk, updating, pc, call, result>> /\ ~Running'
    BY <1>2 DEF CoreExits, Running, locks
  <2> QED
    BY <2>1 DEF RuntimeKept, Sound, AnyOf, Tells, Settled, Loaded, Progress
<1>3. CASE UNCHANGED vars
  <2>1. UNCHANGED <<kind, layer, disk, core, mode, updating, pc, call, result>>
    BY <1>3 DEF vars, process, locks
  <2> QED
    BY <2>1 DEF RuntimeKept, Sound, AnyOf, Tells, Settled, Loaded, Running, Progress
<1> QED
  BY <1>1, <1>2, <1>3 DEF Next, AllReturned, RuntimeKept

\* At the start the Core runs the committed layer.
LEMMA RuntimeKeptInit == Init => RuntimeKept
<1> SUFFICES ASSUME Init, Sound PROVE RuntimeKept
  BY DEF RuntimeKept
<1>1. ~AnyOf({"startup"})
  BY DEF Sound, AnyOf, Unclaimed
<1>2. layer["runtime"] = [NewLayer EXCEPT !.committed = BorrowedPort, !.identity = 1]
  BY <1>1 DEF Init, Layers
<1>3. Settled
  BY <1>2 DEF Init, Settled, Loaded, NewLayer
<1>4. \A t \in Callers : Progress(t)
  BY DEF Init, Progress, Drafting, Undrafted, Untouched, Replaced
<1> QED
  BY <1>3, <1>4 DEF RuntimeKept

\* Callers that claim what they stage leave the Core on the Runtime layer that is
\* committed, whichever of their steps fail (CoreRunsCommittedRuntime;
\* perform_config_update, save_proxy_ports, restart_core): the flag keeps all of
\* them but its holder away from the layer, the file and the Core.
THEOREM CoreFollowsRuntime == Spec => []CoreRunsCommittedRuntime
<1> DEFINE Inv == Base /\ (\A t \in Callers : Answering(t)) /\ RuntimeKept
<1>1. Init => Inv
  BY BaseInit, AnsweringInit, RuntimeKeptInit
<1>2. Inv /\ [Next]_vars => Inv'
  BY BaseStep, AnsweringStep, RuntimeKeptStep
<1>3. Inv => CoreRunsCommittedRuntime
  <2> SUFFICES ASSUME Inv, AtRest, Running, ~AnyOf(Unclaimed \cup {"patchRestart",
          "continueSidecar"}),
                      \A t \in Callers : result[t] \notin {"unproxied", "broken"}
               PROVE  core = layer.runtime.committed
    BY DEF CoreRunsCommittedRuntime
  <2>1. ASSUME NEW t \in Callers
        PROVE  updating # t /\ ~Tells(t, "unproxied") /\ ~Tells(t, "broken")
    <3>1. pc[t] \in {"idle", "done"} /\ Held(t) /\ Answering(t)
      BY DEF AtRest, Base
    <3> QED
      BY <3>1 DEF Held, HoldsFlag, Answering, Tells, UpdateSteps, Staged, Writing, Restored,
         Continuing
  <2>2. updating = None /\ Sound
    BY <2>1 DEF Base, Typed, TypeOK, Sound
  <2> QED
    BY <2>2 DEF RuntimeKept, Settled, Loaded
<1> QED
  BY <1>1, <1>2, <1>3, PTL DEF Spec

-----------------------------------------------------------------------------
(* The Core serves on the port the session names *)

\* The ports in a content are those the session borrows, and the Core serves on them.
Port(q) == IF q = None THEN {} ELSE {q}
On(content, q) == content \cap BorrowedPorts = Port(q)
Serves(q) == Running => On(core, q)

\* Both the committed Runtime layer and the one in preparation name the port.
Provided == On(layer["runtime"].committed, borrowed) /\ On(Latest(layer["runtime"]), borrowed)

\* So do the contents an update is about to write or to load.
Carries(u) ==
  /\ pc[u] \in {"writing", "staging", "reloading"} => On(call[u].yaml, borrowed)
  /\ pc[u] \in {"staging", "reloading"} => On(disk["runtime"], borrowed)

\* A save gives the port up in its drafts, then in the Core, and keeps it in what
\* it would go back to.
GivesUp(s) ==
  /\ borrowed = None
  /\ On(layer["runtime"].committed, call[s].borrowed)
  /\ pc[s] \notin {"assembling", "undoing"} => On(Latest(layer["runtime"]), None)
  /\ pc[s] \in {"assembling", "probing", "validatingPorts", "writingPorts", "switching"} =>
       Serves(call[s].borrowed)
  /\ pc[s] \in {"persisting", "persistingVerge"} => Serves(None)
  /\ pc[s] \in Writing \cup {"validatingPorts"} /\ Running => call[s].running
  /\ pc[s] = "switching" => call[s].running

\* No save has staged ports; and one has reported that it could not undo.
Calm == \A t \in Callers : pc[t] \notin Staged
Broken == \E t \in Callers : kind[t] = "savePorts" /\ Tells(t, "broken")

\* In calm the Core serves on the port the session names; a save that has staged carries
\* the port it will go back to.
PortKept ==
  ~AnyOf({"startup"}) /\ ~Broken =>
    /\ Calm => /\ Provided
               /\ \A u \in Callers : Carries(u)
               /\ (\A t \in Callers : pc[t] # "returning") => Serves(borrowed)
    /\ \A s \in Callers : pc[s] \in Staged => GivesUp(s)

\* A step while no save has staged anything: it is the staging of one, or it keeps
\* the port in all it prepares and loads.
CalmMoves(t) ==
  \/ /\ pc'[t] = "assembling"
     /\ borrowed' = None /\ call'[t].borrowed = borrowed
     /\ layer'["runtime"].committed = layer["runtime"].committed
     /\ UNCHANGED <<core, mode>>
     /\ pc[t] # "returning"
  \/ /\ pc'[t] \notin Staged
     /\ borrowed' = borrowed
     /\ Provided'
     /\ Carries(t)'
     /\ \/ UNCHANGED <<core, mode>> /\ pc[t] # "returning"
        \/ Serves(borrowed)'
        \/ pc[t] = "returning" /\ Tells(t, "broken")'

\* A step of the save that has staged: it goes on, or everything names the port
\* again once its old Core has started.
SaveMoves(t) ==
  IF pc'[t] \in Staged THEN GivesUp(t)'
  ELSE Provided' /\ (pc'[t] = "returning" \/ Serves(borrowed)')

\* What is generated names the port of the session.
LEMMA GeneratedPort ==
  ASSUME Typed, SettingsHoldNoPort
  PROVE  On(Generated, borrowed)
BY CallerAssumption DEF Typed, SettingsHoldNoPort, On, Port, Generated, BorrowedPort

\* An edit adds no port.
LEMMA StagedPort ==
  ASSUME NEW t \in Callers, NEW content, NEW q, On(content, q)
  PROVE  On(content \cup {t}, q)
BY CallerAssumption DEF On

\* The steps of every caller while no save has staged.
LEMMA CalmUpdateStep ==
  ASSUME Typed, NEW t \in Callers, InPlace(t), Held(t), kind[t] # "startup",
      pc[t] \notin Staged, SettingsHoldNoPort, Provided, Carries(t), UpdateStep(t)
  PROVE  CalmMoves(t)
<1> USE DEF CalmMoves, Provided, Carries, Serves, Tells, Held, HoldsFlag, Claims, InPlace,
        UpdateSteps, Checking, Staged, Writing, Restored, Continuing, Patches, Restarters,
        Checkers, Answers, NoCall, Layers, Files, Running
<1>1. CASE EnterUpdate(t)
  BY <1>1, StateFacts, GeneratedPort, NotesAnswer, Goes DEF EnterUpdate, At, process,
     UpdateBusy, UpdateRefused, UpdateStarts
<1>2. CASE UpdateGenerates(t)
  <2>1. /\ pc[t] = "generating" /\ UNCHANGED <<core, mode, borrowed, disk>>
        /\ pc'[t] \in {"validating", "dropping"}
    BY <1>2, Goes DEF UpdateGenerates, At, process
  <2>2. Provided'
    <3>1. CASE layer' = layer
      BY <2>1, <3>1
    <3>2. CASE layer' = Stage("runtime", t)
      <4>1. /\ layer'["runtime"].committed = layer["runtime"].committed
            /\ Latest(layer'["runtime"]) = Latest(layer["runtime"]) \cup {t}
        BY <3>2, StateFacts, StageMoves
      <4> QED
        BY <2>1, <4>1, StagedPort
    <3>3. CASE layer' = Redraft("runtime", Generated)
      BY <2>1, <3>3, StateFacts, RedraftMoves, GeneratedPort
    <3> QED
      BY <1>2, <3>1, <3>2, <3>3 DEF UpdateGenerates
  <2> QED
    BY <2>1, <2>2
<1>3. CASE UpdateValidates(t)
  BY <1>3, StateFacts, GeneratedPort, NotesYaml, NotesAnswer, Goes DEF UpdateValidates, At,
     process
<1>4. CASE UpdateWrites(t)
  BY <1>4, StateFacts, GeneratedPort, NotesAnswer, Goes DEF UpdateWrites, At, process
<1>5. CASE UpdateFindsAnotherMode(t)
  BY <1>5, StateFacts, GeneratedPort, NotesAnswer, Goes DEF UpdateFindsAnotherMode, At, process,
     Applied
<1>6. ASSUME NEW first \in StageAttempts, NEW again \in StageAttempts,
             UpdateStages(t, first, again)
      PROVE  CalmMoves(t)
  <2>1. /\ pc[t] = "staging" /\ On(disk["runtime"], borrowed)
        /\ UNCHANGED <<layer, borrowed>>
    BY <1>6 DEF UpdateStages, At
  <2>2. PICK answer \in Answers : Applied(t, answer)
    BY <1>6, StateFacts, Replaces DEF UpdateStages
  <2>3. pc'[t] \in {"committing", "dropping"}
    BY <2>2, Goes DEF Applied
  <2>4. UNCHANGED <<core, mode>> \/ Serves(borrowed)'
    BY <1>6, <2>1 DEF UpdateStages, Replace, RestartOutcomes, process
  <2> QED
    BY <2>1, <2>3, <2>4
<1>7. CASE UpdateReloads(t)
  BY <1>7, StateFacts, GeneratedPort, NotesAnswer, Goes DEF UpdateReloads, At, Applied
<1>8. CASE UpdateRestarts(t)
  BY <1>8, StateFacts, GeneratedPort, NotesAnswer, Goes, RestartLoads DEF UpdateRestarts, At,
     process, Applied, Outcome
<1>9. CASE UpdateCommits(t)
  BY <1>9, StateFacts, GeneratedPort, ApplyMoves, Goes DEF UpdateCommits, At, process, EndUpdate
<1>10. CASE UpdateDrops(t)
  BY <1>10, StateFacts, GeneratedPort, DropMoves, Goes DEF UpdateDrops, At, process, EndUpdate
<1>11. CASE UpdateReturns(t)
  BY <1>11, StateFacts, GeneratedPort, Returns, Goes DEF UpdateReturns, At, process
<1>12. CASE UpdateChecked(t)
  BY <1>12, StateFacts, GeneratedPort, Goes DEF UpdateChecked, At, process
<1> QED
  BY <1>1, <1>2, <1>3, <1>4, <1>5, <1>6, <1>7, <1>8, <1>9, <1>10, <1>11, <1>12 DEF UpdateStep

LEMMA CalmSaveStep ==
  ASSUME Typed, NEW t \in Callers, InPlace(t), Held(t), kind[t] # "startup",
      pc[t] \notin Staged, SettingsHoldNoPort, Provided, Carries(t), SaveStep(t)
  PROVE  CalmMoves(t)
<1> USE DEF CalmMoves, Provided, Carries, Serves, Tells, Held, HoldsFlag, Claims, InPlace,
        UpdateSteps, Checking, Staged, Writing, Restored, Continuing, Patches, Restarters,
        Checkers, Answers, NoCall, Layers, Files, Running
<1>1. CASE SaveLocks(t)
  BY <1>1, StateFacts, GeneratedPort, Goes DEF SaveLocks, At, process, LockConfig
<1>2. CASE SaveBusy(t)
  BY <1>2, StateFacts, GeneratedPort, Returns, Goes DEF SaveBusy, At, process
<1>3. CASE SaveUnavailable(t)
  BY <1>3, StateFacts, GeneratedPort, Returns, Goes DEF SaveUnavailable, At, process
<1>4. CASE SaveStages(t)
  BY <1>4, StateFacts, GeneratedPort, LayerOps, NotesBorrowed, Goes DEF SaveStages, At, process
<1>5. CASE SaveGenerates(t)
  BY <1>5, StateFacts, GeneratedPort, RedraftMoves, Goes DEF SaveGenerates, At, process
<1>6. CASE SaveProbes(t)
  BY <1>6, StateFacts, GeneratedPort, DiscardedMoves, Returns, Goes DEF SaveProbes, At, process,
     RejectSave
<1>7. CASE SaveValidates(t)
  BY <1>7, StateFacts, GeneratedPort, DiscardedMoves, NotesFiles, Returns, Goes
     DEF SaveValidates, At, process, RejectSave
<1>8. CASE SaveWrites(t)
  BY <1>8, StateFacts, GeneratedPort, DiscardedMoves, Returns, Goes DEF SaveWrites, At, process,
     RejectSave
<1>9. CASE SaveRestarts(t)
  BY <1>9, StateFacts, GeneratedPort, Goes, RestartLoads DEF SaveRestarts, At, process
<1>10. CASE SavePersists(t)
  BY <1>10, StateFacts, GeneratedPort, Goes DEF SavePersists, At, process
<1>11. CASE SavePersistsVerge(t)
  BY <1>11, StateFacts, GeneratedPort, AllMove, Returns, Goes DEF SavePersistsVerge, At, process
<1>12. CASE SaveUndoes(t)
  BY <1>12, StateFacts, GeneratedPort, AllMove, NotesAnswer, Goes DEF SaveUndoes, At, process
<1>13. CASE SaveReturnsToOldCore(t)
  BY <1>13, StateFacts, GeneratedPort, NotesAnswer, Goes, RestartLoads DEF SaveReturnsToOldCore,
     At, process
<1>14. CASE SaveRefuses(t)
  BY <1>14, StateFacts, GeneratedPort, Returns, Goes DEF SaveRefuses, At, process
<1> QED
  BY <1>1, <1>2, <1>3, <1>4, <1>5, <1>6, <1>7, <1>8, <1>9, <1>10, <1>11, <1>12, <1>13, <1>14
     DEF SaveStep

LEMMA CalmPatchStep ==
  ASSUME Typed, NEW t \in Callers, InPlace(t), Held(t), kind[t] # "startup",
      pc[t] \notin Staged, SettingsHoldNoPort, Provided, Carries(t), PatchStep(t)
  PROVE  CalmMoves(t)
<1> USE DEF CalmMoves, Provided, Carries, Serves, Tells, Held, HoldsFlag, Claims, InPlace,
        UpdateSteps, Checking, Staged, Writing, Restored, Continuing, Patches, Restarters,
        Checkers, Answers, NoCall, Layers, Files, Running
<1>1. CASE PatchLocks(t)
  BY <1>1, StateFacts, GeneratedPort, Goes DEF PatchLocks, At, process, LockConfig
<1>2. CASE PatchStages(t)
  BY <1>2, StateFacts, GeneratedPort, StageMoves, Goes DEF PatchStages, At, process
<1>3. CASE FlagGenerates(t)
  BY <1>3, StateFacts, GeneratedPort, RedraftMoves, NotesAnswer, Goes DEF FlagGenerates, At,
     process, Give
<1>4. CASE RestartBusy(t)
  BY <1>4, StateFacts, GeneratedPort, NotesAnswer, Goes DEF RestartBusy, At, process, Give
<1>5. CASE RestartStarts(t)
  BY <1>5, StateFacts, GeneratedPort, Goes DEF RestartStarts, At, process
<1>6. CASE RestartEnds(t)
  BY <1>6, StateFacts, GeneratedPort, NotesAnswer, Goes, RestartLoads DEF RestartEnds, At,
     process, Give, Outcome
<1>7. CASE PatchCommits(t)
  BY <1>7, StateFacts, GeneratedPort, ApplyMoves, NotesAnswer, Goes DEF PatchCommits, At,
     process, Give
<1>8. CASE PatchSaves(t)
  BY <1>8, StateFacts, GeneratedPort, Returns, Goes DEF PatchSaves, At, process
<1>9. CASE PatchReverts(t)
  <2>1. /\ pc[t] = "reverting" /\ pc'[t] = "done" /\ UNCHANGED <<core, mode, borrowed, disk>>
    BY <1>9, StateFacts, Returns DEF PatchReverts, At, process
  <2>2. ~Claims(t, "runtime")
    BY <2>1
  <2>3. layer'["runtime"] = layer["runtime"]
    BY <1>9, <2>2, StateFacts, DiscardedMoves DEF PatchReverts
  <2> QED
    BY <2>1, <2>3
<1>10. CASE RestartAnswers(t)
  BY <1>10, StateFacts, GeneratedPort, Returns, Goes DEF RestartAnswers, At, process
<1> QED
  BY <1>1, <1>2, <1>3, <1>4, <1>5, <1>6, <1>7, <1>8, <1>9, <1>10 DEF PatchStep

LEMMA CalmContinueStep ==
  ASSUME Typed, NEW t \in Callers, InPlace(t), Held(t), kind[t] # "startup",
      pc[t] \notin Staged, SettingsHoldNoPort, Provided, Carries(t), ContinueStep(t)
  PROVE  CalmMoves(t)
<1> USE DEF CalmMoves, Provided, Carries, Serves, Tells, Held, HoldsFlag, Claims, InPlace,
        UpdateSteps, Checking, Staged, Writing, Restored, Continuing, Patches, Restarters,
        Checkers, Answers, NoCall, Layers, Files, Running
<1>1. CASE ContinueBusy(t)
  BY <1>1, StateFacts, GeneratedPort, Returns, Goes DEF ContinueBusy, At, process
<1>2. CASE ContinueStarts(t)
  BY <1>2, StateFacts, GeneratedPort, Goes DEF ContinueStarts, At, process
<1>3. CASE ContinueLocks(t)
  BY <1>3, StateFacts, GeneratedPort, Returns, Goes DEF ContinueLocks, At, process
<1>4. CASE ContinuePrepares(t)
  BY <1>4, StateFacts, GeneratedPort, LayerOps, Returns, Goes DEF ContinuePrepares, At, process
<1>5. CASE ContinueGenerates(t)
  BY <1>5, StateFacts, GeneratedPort, RedraftMoves, Returns, Goes DEF ContinueGenerates, At,
     process
<1>6. CASE ContinueLaunches(t)
  BY <1>6, StateFacts, GeneratedPort, Returns, Goes DEF ContinueLaunches, At, process
<1> QED
  BY <1>1, <1>2, <1>3, <1>4, <1>5, <1>6 DEF ContinueStep

LEMMA CalmUnclaimedStep ==
  ASSUME Typed, NEW t \in Callers, InPlace(t), Held(t), kind[t] # "startup",
      pc[t] \notin Staged, SettingsHoldNoPort, Provided, Carries(t), UnclaimedStep(t)
  PROVE  CalmMoves(t)
<1> USE DEF CalmMoves, Provided, Carries, Serves, Tells, Held, HoldsFlag, Claims, InPlace,
        UpdateSteps, Checking, Staged, Writing, Restored, Continuing, Patches, Restarters,
        Checkers, Answers, NoCall, Layers, Files, Running
<1>1. CASE ClashStages(t)
  BY <1>1, StateFacts, GeneratedPort, StageMoves, Goes DEF ClashStages, At, process
<1>2. CASE ClashCommits(t)
  BY <1>2, StateFacts, GeneratedPort, ApplyMoves, Returns, Goes DEF ClashCommits, At, process
<1>3. CASE ClashFails(t)
  BY <1>3, StateFacts, GeneratedPort, Returns, Goes DEF ClashFails, At, process
<1>4. CASE CoreChanges(t)
  BY <1>4, StateFacts, GeneratedPort, ApplyMoves, LayerOps, Goes DEF CoreChanges, At, process
<1>5. CASE ChangedCoreSaves(t)
  BY <1>5, StateFacts, GeneratedPort, Returns, Goes DEF ChangedCoreSaves, At, process
<1>6. CASE CoreChanged(t)
  BY <1>6, StateFacts, GeneratedPort, Returns, Goes DEF CoreChanged, At, process
<1>7. CASE SaveAllClash(t)
  BY <1>7, StateFacts, GeneratedPort, ApplyMoves, Returns, Goes DEF SaveAllClash, At, process,
     SaveAll
<1>8. CASE SaveAllVerge(t)
  BY <1>8, StateFacts, GeneratedPort, ApplyMoves, Returns, Goes DEF SaveAllVerge, At, process,
     SaveAll
<1> QED
  BY <1>1, <1>2, <1>3, <1>4, <1>5, <1>6, <1>7, <1>8 DEF UnclaimedStep

\* The steps of the save that has staged: the others wait for the flag.
LEMMA GivingSaveStep ==
  ASSUME Typed, NEW t \in Callers, Held(t), pc[t] \in Staged, SettingsHoldNoPort, GivesUp(t),
      SaveStep(t)
  PROVE  SaveMoves(t)
<1> USE DEF SaveMoves, GivesUp, Provided, Serves, Staged, Writing, Restored, Answers, NoCall,
        Layers, Files, Running
<1>1. CASE SaveLocks(t)
  BY <1>1, StateFacts, GeneratedPort, Goes DEF SaveLocks, At, process, LockConfig
<1>2. CASE SaveBusy(t)
  BY <1>2, StateFacts, GeneratedPort, Returns, Goes DEF SaveBusy, At, process
<1>3. CASE SaveUnavailable(t)
  BY <1>3, StateFacts, GeneratedPort, Returns, Goes DEF SaveUnavailable, At, process
<1>4. CASE SaveStages(t)
  BY <1>4, StateFacts, GeneratedPort, LayerOps, NotesBorrowed, Goes DEF SaveStages, At, process
<1>5. CASE SaveGenerates(t)
  BY <1>5, StateFacts, GeneratedPort, RedraftMoves, Goes DEF SaveGenerates, At, process
<1>6. CASE SaveProbes(t)
  <2>1. /\ pc[t] = "probing" /\ UNCHANGED <<core, mode>>
    BY <1>6 DEF SaveProbes, At, process
  <2>2. CASE RejectSave(t, "rejected")
    BY <2>1, <2>2, Rejected
  <2>3. CASE ~RejectSave(t, "rejected")
    <3>1. /\ pc'[t] = "validatingPorts" /\ UNCHANGED <<layer, borrowed>>
          /\ call'[t].running = Running /\ call'[t].borrowed = call[t].borrowed
      BY <1>6, <2>3, Goes, ProbeNotes DEF SaveProbes
    <3> QED
      BY <2>1, <3>1
  <2> QED
    BY <2>2, <2>3
<1>7. CASE SaveValidates(t)
  BY <1>7, StateFacts, GeneratedPort, NotesFiles, Rejected, Returns, Goes DEF SaveValidates, At,
     process, RestoreBorrowed
<1>8. CASE SaveWrites(t)
  BY <1>8, StateFacts, GeneratedPort, Rejected, Returns, Goes DEF SaveWrites, At, process,
     RestoreBorrowed
<1>9. CASE SaveRestarts(t)
  BY <1>9, StateFacts, GeneratedPort, Goes, RestartLoads DEF SaveRestarts, At, process
<1>10. CASE SavePersists(t)
  BY <1>10, StateFacts, GeneratedPort, Goes DEF SavePersists, At, process
<1>11. CASE SavePersistsVerge(t)
  BY <1>11, StateFacts, GeneratedPort, AllMove, Returns, Goes DEF SavePersistsVerge, At, process
<1>12. CASE SaveUndoes(t)
  BY <1>12, StateFacts, GeneratedPort, AllMove, NotesAnswer, Goes DEF SaveUndoes, At, process,
     RestoreBorrowed
<1>13. CASE SaveReturnsToOldCore(t)
  BY <1>13, StateFacts, GeneratedPort, NotesAnswer, Goes, RestartLoads DEF SaveReturnsToOldCore,
     At, process
<1>14. CASE SaveRefuses(t)
  BY <1>14, StateFacts, GeneratedPort, Returns, Goes DEF SaveRefuses, At, process
<1> QED
  BY <1>1, <1>2, <1>3, <1>4, <1>5, <1>6, <1>7, <1>8, <1>9, <1>10, <1>11, <1>12, <1>13, <1>14
     DEF SaveStep

\* Every step keeps the port in what the Core serves.
LEMMA PortKeptStep ==
  ASSUME Base, \A t \in Callers : Answering(t), SettingsHoldNoPort, PortKept, [Next]_vars
  PROVE  PortKept'
<1>1. ASSUME NEW t \in Callers, Step(t), ~AnyOf({"startup"})', ~Broken' PROVE PortKept'
  <2>1. OneMoves(t) /\ LocksMove(t) /\ AnswersMove(t)
    BY <1>1, StepMoves, AnswersStep
  <2>2. \A u \in Callers : u # t => pc'[u] = pc[u] /\ call'[u] = call[u] /\ result'[u] = result[u]
    BY <2>1 DEF OneMoves
  <2>3. ~AnyOf({"startup"}) /\ ~Broken
    <3>1. \A u \in Callers : Tells(u, "broken") => Tells(u, "broken")'
      BY <2>1, <2>2 DEF AnswersMove, Tells
    <3> QED
      BY <1>1, <2>1, <3>1 DEF AnyOf, Broken, OneMoves
  <2>4. /\ Typed /\ InPlace(t) /\ Held(t) /\ kind[t] # "startup"
        /\ \A u \in Callers : Held(u)
    BY <2>3 DEF Base, AnyOf
  <2>5. ~StartupStep(t)
    BY <2>4 DEF StartupStep, StartupLocks, StartupKeepsPort, StartupBorrows,
       StartupStagesFallback, StartupCommitsFallback, StartupGenerates, StartupValidates,
       StartupAdopts, StartupLaunches, StartupLaunchBusy, StartupRetries, StartupGivesUp,
       LockConfig, At, InPlace, Starting
  <2>6. UpdateStep(t) \/ SaveStep(t) \/ PatchStep(t) \/ ContinueStep(t) \/ UnclaimedStep(t)
    BY <1>1, <2>5 DEF Step
  <2>7. ASSUME NEW u \in Callers, updating = u, u # t PROVE Bystands(t)
    <3>1. updating # None /\ updating # t
      BY <2>7, EditsAre
    <3> QED
      BY <2>4, <2>6, <3>1, BystanderUpdateStep, BystanderSaveStep, BystanderPatchStep,
         BystanderContinueStep, BystanderUnclaimedStep
  <2>8. \A u \in Callers : HoldsFlag(u) => updating = u
    BY <2>4 DEF Held
  <2>9. HoldsFlag(t)' => \A u \in Callers : u # t => ~HoldsFlag(u)
    BY <2>1, <2>4 DEF LocksMove, Held
  <2>10. CASE pc[t] \in Staged
    <3>1. kind[t] = "savePorts" /\ SaveStep(t) /\ GivesUp(t)
      BY <1>1, <2>3, <2>4, <2>10, SaversSave DEF InPlace, PortKept
    <3>2. SaveMoves(t)
      BY <2>4, <2>10, <3>1, GivingSaveStep
    <3>3. updating = t
      BY <2>8, <2>10 DEF HoldsFlag
    <3>4. \A u \in Callers : u # t => pc'[u] \notin Staged \cup UpdateSteps
      BY <2>2, <2>4, <3>3 DEF Held, HoldsFlag
    <3>5. CASE pc'[t] \in Staged
      BY <3>2, <3>4, <3>5 DEF SaveMoves, PortKept, Calm
    <3>6. CASE pc'[t] \notin Staged
      <4>1. InPlace(t)' /\ kind'[t] = "savePorts"
        BY <1>1, <2>1, <3>1, StepMoves DEF OneMoves
      <4>2. pc'[t] \notin UpdateSteps
        BY <4>1 DEF InPlace, Checking, Checkers
      <4> QED
        BY <3>2, <3>4, <3>6, <4>2 DEF SaveMoves, PortKept, Calm, Carries, UpdateSteps
    <3> QED
      BY <3>5, <3>6
  <2>11. ASSUME NEW s \in Callers, s # t, pc[s] \in Staged PROVE PortKept'
    <3>1. updating = s
      BY <2>8, <2>11 DEF HoldsFlag
    <3>2. Bystands(t)
      BY <2>7, <2>11, <3>1
    <3>3. GivesUp(s) /\ pc'[s] = pc[s] /\ call'[s] = call[s]
      BY <2>2, <2>3, <2>11 DEF PortKept
    <3>4. GivesUp(s)'
      BY <2>4, <3>2, <3>3, GeneratedPort DEF Bystands, GivesUp, Serves, Running
    <3>5. \A u \in Callers : u # s => pc'[u] \notin Staged
      <4>1. updating' = s
        BY <2>1, <2>11, <3>1 DEF LocksMove
      <4> QED
        BY <2>1, <2>2, <2>4, <2>11, <3>1, <4>1 DEF LocksMove, Held, HoldsFlag
    <3> QED
      BY <2>11, <3>3, <3>4, <3>5 DEF PortKept, Calm
  <2>12. CASE Calm
    <3>1. /\ Provided /\ (\A u \in Callers : Carries(u))
          /\ (\A u \in Callers : pc[u] # "returning") => Serves(borrowed)
          /\ pc[t] \notin Staged
      BY <2>3, <2>12 DEF PortKept, Calm
    <3>2. CalmMoves(t)
      BY <2>4, <2>6, <3>1, CalmUpdateStep, CalmSaveStep, CalmPatchStep, CalmContinueStep,
         CalmUnclaimedStep
    <3>3. CASE pc'[t] = "assembling"
      <4>1. HoldsFlag(t)'
        BY <3>3 DEF HoldsFlag, Staged
      <4>2. \A u \in Callers : pc[u] # "returning"
        BY <2>9, <3>2, <3>3, <4>1 DEF CalmMoves, HoldsFlag, Restored, Staged
      <4>3. GivesUp(t)'
        BY <3>1, <3>2, <3>3, <4>2 DEF CalmMoves, Provided, GivesUp, Serves, Running, Staged,
           Writing
      <4>4. \A u \in Callers : u # t => pc'[u] \notin Staged
        BY <2>2, <2>12 DEF Calm
      <4> QED
        BY <3>3, <4>3, <4>4 DEF PortKept, Calm, Staged
    <3>4. CASE pc'[t] # "assembling"
      <4>1. /\ pc'[t] \notin Staged /\ borrowed' = borrowed /\ Provided' /\ Carries(t)'
            /\ \/ UNCHANGED <<core, mode>> /\ pc[t] # "returning"
               \/ Serves(borrowed)'
               \/ pc[t] = "returning" /\ Tells(t, "broken")'
        BY <3>2, <3>4 DEF CalmMoves
      <4>2. Calm'
        BY <2>2, <2>12, <4>1 DEF Calm
      <4>3. ASSUME NEW u \in Callers, u # t PROVE Carries(u)'
        <5>1. CASE pc[u] \in {"staging", "reloading"}
          <6>1. Bystands(t)
            BY <2>7, <2>8, <4>3, <5>1 DEF HoldsFlag, UpdateSteps
          <6> QED
            BY <2>2, <3>1, <4>1, <4>3, <6>1 DEF Bystands, Carries
        <5>2. CASE pc[u] \notin {"staging", "reloading"}
          BY <2>2, <3>1, <4>1, <4>3, <5>2 DEF Carries
        <5> QED
          BY <5>1, <5>2
      <4>4. ASSUME \A u \in Callers : pc'[u] # "returning" PROVE Serves(borrowed)'
        <5>1. ~(pc[t] = "returning" /\ Tells(t, "broken")')
          <6>1. pc[t] = "returning" => kind'[t] = "savePorts"
            BY <2>1, <2>4 DEF InPlace, OneMoves, Restored
          <6> QED
            BY <1>1, <6>1 DEF Broken
        <5>2. CASE UNCHANGED <<core, mode>> /\ pc[t] # "returning"
          BY <2>2, <3>1, <4>1, <4>4, <5>2 DEF Serves, Running
        <5> QED
          BY <4>1, <5>1, <5>2
      <4> QED
        BY <4>1, <4>2, <4>3, <4>4 DEF PortKept, Calm
    <3> QED
      BY <3>3, <3>4
  <2> QED
    BY <2>10, <2>11, <2>12 DEF Calm
<1>2. CASE CoreExits
  <2>1. UNCHANGED <<kind, layer, disk, borrowed, pc, call, result>> /\ ~Running'
    BY <1>2 DEF CoreExits, Running
  <2> QED
    BY <2>1 DEF PortKept, AnyOf, Broken, Tells, Calm, Provided, Carries, Serves, GivesUp
<1>3. CASE UNCHANGED vars
  <2>1. UNCHANGED <<kind, layer, disk, core, mode, borrowed, pc, call, result>>
    BY <1>3 DEF vars, process
  <2> QED
    BY <2>1 DEF PortKept, AnyOf, Broken, Tells, Calm, Provided, Carries, Serves, Running,
       GivesUp
<1> QED
  BY <1>1, <1>2, <1>3 DEF Next, AllReturned, PortKept

\* At the start the session has borrowed what the Core serves.
LEMMA PortKeptInit == Init => PortKept
<1> SUFFICES ASSUME Init, ~AnyOf({"startup"}) PROVE PortKept
  BY DEF PortKept
<1>1. layer["runtime"] = [NewLayer EXCEPT !.committed = BorrowedPort, !.identity = 1]
  BY DEF Init, Layers
<1>2. On(BorrowedPort, borrowed)
  BY DEF Init, BorrowedPort, On, Port
<1>3. Provided /\ Serves(borrowed)
  BY <1>1, <1>2 DEF Init, Provided, Serves, NewLayer, Latest
<1>4. \A t \in Callers : Carries(t) /\ pc[t] \notin Staged
  BY DEF Init, Carries, Staged, Writing
<1> QED
  BY <1>3, <1>4 DEF PortKept, Calm

\* Once every save has saved, refused or brought the old Core back, the Core serves
\* on the borrowed port exactly when the session still names it
\* (BorrowedPortIsServed; every exit of save_proxy_ports, whoever else generates,
\* reloads or restarts meanwhile).
THEOREM NamedPortIsServed == Spec => []BorrowedPortIsServed
<1> DEFINE Inv == /\ Base /\ (\A t \in Callers : Answering(t))
                  /\ SettingsHoldNoPort /\ PortKept
<1>1. Init => Inv
  BY BaseInit, AnsweringInit, SettingsInit, PortKeptInit
<1>2. Inv /\ [Next]_vars => Inv'
  BY BaseStep, AnsweringStep, SettingsStep, PortKeptStep
<1>3. Inv => BorrowedPortIsServed
  <2> SUFFICES ASSUME Inv, ~AnyOf({"startup"}), Running,
                      \A t \in Callers : kind[t] = "savePorts" =>
                        /\ pc[t] \in {"idle", "opening", "refusing", "done"}
                        /\ call[t].answer # "broken" /\ result[t] # "broken"
               PROVE  PortServed
    BY DEF BorrowedPortIsServed
  <2>1. ~Broken
    BY DEF Broken, Tells
  <2>2. \A t \in Callers : pc[t] \notin Staged \cup {"returning"}
    BY DEF Base, InPlace, Staged, Writing, Restored
  <2>3. On(core, borrowed)
    BY <2>1, <2>2 DEF PortKept, Calm, Serves
  <2> QED
    BY <2>3 DEF PortServed, BorrowedPort, On, Port
<1> QED
  BY <1>1, <1>2, <1>3, PTL DEF Spec

=================================================================================
