------------------------------ MODULE ProfileSwitch ------------------------------
(***************************************************************************)
(* The current profile across the store of profiles, its draft, the file   *)
(* and the Core: switches and deletions of profiles (cmd::profile) with    *)
(* the configuration updates they ask for (core::manager::config), beside  *)
(* patches of a profile and updates that others ask for.                   *)
(***************************************************************************)
EXTENDS Naturals

CONSTANTS Callers, Profiles, None, MaxFailures

VARIABLES
  profiles,         \* the committed profiles: [current, items, version]
  staged,           \* the draft, or None
  file,             \* profiles.yaml: [current, items]
  loaded,           \* the profile the Core runs, or Unknown after an error
  switching,        \* CURRENT_SWITCHING_PROFILE: the caller that set it
  writing,          \* PROFILE_WRITE_LOCK
  permit,           \* the permit of with_data_modify
  updating,         \* config_update_in_progress
  calls,            \* [Callers -> what each call is doing]
  failures,
  crossed           \* a caller read or wrote the profiles amid another's change

pvars == <<profiles, staged, file, loaded, switching, writing, permit, updating, calls, failures, crossed>>
locks == <<switching, writing, permit, updating>>

Unknown == "unknown"
Kinds == {"switch", "delete", "patch", "update"}

\* items: whether each profile is in the list, and was patched
Content(x) == [current |-> x.current, items |-> x.items]
In(x) == {p \in Profiles : x.items[p] # "gone"}
WithCurrent(x, p) == IF p \in In(x) THEN [x EXCEPT !.current = p] ELSE x
Latest == IF staged = None THEN profiles ELSE staged[1]

Idle(k, p) == [kind |-> k, step |-> "idle", target |-> p, previous |-> None,
               candidate |-> <<>>, generated |-> None]

Init ==
  /\ \E p \in Profiles : profiles = [current |-> p, items |-> [q \in Profiles |-> "plain"], version |-> 0]
  /\ staged = None
  /\ file = Content(profiles)
  /\ loaded = profiles.current
  /\ switching = None /\ writing = None /\ permit = None /\ updating = None
  /\ calls \in [Callers -> {Idle(k, p) : k \in Kinds, p \in Profiles}]
  /\ failures = 0
  /\ crossed = FALSE

At(c, kind, step) == calls[c].kind = kind /\ calls[c].step = step
To(c, step) == calls' = [calls EXCEPT ![c].step = step]
Fail == failures < MaxFailures /\ failures' = failures + 1
Acquire(lock, c) == lock = None /\ lock' = c
Release(lock, c) == lock' = IF lock = c THEN None ELSE lock

Amid(c) == \E d \in Callers \ {c} :
             calls[d].kind = "switch" /\ calls[d].step \in {"asking", "generating", "applying", "restoring",
                                "committing", "modifying"}
Restoring == \E d \in Callers : calls[d].step = "applyingPrevious"

-----------------------------------------------------------------------------
(* patch_profiles_config: one switch at a time, the others are turned away *)

SwitchBegins(c) ==
  /\ At(c, "switch", "idle")
  /\ IF switching # None THEN To(c, "done") /\ UNCHANGED switching
     ELSE To(c, "locking") /\ switching' = c
  /\ UNCHANGED <<profiles, staged, file, loaded, writing, permit, updating, failures, crossed>>

SwitchStages(c) ==
  /\ At(c, "switch", "locking")
  /\ Acquire(writing, c)
  /\ staged' = <<WithCurrent(Latest, calls[c].target)>>
  /\ calls' = [calls EXCEPT ![c].step = "asking", ![c].previous = profiles.current]
  /\ UNCHANGED <<profiles, file, loaded, switching, permit, updating, failures, crossed>>

\* Mutation of CommitCurrent: the draft is applied as it was staged.
CommitDraft(c) ==
  /\ At(c, "switch", "committing")
  /\ profiles' = IF staged = None THEN profiles ELSE [staged[1] EXCEPT !.version = profiles.version + 1]
  /\ staged' = None
  /\ To(c, "saving")
  /\ Release(switching, c) /\ Release(writing, c)
  /\ UNCHANGED <<file, loaded, permit, updating, failures, crossed>>

\* commit_current_profile drops the draft, so that what others committed meanwhile
\* stays ...
CommitCurrent(c) ==
  /\ At(c, "switch", "committing")
  /\ staged' = None
  /\ To(c, "modifying")
  /\ UNCHANGED <<profiles, file, loaded, locks, failures, crossed>>

\* ... and patches the committed profiles when nobody modifies them.
SwitchCommits(c) ==
  /\ At(c, "switch", "modifying")
  /\ permit = None
  /\ profiles' = WithCurrent(profiles, calls[c].target)
  /\ To(c, "saving")
  /\ UNCHANGED <<staged, file, loaded, locks, failures, crossed>>

\* A save that fails is logged; a switch keeps its locks until it is over.
SaveBegins(c) ==
  /\ At(c, "switch", "saving")
  /\ Acquire(permit, c)
  /\ calls' = [calls EXCEPT ![c].step = "written", ![c].candidate = profiles]
  /\ UNCHANGED <<profiles, staged, file, loaded, switching, writing, updating, failures, crossed>>

SaveEnds(c) ==
  /\ At(c, "switch", "written")
  /\ \/ /\ file' = Content(calls[c].candidate)
        /\ calls' = [calls EXCEPT ![c].step = "done", ![c].candidate = <<>>]
        /\ UNCHANGED failures
     \/ /\ Fail
        /\ calls' = [calls EXCEPT ![c].step = "unsaved", ![c].candidate = <<>>]
        /\ UNCHANGED file
  /\ permit' = None
  /\ Release(switching, c) /\ Release(writing, c)
  /\ UNCHANGED <<profiles, staged, loaded, updating, crossed>>

\* Mutation of Restore: the previous profile is put back without dropping the draft.
RestoreCommitsDraft(c) ==
  /\ At(c, "switch", "restoring")
  /\ staged' = <<Latest>>
  /\ To(c, "applyingPrevious")
  /\ UNCHANGED <<profiles, file, loaded, locks, failures, crossed>>

\* discard_and_restore
Restore(c) ==
  /\ At(c, "switch", "restoring")
  /\ staged' = <<WithCurrent(profiles, calls[c].previous)>>
  /\ To(c, "applyingPrevious")
  /\ UNCHANGED <<profiles, file, loaded, locks, failures, crossed>>

\* The save that follows is a task of its own: the switch lets go of its locks.
ApplyPrevious(c) ==
  /\ At(c, "switch", "applyingPrevious")
  /\ profiles' = IF staged = None THEN profiles
                 ELSE [staged[1] EXCEPT !.version = profiles.version + 1]
  /\ staged' = None
  /\ To(c, "saving")
  /\ Release(switching, c) /\ Release(writing, c)
  /\ UNCHANGED <<file, loaded, permit, updating, failures, crossed>>

-----------------------------------------------------------------------------
(* update_config_forced: Busy, or claim, generate, validate and apply *)

\* update_config_forced_with_profiles claims in the same way.
AsksForUpdate(c) == calls[c].step = "asking" \/ At(c, "update", "idle")

Rejected(c) ==
  CASE calls[c].kind = "switch" -> "restoring"
    [] calls[c].kind = "delete" -> "givingUp"
    [] OTHER -> "done"

UpdateBusy(c) ==
  /\ AsksForUpdate(c)
  /\ updating # None
  /\ To(c, Rejected(c))
  /\ UNCHANGED <<profiles, staged, file, loaded, locks, failures, crossed>>

UpdateClaims(c) ==
  /\ AsksForUpdate(c)
  /\ Acquire(updating, c)
  /\ To(c, "generating")
  /\ UNCHANGED <<profiles, staged, file, loaded, switching, writing, permit, failures, crossed>>

\* generate reads the draft of whoever stages one; a deletion passes its candidate.
Generate(c) ==
  /\ calls[c].step = "generating"
  /\ calls' = [calls EXCEPT ![c].step = "applying",
                 ![c].generated = IF calls[c].kind = "delete" THEN calls[c].candidate.current
                                  ELSE Latest.current]
  /\ crossed' = (crossed \/ (calls[c].kind # "delete" /\ Amid(c)))
  /\ UNCHANGED <<profiles, staged, file, loaded, locks, failures>>

\* Only a deletion keeps the claim after a valid update: it has a file to save.
UpdateApplies(c) ==
  /\ calls[c].step = "applying"
  /\ loaded' = calls[c].generated
  /\ IF calls[c].kind = "delete" THEN UNCHANGED updating ELSE updating' = None
  /\ To(c, CASE calls[c].kind = "switch" -> "committing"
             [] calls[c].kind = "delete" -> "storing"
             [] OTHER -> "done")
  /\ UNCHANGED <<profiles, staged, file, switching, writing, permit, failures, crossed>>

\* Validation refuses the configuration: the Core keeps what it has.
UpdateInvalid(c) ==
  /\ calls[c].step = "applying"
  /\ Fail
  /\ updating' = None
  /\ To(c, Rejected(c))
  /\ UNCHANGED <<profiles, staged, file, loaded, switching, writing, permit, crossed>>

\* An error leaves a Core one knows nothing of; a deletion puts the old one back.
UpdateErrors(c) ==
  /\ calls[c].step = "applying"
  /\ Fail
  /\ loaded' = Unknown
  /\ IF calls[c].kind = "delete" THEN To(c, "puttingBack") /\ UNCHANGED updating
     ELSE To(c, Rejected(c)) /\ updating' = None
  /\ UNCHANGED <<profiles, staged, file, switching, writing, permit, crossed>>

-----------------------------------------------------------------------------
(* delete_profile: the permit and the lock are held through the update *)

DeleteLocks(c) ==
  /\ At(c, "delete", "idle")
  /\ Acquire(writing, c)
  /\ To(c, "planning")
  /\ UNCHANGED <<profiles, staged, file, loaded, switching, permit, updating, failures, crossed>>

\* plan_delete_item; the profile that follows is the first one left in the list.
Without(x, p) == [x EXCEPT !.items[p] = "gone"]

DeletePlans(c) ==
  /\ At(c, "delete", "planning")
  /\ Acquire(permit, c)
  /\ LET it == calls[c].target
         left == Without(profiles, it)
     IN IF it \notin In(profiles) THEN To(c, "givingUp")
        ELSE IF profiles.current # it
        THEN calls' = [calls EXCEPT ![c].step = "storing", ![c].candidate = left]
        ELSE \E q \in (IF In(left) = {} THEN {None} ELSE In(left)) :
               calls' = [calls EXCEPT ![c].step = "asking", ![c].candidate = [left EXCEPT !.current = q]]
  /\ UNCHANGED <<profiles, staged, file, loaded, switching, writing, updating, failures, crossed>>

\* Mutation of DeleteStores: a file that cannot be saved is only logged.
DeleteStoresRegardless(c) ==
  /\ At(c, "delete", "storing")
  /\ \/ file' = Content(calls[c].candidate) /\ UNCHANGED failures
     \/ Fail /\ UNCHANGED file
  /\ To(c, "deleting")
  /\ UNCHANGED <<profiles, staged, loaded, locks, crossed>>

DeleteStores(c) ==
  /\ At(c, "delete", "storing")
  /\ \/ file' = Content(calls[c].candidate) /\ To(c, "deleting") /\ UNCHANGED failures
     \/ Fail /\ UNCHANGED file /\ To(c, IF updating = c THEN "puttingBack" ELSE "givingUp")
  /\ UNCHANGED <<profiles, staged, loaded, locks, crossed>>

\* restore_profile_config
PutBack(c) ==
  /\ At(c, "delete", "puttingBack")
  /\ \/ loaded' = profiles.current /\ UNCHANGED failures
     \/ Fail /\ loaded' = Unknown
  /\ To(c, "givingUp")
  /\ UNCHANGED <<profiles, staged, file, locks, crossed>>

Delete(c) ==
  /\ At(c, "delete", "deleting")
  /\ profiles' = IF calls[c].candidate.version = profiles.version THEN calls[c].candidate ELSE profiles
  /\ To(c, "givingUp")
  /\ crossed' = (crossed \/ Restoring)
  /\ UNCHANGED <<staged, file, loaded, locks, failures>>

DeleteEnds(c) ==
  /\ At(c, "delete", "givingUp")
  /\ permit' = None
  /\ writing' = None
  /\ Release(updating, c)
  /\ calls' = [calls EXCEPT ![c].step = "done", ![c].candidate = <<>>]
  /\ UNCHANGED <<profiles, staged, file, loaded, switching, failures, crossed>>

-----------------------------------------------------------------------------
(* profiles_patch_item_safe: the file is saved before the profiles are replaced *)

PatchBegins(c) ==
  /\ At(c, "patch", "idle")
  /\ Acquire(permit, c)
  /\ calls' = [calls EXCEPT ![c].step = "patching", ![c].candidate = profiles]
  /\ UNCHANGED <<profiles, staged, file, loaded, switching, writing, updating, failures, crossed>>

PatchSaves(c) ==
  /\ At(c, "patch", "patching")
  /\ LET it == calls[c].target
         patched == [calls[c].candidate EXCEPT !.items[it] = "patched"]
     IN \/ /\ it \in In(calls[c].candidate)
           /\ file' = Content(patched)
           /\ calls' = [calls EXCEPT ![c].step = "replacing", ![c].candidate = patched]
           /\ UNCHANGED <<permit, failures>>
        \/ /\ IF it \in In(calls[c].candidate) THEN Fail ELSE UNCHANGED failures
           /\ permit' = None
           /\ calls' = [calls EXCEPT ![c].step = "done", ![c].candidate = <<>>]
           /\ UNCHANGED file
  /\ UNCHANGED <<profiles, staged, loaded, switching, writing, updating, crossed>>

\* with_data_modify gives up when the profiles are no longer those it has read.
PatchLands(c) ==
  /\ At(c, "patch", "replacing")
  /\ IF calls[c].candidate.version = profiles.version
     THEN profiles' = calls[c].candidate /\ calls' = [calls EXCEPT ![c].step = "patched", ![c].candidate = <<>>]
     ELSE UNCHANGED profiles /\ calls' = [calls EXCEPT ![c].step = "done", ![c].candidate = <<>>]
  /\ permit' = None
  /\ crossed' = (crossed \/ Restoring)
  /\ UNCHANGED <<staged, file, loaded, switching, writing, updating, failures>>

-----------------------------------------------------------------------------
Step(c) ==
  \/ SwitchBegins(c) \/ SwitchStages(c) \/ CommitCurrent(c) \/ SwitchCommits(c)
  \/ SaveBegins(c) \/ SaveEnds(c) \/ Restore(c) \/ ApplyPrevious(c)
  \/ UpdateBusy(c) \/ UpdateClaims(c) \/ Generate(c) \/ UpdateApplies(c)
  \/ UpdateInvalid(c) \/ UpdateErrors(c)
  \/ DeleteLocks(c) \/ DeletePlans(c) \/ DeleteStores(c) \/ PutBack(c) \/ Delete(c) \/ DeleteEnds(c)
  \/ PatchBegins(c) \/ PatchSaves(c) \/ PatchLands(c)

AllOver == \A c \in Callers : calls[c].step \in {"done", "patched", "unsaved"}

Next == (\E c \in Callers : Step(c)) \/ (AllOver /\ UNCHANGED pvars)

SwitchSpec == Init /\ [][Next]_pvars

-----------------------------------------------------------------------------
\* When every call is over the Core runs the profile that is current, whichever
\* switch or deletion was refused, failed or was turned away, unless an error has
\* left the Core itself in doubt; updates that generated amid a switch are excepted
\* (handle_success, discard_and_restore, restore_profile_config).
CoreRunsCurrentProfile ==
  AllOver /\ ~crossed => loaded \in {profiles.current, Unknown}

\* A profile is never deleted, patched or made current in memory and not on disk,
\* nor the other way round, once every call is over, whatever failed: only a switch
\* may leave its save undone, and logs it (delete_profile, patch_item).
FileHoldsProfiles ==
  AllOver /\ ~(\E c \in Callers : calls[c].step = "unsaved") => file = Content(profiles)

\* A patch that was answered with success is still there, unless its profile is
\* deleted: a switch under way commits only the current profile
\* (commit_current_profile).
PatchSurvives ==
  AllOver /\ ~crossed =>
    \A c \in Callers : calls[c].step = "patched" => profiles.items[calls[c].target] # "plain"
=============================================================================
