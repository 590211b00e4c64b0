------------------------------- MODULE Hotkeys -------------------------------
(***************************************************************************)
(* The hotkeys registered with the OS, the list the last registration was  *)
(* made from and the list in the settings (core::hotkey, feat::config).    *)
(* Without global hotkeys the window registers them when it gains focus    *)
(* and drops all of them when it loses it; these tasks run beside a patch  *)
(* of the settings.  Hotkeys of the system (macOS) are left out.           *)
(***************************************************************************)
EXTENDS Naturals

CONSTANTS
  Keys, Functions, None,
  MaxPatches, MaxEvents     \* bounds

VARIABLES
  hotkeys, global,  \* hotkeys and enable_global_hotkey as committed
  draft,            \* [hotkeys, global] as staged by the patch at work
  registered,       \* [Keys -> the function the OS calls, or None]
  current,          \* Hotkey::current
  patch,            \* [step, del, add] of the patch at work
  focused,
  task,             \* what handle_window_focus has spawned, or "none"
  list,             \* what the task registers, when it has read that
  patches, events,
  disturbed         \* a registration or a patch has failed, or a patch and a change of focus
                    \* have overlapped; kept to state a property

hotkeyvars == <<hotkeys, global, draft, registered, current, patch, focused, task, list,
                patches, events, disturbed>>

Lists == [Keys -> Functions \cup {None}]                    \* get_map_from_vec
NoHotkeys == [k \in Keys |-> None]
NoPatch == [step |-> "idle", del |-> {}, add |-> {}]
NoDraft == [hotkeys |-> NoHotkeys, global |-> FALSE]

\* init_hotkey skips them if they are not global.
Init ==
  /\ hotkeys \in Lists /\ global \in BOOLEAN
  /\ registered = IF global THEN hotkeys ELSE NoHotkeys
  /\ current = registered
  /\ draft = NoDraft /\ patch = NoPatch
  /\ focused = FALSE /\ task = "none" /\ list = NoHotkeys
  /\ patches = 0 /\ events = 0
  /\ disturbed = FALSE

\* The latest list, which the task reads.
Latest == IF patch.step = "idle" THEN hotkeys ELSE draft.hotkeys

-----------------------------------------------------------------------------
(* A patch of the settings in the window: Hotkey::update, what else it does, its end. *)

\* Mutation of Added: a key that gets another function counts as registered.
AddedIfNew(new) == {k \in Keys : new[k] # None /\ current[k] = None}

\* get_diff
Deleted(new) == {k \in Keys : current[k] # None /\ new[k] # current[k]}
Added(new) == {k \in Keys : new[k] # None /\ new[k] # current[k]}

PatchList ==
  /\ patch.step = "idle" /\ focused
  /\ patches < MaxPatches /\ patches' = patches + 1
  /\ \E new \in Lists :
       /\ draft' = [hotkeys |-> new, global |-> global]
       /\ patch' = [step |-> "update", del |-> Deleted(new), add |-> Added(new)]
  /\ disturbed' = (disturbed \/ task # "none")
  /\ UNCHANGED <<hotkeys, global, registered, current, focused, task, list, events>>

PatchSwitch ==
  /\ patch.step = "idle" /\ focused
  /\ patches < MaxPatches /\ patches' = patches + 1
  /\ draft' = [hotkeys |-> hotkeys, global |-> ~global]
  /\ patch' = [step |-> "rest", del |-> {}, add |-> {}]
  /\ disturbed' = (disturbed \/ task # "none")
  /\ UNCHANGED <<hotkeys, global, registered, current, focused, task, list, events>>

Unregisters ==
  /\ patch.step = "update" /\ patch.del # {}
  /\ \E k \in patch.del :
       /\ patch' = [patch EXCEPT !.del = @ \ {k}]
       /\ registered' = [registered EXCEPT ![k] = None]
  /\ UNCHANGED <<hotkeys, global, draft, current, focused, task, list, patches, events, disturbed>>

\* The first that fails fails the patch.
Registers ==
  /\ patch.step = "update" /\ patch.del = {} /\ patch.add # {}
  /\ \E k \in patch.add :
       \/ /\ patch' = [patch EXCEPT !.add = @ \ {k}]
          /\ registered' = [registered EXCEPT ![k] = draft.hotkeys[k]]
          /\ UNCHANGED <<draft, disturbed>>
       \/ /\ patch' = NoPatch /\ draft' = NoDraft
          /\ registered' = [registered EXCEPT ![k] = None]
          /\ disturbed' = TRUE
  /\ UNCHANGED <<hotkeys, global, current, focused, task, list, patches, events>>

Updated ==
  /\ patch.step = "update" /\ patch.del = {} /\ patch.add = {}
  /\ current' = draft.hotkeys
  /\ patch' = [patch EXCEPT !.step = "rest"]
  /\ UNCHANGED <<hotkeys, global, draft, registered, focused, task, list, patches, events,
                 disturbed>>

\* What follows the hotkeys may fail the patch as well.
PatchEnds ==
  /\ patch.step = "rest" /\ patch' = NoPatch /\ draft' = NoDraft
  /\ \/ hotkeys' = draft.hotkeys /\ global' = draft.global /\ UNCHANGED disturbed
     \/ disturbed' = TRUE /\ UNCHANGED <<hotkeys, global>>
  /\ UNCHANGED <<registered, current, focused, task, list, patches, events>>

-----------------------------------------------------------------------------
(* The focus of the window.  The task of an event runs before the next event comes. *)

FocusChanges ==
  /\ task = "none"
  /\ events < MaxEvents /\ events' = events + 1
  /\ focused' = ~focused
  /\ task' = IF focused' THEN "focus" ELSE "blur"
  /\ disturbed' = (disturbed \/ patch.step # "idle")
  /\ UNCHANGED <<hotkeys, global, draft, registered, current, patch, list, patches>>

\* handle_window_focus; on focus Hotkey::init reads the list.
TaskReads ==
  /\ task \in {"focus", "blur"}
  /\ task' = IF global THEN "none" ELSE IF task = "focus" THEN "registers" ELSE "resets"
  /\ list' = IF task' = "registers" THEN Latest ELSE NoHotkeys
  /\ UNCHANGED <<hotkeys, global, draft, registered, current, patch, focused, patches, events,
                 disturbed>>

\* Hotkey::init registers what it has read, as far as it can, and is done.
TaskRegisters ==
  /\ task = "registers" /\ task' = "none"
  /\ \E failing \in {{k} : k \in Keys} \cup {{}} :
       /\ registered' = [k \in Keys |-> IF list[k] = None THEN registered[k]
                                        ELSE IF k \in failing THEN None ELSE list[k]]
       /\ disturbed' = (disturbed \/ \E k \in failing : list[k] # None)
  /\ current' = list
  /\ list' = NoHotkeys
  /\ UNCHANGED <<hotkeys, global, draft, patch, focused, patches, events>>

\* Hotkey::reset
TaskResets ==
  /\ task = "resets" /\ task' = "none"
  /\ registered' = NoHotkeys
  /\ UNCHANGED <<hotkeys, global, draft, current, patch, focused, list, patches, events, disturbed>>

Next ==
  \/ PatchList \/ PatchSwitch \/ Unregisters \/ Registers \/ Updated \/ PatchEnds
  \/ FocusChanges \/ TaskReads \/ TaskRegisters \/ TaskResets

HotkeySpec == Init /\ [][Next]_hotkeyvars

-----------------------------------------------------------------------------
Quiet == patch.step = "idle" /\ task = "none"
HeedsPresses == global \/ focused           \* the handler of a hotkey

\* When nothing is at work the hotkeys of the settings are those registered, if they are to
\* work at all: after any patches and changes of focus, unless one of them was disturbed
\* (Hotkey::update, handle_window_focus).
HotkeysWork == Quiet /\ HeedsPresses /\ ~disturbed => registered = hotkeys
=============================================================================
