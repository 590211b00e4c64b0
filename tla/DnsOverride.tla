------------------------------ MODULE DnsOverride ------------------------------
(***************************************************************************)
(* The switch of the DNS page (config::dns, feat::dns).  The page replaces *)
(* DNS fields a provider may depend on, so it is used with such a profile  *)
(* only after the user has confirmed that very source; a Runtime           *)
(* configuration made for another source leaves the page out, and the      *)
(* settings are told afterwards.                                           *)
(***************************************************************************)
EXTENDS Naturals

CONSTANTS
  Callers, Sources, None,
  MaxCalls,         \* bound: calls begun
  MaxChanges        \* bound: times the file of the profile changes

VARIABLES
  source,           \* dns_override_source of the profile's file
  settings,         \* committed enable_dns_settings and dns_override_confirmation
  staged,           \* the settings a transaction has staged, or None
  lock,             \* the holder of CONFIG_WRITE_LOCK
  updating,         \* the holder of config_update_in_progress
  generated,        \* the staged Runtime layer's DnsOverrideState
  runtime,          \* the committed one
  calls,            \* [Callers -> call under way]
  begun,            \* calls begun
  changes,          \* changes of the file
  crossed           \* settings an update under way was made from have changed, kept to
                    \* state a property

dvars == <<source, settings, staged, lock, updating, generated, runtime, calls, begun, changes,
           crossed>>
word == <<settings, staged, lock>>
pipeline == <<updating, generated, runtime>>

\* DnsOverrideState::new
State(from, wish) ==
  [source |-> from, wish |-> wish, enabled |-> wish.on /\ from \in {None, wish.confirmed}]

Off == [on |-> FALSE, confirmed |-> None]
Idle == [op |-> "none", step |-> "none", read |-> None]

Init ==
  /\ source \in Sources \cup {None}
  /\ settings = Off
  /\ staged = None
  /\ lock = None
  /\ updating = None
  /\ generated = State(source, Off)
  /\ runtime = State(source, Off)
  /\ calls = [c \in Callers |-> Idle]
  /\ begun = 0
  /\ changes = 0
  /\ crossed = FALSE

At(c, step) == calls[c].step = step
Goes(c, step) == calls' = [calls EXCEPT ![c].step = step]
Ends(c) == calls' = [calls EXCEPT ![c] = Idle]
Setter(c) == calls[c].op \in {"enable", "disable"}
OthersUpdate(c) == \E d \in Callers \ {c} : calls[d].step \in {"applying", "applied", "syncing"}

\* A subscription update replaces the file at any time.
FileChanges ==
  /\ changes < MaxChanges
  /\ changes' = changes + 1
  /\ source' \in (Sources \cup {None}) \ {source}
  /\ UNCHANGED <<word, pipeline, calls, begun, crossed>>

Begin(c) ==
  /\ calls[c] = Idle
  /\ begun < MaxCalls
  /\ begun' = begun + 1
  /\ \E op \in {"enable", "disable", "refresh"} :
       calls' = [calls EXCEPT ![c] = [op |-> op, step |-> IF op = "refresh" THEN "updating" ELSE "locking",
                                      read |-> None]]
  /\ UNCHANGED <<source, word, pipeline, changes, crossed>>

-----------------------------------------------------------------------------
(* set_dns_override *)

\* The caller confirms a source it has been shown, by name; another source is answered.
SetLocks(c) ==
  /\ At(c, "locking")
  /\ lock = None
  /\ \/ /\ calls[c].op = "enable" /\ source # None
        /\ Ends(c) /\ UNCHANGED lock
     \/ /\ calls' = [calls EXCEPT ![c].step = "staging", ![c].read = source]
        /\ lock' = c
  /\ UNCHANGED <<source, settings, staged, pipeline, begun, changes, crossed>>

\* dns_config.yaml may be missing or malformed.
SetStages(c) ==
  /\ At(c, "staging")
  /\ \/ staged' = (IF calls[c].op = "enable" THEN [on |-> TRUE, confirmed |-> calls[c].read] ELSE Off)
        /\ Goes(c, "updating") /\ UNCHANGED lock
     \/ calls[c].op = "enable" /\ Ends(c) /\ lock' = None /\ UNCHANGED staged
  /\ UNCHANGED <<source, settings, pipeline, begun, changes, crossed>>

Drops(c) ==
  /\ staged' = IF Setter(c) THEN None ELSE staged
  /\ lock' = IF Setter(c) THEN None ELSE lock
  /\ crossed' = (crossed \/ (Setter(c) /\ OthersUpdate(c)))
  /\ Ends(c)

\* Mutation of SetEnds: what the update made of the request is not looked at.
SetEndsUnchecked(c) ==
  /\ At(c, "applied") /\ Setter(c)
  /\ settings' = staged
  /\ staged' = None
  /\ lock' = None
  /\ Ends(c)
  /\ UNCHANGED <<source, pipeline, begun, changes, crossed>>

\* The file may have changed since it was read: then the page is not in use.
SetEnds(c) ==
  /\ At(c, "applied") /\ Setter(c)
  /\ settings' = IF runtime.enabled THEN staged ELSE Off
  /\ crossed' = (crossed \/ (OthersUpdate(c) /\ settings' # staged))
  /\ staged' = None
  /\ lock' = None
  /\ Ends(c)
  /\ UNCHANGED <<source, pipeline, begun, changes>>

-----------------------------------------------------------------------------
(* A configuration update *)

UpdateBusy(c) ==
  /\ At(c, "updating")
  /\ updating # None
  /\ Drops(c)
  /\ UNCHANGED <<source, settings, pipeline, begun, changes>>

\* enhance reads the latest settings, those staged by another call included.
UpdateGenerates(c) ==
  /\ At(c, "updating")
  /\ updating = None
  /\ updating' = c
  /\ generated' = State(source, IF staged # None THEN staged ELSE settings)
  /\ Goes(c, "applying")
  /\ UNCHANGED <<source, word, runtime, begun, changes, crossed>>

UpdateApplies(c) ==
  /\ At(c, "applying")
  /\ runtime' = generated
  /\ updating' = None
  /\ Goes(c, "applied")
  /\ UNCHANGED <<source, word, generated, begun, changes, crossed>>

UpdateFails(c) ==
  /\ At(c, "applying")
  /\ generated' = runtime
  /\ updating' = None
  /\ Drops(c)
  /\ UNCHANGED <<source, settings, runtime, begun, changes>>

-----------------------------------------------------------------------------
(* sync_dns_override, after each update that was not asked for by the switch *)

SyncReads(c) ==
  /\ At(c, "applied") /\ ~Setter(c)
  /\ lock = None
  /\ lock' = c
  /\ calls' = [calls EXCEPT ![c].step = "syncing", ![c].read = runtime]
  /\ UNCHANGED <<source, settings, staged, pipeline, begun, changes, crossed>>

\* DnsOverrideState::apply_to: settings written since this state was made stand.
Synced(state, now) ==
  IF now # state.wish THEN now
  ELSE [on |-> state.enabled,
        confirmed |-> IF state.source = now.confirmed THEN now.confirmed ELSE None]

SyncApplies(c) ==
  /\ At(c, "syncing")
  /\ settings' = Synced(calls[c].read, settings)
  /\ lock' = None
  /\ crossed' = (crossed \/ (OthersUpdate(c) /\ settings' # settings))
  /\ Ends(c)
  /\ UNCHANGED <<source, staged, pipeline, begun, changes>>

-----------------------------------------------------------------------------
Next ==
  \/ FileChanges
  \/ \E c \in Callers :
       \/ Begin(c) \/ SetLocks(c) \/ SetStages(c) \/ SetEnds(c)
       \/ UpdateBusy(c) \/ UpdateGenerates(c) \/ UpdateApplies(c) \/ UpdateFails(c)
       \/ SyncReads(c) \/ SyncApplies(c)

OverrideSpec == Init /\ [][Next]_dvars

-----------------------------------------------------------------------------
\* Whenever no call is about to tell the settings, they say whether the Core uses the
\* DNS page; except after settings have changed under an update that was made from them
\* (set_dns_override, sync_dns_override).
SettingsTellRuntime ==
  lock = None /\ ~crossed /\ (\A c \in Callers : ~At(c, "applied")) =>
    settings.on = runtime.enabled
=============================================================================
