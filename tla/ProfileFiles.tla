----------------------------- MODULE ProfileFiles -----------------------------
(***************************************************************************)
(* The files of the profiles and profiles.yaml, which lists them (config:: *)
(* profiles, config::prfitem, cmd::profile, cmd::save_profile): profiles   *)
(* are created, deleted and refreshed while files are edited, and the Core *)
(* is given a configuration made of them.  A profile has a file of its own *)
(* and a merge, for the five kinds of enhancement.  What a file holds is   *)
(* left out: `loaded` has the files that the Core runs as they stand.      *)
(***************************************************************************)
EXTENDS Naturals

CONSTANTS
  Profiles,         \* profiles, each created at most once
  Global,           \* stands in the place of the profile in a global item
  Savers,           \* calls of save_profile_file at a time
  None,
  MaxCalls          \* bound: calls, runs and files lost

VARIABLES
  items, current,   \* IProfiles as committed
  stored,           \* [items, current] as profiles.yaml has them
  present,          \* the items whose files exist
  permit,           \* the data modify permit of the profiles is free
  update,           \* config_update_in_progress: [by, files generated from that still stand]
  loaded,
  maker,            \* [step, profile] of create_profile
  deleter,          \* [step, profile, the items without it, the current one then]
  refresher,        \* [step, profile] of update_profile
  saver,            \* [Savers -> [step, item, whether it existed and affects the runtime; last
                    \* and kept to state a property, whether its write stands, and the
                    \* profile that was current when it began]]
  accepted,         \* files last written by a save that was answered Valid, of what the
                    \* current profile used all the time; kept to state a property
  used,             \* the profiles there were: a uid is not used again
  calls

filesvars == <<items, current, stored, present, permit, update, loaded, maker, deleter,
               refresher, saver, accepted, used, calls>>
index == <<items, current, stored, permit, used>>
files == <<present, loaded, update, accepted>>

Main(p) == <<p, "main">>
Merge(p) == <<p, "merge">>
Rules == <<Global, "rules">>
Of(p) == {Main(p), Merge(p)}

Free == [by |-> None, files |-> {}]
Idle == [step |-> "idle", profile |-> None]
NoDelete == [step |-> "idle", profile |-> None, items |-> {}, current |-> None]
NoSave == [step |-> "idle", item |-> None, existed |-> FALSE, affects |-> FALSE, mine |-> FALSE,
           under |-> None]

\* ensure_default_profile_items: nothing lists the global rules.
Init ==
  /\ \E own \in BOOLEAN, p \in Profiles :                  \* an older profile has no merge
       /\ items = {Main(p), Merge(Global)} \cup (IF own THEN {Merge(p)} ELSE {})
       /\ current = p /\ used = {p}
  /\ stored = [items |-> items, current |-> current]
  /\ present = items /\ loaded = items
  /\ permit = TRUE /\ update = Free
  /\ maker = Idle /\ deleter = NoDelete /\ refresher = Idle
  /\ saver = [s \in Savers |-> NoSave]
  /\ accepted = {}
  /\ calls = 0

Calls == calls < MaxCalls /\ calls' = calls + 1

\* current_merge and the like: its own one, or the global one.
MergeOf(p, list) == IF Merge(p) \in list THEN Merge(p) ELSE Merge(Global)

\* What a configuration of p is made of; the global merge as well if p has one of its own.
Uses(p, list) == IF p = None THEN {} ELSE {Main(p), MergeOf(p, list), Rules}

-----------------------------------------------------------------------------
(* Files and configurations. *)

\* Writes i, in the name of the saver `by` or of nobody.
Write(i, by) ==
  /\ present' = present \cup {i}
  /\ loaded' = loaded \ {i}
  /\ update' = [update EXCEPT !.files = @ \ {i}]
  /\ accepted' = accepted \ {i}
  /\ saver' = [s \in Savers |-> [saver[s] EXCEPT !.mine = (s = by) \/ (@ /\ saver[s].item # i)]]

\* A configuration update: the claim and the generation.
Claim(by, p) ==
  /\ update.by = None
  /\ update' = [by |-> by, files |-> present]

\* It ends with the configuration in the Core, which needs the file of the profile.
Apply(p) ==
  /\ p = None \/ Main(p) \in present
  /\ loaded' = update.files
  /\ update' = Free

Fails == update' = Free /\ UNCHANGED loaded

-----------------------------------------------------------------------------
(* create_profile and import_profile: the merge, the profile and profiles.yaml.  Whatever  *)
(* fails ends the call and leaves what was done.                                            *)

MakeBegins ==
  /\ Calls /\ maker.step = "idle"
  /\ \E p \in Profiles \ used :
       /\ used' = used \cup {p}
       /\ maker' = [step |-> "merge", profile |-> p]
  /\ UNCHANGED <<items, current, stored, permit, files, deleter, refresher, saver>>

\* append_item, under the permit.
Append(i) ==
  /\ permit
  /\ Write(i, None)
  /\ items' = items \cup {i}
  /\ UNCHANGED <<stored, permit, used>>

MakeMerge ==
  /\ maker.step = "merge" /\ Append(Merge(maker.profile))
  /\ maker' = [maker EXCEPT !.step = "main"]
  /\ UNCHANGED <<current, deleter, refresher, calls>>

MakeMain ==
  /\ maker.step = "main" /\ Append(Main(maker.profile))
  /\ current' = IF current = None THEN maker.profile ELSE current
  /\ maker' = [maker EXCEPT !.step = "store"]
  /\ UNCHANGED <<deleter, refresher, calls>>

MakeStores ==
  /\ maker.step = "store" /\ permit
  /\ stored' = [items |-> items, current |-> current]
  /\ maker' = Idle
  /\ UNCHANGED <<items, current, permit, used, files, deleter, refresher, saver, calls>>

MakeFails ==
  /\ maker.step # "idle" /\ maker' = Idle
  /\ UNCHANGED <<index, files, deleter, refresher, saver, calls>>

-----------------------------------------------------------------------------
(* delete_profile, under the permit from the plan to the end. *)

DeleteBegins ==
  /\ Calls /\ deleter.step = "idle" /\ permit /\ permit' = FALSE
  /\ \E p \in {p \in Profiles : Main(p) \in items} :
       LET left == items \ Of(p)
           others == {q \in Profiles : Main(q) \in left}
       IN \E next \in IF current \notin {p, None} THEN {current}
                      ELSE IF others = {} THEN {None} ELSE others :
            deleter' = [step |-> IF current \in {p, None} THEN "update" ELSE "store",
                        profile |-> p, items |-> left, current |-> next]
  /\ UNCHANGED <<items, current, stored, used, files, maker, refresher, saver>>

\* update_config_forced_with_profiles is busy, or makes the Core run what will be current.
DeleteClaims ==
  /\ deleter.step = "update" /\ Claim("delete", deleter.current)
  /\ deleter' = [deleter EXCEPT !.step = "apply"]
  /\ UNCHANGED <<index, present, loaded, accepted, maker, refresher, saver, calls>>

DeleteApplies ==
  /\ deleter.step = "apply"
  /\ deleter.current = None \/ Main(deleter.current) \in present
  /\ loaded' = update.files
  /\ deleter' = [deleter EXCEPT !.step = "store"]
  /\ UNCHANGED <<index, present, update, accepted, maker, refresher, saver, calls>>

\* Busy, refused or failed.
DeleteGivesUp ==
  /\ \/ deleter.step = "update" /\ update.by # None /\ UNCHANGED <<loaded, update>>
     \/ deleter.step = "apply" /\ Fails
  /\ deleter' = NoDelete /\ permit' = TRUE
  /\ UNCHANGED <<items, current, stored, used, present, accepted, maker, refresher, saver, calls>>

\* Mutation of DeleteStores: the files go before profiles.yaml is written.
DeleteStoresLast ==
  /\ deleter.step = "store"
  /\ present' = present \ Of(deleter.profile)
  /\ IF present' # present
     THEN UNCHANGED <<stored, deleter>>
     ELSE /\ stored' = [items |-> deleter.items, current |-> deleter.current]
          /\ deleter' = [deleter EXCEPT !.step = "clean"]
  /\ UNCHANGED <<items, current, permit, used, loaded, update, accepted, maker, refresher,
                 saver, calls>>

DeleteStores ==
  /\ deleter.step = "store"
  /\ stored' = [items |-> deleter.items, current |-> deleter.current]
  /\ deleter' = [deleter EXCEPT !.step = "clean"]
  /\ UNCHANGED <<items, current, permit, used, files, maker, refresher, saver, calls>>

\* profiles.yaml cannot be written: restore_profile_config.
DeleteUndone ==
  /\ deleter.step = "store"
  /\ loaded' \in IF update.by = "delete" THEN {present, loaded} ELSE {loaded}
  /\ update' = IF update.by = "delete" THEN Free ELSE update
  /\ deleter' = NoDelete /\ permit' = TRUE
  /\ UNCHANGED <<items, current, stored, used, present, accepted, maker, refresher, saver, calls>>

\* ProfileDeletePlan::cleanup and the commit; a file that cannot be removed stays.
DeleteEnds ==
  /\ deleter.step = "clean"
  /\ \E gone \in {Of(deleter.profile), {}} :
       /\ present' = present \ gone
       /\ loaded' = loaded \ gone
       /\ accepted' = accepted \ gone
       /\ update' = IF update.by = "delete" THEN Free ELSE [update EXCEPT !.files = @ \ gone]
  /\ items' = deleter.items /\ current' = deleter.current
  /\ deleter' = NoDelete /\ permit' = TRUE
  /\ UNCHANGED <<stored, used, maker, refresher, saver, calls>>

-----------------------------------------------------------------------------
(* update_profile: the download is written and, if the profile is current, applied. *)

RefreshBegins ==
  /\ Calls /\ refresher.step = "idle"
  /\ \E p \in {p \in Profiles : Main(p) \in items} :
       refresher' = [step |-> "downloads", profile |-> p]
  /\ UNCHANGED <<index, files, maker, deleter, saver>>

RefreshFails ==
  /\ refresher.step = "downloads" /\ refresher' = Idle
  /\ UNCHANGED <<index, files, maker, deleter, saver, calls>>

\* update_item
RefreshLands ==
  /\ refresher.step = "downloads" /\ permit
  /\ Main(refresher.profile) \in items
  /\ Write(Main(refresher.profile), None)
  /\ stored' \in {[items |-> items, current |-> current], stored}
  /\ refresher' = IF stored' = [items |-> items, current |-> current] /\ current = refresher.profile
                  THEN [refresher EXCEPT !.step = "landed"] ELSE Idle
  /\ UNCHANGED <<items, current, permit, used, maker, deleter, calls>>

RefreshClaims ==
  /\ refresher.step = "landed"
  /\ \/ update.by # None /\ refresher' = Idle /\ UNCHANGED update
     \/ /\ Claim("refresh", current)
        /\ refresher' = [refresher EXCEPT !.step = "applies"]
  /\ UNCHANGED <<index, present, loaded, accepted, maker, deleter, saver, calls>>

RefreshEnds ==
  /\ refresher.step = "applies" /\ refresher' = Idle
  /\ Apply(current) \/ Fails
  /\ UNCHANGED <<index, present, accepted, maker, deleter, saver, calls>>

-----------------------------------------------------------------------------
(* save_profile_file *)

\* Mutation of AffectsRuntime: the enhancements of the current profile are forgotten.
AffectsRuntimeMainOnly(i) == current # None /\ i \in {Rules, Main(current)}

\* profile_affects_runtime
AffectsRuntime(i) == current # None /\ i \in {Rules, Main(current), MergeOf(current, items)}

SaveBegins(s) ==
  /\ Calls /\ saver[s].step = "idle"
  /\ \E i \in items \cup {Rules} :
       saver' = [saver EXCEPT ![s] =
         IF i \in items
         THEN [step |-> "reads", item |-> i, existed |-> FALSE, affects |-> AffectsRuntime(i),
               mine |-> FALSE, under |-> current]
         ELSE [NoSave EXCEPT !.step = "not-listed", !.item = i]]
  /\ UNCHANGED <<index, files, maker, deleter, refresher>>

SaveReads(s) ==
  /\ saver[s].step = "reads"
  /\ saver' \in {[saver EXCEPT ![s].step = "writes", ![s].existed = saver[s].item \in present],
                 [saver EXCEPT ![s] = NoSave]}              \* it cannot be read
  /\ UNCHANGED <<index, files, maker, deleter, refresher, calls>>

SaveWrites(s) ==
  /\ saver[s].step = "writes"
  /\ present' = present \cup {saver[s].item}
  /\ loaded' = loaded \ {saver[s].item}
  /\ update' = [update EXCEPT !.files = @ \ {saver[s].item}]
  /\ accepted' = accepted \ {saver[s].item}
  /\ saver' = [t \in Savers |->
       IF t = s THEN [saver[t] EXCEPT !.step = "validates", !.mine = TRUE]
       ELSE [saver[t] EXCEPT !.mine = @ /\ saver[t].item # saver[s].item]]
  /\ UNCHANGED <<index, maker, deleter, refresher, calls>>

Answered(s, i) ==
  IF saver[s].mine /\ saver[s].under = current /\ i \in Uses(current, items)
  THEN accepted \cup {i} ELSE accepted

\* validate_config_file_outcome: a merge is parsed, a script is run and everything else given
\* to the Core; a file that is gone, an application that ends or a check that cannot be made
\* refuses the save as well.
SaveValidates(s) ==
  /\ saver[s].step = "validates"
  /\ \/ /\ saver[s].item \in present
        /\ IF saver[s].affects
           THEN /\ saver' = [saver EXCEPT ![s].step = "updates"]
                /\ UNCHANGED accepted
           ELSE /\ saver' = [saver EXCEPT ![s] = NoSave]
                /\ accepted' = Answered(s, saver[s].item)
     \/ /\ saver' = [saver EXCEPT ![s].step = "refused"]
        /\ UNCHANGED accepted
  /\ UNCHANGED <<index, present, loaded, update, maker, deleter, refresher, calls>>

SaveClaims(s) ==
  /\ saver[s].step = "updates"
  /\ \/ /\ update.by # None /\ UNCHANGED update
        /\ saver' = [saver EXCEPT ![s].step = "refused"]
     \/ /\ Claim(s, current)
        /\ saver' = [saver EXCEPT ![s].step = "applies"]
  /\ UNCHANGED <<index, present, loaded, accepted, maker, deleter, refresher, calls>>

SaveApplies(s) ==
  /\ saver[s].step = "applies"
  /\ \/ /\ Apply(current)
        /\ accepted' = Answered(s, saver[s].item)
        /\ saver' = [saver EXCEPT ![s] = NoSave]
     \/ /\ Fails /\ UNCHANGED accepted
        /\ saver' = [saver EXCEPT ![s].step = "refused"]
  /\ UNCHANGED <<index, present, maker, deleter, refresher, calls>>

\* restore_original
SaveRestores(s) ==
  LET i == saver[s].item
  IN
  /\ saver[s].step = "refused"
  /\ present' \in {IF saver[s].existed THEN present \cup {i} ELSE present \ {i}, present}
  /\ loaded' = loaded \ {i}
  /\ update' = [update EXCEPT !.files = @ \ {i}]
  /\ accepted' = accepted \ {i}
  /\ saver' = [t \in Savers |->
       IF t = s THEN NoSave ELSE [saver[t] EXCEPT !.mine = @ /\ saver[t].item # i]]
  /\ UNCHANGED <<index, maker, deleter, refresher, calls>>

SaveNotListed(s) ==
  /\ saver[s].step = "not-listed"
  /\ saver' = [saver EXCEPT ![s] = NoSave]
  /\ UNCHANGED <<index, files, maker, deleter, refresher, calls>>

-----------------------------------------------------------------------------
\* The application ends at any moment and starts: IProfiles::new and
\* ensure_default_profile_items, or an empty list if profiles.yaml cannot be read.
Restart ==
  /\ Calls
  /\ \/ /\ items' = stored.items \cup {Merge(Global)} /\ current' = stored.current
        /\ present' = present \cup {Merge(Global)}
     \/ items' = {} /\ current' = None /\ UNCHANGED present
  /\ loaded' = present' /\ accepted' = {}
  /\ permit' = TRUE /\ update' = Free
  /\ maker' = Idle /\ deleter' = NoDelete /\ refresher' = Idle
  /\ saver' = [s \in Savers |-> NoSave]
  /\ UNCHANGED <<stored, used>>

Next ==
  \/ MakeBegins \/ MakeMerge \/ MakeMain \/ MakeStores \/ MakeFails
  \/ DeleteBegins \/ DeleteClaims \/ DeleteApplies \/ DeleteGivesUp
  \/ DeleteStores \/ DeleteUndone \/ DeleteEnds
  \/ RefreshBegins \/ RefreshFails \/ RefreshLands \/ RefreshClaims \/ RefreshEnds
  \/ \E s \in Savers :
       \/ SaveBegins(s) \/ SaveReads(s) \/ SaveWrites(s) \/ SaveValidates(s)
       \/ SaveClaims(s) \/ SaveApplies(s) \/ SaveRestores(s) \/ SaveNotListed(s)
  \/ Restart

FilesSpec == Init /\ [][Next]_filesvars

-----------------------------------------------------------------------------
\* profiles.yaml lists no profile and no merge whose file is gone, wherever the application
\* ends: a file is written before it is listed and removed when it no longer is
\* (append_item, ProfileDeletePlan::cleanup).
ListedFilesExist == stored.items \subseteq present

\* A file whose save was answered Valid is what the Core runs until it is written again, if
\* the profile that uses it was current all the time (save_profile_file).
AcceptedSavesReachCore == accepted \subseteq loaded
=============================================================================
