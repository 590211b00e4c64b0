----------------------------- MODULE FilesProofs -----------------------------
(***************************************************************************)
(* What holds of the files of the profiles and of the providers they refer *)
(* to (MCFiles), for any profiles, calls, downloads and changes.           *)
(***************************************************************************)
EXTENDS MCFiles, FiniteSetTheorems, WellFoundedInduction, TLAPS

\* No step leaves the part of the model a behaviour is one of.
LEMMA PartStays == [Next]_mcvars => part' = part
BY DEF Next, mcvars

-----------------------------------------------------------------------------
(* The files of the profiles *)

\* What profiles.yaml may list, and what the calls are at.
Items == (Profiles \cup {Global}) \X {"main", "merge", "rules"}
MakeState == [step : {"idle", "merge", "main", "store"}, profile : Profiles \cup {None}]
DeleteState == [step : {"idle", "update", "apply", "store", "clean"},
                profile : Profiles \cup {None}, items : SUBSET Items,
                current : Profiles \cup {None}]
RefreshState == [step : {"idle", "downloads", "landed", "applies"}, profile : Profiles \cup {None}]
SaveSteps == {"idle", "not-listed", "reads", "writes", "validates", "updates", "applies", "refused"}
SaveState == [step : SaveSteps, item : Items \cup {None}, existed : BOOLEAN, affects : BOOLEAN,
              mine : BOOLEAN, under : Profiles \cup {None}]
Index == [items : SUBSET Items, current : Profiles \cup {None}]
Updates == [by : Savers \cup {None, "delete", "refresh"}, files : SUBSET Items]

FilesTyped ==
  /\ items \in SUBSET Items /\ present \in SUBSET Items /\ used \in SUBSET Profiles
  /\ current \in Profiles \cup {None}
  /\ stored \in Index /\ update \in Updates
  /\ maker \in MakeState /\ deleter \in DeleteState /\ refresher \in RefreshState
  /\ saver \in [Savers -> SaveState]

\* What is listed has its file, and is of a profile there was.
Listed ==
  /\ items \subseteq present /\ stored.items \subseteq present
  /\ \A i \in items \cup stored.items :
       i = Kept!Merge(Global) \/ \E p \in used : i \in Kept!Of(p)

CurrentListed ==
  /\ current # None => Kept!Main(current) \in items
  /\ stored.current # None => Kept!Main(stored.current) \in stored.items

\* What is made is not listed before.
MakerFollows ==
  /\ maker.step # "idle" => maker.profile \in used
  /\ maker.step \in {"merge", "main"} =>
       Kept!Main(maker.profile) \notin items \cup stored.items
  /\ maker.step = "merge" => Kept!Merge(maker.profile) \notin items \cup stored.items

\* What a deletion leaves is what is listed but the profile: nothing is listed meanwhile.
DeleterFollows ==
  /\ deleter.step # "idle" =>
       /\ ~update_permit
       /\ deleter.profile \in Profiles /\ Kept!Main(deleter.profile) \in items
       /\ deleter.items = items \ Kept!Of(deleter.profile)
       /\ deleter.current # None => Kept!Main(deleter.current) \in deleter.items
       /\ deleter.current = current \/ current \in {deleter.profile, None}
  /\ deleter.step = "clean" => stored.items = deleter.items

\* An item that is listed no more and will not be again.
Gone(i) ==
  /\ i \notin items \cup stored.items
  /\ \E p \in used : i \in Kept!Of(p)
  /\ maker.step = "merge" => i \notin Kept!Of(maker.profile)
  /\ maker.step = "main" => i # Kept!Main(maker.profile)

\* What a call of save_profile_file knows of its item and of the profile that was current.
SaveFollows(s) ==
  saver[s].step \notin {"idle", "not-listed"} =>
    /\ saver[s].item \in items \/ Gone(saver[s].item)
    /\ saver[s].step # "reads" /\ ~saver[s].existed => Gone(saver[s].item)
    /\ saver[s].under # None /\ saver[s].under = current =>
         saver[s].affects = Kept!AffectsRuntime(saver[s].item)
    /\ saver[s].under # None /\ saver[s].under # current => Gone(Kept!Main(saver[s].under))
    /\ saver[s].step = "applies" =>
         /\ update.by = s
         /\ saver[s].mine /\ saver[s].item \in items => saver[s].item \in update.files

\* What the Core is given has every file that was accepted.
CoreFollows ==
  /\ accepted \subseteq loaded /\ accepted \subseteq present
  /\ update.by # None => accepted \subseteq update.files
  /\ deleter.step = "apply" => update.by = "delete"
  /\ refresher.step = "applies" => update.by = "refresh"

IndexKept == Listed /\ CurrentListed /\ MakerFollows /\ DeleterFollows

\* The items of the profiles are different ones.
LEMMA ItemsDiffer ==
  /\ \A p, q : Kept!Main(p) = Kept!Main(q) => p = q
  /\ \A p, q : Kept!Merge(p) = Kept!Merge(q) => p = q
  /\ \A p, q : Kept!Main(p) # Kept!Merge(q)
  /\ \A p, q : Kept!Main(p) \in Kept!Of(q) <=> p = q
  /\ \A p, q : Kept!Merge(p) \in Kept!Of(q) <=> p = q
  /\ \A p, q, i : i \in Kept!Of(p) /\ i \in Kept!Of(q) => p = q
  /\ \A p : Kept!Rules \notin Kept!Of(p)
  /\ \A p \in Profiles \cup {Global} : Kept!Main(p) \in Items /\ Kept!Merge(p) \in Items
  /\ \A p \in Profiles : Kept!Of(p) \in SUBSET Items
BY DEF Kept!Main, Kept!Merge, Kept!Of, Kept!Rules, Items

\* What stands for nothing at work is of the types.
LEMMA NothingTyped ==
  /\ Kept!Free \in Updates /\ Kept!Idle \in MakeState /\ Kept!Idle \in RefreshState
  /\ Kept!NoDelete \in DeleteState /\ Kept!NoSave \in SaveState
BY DEF Kept!Free, Kept!Idle, Kept!NoDelete, Kept!NoSave, Updates, MakeState, RefreshState,
   DeleteState, SaveState, SaveSteps

\* The fields of a call of save_profile_file are set one or two at a time.
LEMMA SaveUpdates ==
  \A r \in SaveState :
    /\ \A w \in SaveSteps : [r EXCEPT !.step = w] \in SaveState
    /\ \A b \in BOOLEAN : [r EXCEPT !.mine = b] \in SaveState
    /\ \A b \in BOOLEAN : [r EXCEPT !.step = "writes", !.existed = b] \in SaveState
    /\ [r EXCEPT !.step = "validates", !.mine = TRUE] \in SaveState
    /\ r.item \in Items \cup {None} /\ r.mine \in BOOLEAN /\ r.step \in SaveSteps
BY DEF SaveState, SaveSteps

\* MakeBegins keeps the types.
LEMMA MakeBeginsTyped ==
  ASSUME FilesTyped, Kept!MakeBegins
  PROVE  FilesTyped'
<1> USE ItemsDiffer, NothingTyped DEF FilesTyped
<1>1. items' \in SUBSET Items /\ present' \in SUBSET Items /\ used' \in SUBSET Profiles
  BY DEF Kept!MakeBegins, Kept!Calls, Kept!files, Items
<1>2. current' \in Profiles \cup {None}
  BY DEF Kept!MakeBegins, Kept!Calls, Kept!files
<1>3. stored' \in Index
  BY DEF Kept!MakeBegins, Kept!Calls, Kept!files, Index
<1>4. update' \in Updates
  BY DEF Kept!MakeBegins, Kept!Calls, Kept!files, Updates
<1>5. maker' \in MakeState
  BY DEF Kept!MakeBegins, Kept!Calls, Kept!files, MakeState
<1>6. deleter' \in DeleteState
  BY DEF Kept!MakeBegins, Kept!Calls, Kept!files, DeleteState
<1>7. refresher' \in RefreshState
  BY DEF Kept!MakeBegins, Kept!Calls, Kept!files, RefreshState
<1>8. saver' \in [Savers -> SaveState]
  BY SaveUpdates DEF Kept!MakeBegins, Kept!Calls, Kept!files
<1> QED
  BY <1>1, <1>2, <1>3, <1>4, <1>5, <1>6, <1>7, <1>8

\* MakeMerge keeps the types.
LEMMA MakeMergeTyped ==
  ASSUME FilesTyped, IndexKept, Kept!MakeMerge
  PROVE  FilesTyped'
<1> USE ItemsDiffer, NothingTyped DEF FilesTyped
<1>1. items' \in SUBSET Items /\ present' \in SUBSET Items /\ used' \in SUBSET Profiles
  BY DEF Kept!MakeMerge, Kept!Append, Kept!Write, Items, IndexKept, MakerFollows
<1>2. current' \in Profiles \cup {None}
  BY DEF Kept!MakeMerge, Kept!Append, Kept!Write
<1>3. stored' \in Index
  BY DEF Kept!MakeMerge, Kept!Append, Kept!Write, Index
<1>4. update' \in Updates
  BY DEF Kept!MakeMerge, Kept!Append, Kept!Write, Updates
<1>5. maker' \in MakeState
  BY DEF Kept!MakeMerge, Kept!Append, Kept!Write, MakeState
<1>6. deleter' \in DeleteState
  BY DEF Kept!MakeMerge, Kept!Append, Kept!Write, DeleteState
<1>7. refresher' \in RefreshState
  BY DEF Kept!MakeMerge, Kept!Append, Kept!Write, RefreshState
<1>8. saver' \in [Savers -> SaveState]
  BY SaveUpdates DEF Kept!MakeMerge, Kept!Append, Kept!Write
<1> QED
  BY <1>1, <1>2, <1>3, <1>4, <1>5, <1>6, <1>7, <1>8

\* MakeMain keeps the types.
LEMMA MakeMainTyped ==
  ASSUME FilesTyped, IndexKept, Kept!MakeMain
  PROVE  FilesTyped'
<1> USE ItemsDiffer, NothingTyped DEF FilesTyped
<1>1. items' \in SUBSET Items /\ present' \in SUBSET Items /\ used' \in SUBSET Profiles
  BY DEF Kept!MakeMain, Kept!Append, Kept!Write, Items, IndexKept, MakerFollows
<1>2. current' \in Profiles \cup {None}
  BY DEF Kept!MakeMain, Kept!Append, Kept!Write, IndexKept, MakerFollows
<1>3. stored' \in Index
  BY DEF Kept!MakeMain, Kept!Append, Kept!Write, Index
<1>4. update' \in Updates
  BY DEF Kept!MakeMain, Kept!Append, Kept!Write, Updates
<1>5. maker' \in MakeState
  BY DEF Kept!MakeMain, Kept!Append, Kept!Write, MakeState
<1>6. deleter' \in DeleteState
  BY DEF Kept!MakeMain, Kept!Append, Kept!Write, DeleteState
<1>7. refresher' \in RefreshState
  BY DEF Kept!MakeMain, Kept!Append, Kept!Write, RefreshState
<1>8. saver' \in [Savers -> SaveState]
  BY SaveUpdates DEF Kept!MakeMain, Kept!Append, Kept!Write
<1> QED
  BY <1>1, <1>2, <1>3, <1>4, <1>5, <1>6, <1>7, <1>8

\* MakeStores keeps the types.
LEMMA MakeStoresTyped ==
  ASSUME FilesTyped, Kept!MakeStores
  PROVE  FilesTyped'
<1> USE ItemsDiffer, NothingTyped DEF FilesTyped
<1>1. items' \in SUBSET Items /\ present' \in SUBSET Items /\ used' \in SUBSET Profiles
  BY DEF Kept!MakeStores, Kept!Idle, Kept!files, Items
<1>2. current' \in Profiles \cup {None}
  BY DEF Kept!MakeStores, Kept!Idle, Kept!files
<1>3. stored' \in Index
  BY DEF Kept!MakeStores, Kept!Idle, Kept!files, Index
<1>4. update' \in Updates
  BY DEF Kept!MakeStores, Kept!Idle, Kept!files, Updates
<1>5. maker' \in MakeState
  BY DEF Kept!MakeStores, Kept!Idle, Kept!files, MakeState
<1>6. deleter' \in DeleteState
  BY DEF Kept!MakeStores, Kept!Idle, Kept!files, DeleteState
<1>7. refresher' \in RefreshState
  BY DEF Kept!MakeStores, Kept!Idle, Kept!files, RefreshState
<1>8. saver' \in [Savers -> SaveState]
  BY SaveUpdates DEF Kept!MakeStores, Kept!Idle, Kept!files
<1> QED
  BY <1>1, <1>2, <1>3, <1>4, <1>5, <1>6, <1>7, <1>8

\* MakeFails keeps the types.
LEMMA MakeFailsTyped ==
  ASSUME FilesTyped, Kept!MakeFails
  PROVE  FilesTyped'
<1> USE ItemsDiffer, NothingTyped DEF FilesTyped
<1>1. items' \in SUBSET Items /\ present' \in SUBSET Items /\ used' \in SUBSET Profiles
  BY DEF Kept!MakeFails, Kept!Idle, Kept!index, Kept!files, Items
<1>2. current' \in Profiles \cup {None}
  BY DEF Kept!MakeFails, Kept!Idle, Kept!index, Kept!files
<1>3. stored' \in Index
  BY DEF Kept!MakeFails, Kept!Idle, Kept!index, Kept!files, Index
<1>4. update' \in Updates
  BY DEF Kept!MakeFails, Kept!Idle, Kept!index, Kept!files, Updates
<1>5. maker' \in MakeState
  BY DEF Kept!MakeFails, Kept!Idle, Kept!index, Kept!files, MakeState
<1>6. deleter' \in DeleteState
  BY DEF Kept!MakeFails, Kept!Idle, Kept!index, Kept!files, DeleteState
<1>7. refresher' \in RefreshState
  BY DEF Kept!MakeFails, Kept!Idle, Kept!index, Kept!files, RefreshState
<1>8. saver' \in [Savers -> SaveState]
  BY SaveUpdates DEF Kept!MakeFails, Kept!Idle, Kept!index, Kept!files
<1> QED
  BY <1>1, <1>2, <1>3, <1>4, <1>5, <1>6, <1>7, <1>8

\* DeleteBegins keeps the types.
LEMMA DeleteBeginsTyped ==
  ASSUME FilesTyped, Kept!DeleteBegins
  PROVE  FilesTyped'
<1> USE ItemsDiffer, NothingTyped DEF FilesTyped
<1>1. items' \in SUBSET Items /\ present' \in SUBSET Items /\ used' \in SUBSET Profiles
  BY DEF Kept!DeleteBegins, Kept!Calls, Kept!files
<1>2. current' \in Profiles \cup {None}
  BY DEF Kept!DeleteBegins, Kept!Calls, Kept!files
<1>3. stored' \in Index
  BY DEF Kept!DeleteBegins, Kept!Calls, Kept!files, Index
<1>4. update' \in Updates
  BY DEF Kept!DeleteBegins, Kept!Calls, Kept!files
<1>5. maker' \in MakeState
  BY DEF Kept!DeleteBegins, Kept!Calls, Kept!files, MakeState
<1>6. deleter' \in DeleteState
  BY DEF Kept!DeleteBegins, Kept!Calls, Kept!files, DeleteState
<1>7. refresher' \in RefreshState
  BY DEF Kept!DeleteBegins, Kept!Calls, Kept!files, RefreshState
<1>8. saver' \in [Savers -> SaveState]
  BY SaveUpdates DEF Kept!DeleteBegins, Kept!Calls, Kept!files
<1> QED
  BY <1>1, <1>2, <1>3, <1>4, <1>5, <1>6, <1>7, <1>8

\* DeleteClaims keeps the types.
LEMMA DeleteClaimsTyped ==
  ASSUME FilesTyped, Kept!DeleteClaims
  PROVE  FilesTyped'
<1> USE ItemsDiffer, NothingTyped DEF FilesTyped
<1>1. items' \in SUBSET Items /\ present' \in SUBSET Items /\ used' \in SUBSET Profiles
  BY DEF Kept!DeleteClaims, Kept!Claim, Kept!index, Items
<1>2. current' \in Profiles \cup {None}
  BY DEF Kept!DeleteClaims, Kept!Claim, Kept!index
<1>3. stored' \in Index
  BY DEF Kept!DeleteClaims, Kept!Claim, Kept!index, Index
<1>4. update' \in Updates
  BY DEF Kept!DeleteClaims, Kept!Claim, Kept!index, Updates
<1>5. maker' \in MakeState
  BY DEF Kept!DeleteClaims, Kept!Claim, Kept!index, MakeState
<1>6. deleter' \in DeleteState
  BY DEF Kept!DeleteClaims, Kept!Claim, Kept!index, DeleteState
<1>7. refresher' \in RefreshState
  BY DEF Kept!DeleteClaims, Kept!Claim, Kept!index, RefreshState
<1>8. saver' \in [Savers -> SaveState]
  BY SaveUpdates DEF Kept!DeleteClaims, Kept!Claim, Kept!index
<1> QED
  BY <1>1, <1>2, <1>3, <1>4, <1>5, <1>6, <1>7, <1>8

\* DeleteApplies keeps the types.
LEMMA DeleteAppliesTyped ==
  ASSUME FilesTyped, Kept!DeleteApplies
  PROVE  FilesTyped'
<1> USE ItemsDiffer, NothingTyped DEF FilesTyped
<1>1. items' \in SUBSET Items /\ present' \in SUBSET Items /\ used' \in SUBSET Profiles
  BY DEF Kept!DeleteApplies, Kept!index, Items
<1>2. current' \in Profiles \cup {None}
  BY DEF Kept!DeleteApplies, Kept!index
<1>3. stored' \in Index
  BY DEF Kept!DeleteApplies, Kept!index, Index
<1>4. update' \in Updates
  BY DEF Kept!DeleteApplies, Kept!index, Updates
<1>5. maker' \in MakeState
  BY DEF Kept!DeleteApplies, Kept!index, MakeState
<1>6. deleter' \in DeleteState
  BY DEF Kept!DeleteApplies, Kept!index, DeleteState
<1>7. refresher' \in RefreshState
  BY DEF Kept!DeleteApplies, Kept!index, RefreshState
<1>8. saver' \in [Savers -> SaveState]
  BY SaveUpdates DEF Kept!DeleteApplies, Kept!index
<1> QED
  BY <1>1, <1>2, <1>3, <1>4, <1>5, <1>6, <1>7, <1>8

\* DeleteGivesUp keeps the types.
LEMMA DeleteGivesUpTyped ==
  ASSUME FilesTyped, Kept!DeleteGivesUp
  PROVE  FilesTyped'
<1> USE ItemsDiffer, NothingTyped DEF FilesTyped
<1>1. items' \in SUBSET Items /\ present' \in SUBSET Items /\ used' \in SUBSET Profiles
  BY DEF Kept!DeleteGivesUp, Kept!Fails, Kept!NoDelete, Kept!Free, Items
<1>2. current' \in Profiles \cup {None}
  BY DEF Kept!DeleteGivesUp, Kept!Fails, Kept!NoDelete, Kept!Free
<1>3. stored' \in Index
  BY DEF Kept!DeleteGivesUp, Kept!Fails, Kept!NoDelete, Kept!Free, Index
<1>4. update' \in Updates
  BY DEF Kept!DeleteGivesUp, Kept!Fails, Kept!NoDelete, Kept!Free, Updates
<1>5. maker' \in MakeState
  BY DEF Kept!DeleteGivesUp, Kept!Fails, Kept!NoDelete, Kept!Free, MakeState
<1>6. deleter' \in DeleteState
  BY DEF Kept!DeleteGivesUp, Kept!Fails, Kept!NoDelete, Kept!Free, DeleteState
<1>7. refresher' \in RefreshState
  BY DEF Kept!DeleteGivesUp, Kept!Fails, Kept!NoDelete, Kept!Free, RefreshState
<1>8. saver' \in [Savers -> SaveState]
  BY SaveUpdates DEF Kept!DeleteGivesUp, Kept!Fails, Kept!NoDelete, Kept!Free
<1> QED
  BY <1>1, <1>2, <1>3, <1>4, <1>5, <1>6, <1>7, <1>8

\* DeleteStores keeps the types.
LEMMA DeleteStoresTyped ==
  ASSUME FilesTyped, Kept!DeleteStores
  PROVE  FilesTyped'
<1> USE ItemsDiffer, NothingTyped DEF FilesTyped
<1>1. items' \in SUBSET Items /\ present' \in SUBSET Items /\ used' \in SUBSET Profiles
  BY DEF Kept!DeleteStores, Kept!files, Items
<1>2. current' \in Profiles \cup {None}
  BY DEF Kept!DeleteStores, Kept!files
<1>3. stored' \in Index
  BY DEF Kept!DeleteStores, Kept!files, Index, DeleteState
<1>4. update' \in Updates
  BY DEF Kept!DeleteStores, Kept!files, Updates
<1>5. maker' \in MakeState
  BY DEF Kept!DeleteStores, Kept!files, MakeState
<1>6. deleter' \in DeleteState
  BY DEF Kept!DeleteStores, Kept!files, DeleteState
<1>7. refresher' \in RefreshState
  BY DEF Kept!DeleteStores, Kept!files, RefreshState
<1>8. saver' \in [Savers -> SaveState]
  BY SaveUpdates DEF Kept!DeleteStores, Kept!files
<1> QED
  BY <1>1, <1>2, <1>3, <1>4, <1>5, <1>6, <1>7, <1>8

\* DeleteUndone keeps the types.
LEMMA DeleteUndoneTyped ==
  ASSUME FilesTyped, Kept!DeleteUndone
  PROVE  FilesTyped'
<1> USE ItemsDiffer, NothingTyped DEF FilesTyped
<1>1. items' \in SUBSET Items /\ present' \in SUBSET Items /\ used' \in SUBSET Profiles
  BY DEF Kept!DeleteUndone, Kept!NoDelete, Kept!Free, Items
<1>2. current' \in Profiles \cup {None}
  BY DEF Kept!DeleteUndone, Kept!NoDelete, Kept!Free
<1>3. stored' \in Index
  BY DEF Kept!DeleteUndone, Kept!NoDelete, Kept!Free, Index
<1>4. update' \in Updates
  BY DEF Kept!DeleteUndone, Kept!NoDelete, Kept!Free, Updates
<1>5. maker' \in MakeState
  BY DEF Kept!DeleteUndone, Kept!NoDelete, Kept!Free, MakeState
<1>6. deleter' \in DeleteState
  BY DEF Kept!DeleteUndone, Kept!NoDelete, Kept!Free, DeleteState
<1>7. refresher' \in RefreshState
  BY DEF Kept!DeleteUndone, Kept!NoDelete, Kept!Free, RefreshState
<1>8. saver' \in [Savers -> SaveState]
  BY SaveUpdates DEF Kept!DeleteUndone, Kept!NoDelete, Kept!Free
<1> QED
  BY <1>1, <1>2, <1>3, <1>4, <1>5, <1>6, <1>7, <1>8

\* DeleteEnds keeps the types.
LEMMA DeleteEndsTyped ==
  ASSUME FilesTyped, Kept!DeleteEnds
  PROVE  FilesTyped'
<1> USE ItemsDiffer, NothingTyped DEF FilesTyped
<1>1. items' \in SUBSET Items /\ present' \in SUBSET Items /\ used' \in SUBSET Profiles
  BY DEF Kept!DeleteEnds, Kept!NoDelete, Kept!Free, DeleteState
<1>2. current' \in Profiles \cup {None}
  BY DEF Kept!DeleteEnds, Kept!NoDelete, Kept!Free, DeleteState
<1>3. stored' \in Index
  BY DEF Kept!DeleteEnds, Kept!NoDelete, Kept!Free, Index
<1>4. update' \in Updates
  BY DEF Kept!DeleteEnds, Kept!NoDelete, Kept!Free, Updates
<1>5. maker' \in MakeState
  BY DEF Kept!DeleteEnds, Kept!NoDelete, Kept!Free, MakeState
<1>6. deleter' \in DeleteState
  BY DEF Kept!DeleteEnds, Kept!NoDelete, Kept!Free, DeleteState
<1>7. refresher' \in RefreshState
  BY DEF Kept!DeleteEnds, Kept!NoDelete, Kept!Free, RefreshState
<1>8. saver' \in [Savers -> SaveState]
  BY SaveUpdates DEF Kept!DeleteEnds, Kept!NoDelete, Kept!Free
<1> QED
  BY <1>1, <1>2, <1>3, <1>4, <1>5, <1>6, <1>7, <1>8

\* RefreshBegins keeps the types.
LEMMA RefreshBeginsTyped ==
  ASSUME FilesTyped, Kept!RefreshBegins
  PROVE  FilesTyped'
<1> USE ItemsDiffer, NothingTyped DEF FilesTyped
<1>1. items' \in SUBSET Items /\ present' \in SUBSET Items /\ used' \in SUBSET Profiles
  BY DEF Kept!RefreshBegins, Kept!Calls, Kept!index, Kept!files, Items
<1>2. current' \in Profiles \cup {None}
  BY DEF Kept!RefreshBegins, Kept!Calls, Kept!index, Kept!files
<1>3. stored' \in Index
  BY DEF Kept!RefreshBegins, Kept!Calls, Kept!index, Kept!files, Index
<1>4. update' \in Updates
  BY DEF Kept!RefreshBegins, Kept!Calls, Kept!index, Kept!files, Updates
<1>5. maker' \in MakeState
  BY DEF Kept!RefreshBegins, Kept!Calls, Kept!index, Kept!files, MakeState
<1>6. deleter' \in DeleteState
  BY DEF Kept!RefreshBegins, Kept!Calls, Kept!index, Kept!files, DeleteState
<1>7. refresher' \in RefreshState
  BY DEF Kept!RefreshBegins, Kept!Calls, Kept!index, Kept!files, RefreshState
<1>8. saver' \in [Savers -> SaveState]
  BY SaveUpdates DEF Kept!RefreshBegins, Kept!Calls, Kept!index, Kept!files
<1> QED
  BY <1>1, <1>2, <1>3, <1>4, <1>5, <1>6, <1>7, <1>8

\* RefreshFails keeps the types.
LEMMA RefreshFailsTyped ==
  ASSUME FilesTyped, Kept!RefreshFails
  PROVE  FilesTyped'
<1> USE ItemsDiffer, NothingTyped DEF FilesTyped
<1>1. items' \in SUBSET Items /\ present' \in SUBSET Items /\ used' \in SUBSET Profiles
  BY DEF Kept!RefreshFails, Kept!Idle, Kept!index, Kept!files, Items
<1>2. current' \in Profiles \cup {None}
  BY DEF Kept!RefreshFails, Kept!Idle, Kept!index, Kept!files
<1>3. stored' \in Index
  BY DEF Kept!RefreshFails, Kept!Idle, Kept!index, Kept!files, Index
<1>4. update' \in Updates
  BY DEF Kept!RefreshFails, Kept!Idle, Kept!index, Kept!files, Updates
<1>5. maker' \in MakeState
  BY DEF Kept!RefreshFails, Kept!Idle, Kept!index, Kept!files, MakeState
<1>6. deleter' \in DeleteState
  BY DEF Kept!RefreshFails, Kept!Idle, Kept!index, Kept!files, DeleteState
<1>7. refresher' \in RefreshState
  BY DEF Kept!RefreshFails, Kept!Idle, Kept!index, Kept!files, RefreshState
<1>8. saver' \in [Savers -> SaveState]
  BY SaveUpdates DEF Kept!RefreshFails, Kept!Idle, Kept!index, Kept!files
<1> QED
  BY <1>1, <1>2, <1>3, <1>4, <1>5, <1>6, <1>7, <1>8

\* RefreshLands keeps the types.
LEMMA RefreshLandsTyped ==
  ASSUME FilesTyped, Kept!RefreshLands
  PROVE  FilesTyped'
<1> USE ItemsDiffer, NothingTyped DEF FilesTyped
<1>1. items' \in SUBSET Items /\ present' \in SUBSET Items /\ used' \in SUBSET Profiles
  BY DEF Kept!RefreshLands, Kept!Write, Kept!Idle, Items
<1>2. current' \in Profiles \cup {None}
  BY DEF Kept!RefreshLands, Kept!Write, Kept!Idle
<1>3. stored' \in Index
  BY DEF Kept!RefreshLands, Kept!Write, Kept!Idle, Index
<1>4. update' \in Updates
  BY DEF Kept!RefreshLands, Kept!Write, Kept!Idle, Updates
<1>5. maker' \in MakeState
  BY DEF Kept!RefreshLands, Kept!Write, Kept!Idle, MakeState
<1>6. deleter' \in DeleteState
  BY DEF Kept!RefreshLands, Kept!Write, Kept!Idle, DeleteState
<1>7. refresher' \in RefreshState
  BY SMTT(30) DEF Kept!RefreshLands, Kept!Write, Kept!Idle, RefreshState
<1>8. saver' \in [Savers -> SaveState]
  BY SaveUpdates DEF Kept!RefreshLands, Kept!Write, Kept!Idle
<1> QED
  BY <1>1, <1>2, <1>3, <1>4, <1>5, <1>6, <1>7, <1>8

\* RefreshClaims keeps the types.
LEMMA RefreshClaimsTyped ==
  ASSUME FilesTyped, Kept!RefreshClaims
  PROVE  FilesTyped'
<1> USE ItemsDiffer, NothingTyped DEF FilesTyped
<1>1. items' \in SUBSET Items /\ present' \in SUBSET Items /\ used' \in SUBSET Profiles
  BY DEF Kept!RefreshClaims, Kept!Claim, Kept!Idle, Kept!index, Items
<1>2. current' \in Profiles \cup {None}
  BY DEF Kept!RefreshClaims, Kept!Claim, Kept!Idle, Kept!index
<1>3. stored' \in Index
  BY DEF Kept!RefreshClaims, Kept!Claim, Kept!Idle, Kept!index, Index
<1>4. update' \in Updates
  BY DEF Kept!RefreshClaims, Kept!Claim, Kept!Idle, Kept!index, Updates
<1>5. maker' \in MakeState
  BY DEF Kept!RefreshClaims, Kept!Claim, Kept!Idle, Kept!index, MakeState
<1>6. deleter' \in DeleteState
  BY DEF Kept!RefreshClaims, Kept!Claim, Kept!Idle, Kept!index, DeleteState
<1>7. refresher' \in RefreshState
  BY SMTT(30) DEF Kept!RefreshClaims, Kept!Claim, Kept!Idle, Kept!index, RefreshState
<1>8. saver' \in [Savers -> SaveState]
  BY SaveUpdates DEF Kept!RefreshClaims, Kept!Claim, Kept!Idle, Kept!index
<1> QED
  BY <1>1, <1>2, <1>3, <1>4, <1>5, <1>6, <1>7, <1>8

\* RefreshEnds keeps the types.
LEMMA RefreshEndsTyped ==
  ASSUME FilesTyped, Kept!RefreshEnds
  PROVE  FilesTyped'
<1> USE ItemsDiffer, NothingTyped DEF FilesTyped
<1>1. items' \in SUBSET Items /\ present' \in SUBSET Items /\ used' \in SUBSET Profiles
  BY DEF Kept!RefreshEnds, Kept!Apply, Kept!Fails, Kept!Idle, Kept!Free, Kept!index, Items
<1>2. current' \in Profiles \cup {None}
  BY DEF Kept!RefreshEnds, Kept!Apply, Kept!Fails, Kept!Idle, Kept!Free, Kept!index
<1>3. stored' \in Index
  BY DEF Kept!RefreshEnds, Kept!Apply, Kept!Fails, Kept!Idle, Kept!Free, Kept!index, Index
<1>4. update' \in Updates
  BY DEF Kept!RefreshEnds, Kept!Apply, Kept!Fails, Kept!Idle, Kept!Free, Kept!index, Updates
<1>5. maker' \in MakeState
  BY DEF Kept!RefreshEnds, Kept!Apply, Kept!Fails, Kept!Idle, Kept!Free, Kept!index, MakeState
<1>6. deleter' \in DeleteState
  BY DEF Kept!RefreshEnds, Kept!Apply, Kept!Fails, Kept!Idle, Kept!Free, Kept!index, DeleteState
<1>7. refresher' \in RefreshState
  BY DEF Kept!RefreshEnds, Kept!Apply, Kept!Fails, Kept!Idle, Kept!Free, Kept!index, RefreshState
<1>8. saver' \in [Savers -> SaveState]
  BY SaveUpdates DEF Kept!RefreshEnds, Kept!Apply, Kept!Fails, Kept!Idle, Kept!Free, Kept!index
<1> QED
  BY <1>1, <1>2, <1>3, <1>4, <1>5, <1>6, <1>7, <1>8

\* Restart keeps the types.
LEMMA RestartTyped ==
  ASSUME FilesTyped, Kept!Restart
  PROVE  FilesTyped'
<1> USE ItemsDiffer, NothingTyped DEF FilesTyped
<1>1. items' \in SUBSET Items /\ present' \in SUBSET Items /\ used' \in SUBSET Profiles
  BY DEF Kept!Restart, Kept!Calls, Kept!Free, Kept!Idle, Kept!NoDelete, Kept!NoSave, Index
<1>2. current' \in Profiles \cup {None}
  BY DEF Kept!Restart, Kept!Calls, Kept!Free, Kept!Idle, Kept!NoDelete, Kept!NoSave, Index
<1>3. stored' \in Index
  BY DEF Kept!Restart, Kept!Calls, Kept!Free, Kept!Idle, Kept!NoDelete, Kept!NoSave, Index
<1>4. update' \in Updates
  BY DEF Kept!Restart, Kept!Calls, Kept!Free, Kept!Idle, Kept!NoDelete, Kept!NoSave, Updates
<1>5. maker' \in MakeState
  BY DEF Kept!Restart, Kept!Calls, Kept!Free, Kept!Idle, Kept!NoDelete, Kept!NoSave, MakeState
<1>6. deleter' \in DeleteState
  BY DEF Kept!Restart, Kept!Calls, Kept!Free, Kept!Idle, Kept!NoDelete, Kept!NoSave, DeleteState
<1>7. refresher' \in RefreshState
  BY SMTT(30)
     DEF Kept!Restart, Kept!Calls, Kept!Free, Kept!Idle, Kept!NoDelete, Kept!NoSave,
         RefreshState
<1>8. saver' \in [Savers -> SaveState]
  BY SaveUpdates DEF Kept!Restart, Kept!Calls, Kept!Free, Kept!Idle, Kept!NoDelete, Kept!NoSave
<1> QED
  BY <1>1, <1>2, <1>3, <1>4, <1>5, <1>6, <1>7, <1>8

\* SaveBegins keeps the types.
LEMMA SaveBeginsTyped ==
  ASSUME FilesTyped, NEW s \in Savers, Kept!SaveBegins(s)
  PROVE  FilesTyped'
<1> USE ItemsDiffer, NothingTyped DEF FilesTyped
<1>1. items' \in SUBSET Items /\ present' \in SUBSET Items /\ used' \in SUBSET Profiles
  BY DEF Kept!SaveBegins, Kept!Calls, Kept!NoSave, Kept!index, Kept!files, Items
<1>2. current' \in Profiles \cup {None}
  BY DEF Kept!SaveBegins, Kept!Calls, Kept!NoSave, Kept!index, Kept!files
<1>3. stored' \in Index
  BY DEF Kept!SaveBegins, Kept!Calls, Kept!NoSave, Kept!index, Kept!files, Index
<1>4. update' \in Updates
  BY DEF Kept!SaveBegins, Kept!Calls, Kept!NoSave, Kept!index, Kept!files, Updates
<1>5. maker' \in MakeState
  BY DEF Kept!SaveBegins, Kept!Calls, Kept!NoSave, Kept!index, Kept!files, MakeState
<1>6. deleter' \in DeleteState
  BY DEF Kept!SaveBegins, Kept!Calls, Kept!NoSave, Kept!index, Kept!files, DeleteState
<1>7. refresher' \in RefreshState
  BY DEF Kept!SaveBegins, Kept!Calls, Kept!NoSave, Kept!index, Kept!files, RefreshState
<1>8. saver' \in [Savers -> SaveState]
  <2>1. PICK i \in items \cup {Kept!Rules} :
          saver' = [saver EXCEPT ![s] =
            IF i \in items
            THEN [step |-> "reads", item |-> i, existed |-> FALSE,
                  affects |-> Kept!AffectsRuntime(i), mine |-> FALSE, under |-> current]
            ELSE [Kept!NoSave EXCEPT !.step = "not-listed", !.item = i]]
    BY DEF Kept!SaveBegins, Kept!Calls, Kept!NoSave, Kept!index, Kept!files
  <2>2. Kept!AffectsRuntime(i) \in BOOLEAN
    BY DEF Kept!AffectsRuntime
  <2>3. i \in Items
    BY DEF Kept!Rules, Items
  <2>4. [step |-> "reads", item |-> i, existed |-> FALSE, affects |-> Kept!AffectsRuntime(i),
         mine |-> FALSE, under |-> current] \in SaveState
    BY <2>2, <2>3 DEF SaveState, SaveSteps
  <2>5. [Kept!NoSave EXCEPT !.step = "not-listed", !.item = i] \in SaveState
    BY <2>3 DEF SaveState, SaveSteps, Kept!NoSave
  <2> QED
    BY <2>1, <2>4, <2>5
<1> QED
  BY <1>1, <1>2, <1>3, <1>4, <1>5, <1>6, <1>7, <1>8

\* SaveReads keeps the types.
LEMMA SaveReadsTyped ==
  ASSUME FilesTyped, NEW s \in Savers, Kept!SaveReads(s)
  PROVE  FilesTyped'
<1> USE ItemsDiffer, NothingTyped DEF FilesTyped
<1>1. items' \in SUBSET Items /\ present' \in SUBSET Items /\ used' \in SUBSET Profiles
  BY DEF Kept!SaveReads, Kept!NoSave, Kept!index, Kept!files, Items
<1>2. current' \in Profiles \cup {None}
  BY DEF Kept!SaveReads, Kept!NoSave, Kept!index, Kept!files
<1>3. stored' \in Index
  BY DEF Kept!SaveReads, Kept!NoSave, Kept!index, Kept!files, Index
<1>4. update' \in Updates
  BY DEF Kept!SaveReads, Kept!NoSave, Kept!index, Kept!files, Updates
<1>5. maker' \in MakeState
  BY DEF Kept!SaveReads, Kept!NoSave, Kept!index, Kept!files, MakeState
<1>6. deleter' \in DeleteState
  BY DEF Kept!SaveReads, Kept!NoSave, Kept!index, Kept!files, DeleteState
<1>7. refresher' \in RefreshState
  BY DEF Kept!SaveReads, Kept!NoSave, Kept!index, Kept!files, RefreshState
<1>8. saver' \in [Savers -> SaveState]
  <2>1. \/ saver' = [saver EXCEPT ![s] = [saver[s] EXCEPT !.step = "writes",
                                                   !.existed = saver[s].item \in present]]
        \/ saver' = [saver EXCEPT ![s] = Kept!NoSave]
    BY ZenonT(45) DEF Kept!SaveReads, Kept!NoSave, Kept!index, Kept!files
  <2>2. (saver[s].item \in present) \in BOOLEAN
    OBVIOUS
  <2>3. [saver[s] EXCEPT !.step = "writes", !.existed = saver[s].item \in present] \in SaveState
    BY <2>2, SaveUpdates
  <2> QED
    BY <2>1, <2>3
<1> QED
  BY <1>1, <1>2, <1>3, <1>4, <1>5, <1>6, <1>7, <1>8

\* SaveWrites keeps the types.
LEMMA SaveWritesTyped ==
  ASSUME FilesTyped, NEW s \in Savers, SaveFollows(s), Kept!SaveWrites(s)
  PROVE  FilesTyped'
<1> USE ItemsDiffer, NothingTyped DEF FilesTyped
<1>1. items' \in SUBSET Items /\ present' \in SUBSET Items /\ used' \in SUBSET Profiles
  <2>1. saver[s].item \in items \/ Gone(saver[s].item)
    BY DEF Kept!SaveWrites, SaveFollows
  <2>2. saver[s].item \in Items
    BY <2>1 DEF Gone
  <2> QED
    BY <2>2 DEF Kept!SaveWrites, Kept!index
<1>2. current' \in Profiles \cup {None}
  BY DEF Kept!SaveWrites, Kept!index
<1>3. stored' \in Index
  BY DEF Kept!SaveWrites, Kept!index, Index
<1>4. update' \in Updates
  BY DEF Kept!SaveWrites, Kept!index, Updates
<1>5. maker' \in MakeState
  BY DEF Kept!SaveWrites, Kept!index, MakeState
<1>6. deleter' \in DeleteState
  BY DEF Kept!SaveWrites, Kept!index, DeleteState
<1>7. refresher' \in RefreshState
  BY DEF Kept!SaveWrites, Kept!index, RefreshState
<1>8. saver' \in [Savers -> SaveState]
  BY SaveUpdates DEF Kept!SaveWrites, Kept!index
<1> QED
  BY <1>1, <1>2, <1>3, <1>4, <1>5, <1>6, <1>7, <1>8

\* SaveValidates keeps the types.
LEMMA SaveValidatesTyped ==
  ASSUME FilesTyped, NEW s \in Savers, Kept!SaveValidates(s)
  PROVE  FilesTyped'
<1> USE ItemsDiffer, NothingTyped DEF FilesTyped
<1>1. items' \in SUBSET Items /\ present' \in SUBSET Items /\ used' \in SUBSET Profiles
  BY DEF Kept!SaveValidates, Kept!Answered, Kept!NoSave, Kept!index, Items
<1>2. current' \in Profiles \cup {None}
  BY DEF Kept!SaveValidates, Kept!Answered, Kept!NoSave, Kept!index
<1>3. stored' \in Index
  BY DEF Kept!SaveValidates, Kept!Answered, Kept!NoSave, Kept!index, Index
<1>4. update' \in Updates
  BY DEF Kept!SaveValidates, Kept!Answered, Kept!NoSave, Kept!index, Updates
<1>5. maker' \in MakeState
  BY DEF Kept!SaveValidates, Kept!Answered, Kept!NoSave, Kept!index, MakeState
<1>6. deleter' \in DeleteState
  BY DEF Kept!SaveValidates, Kept!Answered, Kept!NoSave, Kept!index, DeleteState
<1>7. refresher' \in RefreshState
  BY DEF Kept!SaveValidates, Kept!Answered, Kept!NoSave, Kept!index, RefreshState
<1>8. saver' \in [Savers -> SaveState]
  <2>1. \E r \in SaveState : saver' = [saver EXCEPT ![s] = r]
    <3>1. \/ saver' = [saver EXCEPT ![s] = [saver[s] EXCEPT !.step = "updates"]]
          \/ saver' = [saver EXCEPT ![s] = [saver[s] EXCEPT !.step = "refused"]]
          \/ saver' = [saver EXCEPT ![s] = Kept!NoSave]
      BY SMTT(30) DEF Kept!SaveValidates, Kept!Answered, Kept!NoSave, Kept!index
    <3>2. /\ [saver[s] EXCEPT !.step = "updates"] \in SaveState
          /\ [saver[s] EXCEPT !.step = "refused"] \in SaveState
      BY SaveUpdates DEF SaveSteps
    <3> QED
      BY <3>1, <3>2
  <2> QED
    BY <2>1
<1> QED
  BY <1>1, <1>2, <1>3, <1>4, <1>5, <1>6, <1>7, <1>8

\* SaveClaims keeps the types.
LEMMA SaveClaimsTyped ==
  ASSUME FilesTyped, NEW s \in Savers, Kept!SaveClaims(s)
  PROVE  FilesTyped'
<1> USE ItemsDiffer, NothingTyped DEF FilesTyped
<1>1. items' \in SUBSET Items /\ present' \in SUBSET Items /\ used' \in SUBSET Profiles
  BY DEF Kept!SaveClaims, Kept!Claim, Kept!index, Items
<1>2. current' \in Profiles \cup {None}
  BY DEF Kept!SaveClaims, Kept!Claim, Kept!index
<1>3. stored' \in Index
  BY DEF Kept!SaveClaims, Kept!Claim, Kept!index, Index
<1>4. update' \in Updates
  BY DEF Kept!SaveClaims, Kept!Claim, Kept!index, Updates
<1>5. maker' \in MakeState
  BY DEF Kept!SaveClaims, Kept!Claim, Kept!index, MakeState
<1>6. deleter' \in DeleteState
  BY DEF Kept!SaveClaims, Kept!Claim, Kept!index, DeleteState
<1>7. refresher' \in RefreshState
  BY DEF Kept!SaveClaims, Kept!Claim, Kept!index, RefreshState
<1>8. saver' \in [Savers -> SaveState]
  <2>1. \E r \in SaveState : saver' = [saver EXCEPT ![s] = r]
    <3>1. \/ saver' = [saver EXCEPT ![s] = [saver[s] EXCEPT !.step = "refused"]]
          \/ saver' = [saver EXCEPT ![s] = [saver[s] EXCEPT !.step = "applies"]]
      BY SMTT(30) DEF Kept!SaveClaims, Kept!Claim, Kept!index
    <3>2. /\ [saver[s] EXCEPT !.step = "refused"] \in SaveState
          /\ [saver[s] EXCEPT !.step = "applies"] \in SaveState
      BY SaveUpdates DEF SaveSteps
    <3> QED
      BY <3>1, <3>2
  <2> QED
    BY <2>1
<1> QED
  BY <1>1, <1>2, <1>3, <1>4, <1>5, <1>6, <1>7, <1>8

\* SaveApplies keeps the types.
LEMMA SaveAppliesTyped ==
  ASSUME FilesTyped, NEW s \in Savers, Kept!SaveApplies(s)
  PROVE  FilesTyped'
<1> USE ItemsDiffer, NothingTyped DEF FilesTyped
<1>1. items' \in SUBSET Items /\ present' \in SUBSET Items /\ used' \in SUBSET Profiles
  BY DEF Kept!SaveApplies, Kept!Apply, Kept!Fails, Kept!Free, Kept!Answered, Kept!NoSave,
     Kept!index, Items
<1>2. current' \in Profiles \cup {None}
  BY DEF Kept!SaveApplies, Kept!Apply, Kept!Fails, Kept!Free, Kept!Answered, Kept!NoSave, Kept!index
<1>3. stored' \in Index
  BY DEF Kept!SaveApplies, Kept!Apply, Kept!Fails, Kept!Free, Kept!Answered, Kept!NoSave,
     Kept!index, Index
<1>4. update' \in Updates
  BY DEF Kept!SaveApplies, Kept!Apply, Kept!Fails, Kept!Free, Kept!Answered, Kept!NoSave,
     Kept!index, Updates
<1>5. maker' \in MakeState
  BY DEF Kept!SaveApplies, Kept!Apply, Kept!Fails, Kept!Free, Kept!Answered, Kept!NoSave,
     Kept!index, MakeState
<1>6. deleter' \in DeleteState
  BY DEF Kept!SaveApplies, Kept!Apply, Kept!Fails, Kept!Free, Kept!Answered, Kept!NoSave,
     Kept!index, DeleteState
<1>7. refresher' \in RefreshState
  BY DEF Kept!SaveApplies, Kept!Apply, Kept!Fails, Kept!Free, Kept!Answered, Kept!NoSave,
     Kept!index, RefreshState
<1>8. saver' \in [Savers -> SaveState]
  <2>1. \E r \in SaveState : saver' = [saver EXCEPT ![s] = r]
    <3>1. \/ saver' = [saver EXCEPT ![s] = [saver[s] EXCEPT !.step = "refused"]]
          \/ saver' = [saver EXCEPT ![s] = Kept!NoSave]
      BY SMTT(30) DEF Kept!SaveApplies, Kept!Apply, Kept!Fails, Kept!Free, Kept!Answered,
         Kept!NoSave,
         Kept!index
    <3>2. /\ [saver[s] EXCEPT !.step = "refused"] \in SaveState
      BY SaveUpdates DEF SaveSteps
    <3> QED
      BY <3>1, <3>2
  <2> QED
    BY <2>1
<1> QED
  BY <1>1, <1>2, <1>3, <1>4, <1>5, <1>6, <1>7, <1>8

\* SaveRestores keeps the types.
LEMMA SaveRestoresTyped ==
  ASSUME FilesTyped, NEW s \in Savers, SaveFollows(s), Kept!SaveRestores(s)
  PROVE  FilesTyped'
<1> USE ItemsDiffer, NothingTyped DEF FilesTyped
<1>1. items' \in SUBSET Items /\ present' \in SUBSET Items /\ used' \in SUBSET Profiles
  BY DEF Kept!SaveRestores, Kept!NoSave, Kept!index, SaveFollows, Gone
<1>2. current' \in Profiles \cup {None}
  BY DEF Kept!SaveRestores, Kept!NoSave, Kept!index
<1>3. stored' \in Index
  BY DEF Kept!SaveRestores, Kept!NoSave, Kept!index, Index
<1>4. update' \in Updates
  BY DEF Kept!SaveRestores, Kept!NoSave, Kept!index, Updates
<1>5. maker' \in MakeState
  BY DEF Kept!SaveRestores, Kept!NoSave, Kept!index, MakeState
<1>6. deleter' \in DeleteState
  BY DEF Kept!SaveRestores, Kept!NoSave, Kept!index, DeleteState
<1>7. refresher' \in RefreshState
  BY SMTT(30) DEF Kept!SaveRestores, Kept!NoSave, Kept!index, RefreshState
<1>8. saver' \in [Savers -> SaveState]
  BY SaveUpdates DEF Kept!SaveRestores, Kept!NoSave, Kept!index
<1> QED
  BY <1>1, <1>2, <1>3, <1>4, <1>5, <1>6, <1>7, <1>8

\* SaveNotListed keeps the types.
LEMMA SaveNotListedTyped ==
  ASSUME FilesTyped, NEW s \in Savers, Kept!SaveNotListed(s)
  PROVE  FilesTyped'
<1> USE ItemsDiffer, NothingTyped DEF FilesTyped
<1>1. items' \in SUBSET Items /\ present' \in SUBSET Items /\ used' \in SUBSET Profiles
  BY DEF Kept!SaveNotListed, Kept!NoSave, Kept!index, Kept!files, Items
<1>2. current' \in Profiles \cup {None}
  BY DEF Kept!SaveNotListed, Kept!NoSave, Kept!index, Kept!files
<1>3. stored' \in Index
  BY DEF Kept!SaveNotListed, Kept!NoSave, Kept!index, Kept!files, Index
<1>4. update' \in Updates
  BY DEF Kept!SaveNotListed, Kept!NoSave, Kept!index, Kept!files, Updates
<1>5. maker' \in MakeState
  BY DEF Kept!SaveNotListed, Kept!NoSave, Kept!index, Kept!files, MakeState
<1>6. deleter' \in DeleteState
  BY DEF Kept!SaveNotListed, Kept!NoSave, Kept!index, Kept!files, DeleteState
<1>7. refresher' \in RefreshState
  BY SMTT(30) DEF Kept!SaveNotListed, Kept!NoSave, Kept!index, Kept!files, RefreshState
<1>8. saver' \in [Savers -> SaveState]
  BY SaveUpdates DEF Kept!SaveNotListed, Kept!NoSave, Kept!index, Kept!files
<1> QED
  BY <1>1, <1>2, <1>3, <1>4, <1>5, <1>6, <1>7, <1>8

\* The index is kept where only files come that are listed or go that are not.
LEMMA IndexStays ==
  ASSUME IndexKept, UNCHANGED <<items, current, stored, used>>,
         maker' = maker \/ maker' = Kept!Idle,
         (deleter' = deleter /\ UNCHANGED update_permit) \/ deleter' = Kept!NoDelete,
         \A i \in present \ present' : i \notin items \cup stored.items
  PROVE  IndexKept'
<1>1. Listed' /\ CurrentListed'
  BY DEF IndexKept, Listed, CurrentListed
<1>2. MakerFollows'
  BY DEF IndexKept, MakerFollows, Kept!Idle
<1>3. DeleterFollows'
  BY DEF IndexKept, DeleterFollows, Kept!NoDelete
<1> QED
  BY <1>1, <1>2, <1>3 DEF IndexKept

\* MakeBegins keeps what is listed.
LEMMA MakeBeginsIndexed ==
  ASSUME FilesTyped, IndexKept, Kept!MakeBegins
  PROVE  IndexKept'
<1> USE ItemsDiffer DEF FilesTyped, IndexKept
<1>1. Listed'
  BY DEF Kept!MakeBegins, Kept!Calls, Kept!files, Listed, Index
<1>2. CurrentListed'
  BY DEF Kept!MakeBegins, Kept!Calls, Kept!files, CurrentListed, Index
<1>3. MakerFollows'
  <2>1. PICK p \in Profiles \ used :
          used' = used \cup {p} /\ maker' = [step |-> "merge", profile |-> p]
    BY DEF Kept!MakeBegins, Kept!Calls, Kept!files
  <2>2. UNCHANGED <<items, stored>>
    BY DEF Kept!MakeBegins, Kept!Calls, Kept!files
  <2>3. \A i \in items \cup stored.items : i # Kept!Main(p) /\ i # Kept!Merge(p)
    BY PartsAssumption DEF Listed
  <2> QED
    BY <2>1, <2>2, <2>3 DEF MakerFollows
<1>4. DeleterFollows'
  BY DEF Kept!MakeBegins, Kept!Calls, Kept!files, DeleterFollows, DeleteState, Index
<1> QED
  BY <1>1, <1>2, <1>3, <1>4

\* MakeMerge keeps what is listed.
LEMMA MakeMergeIndexed ==
  ASSUME FilesTyped, IndexKept, Kept!MakeMerge
  PROVE  IndexKept'
<1> USE ItemsDiffer DEF FilesTyped, IndexKept
<1>1. Listed'
  BY DEF Listed, MakerFollows, Kept!MakeMerge, Kept!Append, Kept!Write
<1>2. CurrentListed'
  BY DEF Kept!MakeMerge, Kept!Append, Kept!Write, CurrentListed, Index
<1>3. MakerFollows'
  BY DEF Kept!MakeMerge, Kept!Append, Kept!Write, MakerFollows, MakeState, Index
<1>4. DeleterFollows'
  BY DEF Kept!MakeMerge, Kept!Append, Kept!Write, DeleterFollows, DeleteState, Index
<1> QED
  BY <1>1, <1>2, <1>3, <1>4

\* MakeMain keeps what is listed.
LEMMA MakeMainIndexed ==
  ASSUME FilesTyped, IndexKept, Kept!MakeMain
  PROVE  IndexKept'
<1> USE ItemsDiffer DEF FilesTyped, IndexKept
<1>1. Listed'
  BY DEF Listed, MakerFollows, Kept!MakeMain, Kept!Append, Kept!Write
<1>2. CurrentListed'
  BY DEF Kept!MakeMain, Kept!Append, Kept!Write, CurrentListed, Index
<1>3. MakerFollows'
  BY DEF Kept!MakeMain, Kept!Append, Kept!Write, MakerFollows, MakeState, Index
<1>4. DeleterFollows'
  BY DEF Kept!MakeMain, Kept!Append, Kept!Write, DeleterFollows, DeleteState, Index
<1> QED
  BY <1>1, <1>2, <1>3, <1>4

\* MakeStores keeps what is listed.
LEMMA MakeStoresIndexed ==
  ASSUME FilesTyped, IndexKept, Kept!MakeStores
  PROVE  IndexKept'
<1> USE ItemsDiffer DEF FilesTyped, IndexKept
<1>1. Listed'
  BY DEF Kept!MakeStores, Kept!Idle, Kept!files, Listed, Index
<1>2. CurrentListed'
  BY DEF Kept!MakeStores, Kept!Idle, Kept!files, CurrentListed, Index
<1>3. MakerFollows'
  BY DEF Kept!MakeStores, Kept!Idle, Kept!files, MakerFollows, MakeState, Index
<1>4. DeleterFollows'
  BY DEF Kept!MakeStores, Kept!Idle, Kept!files, DeleterFollows, DeleteState, Index
<1> QED
  BY <1>1, <1>2, <1>3, <1>4

\* MakeFails keeps what is listed.
LEMMA MakeFailsIndexed ==
  ASSUME FilesTyped, IndexKept, Kept!MakeFails
  PROVE  IndexKept'
BY IndexStays DEF Kept!MakeFails, Kept!Idle, Kept!index, Kept!files

\* DeleteBegins keeps what is listed.
LEMMA DeleteBeginsIndexed ==
  ASSUME FilesTyped, IndexKept, Kept!DeleteBegins
  PROVE  IndexKept'
<1> USE ItemsDiffer DEF FilesTyped, IndexKept
<1>1. Listed'
  BY DEF Kept!DeleteBegins, Kept!Calls, Kept!files, Listed, Index
<1>2. CurrentListed'
  BY DEF Kept!DeleteBegins, Kept!Calls, Kept!files, CurrentListed, Index
<1>3. MakerFollows'
  BY DEF Kept!DeleteBegins, Kept!Calls, Kept!files, MakerFollows, MakeState, Index
<1>4. DeleterFollows'
  <2>1. PICK p \in {p \in Profiles : Kept!Main(p) \in items} :
          \E next \in IF current \notin {p, None} THEN {current}
                    ELSE IF {q \in Profiles : Kept!Main(q) \in items \ Kept!Of(p)} = {} THEN {None}
                    ELSE {q \in Profiles : Kept!Main(q) \in items \ Kept!Of(p)} :
            deleter' = [step |-> IF current \in {p, None} THEN "update" ELSE "store", profile |-> p,
                        items |-> items \ Kept!Of(p), current |-> next]
    BY DEF Kept!DeleteBegins, Kept!Calls, Kept!files
  <2>2. UNCHANGED <<items, current, stored>> /\ ~update_permit'
    BY DEF Kept!DeleteBegins, Kept!Calls, Kept!files
  <2> DEFINE others == {q \in Profiles : Kept!Main(q) \in items \ Kept!Of(p)}
  <2>3. PICK next \in IF current \notin {p, None} THEN {current}
                     ELSE IF others = {} THEN {None} ELSE others :
            deleter' = [step |-> IF current \in {p, None} THEN "update" ELSE "store", profile |-> p,
                        items |-> items \ Kept!Of(p), current |-> next]
    BY <2>1
  <2>4. next # None => Kept!Main(next) \in items \ Kept!Of(p)
    BY DEF CurrentListed
  <2>5. next = current \/ current \in {p, None}
    OBVIOUS
  <2> QED
    BY <2>2, <2>3, <2>4, <2>5 DEF DeleterFollows
<1> QED
  BY <1>1, <1>2, <1>3, <1>4

\* DeleteClaims keeps what is listed.
LEMMA DeleteClaimsIndexed ==
  ASSUME FilesTyped, IndexKept, Kept!DeleteClaims
  PROVE  IndexKept'
<1> USE ItemsDiffer DEF FilesTyped, IndexKept
<1>1. Listed'
  BY DEF Kept!DeleteClaims, Kept!Claim, Kept!index, Listed, Index
<1>2. CurrentListed'
  BY DEF Kept!DeleteClaims, Kept!Claim, Kept!index, CurrentListed, Index
<1>3. MakerFollows'
  BY DEF Kept!DeleteClaims, Kept!Claim, Kept!index, MakerFollows, MakeState, Index
<1>4. DeleterFollows'
  BY DEF Kept!DeleteClaims, Kept!Claim, Kept!index, DeleterFollows, DeleteState, Index
<1> QED
  BY <1>1, <1>2, <1>3, <1>4

\* DeleteApplies keeps what is listed.
LEMMA DeleteAppliesIndexed ==
  ASSUME FilesTyped, IndexKept, Kept!DeleteApplies
  PROVE  IndexKept'
<1> USE ItemsDiffer DEF FilesTyped, IndexKept
<1>1. Listed'
  BY DEF Kept!DeleteApplies, Kept!index, Listed, Index
<1>2. CurrentListed'
  BY DEF Kept!DeleteApplies, Kept!index, CurrentListed, Index
<1>3. MakerFollows'
  BY DEF Kept!DeleteApplies, Kept!index, MakerFollows, MakeState, Index
<1>4. DeleterFollows'
  BY DEF Kept!DeleteApplies, Kept!index, DeleterFollows, DeleteState, Index
<1> QED
  BY <1>1, <1>2, <1>3, <1>4

\* DeleteGivesUp keeps what is listed.
LEMMA DeleteGivesUpIndexed ==
  ASSUME FilesTyped, IndexKept, Kept!DeleteGivesUp
  PROVE  IndexKept'
BY IndexStays DEF Kept!DeleteGivesUp, Kept!Fails, Kept!NoDelete, Kept!Free

\* DeleteStores keeps what is listed.
LEMMA DeleteStoresIndexed ==
  ASSUME FilesTyped, IndexKept, Kept!DeleteStores
  PROVE  IndexKept'
<1> USE ItemsDiffer DEF FilesTyped, IndexKept
<1>1. Listed'
  BY DEF Kept!DeleteStores, Kept!files, Listed, Index, DeleteState, DeleterFollows
<1>2. CurrentListed'
  BY DEF Kept!DeleteStores, Kept!files, CurrentListed, Index, DeleteState, DeleterFollows
<1>3. MakerFollows'
  BY DEF Kept!DeleteStores, Kept!files, MakerFollows, MakeState, Index, DeleteState, DeleterFollows
<1>4. DeleterFollows'
  BY DEF Kept!DeleteStores, Kept!files, DeleterFollows, DeleteState, Index
<1> QED
  BY <1>1, <1>2, <1>3, <1>4

\* DeleteUndone keeps what is listed.
LEMMA DeleteUndoneIndexed ==
  ASSUME FilesTyped, IndexKept, Kept!DeleteUndone
  PROVE  IndexKept'
BY IndexStays DEF Kept!DeleteUndone, Kept!NoDelete, Kept!Free

\* DeleteEnds keeps what is listed.
LEMMA DeleteEndsIndexed ==
  ASSUME FilesTyped, IndexKept, Kept!DeleteEnds
  PROVE  IndexKept'
<1> USE ItemsDiffer DEF FilesTyped, IndexKept
<1>1. Listed'
  BY DEF Kept!DeleteEnds, Kept!NoDelete, Kept!Free, Listed, Index, DeleteState, DeleterFollows
<1>2. CurrentListed'
  BY DEF Kept!DeleteEnds, Kept!NoDelete, Kept!Free, CurrentListed, Index, DeleteState,
     DeleterFollows
<1>3. MakerFollows'
  BY DEF Kept!DeleteEnds, Kept!NoDelete, Kept!Free, MakerFollows, MakeState, Index, DeleteState,
     DeleterFollows
<1>4. DeleterFollows'
  BY DEF Kept!DeleteEnds, Kept!NoDelete, Kept!Free, DeleterFollows, DeleteState, Index
<1> QED
  BY <1>1, <1>2, <1>3, <1>4

\* RefreshBegins keeps what is listed.
LEMMA RefreshBeginsIndexed ==
  ASSUME FilesTyped, IndexKept, Kept!RefreshBegins
  PROVE  IndexKept'
BY IndexStays DEF Kept!RefreshBegins, Kept!Calls, Kept!index, Kept!files

\* RefreshFails keeps what is listed.
LEMMA RefreshFailsIndexed ==
  ASSUME FilesTyped, IndexKept, Kept!RefreshFails
  PROVE  IndexKept'
BY IndexStays DEF Kept!RefreshFails, Kept!Idle, Kept!index, Kept!files

\* RefreshLands keeps what is listed.
LEMMA RefreshLandsIndexed ==
  ASSUME FilesTyped, IndexKept, Kept!RefreshLands
  PROVE  IndexKept'
<1> USE ItemsDiffer DEF FilesTyped, IndexKept
<1>1. Listed'
  BY DEF Kept!RefreshLands, Kept!Write, Kept!Idle, Listed, Index
<1>2. CurrentListed'
  BY DEF Kept!RefreshLands, Kept!Write, Kept!Idle, CurrentListed, Index
<1>3. MakerFollows'
  BY DEF Kept!RefreshLands, Kept!Write, Kept!Idle, MakerFollows, MakeState, Index
<1>4. DeleterFollows'
  BY DEF Kept!RefreshLands, Kept!Write, Kept!Idle, DeleterFollows, DeleteState, Index
<1> QED
  BY <1>1, <1>2, <1>3, <1>4

\* RefreshClaims keeps what is listed.
LEMMA RefreshClaimsIndexed ==
  ASSUME FilesTyped, IndexKept, Kept!RefreshClaims
  PROVE  IndexKept'
BY IndexStays DEF Kept!RefreshClaims, Kept!Claim, Kept!Idle, Kept!index

\* RefreshEnds keeps what is listed.
LEMMA RefreshEndsIndexed ==
  ASSUME FilesTyped, IndexKept, Kept!RefreshEnds
  PROVE  IndexKept'
BY IndexStays DEF Kept!RefreshEnds, Kept!Apply, Kept!Fails, Kept!Idle, Kept!Free, Kept!index

\* Restart keeps what is listed.
LEMMA RestartIndexed ==
  ASSUME FilesTyped, IndexKept, Kept!Restart
  PROVE  IndexKept'
<1> USE ItemsDiffer DEF FilesTyped, IndexKept
<1>1. Listed'
  BY DEF Kept!Restart, Kept!Calls, Kept!Free, Kept!Idle, Kept!NoDelete, Kept!NoSave, Listed, Index
<1>2. CurrentListed'
  BY DEF Kept!Restart, Kept!Calls, Kept!Free, Kept!Idle, Kept!NoDelete, Kept!NoSave,
     CurrentListed, Index
<1>3. MakerFollows'
  BY DEF Kept!Restart, Kept!Calls, Kept!Free, Kept!Idle, Kept!NoDelete, Kept!NoSave,
     MakerFollows, MakeState, Index
<1>4. DeleterFollows'
  BY DEF Kept!Restart, Kept!Calls, Kept!Free, Kept!Idle, Kept!NoDelete, Kept!NoSave,
     DeleterFollows, DeleteState, Index
<1> QED
  BY <1>1, <1>2, <1>3, <1>4

\* SaveBegins keeps what is listed.
LEMMA SaveBeginsIndexed ==
  ASSUME FilesTyped, IndexKept, NEW s \in Savers, Kept!SaveBegins(s)
  PROVE  IndexKept'
BY IndexStays DEF Kept!SaveBegins, Kept!Calls, Kept!NoSave, Kept!index, Kept!files

\* SaveReads keeps what is listed.
LEMMA SaveReadsIndexed ==
  ASSUME FilesTyped, IndexKept, NEW s \in Savers, Kept!SaveReads(s)
  PROVE  IndexKept'
BY IndexStays DEF Kept!SaveReads, Kept!NoSave, Kept!index, Kept!files

\* SaveWrites keeps what is listed.
LEMMA SaveWritesIndexed ==
  ASSUME FilesTyped, IndexKept, NEW s \in Savers, Kept!SaveWrites(s)
  PROVE  IndexKept'
BY IndexStays DEF Kept!SaveWrites, Kept!index

\* SaveValidates keeps what is listed.
LEMMA SaveValidatesIndexed ==
  ASSUME FilesTyped, IndexKept, NEW s \in Savers, Kept!SaveValidates(s)
  PROVE  IndexKept'
BY IndexStays DEF Kept!SaveValidates, Kept!Answered, Kept!NoSave, Kept!index

\* SaveClaims keeps what is listed.
LEMMA SaveClaimsIndexed ==
  ASSUME FilesTyped, IndexKept, NEW s \in Savers, Kept!SaveClaims(s)
  PROVE  IndexKept'
BY IndexStays DEF Kept!SaveClaims, Kept!Claim, Kept!index

\* SaveApplies keeps what is listed.
LEMMA SaveAppliesIndexed ==
  ASSUME FilesTyped, IndexKept, NEW s \in Savers, Kept!SaveApplies(s)
  PROVE  IndexKept'
BY IndexStays DEF Kept!SaveApplies, Kept!Apply, Kept!Fails, Kept!Free, Kept!Answered,
   Kept!NoSave, Kept!index

\* SaveRestores keeps what is listed.
LEMMA SaveRestoresIndexed ==
  ASSUME FilesTyped, IndexKept, NEW s \in Savers, SaveFollows(s), Kept!SaveRestores(s)
  PROVE  IndexKept'
<1>1. \A i \in present \ present' : i \notin items \cup stored.items
  BY DEF Kept!SaveRestores, Kept!NoSave, Kept!index, SaveFollows, Gone
<1> QED
  BY <1>1, IndexStays DEF Kept!SaveRestores, Kept!index

\* SaveNotListed keeps what is listed.
LEMMA SaveNotListedIndexed ==
  ASSUME FilesTyped, IndexKept, NEW s \in Savers, Kept!SaveNotListed(s)
  PROVE  IndexKept'
BY IndexStays DEF Kept!SaveNotListed, Kept!NoSave, Kept!index, Kept!files

\* What is gone stays gone while nothing more is listed and nobody else makes a profile.
LEMMA GoneWhileLess ==
  ASSUME NEW i, Gone(i), items' \cup stored'.items \subseteq items \cup stored.items,
         used \subseteq used', maker' = maker \/ maker'.step \in {"idle", "store"}
  PROVE  Gone(i)'
BY DEF Gone

\* What is gone stays gone until the application starts again.
LEMMA GoneStays ==
  ASSUME FilesTyped, IndexKept, Kept!Next, ~Kept!Restart, NEW i, Gone(i)
  PROVE  Gone(i)'
<1> USE ItemsDiffer
<1>1. CASE Kept!MakeBegins
  BY <1>1 DEF Kept!MakeBegins, Kept!Calls, Kept!files, Gone
<1>2. CASE Kept!MakeMerge
  BY <1>2 DEF Kept!MakeMerge, Kept!Append, Kept!Write, Gone, FilesTyped, MakeState
<1>3. CASE Kept!MakeMain
  BY <1>3 DEF Kept!MakeMain, Kept!Append, Kept!Write, Gone, FilesTyped, MakeState
<1>4. CASE Kept!MakeStores
  BY <1>4, GoneWhileLess DEF Kept!MakeStores, Kept!Idle, Kept!files
<1>5. CASE Kept!MakeFails
  BY <1>5, GoneWhileLess DEF Kept!MakeFails, Kept!Idle, Kept!index, Kept!files
<1>6. CASE Kept!DeleteBegins
  BY <1>6, GoneWhileLess DEF Kept!DeleteBegins, Kept!Calls, Kept!files
<1>7. CASE Kept!DeleteClaims
  BY <1>7, GoneWhileLess DEF Kept!DeleteClaims, Kept!Claim, Kept!index
<1>8. CASE Kept!DeleteApplies
  BY <1>8, GoneWhileLess DEF Kept!DeleteApplies, Kept!index
<1>9. CASE Kept!DeleteGivesUp
  BY <1>9, GoneWhileLess DEF Kept!DeleteGivesUp, Kept!Fails, Kept!NoDelete, Kept!Free
<1>10. CASE Kept!DeleteStores
  BY <1>10, GoneWhileLess DEF Kept!DeleteStores, Kept!files, IndexKept, DeleterFollows
<1>11. CASE Kept!DeleteUndone
  BY <1>11, GoneWhileLess DEF Kept!DeleteUndone, Kept!NoDelete, Kept!Free
<1>12. CASE Kept!DeleteEnds
  BY <1>12, GoneWhileLess DEF Kept!DeleteEnds, Kept!NoDelete, Kept!Free, IndexKept, DeleterFollows
<1>13. CASE Kept!RefreshBegins
  BY <1>13, GoneWhileLess DEF Kept!RefreshBegins, Kept!Calls, Kept!index, Kept!files
<1>14. CASE Kept!RefreshFails
  BY <1>14, GoneWhileLess DEF Kept!RefreshFails, Kept!Idle, Kept!index, Kept!files
<1>15. CASE Kept!RefreshLands
  BY <1>15, GoneWhileLess DEF Kept!RefreshLands, Kept!Write, Kept!Idle
<1>16. CASE Kept!RefreshClaims
  BY <1>16, GoneWhileLess DEF Kept!RefreshClaims, Kept!Claim, Kept!Idle, Kept!index
<1>17. CASE Kept!RefreshEnds
  BY <1>17, GoneWhileLess DEF Kept!RefreshEnds, Kept!Apply, Kept!Fails, Kept!Idle, Kept!Free,
     Kept!index
<1>18. CASE \E s \in Savers : Kept!SaveBegins(s)
  BY <1>18, GoneWhileLess DEF Kept!SaveBegins, Kept!Calls, Kept!NoSave, Kept!index, Kept!files
<1>19. CASE \E s \in Savers : Kept!SaveReads(s)
  BY <1>19, GoneWhileLess DEF Kept!SaveReads, Kept!NoSave, Kept!index, Kept!files
<1>20. CASE \E s \in Savers : Kept!SaveWrites(s)
  BY <1>20, GoneWhileLess DEF Kept!SaveWrites, Kept!index
<1>21. CASE \E s \in Savers : Kept!SaveValidates(s)
  BY <1>21, GoneWhileLess DEF Kept!SaveValidates, Kept!Answered, Kept!NoSave, Kept!index
<1>22. CASE \E s \in Savers : Kept!SaveClaims(s)
  BY <1>22, GoneWhileLess DEF Kept!SaveClaims, Kept!Claim, Kept!index
<1>23. CASE \E s \in Savers : Kept!SaveApplies(s)
  BY <1>23, GoneWhileLess DEF Kept!SaveApplies, Kept!Apply, Kept!Fails, Kept!Free,
     Kept!Answered, Kept!NoSave, Kept!index
<1>24. CASE \E s \in Savers : Kept!SaveRestores(s)
  BY <1>24, GoneWhileLess DEF Kept!SaveRestores, Kept!NoSave, Kept!index
<1>25. CASE \E s \in Savers : Kept!SaveNotListed(s)
  BY <1>25, GoneWhileLess DEF Kept!SaveNotListed, Kept!NoSave, Kept!index, Kept!files
<1> QED
  BY <1>1, <1>2, <1>3, <1>4, <1>5, <1>6, <1>7, <1>8, <1>9, <1>10, <1>11, <1>12, <1>13, <1>14,
     <1>15, <1>16, <1>17, <1>18, <1>19, <1>20, <1>21, <1>22, <1>23, <1>24, <1>25 DEF Kept!Next

\* What a save writes or a profile is written with: the files but it.
LEMMA SavesWritten ==
  ASSUME FilesTyped, NEW i, NEW by, Kept!Write(i, by), NEW t \in Savers
  PROVE  /\ saver'[t].step = saver[t].step /\ saver'[t].item = saver[t].item
         /\ saver'[t].existed = saver[t].existed /\ saver'[t].affects = saver[t].affects
         /\ saver'[t].under = saver[t].under
         /\ saver'[t].mine <=> t = by \/ (saver[t].mine /\ saver[t].item # i)
<1>1. saver[t] \in SaveState
  BY DEF FilesTyped
<1>2. saver'[t] = [saver[t] EXCEPT !.mine = (t = by) \/ (@ /\ saver[t].item # i)]
  BY DEF Kept!Write
<1> QED
  BY <1>1, <1>2 DEF SaveState

\* MakeBegins gives the Core what was accepted.
LEMMA MakeBeginsCore ==
  ASSUME FilesTyped, CoreFollows, Kept!MakeBegins
  PROVE  CoreFollows'
BY PartsAssumption, NoneAssumption DEF Kept!MakeBegins, Kept!Calls, Kept!files, FilesTyped,
   CoreFollows, Updates, MakeState, DeleteState, RefreshState

\* MakeMerge gives the Core what was accepted.
LEMMA MakeMergeCore ==
  ASSUME FilesTyped, CoreFollows, Kept!MakeMerge
  PROVE  CoreFollows'
BY PartsAssumption, NoneAssumption DEF Kept!MakeMerge, Kept!Append, Kept!Write, FilesTyped,
   CoreFollows, Updates, MakeState, DeleteState, RefreshState

\* MakeMain gives the Core what was accepted.
LEMMA MakeMainCore ==
  ASSUME FilesTyped, CoreFollows, Kept!MakeMain
  PROVE  CoreFollows'
BY PartsAssumption, NoneAssumption DEF Kept!MakeMain, Kept!Append, Kept!Write, FilesTyped,
   CoreFollows, Updates, MakeState, DeleteState, RefreshState

\* MakeStores gives the Core what was accepted.
LEMMA MakeStoresCore ==
  ASSUME FilesTyped, CoreFollows, Kept!MakeStores
  PROVE  CoreFollows'
BY PartsAssumption, NoneAssumption DEF Kept!MakeStores, Kept!Idle, Kept!files, FilesTyped,
   CoreFollows, Updates, MakeState, DeleteState, RefreshState

\* MakeFails gives the Core what was accepted.
LEMMA MakeFailsCore ==
  ASSUME FilesTyped, CoreFollows, Kept!MakeFails
  PROVE  CoreFollows'
BY PartsAssumption, NoneAssumption DEF Kept!MakeFails, Kept!Idle, Kept!index, Kept!files,
   FilesTyped, CoreFollows, Updates, MakeState, DeleteState, RefreshState

\* DeleteBegins gives the Core what was accepted.
LEMMA DeleteBeginsCore ==
  ASSUME FilesTyped, CoreFollows, Kept!DeleteBegins
  PROVE  CoreFollows'
BY PartsAssumption, NoneAssumption DEF Kept!DeleteBegins, Kept!Calls, Kept!files, FilesTyped,
   CoreFollows, Updates, MakeState, DeleteState, RefreshState

\* DeleteClaims gives the Core what was accepted.
LEMMA DeleteClaimsCore ==
  ASSUME FilesTyped, CoreFollows, Kept!DeleteClaims
  PROVE  CoreFollows'
BY PartsAssumption, NoneAssumption DEF Kept!DeleteClaims, Kept!Claim, Kept!index, FilesTyped,
   CoreFollows, Updates, MakeState, DeleteState, RefreshState

\* DeleteApplies gives the Core what was accepted.
LEMMA DeleteAppliesCore ==
  ASSUME FilesTyped, CoreFollows, Kept!DeleteApplies
  PROVE  CoreFollows'
BY PartsAssumption, NoneAssumption DEF Kept!DeleteApplies, Kept!index, FilesTyped, CoreFollows,
   Updates, MakeState, DeleteState, RefreshState

\* DeleteGivesUp gives the Core what was accepted.
LEMMA DeleteGivesUpCore ==
  ASSUME FilesTyped, CoreFollows, Kept!DeleteGivesUp
  PROVE  CoreFollows'
BY PartsAssumption, NoneAssumption DEF Kept!DeleteGivesUp, Kept!Fails, Kept!NoDelete, Kept!Free,
   FilesTyped, CoreFollows, Updates, MakeState, DeleteState, RefreshState

\* DeleteStores gives the Core what was accepted.
LEMMA DeleteStoresCore ==
  ASSUME FilesTyped, CoreFollows, Kept!DeleteStores
  PROVE  CoreFollows'
BY PartsAssumption, NoneAssumption DEF Kept!DeleteStores, Kept!files, FilesTyped, CoreFollows,
   Updates, MakeState, DeleteState, RefreshState

\* DeleteUndone gives the Core what was accepted.
LEMMA DeleteUndoneCore ==
  ASSUME FilesTyped, CoreFollows, Kept!DeleteUndone
  PROVE  CoreFollows'
BY PartsAssumption, NoneAssumption DEF Kept!DeleteUndone, Kept!NoDelete, Kept!Free, FilesTyped,
   CoreFollows, Updates, MakeState, DeleteState, RefreshState

\* DeleteEnds gives the Core what was accepted.
LEMMA DeleteEndsCore ==
  ASSUME FilesTyped, CoreFollows, Kept!DeleteEnds
  PROVE  CoreFollows'
BY PartsAssumption, NoneAssumption DEF Kept!DeleteEnds, Kept!NoDelete, Kept!Free, FilesTyped,
   CoreFollows, Updates, MakeState, DeleteState, RefreshState

\* RefreshBegins gives the Core what was accepted.
LEMMA RefreshBeginsCore ==
  ASSUME FilesTyped, CoreFollows, Kept!RefreshBegins
  PROVE  CoreFollows'
BY PartsAssumption, NoneAssumption DEF Kept!RefreshBegins, Kept!Calls, Kept!index, Kept!files,
   FilesTyped, CoreFollows, Updates, MakeState, DeleteState, RefreshState

\* RefreshFails gives the Core what was accepted.
LEMMA RefreshFailsCore ==
  ASSUME FilesTyped, CoreFollows, Kept!RefreshFails
  PROVE  CoreFollows'
BY PartsAssumption, NoneAssumption DEF Kept!RefreshFails, Kept!Idle, Kept!index, Kept!files,
   FilesTyped, CoreFollows, Updates, MakeState, DeleteState, RefreshState

\* RefreshLands gives the Core what was accepted.
LEMMA RefreshLandsCore ==
  ASSUME FilesTyped, CoreFollows, Kept!RefreshLands
  PROVE  CoreFollows'
BY PartsAssumption, NoneAssumption DEF Kept!RefreshLands, Kept!Write, Kept!Idle, FilesTyped,
   CoreFollows, Updates, MakeState, DeleteState, RefreshState

\* RefreshClaims gives the Core what was accepted.
LEMMA RefreshClaimsCore ==
  ASSUME FilesTyped, CoreFollows, Kept!RefreshClaims
  PROVE  CoreFollows'
BY PartsAssumption, NoneAssumption DEF Kept!RefreshClaims, Kept!Claim, Kept!Idle, Kept!index,
   FilesTyped, CoreFollows, Updates, MakeState, DeleteState, RefreshState

\* RefreshEnds gives the Core what was accepted.
LEMMA RefreshEndsCore ==
  ASSUME FilesTyped, CoreFollows, Kept!RefreshEnds
  PROVE  CoreFollows'
BY PartsAssumption, NoneAssumption DEF Kept!RefreshEnds, Kept!Apply, Kept!Fails, Kept!Idle,
   Kept!Free, Kept!index, FilesTyped, CoreFollows, Updates, MakeState, DeleteState, RefreshState

\* Restart gives the Core what was accepted.
LEMMA RestartCore ==
  ASSUME FilesTyped, CoreFollows, Kept!Restart
  PROVE  CoreFollows'
BY PartsAssumption, NoneAssumption DEF Kept!Restart, Kept!Calls, Kept!Free, Kept!Idle,
   Kept!NoDelete, Kept!NoSave, FilesTyped, CoreFollows, Updates, MakeState, DeleteState,
   RefreshState

\* SaveBegins gives the Core what was accepted.
LEMMA SaveBeginsCore ==
  ASSUME FilesTyped, CoreFollows, NEW s \in Savers, Kept!SaveBegins(s)
  PROVE  CoreFollows'
BY PartsAssumption, NoneAssumption DEF Kept!SaveBegins, Kept!Calls, Kept!NoSave, Kept!index,
   Kept!files, FilesTyped, CoreFollows, Updates, MakeState, DeleteState, RefreshState

\* SaveReads gives the Core what was accepted.
LEMMA SaveReadsCore ==
  ASSUME FilesTyped, CoreFollows, NEW s \in Savers, Kept!SaveReads(s)
  PROVE  CoreFollows'
BY PartsAssumption, NoneAssumption DEF Kept!SaveReads, Kept!NoSave, Kept!index, Kept!files,
   FilesTyped, CoreFollows, Updates, MakeState, DeleteState, RefreshState

\* SaveWrites gives the Core what was accepted.
LEMMA SaveWritesCore ==
  ASSUME FilesTyped, CoreFollows, NEW s \in Savers, Kept!SaveWrites(s)
  PROVE  CoreFollows'
BY PartsAssumption, NoneAssumption DEF Kept!SaveWrites, Kept!index, FilesTyped, CoreFollows,
   Updates, MakeState, DeleteState, RefreshState

\* SaveValidates gives the Core what was accepted.
LEMMA SaveValidatesCore ==
  ASSUME FilesTyped, CoreFollows, NEW s \in Savers, SaveFollows(s), Kept!SaveValidates(s)
  PROVE  CoreFollows'
<1>1. Kept!Answered(s, saver[s].item) = accepted \/ saver[s].affects
  BY DEF Kept!Answered, Kept!Uses, Kept!AffectsRuntime, Kept!SaveValidates, SaveFollows
<1>2. UNCHANGED <<present, loaded, update, deleter, refresher, accepted>>
  BY <1>1 DEF Kept!SaveValidates, Kept!index
<1> QED
  BY <1>2 DEF CoreFollows

\* SaveClaims gives the Core what was accepted.
LEMMA SaveClaimsCore ==
  ASSUME FilesTyped, CoreFollows, NEW s \in Savers, Kept!SaveClaims(s)
  PROVE  CoreFollows'
BY PartsAssumption, NoneAssumption DEF Kept!SaveClaims, Kept!Claim, Kept!index, FilesTyped,
   CoreFollows, Updates, MakeState, DeleteState, RefreshState

\* SaveApplies gives the Core what was accepted.
LEMMA SaveAppliesCore ==
  ASSUME FilesTyped, CoreFollows, NEW s \in Savers, SaveFollows(s), IndexKept, Kept!SaveApplies(s)
  PROVE  CoreFollows'
<1>1. update.by = s /\ s # None /\ deleter.step # "apply" /\ refresher.step # "applies"
  BY PartsAssumption DEF Kept!SaveApplies, SaveFollows, CoreFollows
<1>2. CASE Kept!Apply(current) /\ accepted' = Kept!Answered(s, saver[s].item)
  <2>1. accepted' \subseteq update.files \cap present
    <3>1. CASE accepted' = accepted
      BY <1>1, <3>1 DEF CoreFollows
    <3>2. CASE /\ saver[s].mine /\ saver[s].item \in Kept!Uses(current, items)
               /\ accepted' = accepted \cup {saver[s].item}
      <4>1. saver[s].item \in items
        <5> SUFFICES ASSUME Gone(saver[s].item) PROVE FALSE
          BY DEF Kept!SaveApplies, SaveFollows
        <5>1. PICK p \in Profiles : saver[s].item \in Kept!Of(p)
          BY DEF Gone, FilesTyped
        <5>2. saver[s].item \in {Kept!Merge(Global), Kept!Rules} \cup items
          BY <3>2 DEF Kept!Uses, Kept!MergeOf, IndexKept, CurrentListed
        <5> QED
          BY <5>1, <5>2, ItemsDiffer, PartsAssumption DEF Gone
      <4>2. saver[s].item \in update.files
        BY <3>2, <4>1 DEF Kept!SaveApplies, SaveFollows
      <4> QED
        BY <1>1, <3>2, <4>1, <4>2 DEF CoreFollows, IndexKept, Listed
    <3> QED
      BY <1>2, <3>1, <3>2 DEF Kept!Answered
  <2> QED
    BY <1>1, <1>2, <2>1 DEF Kept!SaveApplies, Kept!Apply, Kept!Free, CoreFollows
<1>3. CASE Kept!Fails /\ UNCHANGED accepted
  BY <1>1, <1>3 DEF Kept!SaveApplies, Kept!Fails, Kept!Free, CoreFollows
<1> QED
  BY <1>2, <1>3 DEF Kept!SaveApplies

\* SaveRestores gives the Core what was accepted.
LEMMA SaveRestoresCore ==
  ASSUME FilesTyped, CoreFollows, NEW s \in Savers, SaveFollows(s), Kept!SaveRestores(s)
  PROVE  CoreFollows'
BY PartsAssumption, NoneAssumption DEF Kept!SaveRestores, Kept!NoSave, Kept!index, FilesTyped,
   CoreFollows, Updates, MakeState, DeleteState, RefreshState

\* SaveNotListed gives the Core what was accepted.
LEMMA SaveNotListedCore ==
  ASSUME FilesTyped, CoreFollows, NEW s \in Savers, Kept!SaveNotListed(s)
  PROVE  CoreFollows'
BY PartsAssumption, NoneAssumption DEF Kept!SaveNotListed, Kept!NoSave, Kept!index, Kept!files,
   FilesTyped, CoreFollows, Updates, MakeState, DeleteState, RefreshState

\* What a step must leave for a save that is under way.
LEMMA SavesFollow ==
  ASSUME FilesTyped, FilesTyped', IndexKept, IndexKept', NEW t \in Savers, SaveFollows(t),
         \A i : Gone(i) => Gone(i)',
         saver'[t].step \notin {"idle", "not-listed"} =>
           /\ saver[t].step \notin {"idle", "not-listed"}
           /\ saver'[t].item = saver[t].item /\ saver'[t].affects = saver[t].affects
           /\ saver'[t].under = saver[t].under
           /\ saver'[t].step # "reads" /\ ~saver'[t].existed => Gone(saver[t].item)'
           /\ saver'[t].step = "applies" =>
                /\ update'.by = t
                /\ saver'[t].mine /\ saver[t].item \in items' => saver[t].item \in update'.files,
         \A i \in items : i \in items' \/ Gone(i)',
         \/ current' = current /\ (Kept!Merge(current) \in items' <=> Kept!Merge(current) \in items)
         \/ current' # current /\ \A p \in Profiles : p = current => Gone(Kept!Main(p))'
  PROVE  SaveFollows(t)'
<1> SUFFICES ASSUME saver'[t].step \notin {"idle", "not-listed"}
             PROVE  SaveFollows(t)'
  BY DEF SaveFollows
<1>1. saver[t].item \in items' \/ Gone(saver[t].item)'
  BY DEF SaveFollows
<1>2. saver[t].under # None /\ saver[t].under = current' =>
        saver[t].affects = Kept!AffectsRuntime(saver[t].item)'
  <2> SUFFICES ASSUME saver[t].under # None, saver[t].under = current'
               PROVE  saver[t].affects = Kept!AffectsRuntime(saver[t].item)'
    OBVIOUS
  <2>1. Kept!Main(current') \in items'
    BY DEF IndexKept, CurrentListed
  <2>2. current = current'
    <3>1. saver[t].under # current => Gone(Kept!Main(saver[t].under))'
      BY DEF SaveFollows
    <3> QED
      BY <2>1, <3>1 DEF Gone
  <2>3. saver[t].affects = Kept!AffectsRuntime(saver[t].item)
    BY <2>2 DEF SaveFollows
  <2>4. Kept!AffectsRuntime(saver[t].item)' = Kept!AffectsRuntime(saver[t].item)
    BY <2>2 DEF Kept!AffectsRuntime, Kept!MergeOf, Kept!Main, Kept!Merge, Kept!Rules
  <2> QED
    BY <2>3, <2>4
<1>3. saver[t].under # None /\ saver[t].under # current' => Gone(Kept!Main(saver[t].under))'
  <2>1. saver[t].under # None /\ saver[t].under # current => Gone(Kept!Main(saver[t].under))'
    BY DEF SaveFollows
  <2>2. CASE saver[t].under = current
    BY <2>2 DEF FilesTyped
  <2>3. CASE saver[t].under # current
    BY <2>1, <2>3
  <2> QED
    BY <2>2, <2>3
<1> QED
  BY <1>1, <1>2, <1>3 DEF SaveFollows

\* A save that a step leaves alone, but for what it wrote.
LEMMA SavesStay ==
  ASSUME FilesTyped, FilesTyped', IndexKept, IndexKept', NEW t \in Savers, SaveFollows(t),
         \A i : Gone(i) => Gone(i)',
         saver'[t].step = saver[t].step, saver'[t].item = saver[t].item,
         saver'[t].existed = saver[t].existed, saver'[t].affects = saver[t].affects,
         saver'[t].under = saver[t].under,
         update.by = t =>
           /\ update'.by = t
           /\ \A i \in update.files : i \in update'.files \/ i \notin items'
                                     \/ ~(saver'[t].mine /\ i = saver[t].item),
         saver'[t].mine => saver[t].mine,
         \A i \in items : i \in items' \/ Gone(i)',
         \/ current' = current /\ (Kept!Merge(current) \in items' <=> Kept!Merge(current) \in items)
         \/ current' # current /\ \A p \in Profiles : p = current => Gone(Kept!Main(p))'
  PROVE  SaveFollows(t)'
<1>1. saver'[t].step \notin {"idle", "not-listed"} =>
        /\ saver'[t].step # "reads" /\ ~saver'[t].existed => Gone(saver[t].item)'
        /\ saver'[t].step = "applies" =>
             /\ update'.by = t
             /\ saver'[t].mine /\ saver[t].item \in items' => saver[t].item \in update'.files
  <2> SUFFICES ASSUME saver[t].step \notin {"idle", "not-listed"}
               PROVE  /\ saver[t].step # "reads" /\ ~saver[t].existed => Gone(saver[t].item)'
                      /\ saver[t].step = "applies" =>
                           /\ update'.by = t
                           /\ saver'[t].mine /\ saver[t].item \in items' =>
                                saver[t].item \in update'.files
    OBVIOUS
  <2>1. saver[t].step # "reads" /\ ~saver[t].existed => Gone(saver[t].item)'
    BY DEF SaveFollows
  <2>2. saver[t].item \in items' => saver[t].item \in items
    BY DEF SaveFollows, Gone
  <2> QED
    BY <2>1, <2>2 DEF SaveFollows
<1> QED
  BY <1>1, SavesFollow

\* MakeBegins leaves the saves what they know.
LEMMA MakeBeginsSaves ==
  ASSUME FilesTyped, FilesTyped', IndexKept, IndexKept', CoreFollows,
         \A i : Gone(i) => Gone(i)', NEW t \in Savers, SaveFollows(t),
         Kept!MakeBegins
  PROVE  SaveFollows(t)'
<1>1. \/ current' = current /\ (Kept!Merge(current) \in items' <=> Kept!Merge(current) \in items)
      \/ current' # current /\ \A p \in Profiles : p = current => Gone(Kept!Main(p))'
  BY DEF Kept!MakeBegins, Kept!Calls, Kept!files
<1>2. \A i \in items : i \in items' \/ Gone(i)'
  BY DEF Kept!MakeBegins, Kept!Calls, Kept!files
<1>3. /\ saver'[t].step = saver[t].step /\ saver'[t].item = saver[t].item
      /\ saver'[t].existed = saver[t].existed /\ saver'[t].affects = saver[t].affects
      /\ saver'[t].under = saver[t].under /\ (saver'[t].mine => saver[t].mine)
  BY DEF Kept!MakeBegins, Kept!Calls, Kept!files
<1>4. update.by = t =>
        /\ update'.by = t
        /\ \A i \in update.files : i \in update'.files \/ i \notin items'
                                  \/ ~(saver'[t].mine /\ i = saver[t].item)
  BY PartsAssumption DEF Kept!MakeBegins, Kept!Calls, Kept!files, FilesTyped, Updates
<1> QED
  BY <1>1, <1>2, <1>3, <1>4, SavesStay

\* MakeMerge leaves the saves what they know.
LEMMA MakeMergeSaves ==
  ASSUME FilesTyped, FilesTyped', IndexKept, IndexKept', CoreFollows,
         \A i : Gone(i) => Gone(i)', NEW t \in Savers, SaveFollows(t),
         Kept!MakeMerge
  PROVE  SaveFollows(t)'
<1>1. \/ current' = current /\ (Kept!Merge(current) \in items' <=> Kept!Merge(current) \in items)
      \/ current' # current /\ \A p \in Profiles : p = current => Gone(Kept!Main(p))'
  BY ItemsDiffer, PartsAssumption DEF Kept!MakeMerge, Kept!Append, Kept!Write, FilesTyped,
     IndexKept, MakerFollows, CurrentListed
<1>2. \A i \in items : i \in items' \/ Gone(i)'
  BY DEF Kept!MakeMerge, Kept!Append, Kept!Write
<1>3. /\ saver'[t].step = saver[t].step /\ saver'[t].item = saver[t].item
      /\ saver'[t].existed = saver[t].existed /\ saver'[t].affects = saver[t].affects
      /\ saver'[t].under = saver[t].under /\ (saver'[t].mine => saver[t].mine)
  BY SavesWritten, PartsAssumption DEF Kept!MakeMerge, Kept!Append
<1>4. update.by = t =>
        /\ update'.by = t
        /\ \A i \in update.files : i \in update'.files \/ i \notin items'
                                  \/ ~(saver'[t].mine /\ i = saver[t].item)
  <2>1. saver'[t].mine => saver[t].item # Kept!Merge(maker.profile)
    BY SavesWritten, PartsAssumption DEF Kept!MakeMerge, Kept!Append
  <2>2. update' = [update EXCEPT !.files = @ \ {Kept!Merge(maker.profile)}]
    BY DEF Kept!MakeMerge, Kept!Append, Kept!Write
  <2> QED
    BY <2>1, <2>2 DEF FilesTyped, Updates
<1> QED
  BY <1>1, <1>2, <1>3, <1>4, SavesStay

\* MakeMain leaves the saves what they know.
LEMMA MakeMainSaves ==
  ASSUME FilesTyped, FilesTyped', IndexKept, IndexKept', CoreFollows,
         \A i : Gone(i) => Gone(i)', NEW t \in Savers, SaveFollows(t),
         Kept!MakeMain
  PROVE  SaveFollows(t)'
<1>1. \/ current' = current /\ (Kept!Merge(current) \in items' <=> Kept!Merge(current) \in items)
      \/ current' # current /\ \A p \in Profiles : p = current => Gone(Kept!Main(p))'
  BY ItemsDiffer, PartsAssumption DEF Kept!MakeMain, Kept!Append, Kept!Write, FilesTyped,
     IndexKept, MakerFollows
<1>2. \A i \in items : i \in items' \/ Gone(i)'
  BY DEF Kept!MakeMain, Kept!Append, Kept!Write
<1>3. /\ saver'[t].step = saver[t].step /\ saver'[t].item = saver[t].item
      /\ saver'[t].existed = saver[t].existed /\ saver'[t].affects = saver[t].affects
      /\ saver'[t].under = saver[t].under /\ (saver'[t].mine => saver[t].mine)
  BY SavesWritten, PartsAssumption DEF Kept!MakeMain, Kept!Append
<1>4. update.by = t =>
        /\ update'.by = t
        /\ \A i \in update.files : i \in update'.files \/ i \notin items'
                                  \/ ~(saver'[t].mine /\ i = saver[t].item)
  <2>1. saver'[t].mine => saver[t].item # Kept!Main(maker.profile)
    BY SavesWritten, PartsAssumption DEF Kept!MakeMain, Kept!Append
  <2>2. update' = [update EXCEPT !.files = @ \ {Kept!Main(maker.profile)}]
    BY DEF Kept!MakeMain, Kept!Append, Kept!Write
  <2> QED
    BY <2>1, <2>2 DEF FilesTyped, Updates
<1> QED
  BY <1>1, <1>2, <1>3, <1>4, SavesStay

\* MakeStores leaves the saves what they know.
LEMMA MakeStoresSaves ==
  ASSUME FilesTyped, FilesTyped', IndexKept, IndexKept', CoreFollows,
         \A i : Gone(i) => Gone(i)', NEW t \in Savers, SaveFollows(t),
         Kept!MakeStores
  PROVE  SaveFollows(t)'
<1>1. \/ current' = current /\ (Kept!Merge(current) \in items' <=> Kept!Merge(current) \in items)
      \/ current' # current /\ \A p \in Profiles : p = current => Gone(Kept!Main(p))'
  BY DEF Kept!MakeStores, Kept!Idle, Kept!files
<1>2. \A i \in items : i \in items' \/ Gone(i)'
  BY DEF Kept!MakeStores, Kept!Idle, Kept!files
<1>3. /\ saver'[t].step = saver[t].step /\ saver'[t].item = saver[t].item
      /\ saver'[t].existed = saver[t].existed /\ saver'[t].affects = saver[t].affects
      /\ saver'[t].under = saver[t].under /\ (saver'[t].mine => saver[t].mine)
  BY DEF Kept!MakeStores, Kept!Idle, Kept!files
<1>4. update.by = t =>
        /\ update'.by = t
        /\ \A i \in update.files : i \in update'.files \/ i \notin items'
                                  \/ ~(saver'[t].mine /\ i = saver[t].item)
  BY PartsAssumption DEF Kept!MakeStores, Kept!Idle, Kept!files, FilesTyped, Updates
<1> QED
  BY <1>1, <1>2, <1>3, <1>4, SavesStay

\* MakeFails leaves the saves what they know.
LEMMA MakeFailsSaves ==
  ASSUME FilesTyped, FilesTyped', IndexKept, IndexKept', CoreFollows,
         \A i : Gone(i) => Gone(i)', NEW t \in Savers, SaveFollows(t),
         Kept!MakeFails
  PROVE  SaveFollows(t)'
<1>1. \/ current' = current /\ (Kept!Merge(current) \in items' <=> Kept!Merge(current) \in items)
      \/ current' # current /\ \A p \in Profiles : p = current => Gone(Kept!Main(p))'
  BY DEF Kept!MakeFails, Kept!Idle, Kept!index, Kept!files
<1>2. \A i \in items : i \in items' \/ Gone(i)'
  BY DEF Kept!MakeFails, Kept!Idle, Kept!index, Kept!files
<1>3. /\ saver'[t].step = saver[t].step /\ saver'[t].item = saver[t].item
      /\ saver'[t].existed = saver[t].existed /\ saver'[t].affects = saver[t].affects
      /\ saver'[t].under = saver[t].under /\ (saver'[t].mine => saver[t].mine)
  BY DEF Kept!MakeFails, Kept!Idle, Kept!index, Kept!files
<1>4. update.by = t =>
        /\ update'.by = t
        /\ \A i \in update.files : i \in update'.files \/ i \notin items'
                                  \/ ~(saver'[t].mine /\ i = saver[t].item)
  BY PartsAssumption DEF Kept!MakeFails, Kept!Idle, Kept!index, Kept!files, FilesTyped, Updates
<1> QED
  BY <1>1, <1>2, <1>3, <1>4, SavesStay

\* DeleteBegins leaves the saves what they know.
LEMMA DeleteBeginsSaves ==
  ASSUME FilesTyped, FilesTyped', IndexKept, IndexKept', CoreFollows,
         \A i : Gone(i) => Gone(i)', NEW t \in Savers, SaveFollows(t),
         Kept!DeleteBegins
  PROVE  SaveFollows(t)'
<1>1. \/ current' = current /\ (Kept!Merge(current) \in items' <=> Kept!Merge(current) \in items)
      \/ current' # current /\ \A p \in Profiles : p = current => Gone(Kept!Main(p))'
  BY DEF Kept!DeleteBegins, Kept!Calls, Kept!files
<1>2. \A i \in items : i \in items' \/ Gone(i)'
  BY DEF Kept!DeleteBegins, Kept!Calls, Kept!files
<1>3. /\ saver'[t].step = saver[t].step /\ saver'[t].item = saver[t].item
      /\ saver'[t].existed = saver[t].existed /\ saver'[t].affects = saver[t].affects
      /\ saver'[t].under = saver[t].under /\ (saver'[t].mine => saver[t].mine)
  BY DEF Kept!DeleteBegins, Kept!Calls, Kept!files
<1>4. update.by = t =>
        /\ update'.by = t
        /\ \A i \in update.files : i \in update'.files \/ i \notin items'
                                  \/ ~(saver'[t].mine /\ i = saver[t].item)
  BY PartsAssumption DEF Kept!DeleteBegins, Kept!Calls, Kept!files, FilesTyped, Updates
<1> QED
  BY <1>1, <1>2, <1>3, <1>4, SavesStay

\* DeleteClaims leaves the saves what they know.
LEMMA DeleteClaimsSaves ==
  ASSUME FilesTyped, FilesTyped', IndexKept, IndexKept', CoreFollows,
         \A i : Gone(i) => Gone(i)', NEW t \in Savers, SaveFollows(t),
         Kept!DeleteClaims
  PROVE  SaveFollows(t)'
<1>1. \/ current' = current /\ (Kept!Merge(current) \in items' <=> Kept!Merge(current) \in items)
      \/ current' # current /\ \A p \in Profiles : p = current => Gone(Kept!Main(p))'
  BY DEF Kept!DeleteClaims, Kept!Claim, Kept!index
<1>2. \A i \in items : i \in items' \/ Gone(i)'
  BY DEF Kept!DeleteClaims, Kept!Claim, Kept!index
<1>3. /\ saver'[t].step = saver[t].step /\ saver'[t].item = saver[t].item
      /\ saver'[t].existed = saver[t].existed /\ saver'[t].affects = saver[t].affects
      /\ saver'[t].under = saver[t].under /\ (saver'[t].mine => saver[t].mine)
  BY DEF Kept!DeleteClaims, Kept!Claim, Kept!index
<1>4. update.by = t =>
        /\ update'.by = t
        /\ \A i \in update.files : i \in update'.files \/ i \notin items'
                                  \/ ~(saver'[t].mine /\ i = saver[t].item)
  BY PartsAssumption DEF Kept!DeleteClaims, Kept!Claim, Kept!index, FilesTyped, Updates
<1> QED
  BY <1>1, <1>2, <1>3, <1>4, SavesStay

\* DeleteApplies leaves the saves what they know.
LEMMA DeleteAppliesSaves ==
  ASSUME FilesTyped, FilesTyped', IndexKept, IndexKept', CoreFollows,
         \A i : Gone(i) => Gone(i)', NEW t \in Savers, SaveFollows(t),
         Kept!DeleteApplies
  PROVE  SaveFollows(t)'
<1>1. \/ current' = current /\ (Kept!Merge(current) \in items' <=> Kept!Merge(current) \in items)
      \/ current' # current /\ \A p \in Profiles : p = current => Gone(Kept!Main(p))'
  BY DEF Kept!DeleteApplies, Kept!index
<1>2. \A i \in items : i \in items' \/ Gone(i)'
  BY DEF Kept!DeleteApplies, Kept!index
<1>3. /\ saver'[t].step = saver[t].step /\ saver'[t].item = saver[t].item
      /\ saver'[t].existed = saver[t].existed /\ saver'[t].affects = saver[t].affects
      /\ saver'[t].under = saver[t].under /\ (saver'[t].mine => saver[t].mine)
  BY DEF Kept!DeleteApplies, Kept!index
<1>4. update.by = t =>
        /\ update'.by = t
        /\ \A i \in update.files : i \in update'.files \/ i \notin items'
                                  \/ ~(saver'[t].mine /\ i = saver[t].item)
  BY PartsAssumption DEF Kept!DeleteApplies, Kept!index, FilesTyped, Updates
<1> QED
  BY <1>1, <1>2, <1>3, <1>4, SavesStay

\* DeleteGivesUp leaves the saves what they know.
LEMMA DeleteGivesUpSaves ==
  ASSUME FilesTyped, FilesTyped', IndexKept, IndexKept', CoreFollows,
         \A i : Gone(i) => Gone(i)', NEW t \in Savers, SaveFollows(t),
         Kept!DeleteGivesUp
  PROVE  SaveFollows(t)'
<1>1. \/ current' = current /\ (Kept!Merge(current) \in items' <=> Kept!Merge(current) \in items)
      \/ current' # current /\ \A p \in Profiles : p = current => Gone(Kept!Main(p))'
  BY DEF Kept!DeleteGivesUp, Kept!Fails, Kept!NoDelete, Kept!Free
<1>2. \A i \in items : i \in items' \/ Gone(i)'
  BY DEF Kept!DeleteGivesUp, Kept!Fails, Kept!NoDelete, Kept!Free
<1>3. /\ saver'[t].step = saver[t].step /\ saver'[t].item = saver[t].item
      /\ saver'[t].existed = saver[t].existed /\ saver'[t].affects = saver[t].affects
      /\ saver'[t].under = saver[t].under /\ (saver'[t].mine => saver[t].mine)
  BY DEF Kept!DeleteGivesUp, Kept!Fails, Kept!NoDelete, Kept!Free
<1>4. update.by = t =>
        /\ update'.by = t
        /\ \A i \in update.files : i \in update'.files \/ i \notin items'
                                  \/ ~(saver'[t].mine /\ i = saver[t].item)
  BY PartsAssumption DEF Kept!DeleteGivesUp, Kept!Fails, Kept!NoDelete, Kept!Free, CoreFollows
<1> QED
  BY <1>1, <1>2, <1>3, <1>4, SavesStay

\* DeleteStores leaves the saves what they know.
LEMMA DeleteStoresSaves ==
  ASSUME FilesTyped, FilesTyped', IndexKept, IndexKept', CoreFollows,
         \A i : Gone(i) => Gone(i)', NEW t \in Savers, SaveFollows(t),
         Kept!DeleteStores
  PROVE  SaveFollows(t)'
<1>1. \/ current' = current /\ (Kept!Merge(current) \in items' <=> Kept!Merge(current) \in items)
      \/ current' # current /\ \A p \in Profiles : p = current => Gone(Kept!Main(p))'
  BY DEF Kept!DeleteStores, Kept!files
<1>2. \A i \in items : i \in items' \/ Gone(i)'
  BY DEF Kept!DeleteStores, Kept!files
<1>3. /\ saver'[t].step = saver[t].step /\ saver'[t].item = saver[t].item
      /\ saver'[t].existed = saver[t].existed /\ saver'[t].affects = saver[t].affects
      /\ saver'[t].under = saver[t].under /\ (saver'[t].mine => saver[t].mine)
  BY DEF Kept!DeleteStores, Kept!files
<1>4. update.by = t =>
        /\ update'.by = t
        /\ \A i \in update.files : i \in update'.files \/ i \notin items'
                                  \/ ~(saver'[t].mine /\ i = saver[t].item)
  BY PartsAssumption DEF Kept!DeleteStores, Kept!files, FilesTyped, Updates
<1> QED
  BY <1>1, <1>2, <1>3, <1>4, SavesStay

\* DeleteUndone leaves the saves what they know.
LEMMA DeleteUndoneSaves ==
  ASSUME FilesTyped, FilesTyped', IndexKept, IndexKept', CoreFollows,
         \A i : Gone(i) => Gone(i)', NEW t \in Savers, SaveFollows(t),
         Kept!DeleteUndone
  PROVE  SaveFollows(t)'
<1>1. \/ current' = current /\ (Kept!Merge(current) \in items' <=> Kept!Merge(current) \in items)
      \/ current' # current /\ \A p \in Profiles : p = current => Gone(Kept!Main(p))'
  BY DEF Kept!DeleteUndone, Kept!NoDelete, Kept!Free
<1>2. \A i \in items : i \in items' \/ Gone(i)'
  BY DEF Kept!DeleteUndone, Kept!NoDelete, Kept!Free
<1>3. /\ saver'[t].step = saver[t].step /\ saver'[t].item = saver[t].item
      /\ saver'[t].existed = saver[t].existed /\ saver'[t].affects = saver[t].affects
      /\ saver'[t].under = saver[t].under /\ (saver'[t].mine => saver[t].mine)
  BY DEF Kept!DeleteUndone, Kept!NoDelete, Kept!Free
<1>4. update.by = t =>
        /\ update'.by = t
        /\ \A i \in update.files : i \in update'.files \/ i \notin items'
                                  \/ ~(saver'[t].mine /\ i = saver[t].item)
  BY PartsAssumption DEF Kept!DeleteUndone, Kept!NoDelete, Kept!Free, FilesTyped, Updates
<1> QED
  BY <1>1, <1>2, <1>3, <1>4, SavesStay

\* DeleteEnds leaves the saves what they know.
LEMMA DeleteEndsSaves ==
  ASSUME FilesTyped, FilesTyped', IndexKept, IndexKept', CoreFollows,
         \A i : Gone(i) => Gone(i)', NEW t \in Savers, SaveFollows(t),
         Kept!DeleteEnds
  PROVE  SaveFollows(t)'
<1>1. /\ deleter.profile \in Profiles /\ Kept!Main(deleter.profile) \in items
      /\ items' = items \ Kept!Of(deleter.profile) /\ current' = deleter.current
      /\ deleter.current # None => Kept!Main(deleter.current) \in items'
      /\ deleter.current = current \/ current \in {deleter.profile, None}
      /\ stored'.items = items' /\ UNCHANGED <<saver, used, maker>>
  BY DEF Kept!DeleteEnds, Kept!NoDelete, Kept!Free, IndexKept, DeleterFollows
<1>2. \A i \in items : i \in items' \/ Gone(i)'
  <2> SUFFICES ASSUME NEW i \in items, i \in Kept!Of(deleter.profile)
               PROVE  Gone(i)'
    BY <1>1
  <2>1. deleter.profile \in used
    BY <1>1, ItemsDiffer DEF IndexKept, Listed
  <2>2. maker.step \in {"merge", "main"} => maker.profile # deleter.profile
    BY <1>1 DEF IndexKept, MakerFollows
  <2> QED
    BY <1>1, <2>1, <2>2, ItemsDiffer DEF Gone
<1>3. \/ current' = current /\ (Kept!Merge(current) \in items' <=> Kept!Merge(current) \in items)
      \/ current' # current /\ \A p \in Profiles : p = current => Gone(Kept!Main(p))'
  <2>1. CASE current' = current
    <3>1. current # deleter.profile
      BY <1>1, <2>1, ItemsDiffer, PartsAssumption
    <3> QED
      BY <1>1, <2>1, <3>1, ItemsDiffer
  <2>2. CASE current' # current
    <3> SUFFICES ASSUME NEW p \in Profiles, p = current
                 PROVE  Gone(Kept!Main(p))'
      BY <2>2
    <3>1. Kept!Main(p) \in items /\ Kept!Main(p) \notin items'
      BY <1>1, <2>2, ItemsDiffer, PartsAssumption
    <3> QED
      BY <1>2, <3>1
  <2> QED
    BY <2>1, <2>2
<1>4. update.by = t =>
        /\ update'.by = t
        /\ \A i \in update.files : i \in update'.files \/ i \notin items'
                                  \/ ~(saver'[t].mine /\ i = saver[t].item)
  <2> SUFFICES ASSUME update.by = t
               PROVE  /\ update'.by = t
                      /\ \A i \in update.files : i \in update'.files \/ i \notin items'
    OBVIOUS
  <2>1. PICK gone \in {Kept!Of(deleter.profile), {}} :
          update' = IF update.by = "delete" THEN Kept!Free
                    ELSE [update EXCEPT !.files = @ \ gone]
    BY DEF Kept!DeleteEnds
  <2>2. update' = [update EXCEPT !.files = @ \ gone]
    BY <2>1, PartsAssumption
  <2> QED
    BY <1>1, <2>2 DEF FilesTyped, Updates
<1> QED
  BY <1>1, <1>2, <1>3, <1>4, SavesStay

\* RefreshBegins leaves the saves what they know.
LEMMA RefreshBeginsSaves ==
  ASSUME FilesTyped, FilesTyped', IndexKept, IndexKept', CoreFollows,
         \A i : Gone(i) => Gone(i)', NEW t \in Savers, SaveFollows(t),
         Kept!RefreshBegins
  PROVE  SaveFollows(t)'
<1>1. \/ current' = current /\ (Kept!Merge(current) \in items' <=> Kept!Merge(current) \in items)
      \/ current' # current /\ \A p \in Profiles : p = current => Gone(Kept!Main(p))'
  BY DEF Kept!RefreshBegins, Kept!Calls, Kept!index, Kept!files
<1>2. \A i \in items : i \in items' \/ Gone(i)'
  BY DEF Kept!RefreshBegins, Kept!Calls, Kept!index, Kept!files
<1>3. /\ saver'[t].step = saver[t].step /\ saver'[t].item = saver[t].item
      /\ saver'[t].existed = saver[t].existed /\ saver'[t].affects = saver[t].affects
      /\ saver'[t].under = saver[t].under /\ (saver'[t].mine => saver[t].mine)
  BY DEF Kept!RefreshBegins, Kept!Calls, Kept!index, Kept!files
<1>4. update.by = t =>
        /\ update'.by = t
        /\ \A i \in update.files : i \in update'.files \/ i \notin items'
                                  \/ ~(saver'[t].mine /\ i = saver[t].item)
  BY PartsAssumption DEF Kept!RefreshBegins, Kept!Calls, Kept!index, Kept!files, FilesTyped, Updates
<1> QED
  BY <1>1, <1>2, <1>3, <1>4, SavesStay

\* RefreshFails leaves the saves what they know.
LEMMA RefreshFailsSaves ==
  ASSUME FilesTyped, FilesTyped', IndexKept, IndexKept', CoreFollows,
         \A i : Gone(i) => Gone(i)', NEW t \in Savers, SaveFollows(t),
         Kept!RefreshFails
  PROVE  SaveFollows(t)'
<1>1. \/ current' = current /\ (Kept!Merge(current) \in items' <=> Kept!Merge(current) \in items)
      \/ current' # current /\ \A p \in Profiles : p = current => Gone(Kept!Main(p))'
  BY DEF Kept!RefreshFails, Kept!Idle, Kept!index, Kept!files
<1>2. \A i \in items : i \in items' \/ Gone(i)'
  BY DEF Kept!RefreshFails, Kept!Idle, Kept!index, Kept!files
<1>3. /\ saver'[t].step = saver[t].step /\ saver'[t].item = saver[t].item
      /\ saver'[t].existed = saver[t].existed /\ saver'[t].affects = saver[t].affects
      /\ saver'[t].under = saver[t].under /\ (saver'[t].mine => saver[t].mine)
  BY DEF Kept!RefreshFails, Kept!Idle, Kept!index, Kept!files
<1>4. update.by = t =>
        /\ update'.by = t
        /\ \A i \in update.files : i \in update'.files \/ i \notin items'
                                  \/ ~(saver'[t].mine /\ i = saver[t].item)
  BY PartsAssumption DEF Kept!RefreshFails, Kept!Idle, Kept!index, Kept!files, FilesTyped, Updates
<1> QED
  BY <1>1, <1>2, <1>3, <1>4, SavesStay

\* RefreshLands leaves the saves what they know.
LEMMA RefreshLandsSaves ==
  ASSUME FilesTyped, FilesTyped', IndexKept, IndexKept', CoreFollows,
         \A i : Gone(i) => Gone(i)', NEW t \in Savers, SaveFollows(t),
         Kept!RefreshLands
  PROVE  SaveFollows(t)'
<1>1. \/ current' = current /\ (Kept!Merge(current) \in items' <=> Kept!Merge(current) \in items)
      \/ current' # current /\ \A p \in Profiles : p = current => Gone(Kept!Main(p))'
  BY DEF Kept!RefreshLands, Kept!Write, Kept!Idle
<1>2. \A i \in items : i \in items' \/ Gone(i)'
  BY DEF Kept!RefreshLands, Kept!Write, Kept!Idle
<1>3. /\ saver'[t].step = saver[t].step /\ saver'[t].item = saver[t].item
      /\ saver'[t].existed = saver[t].existed /\ saver'[t].affects = saver[t].affects
      /\ saver'[t].under = saver[t].under /\ (saver'[t].mine => saver[t].mine)
  BY SavesWritten, PartsAssumption DEF Kept!RefreshLands, Kept!Idle
<1>4. update.by = t =>
        /\ update'.by = t
        /\ \A i \in update.files : i \in update'.files \/ i \notin items'
                                  \/ ~(saver'[t].mine /\ i = saver[t].item)
  <2>1. saver'[t].mine => saver[t].item # Kept!Main(refresher.profile)
    BY SavesWritten, PartsAssumption DEF Kept!RefreshLands, Kept!Idle
  <2>2. update' = [update EXCEPT !.files = @ \ {Kept!Main(refresher.profile)}]
    BY DEF Kept!RefreshLands, Kept!Write, Kept!Idle
  <2> QED
    BY <2>1, <2>2 DEF FilesTyped, Updates
<1> QED
  BY <1>1, <1>2, <1>3, <1>4, SavesStay

\* RefreshClaims leaves the saves what they know.
LEMMA RefreshClaimsSaves ==
  ASSUME FilesTyped, FilesTyped', IndexKept, IndexKept', CoreFollows,
         \A i : Gone(i) => Gone(i)', NEW t \in Savers, SaveFollows(t),
         Kept!RefreshClaims
  PROVE  SaveFollows(t)'
<1>1. \/ current' = current /\ (Kept!Merge(current) \in items' <=> Kept!Merge(current) \in items)
      \/ current' # current /\ \A p \in Profiles : p = current => Gone(Kept!Main(p))'
  BY DEF Kept!RefreshClaims, Kept!Claim, Kept!Idle, Kept!index
<1>2. \A i \in items : i \in items' \/ Gone(i)'
  BY DEF Kept!RefreshClaims, Kept!Claim, Kept!Idle, Kept!index
<1>3. /\ saver'[t].step = saver[t].step /\ saver'[t].item = saver[t].item
      /\ saver'[t].existed = saver[t].existed /\ saver'[t].affects = saver[t].affects
      /\ saver'[t].under = saver[t].under /\ (saver'[t].mine => saver[t].mine)
  BY DEF Kept!RefreshClaims, Kept!Claim, Kept!Idle, Kept!index
<1>4. update.by = t =>
        /\ update'.by = t
        /\ \A i \in update.files : i \in update'.files \/ i \notin items'
                                  \/ ~(saver'[t].mine /\ i = saver[t].item)
  BY PartsAssumption DEF Kept!RefreshClaims, Kept!Claim, Kept!Idle, Kept!index, FilesTyped, Updates
<1> QED
  BY <1>1, <1>2, <1>3, <1>4, SavesStay

\* RefreshEnds leaves the saves what they know.
LEMMA RefreshEndsSaves ==
  ASSUME FilesTyped, FilesTyped', IndexKept, IndexKept', CoreFollows,
         \A i : Gone(i) => Gone(i)', NEW t \in Savers, SaveFollows(t),
         Kept!RefreshEnds
  PROVE  SaveFollows(t)'
<1>1. \/ current' = current /\ (Kept!Merge(current) \in items' <=> Kept!Merge(current) \in items)
      \/ current' # current /\ \A p \in Profiles : p = current => Gone(Kept!Main(p))'
  BY DEF Kept!RefreshEnds, Kept!Apply, Kept!Fails, Kept!Idle, Kept!Free, Kept!index
<1>2. \A i \in items : i \in items' \/ Gone(i)'
  BY DEF Kept!RefreshEnds, Kept!Apply, Kept!Fails, Kept!Idle, Kept!Free, Kept!index
<1>3. /\ saver'[t].step = saver[t].step /\ saver'[t].item = saver[t].item
      /\ saver'[t].existed = saver[t].existed /\ saver'[t].affects = saver[t].affects
      /\ saver'[t].under = saver[t].under /\ (saver'[t].mine => saver[t].mine)
  BY DEF Kept!RefreshEnds, Kept!Apply, Kept!Fails, Kept!Idle, Kept!Free, Kept!index
<1>4. update.by = t =>
        /\ update'.by = t
        /\ \A i \in update.files : i \in update'.files \/ i \notin items'
                                  \/ ~(saver'[t].mine /\ i = saver[t].item)
  BY PartsAssumption DEF Kept!RefreshEnds, Kept!Apply, Kept!Fails, Kept!Idle, Kept!Free,
     Kept!index, CoreFollows
<1> QED
  BY <1>1, <1>2, <1>3, <1>4, SavesStay

\* SaveBegins leaves the saves what they know.
LEMMA SaveBeginsSaves ==
  ASSUME FilesTyped, FilesTyped', IndexKept, IndexKept', CoreFollows,
         \A i : Gone(i) => Gone(i)', NEW t \in Savers, SaveFollows(t),
         NEW s \in Savers, SaveFollows(s), Kept!SaveBegins(s)
  PROVE  SaveFollows(t)'
<1>1. \/ current' = current /\ (Kept!Merge(current) \in items' <=> Kept!Merge(current) \in items)
      \/ current' # current /\ \A p \in Profiles : p = current => Gone(Kept!Main(p))'
  BY DEF Kept!SaveBegins, Kept!Calls, Kept!NoSave, Kept!index, Kept!files
<1>2. \A i \in items : i \in items' \/ Gone(i)'
  BY DEF Kept!SaveBegins, Kept!Calls, Kept!NoSave, Kept!index, Kept!files
<1>3. CASE t # s
  <2>1. /\ saver'[t].step = saver[t].step /\ saver'[t].item = saver[t].item
        /\ saver'[t].existed = saver[t].existed /\ saver'[t].affects = saver[t].affects
        /\ saver'[t].under = saver[t].under /\ (saver'[t].mine => saver[t].mine)
    BY <1>3 DEF Kept!SaveBegins, Kept!Calls, Kept!NoSave, Kept!index, Kept!files, FilesTyped
  <2>2. update.by = t =>
          /\ update'.by = t
          /\ \A i \in update.files : i \in update'.files \/ i \notin items'
                                    \/ ~(saver'[t].mine /\ i = saver[t].item)
    BY <1>3, PartsAssumption DEF Kept!SaveBegins, Kept!Calls, Kept!NoSave, Kept!index,
       Kept!files, FilesTyped, Updates
  <2> QED
    BY <1>1, <1>2, <2>1, <2>2, SavesStay
<1>4. CASE t = s
  <2>1. PICK i \in items \cup {Kept!Rules} :
          saver' = [saver EXCEPT ![s] =
            IF i \in items
            THEN [step |-> "reads", item |-> i, existed |-> FALSE,
                  affects |-> Kept!AffectsRuntime(i), mine |-> FALSE, under |-> current]
            ELSE [Kept!NoSave EXCEPT !.step = "not-listed", !.item = i]]
    BY DEF Kept!SaveBegins
  <2>2. UNCHANGED <<items, current>>
    BY DEF Kept!SaveBegins, Kept!index
  <2>3. Kept!AffectsRuntime(i)' = Kept!AffectsRuntime(i)
    BY <2>2 DEF Kept!AffectsRuntime, Kept!MergeOf, Kept!Main, Kept!Merge, Kept!Rules
  <2>4. CASE i \in items
    <3>1. saver'[t] = [step |-> "reads", item |-> i, existed |-> FALSE,
                       affects |-> Kept!AffectsRuntime(i), mine |-> FALSE, under |-> current]
      BY <1>4, <2>1, <2>4 DEF FilesTyped
    <3> QED
      BY <2>2, <2>3, <2>4, <3>1 DEF SaveFollows
  <2>5. CASE i \notin items
    <3>1. saver'[t] = [Kept!NoSave EXCEPT !.step = "not-listed", !.item = i]
      BY <1>4, <2>1, <2>5 DEF FilesTyped
    <3>2. saver'[t].step = "not-listed"
      BY <3>1 DEF Kept!NoSave
    <3> QED
      BY <3>2 DEF SaveFollows
  <2> QED
    BY <2>4, <2>5
<1> QED
  BY <1>3, <1>4

\* SaveReads leaves the saves what they know.
LEMMA SaveReadsSaves ==
  ASSUME FilesTyped, FilesTyped', IndexKept, IndexKept', CoreFollows,
         \A i : Gone(i) => Gone(i)', NEW t \in Savers, SaveFollows(t),
         NEW s \in Savers, SaveFollows(s), Kept!SaveReads(s)
  PROVE  SaveFollows(t)'
<1>1. \/ current' = current /\ (Kept!Merge(current) \in items' <=> Kept!Merge(current) \in items)
      \/ current' # current /\ \A p \in Profiles : p = current => Gone(Kept!Main(p))'
  BY DEF Kept!SaveReads, Kept!NoSave, Kept!index, Kept!files
<1>2. \A i \in items : i \in items' \/ Gone(i)'
  BY DEF Kept!SaveReads, Kept!NoSave, Kept!index, Kept!files
<1>3. CASE t # s
  <2>1. /\ saver'[t].step = saver[t].step /\ saver'[t].item = saver[t].item
        /\ saver'[t].existed = saver[t].existed /\ saver'[t].affects = saver[t].affects
        /\ saver'[t].under = saver[t].under /\ (saver'[t].mine => saver[t].mine)
    BY <1>3 DEF Kept!SaveReads, Kept!NoSave, Kept!index, Kept!files, FilesTyped
  <2>2. update.by = t =>
          /\ update'.by = t
          /\ \A i \in update.files : i \in update'.files \/ i \notin items'
                                    \/ ~(saver'[t].mine /\ i = saver[t].item)
    BY <1>3, PartsAssumption DEF Kept!SaveReads, Kept!NoSave, Kept!index, Kept!files,
       FilesTyped, Updates
  <2> QED
    BY <1>1, <1>2, <2>1, <2>2, SavesStay
<1>4. CASE t = s
  <2>1. saver'[t].step \notin {"idle", "not-listed"} =>
          /\ saver[t].step \notin {"idle", "not-listed"}
          /\ saver'[t].item = saver[t].item /\ saver'[t].affects = saver[t].affects
          /\ saver'[t].under = saver[t].under
    BY <1>4 DEF Kept!SaveReads, Kept!NoSave, Kept!index, Kept!files, FilesTyped, SaveState
  <2>2. saver'[t].step \notin {"idle", "not-listed"} =>
          /\ saver'[t].step # "reads" /\ ~saver'[t].existed => Gone(saver[t].item)'
          /\ saver'[t].step = "applies" =>
               /\ update'.by = t
               /\ saver'[t].mine /\ saver[t].item \in items' => saver[t].item \in update'.files
    BY <1>4 DEF Kept!SaveReads, Kept!NoSave, Kept!index, Kept!files, FilesTyped, SaveState,
       SaveFollows, IndexKept, Listed
  <2> QED
    BY <1>1, <1>2, <2>1, <2>2, SavesFollow
<1> QED
  BY <1>3, <1>4

\* SaveWrites leaves the saves what they know.
LEMMA SaveWritesSaves ==
  ASSUME FilesTyped, FilesTyped', IndexKept, IndexKept', CoreFollows,
         \A i : Gone(i) => Gone(i)', NEW t \in Savers, SaveFollows(t),
         NEW s \in Savers, SaveFollows(s), Kept!SaveWrites(s)
  PROVE  SaveFollows(t)'
<1>1. \/ current' = current /\ (Kept!Merge(current) \in items' <=> Kept!Merge(current) \in items)
      \/ current' # current /\ \A p \in Profiles : p = current => Gone(Kept!Main(p))'
  BY DEF Kept!SaveWrites, Kept!index
<1>2. \A i \in items : i \in items' \/ Gone(i)'
  BY DEF Kept!SaveWrites, Kept!index
<1>3. CASE t # s
  <2>1. /\ saver'[t].step = saver[t].step /\ saver'[t].item = saver[t].item
        /\ saver'[t].existed = saver[t].existed /\ saver'[t].affects = saver[t].affects
        /\ saver'[t].under = saver[t].under /\ (saver'[t].mine => saver[t].mine)
    <3>1. /\ saver[t] \in SaveState
          /\ saver'[t] = [saver[t] EXCEPT !.mine = @ /\ saver[t].item # saver[s].item]
      BY <1>3 DEF Kept!SaveWrites, Kept!index, FilesTyped
    <3> QED
      BY <3>1 DEF SaveState
  <2>2. update.by = t =>
          /\ update'.by = t
          /\ \A i \in update.files : i \in update'.files \/ i \notin items'
                                    \/ ~(saver'[t].mine /\ i = saver[t].item)
    <3>1. /\ saver[t] \in SaveState
          /\ saver'[t] = [saver[t] EXCEPT !.mine = @ /\ saver[t].item # saver[s].item]
      BY <1>3 DEF Kept!SaveWrites, Kept!index, FilesTyped
    <3>2. saver'[t].mine => saver[t].item # saver[s].item
      BY <3>1 DEF SaveState
    <3>3. update' = [update EXCEPT !.files = @ \ {saver[s].item}]
      BY DEF Kept!SaveWrites
    <3> QED
      BY <3>2, <3>3 DEF FilesTyped, Updates
  <2> QED
    BY <1>1, <1>2, <2>1, <2>2, SavesStay
<1>4. CASE t = s
  <2>1. saver'[t].step \notin {"idle", "not-listed"} =>
          /\ saver[t].step \notin {"idle", "not-listed"}
          /\ saver'[t].item = saver[t].item /\ saver'[t].affects = saver[t].affects
          /\ saver'[t].under = saver[t].under
    BY <1>4 DEF Kept!SaveWrites, Kept!index, FilesTyped, SaveState
  <2>2. saver'[t].step \notin {"idle", "not-listed"} =>
          /\ saver'[t].step # "reads" /\ ~saver'[t].existed => Gone(saver[t].item)'
          /\ saver'[t].step = "applies" =>
               /\ update'.by = t
               /\ saver'[t].mine /\ saver[t].item \in items' => saver[t].item \in update'.files
    BY <1>4 DEF Kept!SaveWrites, Kept!index, FilesTyped, SaveState, SaveFollows, IndexKept, Listed
  <2> QED
    BY <1>1, <1>2, <2>1, <2>2, SavesFollow
<1> QED
  BY <1>3, <1>4

\* SaveValidates leaves the saves what they know.
LEMMA SaveValidatesSaves ==
  ASSUME FilesTyped, FilesTyped', IndexKept, IndexKept', CoreFollows,
         \A i : Gone(i) => Gone(i)', NEW t \in Savers, SaveFollows(t),
         NEW s \in Savers, SaveFollows(s), Kept!SaveValidates(s)
  PROVE  SaveFollows(t)'
<1>1. \/ current' = current /\ (Kept!Merge(current) \in items' <=> Kept!Merge(current) \in items)
      \/ current' # current /\ \A p \in Profiles : p = current => Gone(Kept!Main(p))'
  BY DEF Kept!SaveValidates, Kept!Answered, Kept!NoSave, Kept!index
<1>2. \A i \in items : i \in items' \/ Gone(i)'
  BY DEF Kept!SaveValidates, Kept!Answered, Kept!NoSave, Kept!index
<1>3. CASE t # s
  <2>1. /\ saver'[t].step = saver[t].step /\ saver'[t].item = saver[t].item
        /\ saver'[t].existed = saver[t].existed /\ saver'[t].affects = saver[t].affects
        /\ saver'[t].under = saver[t].under /\ (saver'[t].mine => saver[t].mine)
    BY <1>3 DEF Kept!SaveValidates, Kept!Answered, Kept!NoSave, Kept!index, FilesTyped
  <2>2. update.by = t =>
          /\ update'.by = t
          /\ \A i \in update.files : i \in update'.files \/ i \notin items'
                                    \/ ~(saver'[t].mine /\ i = saver[t].item)
    BY <1>3, PartsAssumption DEF Kept!SaveValidates, Kept!Answered, Kept!NoSave, Kept!index,
       FilesTyped, Updates
  <2> QED
    BY <1>1, <1>2, <2>1, <2>2, SavesStay
<1>4. CASE t = s
  <2>1. saver'[t].step \notin {"idle", "not-listed"} =>
          /\ saver[t].step \notin {"idle", "not-listed"}
          /\ saver'[t].item = saver[t].item /\ saver'[t].affects = saver[t].affects
          /\ saver'[t].under = saver[t].under
    BY <1>4 DEF Kept!SaveValidates, Kept!Answered, Kept!NoSave, Kept!index, FilesTyped, SaveState
  <2>2. saver'[t].step \notin {"idle", "not-listed"} =>
          /\ saver'[t].step # "reads" /\ ~saver'[t].existed => Gone(saver[t].item)'
          /\ saver'[t].step = "applies" =>
               /\ update'.by = t
               /\ saver'[t].mine /\ saver[t].item \in items' => saver[t].item \in update'.files
    BY <1>4 DEF Kept!SaveValidates, Kept!Answered, Kept!NoSave, Kept!index, FilesTyped,
       SaveState, SaveFollows, IndexKept, Listed
  <2> QED
    BY <1>1, <1>2, <2>1, <2>2, SavesFollow
<1> QED
  BY <1>3, <1>4

\* SaveClaims leaves the saves what they know.
LEMMA SaveClaimsSaves ==
  ASSUME FilesTyped, FilesTyped', IndexKept, IndexKept', CoreFollows,
         \A i : Gone(i) => Gone(i)', NEW t \in Savers, SaveFollows(t),
         NEW s \in Savers, SaveFollows(s), Kept!SaveClaims(s)
  PROVE  SaveFollows(t)'
<1>1. \/ current' = current /\ (Kept!Merge(current) \in items' <=> Kept!Merge(current) \in items)
      \/ current' # current /\ \A p \in Profiles : p = current => Gone(Kept!Main(p))'
  BY DEF Kept!SaveClaims, Kept!Claim, Kept!index
<1>2. \A i \in items : i \in items' \/ Gone(i)'
  BY DEF Kept!SaveClaims, Kept!Claim, Kept!index
<1>3. CASE t # s
  <2>1. /\ saver'[t].step = saver[t].step /\ saver'[t].item = saver[t].item
        /\ saver'[t].existed = saver[t].existed /\ saver'[t].affects = saver[t].affects
        /\ saver'[t].under = saver[t].under /\ (saver'[t].mine => saver[t].mine)
    BY <1>3 DEF Kept!SaveClaims, Kept!Claim, Kept!index, FilesTyped
  <2>2. update.by = t =>
          /\ update'.by = t
          /\ \A i \in update.files : i \in update'.files \/ i \notin items'
                                    \/ ~(saver'[t].mine /\ i = saver[t].item)
    BY <1>3, PartsAssumption DEF Kept!SaveClaims, Kept!Claim, Kept!index, FilesTyped, Updates
  <2> QED
    BY <1>1, <1>2, <2>1, <2>2, SavesStay
<1>4. CASE t = s
  <2>1. saver'[t].step \notin {"idle", "not-listed"} =>
          /\ saver[t].step \notin {"idle", "not-listed"}
          /\ saver'[t].item = saver[t].item /\ saver'[t].affects = saver[t].affects
          /\ saver'[t].under = saver[t].under
    BY <1>4 DEF Kept!SaveClaims, Kept!Claim, Kept!index, FilesTyped, SaveState
  <2>2. saver'[t].step \notin {"idle", "not-listed"} =>
          /\ saver'[t].step # "reads" /\ ~saver'[t].existed => Gone(saver[t].item)'
          /\ saver'[t].step = "applies" =>
               /\ update'.by = t
               /\ saver'[t].mine /\ saver[t].item \in items' => saver[t].item \in update'.files
    BY <1>4 DEF Kept!SaveClaims, Kept!Claim, Kept!index, FilesTyped, SaveState, SaveFollows,
       IndexKept, Listed
  <2> QED
    BY <1>1, <1>2, <2>1, <2>2, SavesFollow
<1> QED
  BY <1>3, <1>4

\* SaveApplies leaves the saves what they know.
LEMMA SaveAppliesSaves ==
  ASSUME FilesTyped, FilesTyped', IndexKept, IndexKept', CoreFollows,
         \A i : Gone(i) => Gone(i)', NEW t \in Savers, SaveFollows(t),
         NEW s \in Savers, SaveFollows(s), Kept!SaveApplies(s)
  PROVE  SaveFollows(t)'
<1>1. \/ current' = current /\ (Kept!Merge(current) \in items' <=> Kept!Merge(current) \in items)
      \/ current' # current /\ \A p \in Profiles : p = current => Gone(Kept!Main(p))'
  BY DEF Kept!SaveApplies, Kept!Apply, Kept!Fails, Kept!Free, Kept!Answered, Kept!NoSave, Kept!index
<1>2. \A i \in items : i \in items' \/ Gone(i)'
  BY DEF Kept!SaveApplies, Kept!Apply, Kept!Fails, Kept!Free, Kept!Answered, Kept!NoSave, Kept!index
<1>3. CASE t # s
  <2>1. /\ saver'[t].step = saver[t].step /\ saver'[t].item = saver[t].item
        /\ saver'[t].existed = saver[t].existed /\ saver'[t].affects = saver[t].affects
        /\ saver'[t].under = saver[t].under /\ (saver'[t].mine => saver[t].mine)
    BY <1>3 DEF Kept!SaveApplies, Kept!Apply, Kept!Fails, Kept!Free, Kept!Answered, Kept!NoSave,
       Kept!index, FilesTyped
  <2>2. update.by = t =>
          /\ update'.by = t
          /\ \A i \in update.files : i \in update'.files \/ i \notin items'
                                    \/ ~(saver'[t].mine /\ i = saver[t].item)
    BY <1>3, PartsAssumption DEF Kept!SaveApplies, Kept!Apply, Kept!Fails, Kept!Free,
       Kept!Answered, Kept!NoSave, Kept!index, SaveFollows
  <2> QED
    BY <1>1, <1>2, <2>1, <2>2, SavesStay
<1>4. CASE t = s
  <2>1. saver'[t].step \notin {"idle", "not-listed"} =>
          /\ saver[t].step \notin {"idle", "not-listed"}
          /\ saver'[t].item = saver[t].item /\ saver'[t].affects = saver[t].affects
          /\ saver'[t].under = saver[t].under
    BY <1>4 DEF Kept!SaveApplies, Kept!Apply, Kept!Fails, Kept!Free, Kept!Answered, Kept!NoSave,
       Kept!index, FilesTyped, SaveState
  <2>2. saver'[t].step \notin {"idle", "not-listed"} =>
          /\ saver'[t].step # "reads" /\ ~saver'[t].existed => Gone(saver[t].item)'
          /\ saver'[t].step = "applies" =>
               /\ update'.by = t
               /\ saver'[t].mine /\ saver[t].item \in items' => saver[t].item \in update'.files
    BY <1>4 DEF Kept!SaveApplies, Kept!Apply, Kept!Fails, Kept!Free, Kept!Answered, Kept!NoSave,
       Kept!index, FilesTyped, SaveState, SaveFollows, IndexKept, Listed
  <2> QED
    BY <1>1, <1>2, <2>1, <2>2, SavesFollow
<1> QED
  BY <1>3, <1>4

\* SaveRestores leaves the saves what they know.
LEMMA SaveRestoresSaves ==
  ASSUME FilesTyped, FilesTyped', IndexKept, IndexKept', CoreFollows,
         \A i : Gone(i) => Gone(i)', NEW t \in Savers, SaveFollows(t),
         NEW s \in Savers, SaveFollows(s), Kept!SaveRestores(s)
  PROVE  SaveFollows(t)'
<1>1. \/ current' = current /\ (Kept!Merge(current) \in items' <=> Kept!Merge(current) \in items)
      \/ current' # current /\ \A p \in Profiles : p = current => Gone(Kept!Main(p))'
  BY DEF Kept!SaveRestores, Kept!NoSave, Kept!index
<1>2. \A i \in items : i \in items' \/ Gone(i)'
  BY DEF Kept!SaveRestores, Kept!NoSave, Kept!index
<1>3. CASE t # s
  <2>1. /\ saver'[t].step = saver[t].step /\ saver'[t].item = saver[t].item
        /\ saver'[t].existed = saver[t].existed /\ saver'[t].affects = saver[t].affects
        /\ saver'[t].under = saver[t].under /\ (saver'[t].mine => saver[t].mine)
    <3>1. /\ saver[t] \in SaveState
          /\ saver'[t] = [saver[t] EXCEPT !.mine = @ /\ saver[t].item # saver[s].item]
      BY <1>3 DEF Kept!SaveRestores, Kept!index, FilesTyped
    <3> QED
      BY <3>1 DEF SaveState
  <2>2. update.by = t =>
          /\ update'.by = t
          /\ \A i \in update.files : i \in update'.files \/ i \notin items'
                                    \/ ~(saver'[t].mine /\ i = saver[t].item)
    <3>1. /\ saver[t] \in SaveState
          /\ saver'[t] = [saver[t] EXCEPT !.mine = @ /\ saver[t].item # saver[s].item]
      BY <1>3 DEF Kept!SaveRestores, Kept!index, FilesTyped
    <3>2. saver'[t].mine => saver[t].item # saver[s].item
      BY <3>1 DEF SaveState
    <3>3. update' = [update EXCEPT !.files = @ \ {saver[s].item}]
      BY DEF Kept!SaveRestores
    <3> QED
      BY <3>2, <3>3 DEF FilesTyped, Updates
  <2> QED
    BY <1>1, <1>2, <2>1, <2>2, SavesStay
<1>4. CASE t = s
  BY <1>4 DEF Kept!SaveRestores, Kept!NoSave, Kept!index, FilesTyped, SaveFollows
<1> QED
  BY <1>3, <1>4

\* SaveNotListed leaves the saves what they know.
LEMMA SaveNotListedSaves ==
  ASSUME FilesTyped, FilesTyped', IndexKept, IndexKept', CoreFollows,
         \A i : Gone(i) => Gone(i)', NEW t \in Savers, SaveFollows(t),
         NEW s \in Savers, SaveFollows(s), Kept!SaveNotListed(s)
  PROVE  SaveFollows(t)'
<1>1. \/ current' = current /\ (Kept!Merge(current) \in items' <=> Kept!Merge(current) \in items)
      \/ current' # current /\ \A p \in Profiles : p = current => Gone(Kept!Main(p))'
  BY DEF Kept!SaveNotListed, Kept!NoSave, Kept!index, Kept!files
<1>2. \A i \in items : i \in items' \/ Gone(i)'
  BY DEF Kept!SaveNotListed, Kept!NoSave, Kept!index, Kept!files
<1>3. CASE t # s
  <2>1. /\ saver'[t].step = saver[t].step /\ saver'[t].item = saver[t].item
        /\ saver'[t].existed = saver[t].existed /\ saver'[t].affects = saver[t].affects
        /\ saver'[t].under = saver[t].under /\ (saver'[t].mine => saver[t].mine)
    BY <1>3 DEF Kept!SaveNotListed, Kept!NoSave, Kept!index, Kept!files, FilesTyped
  <2>2. update.by = t =>
          /\ update'.by = t
          /\ \A i \in update.files : i \in update'.files \/ i \notin items'
                                    \/ ~(saver'[t].mine /\ i = saver[t].item)
    BY <1>3, PartsAssumption DEF Kept!SaveNotListed, Kept!NoSave, Kept!index, Kept!files,
       FilesTyped, Updates
  <2> QED
    BY <1>1, <1>2, <2>1, <2>2, SavesStay
<1>4. CASE t = s
  BY <1>1, <1>2, <1>4, SavesFollow DEF Kept!SaveNotListed, Kept!NoSave, Kept!index, Kept!files,
     FilesTyped, SaveState
<1> QED
  BY <1>3, <1>4

\* The inductive invariant of the files.
FilesInv ==
  /\ FilesTyped /\ IndexKept /\ CoreFollows
  /\ \A s \in Savers : SaveFollows(s)

\* The files begin with the invariant.
LEMMA FilesInit == Kept!Init => FilesInv
<1> SUFFICES ASSUME Kept!Init PROVE FilesInv
  OBVIOUS
<1> USE ItemsDiffer, NothingTyped DEF Kept!Init
<1>1. PICK own \in BOOLEAN, p \in Profiles :
        /\ items = {Kept!Main(p), Kept!Merge(Global)} \cup (IF own THEN {Kept!Merge(p)} ELSE {})
        /\ current = p /\ used = {p}
  OBVIOUS
<1>2. items \in SUBSET Items /\ stored = [items |-> items, current |-> current]
      /\ present = items
  BY <1>1
<1>3. saver \in [Savers -> SaveState] /\ \A s \in Savers : saver[s].step = "idle"
  BY DEF Kept!NoSave
<1>4. FilesTyped
  BY <1>1, <1>2, <1>3 DEF FilesTyped, Index
<1>5. Listed
  BY <1>1, <1>2 DEF Listed
<1>6. CurrentListed /\ MakerFollows /\ DeleterFollows
  BY <1>1, <1>2 DEF CurrentListed, MakerFollows, DeleterFollows, Kept!Idle, Kept!NoDelete
<1>7. CoreFollows
  BY DEF CoreFollows, Kept!Free, Kept!Idle, Kept!NoDelete
<1> QED
  BY <1>3, <1>4, <1>5, <1>6, <1>7 DEF FilesInv, IndexKept, SaveFollows

\* Each step of the files preserves the invariant.
LEMMA FilesStep == FilesInv /\ Kept!Next => FilesInv'
<1> SUFFICES ASSUME FilesInv, Kept!Next PROVE FilesInv'
  OBVIOUS
<1>1. FilesTyped /\ IndexKept /\ CoreFollows /\ \A s \in Savers : SaveFollows(s)
  BY DEF FilesInv
<1>2. FilesTyped'
  BY <1>1, MakeBeginsTyped, MakeMergeTyped, MakeMainTyped, MakeStoresTyped, MakeFailsTyped,
     DeleteBeginsTyped, DeleteClaimsTyped, DeleteAppliesTyped, DeleteGivesUpTyped,
     DeleteStoresTyped, DeleteUndoneTyped, DeleteEndsTyped, RefreshBeginsTyped,
     RefreshFailsTyped, RefreshLandsTyped, RefreshClaimsTyped, RefreshEndsTyped, RestartTyped,
     SaveBeginsTyped, SaveReadsTyped, SaveWritesTyped, SaveValidatesTyped, SaveClaimsTyped,
     SaveAppliesTyped, SaveRestoresTyped, SaveNotListedTyped DEF Kept!Next
<1>3. IndexKept'
  BY <1>1, MakeBeginsIndexed, MakeMergeIndexed, MakeMainIndexed, MakeStoresIndexed,
     MakeFailsIndexed, DeleteBeginsIndexed, DeleteClaimsIndexed, DeleteAppliesIndexed,
     DeleteGivesUpIndexed, DeleteStoresIndexed, DeleteUndoneIndexed, DeleteEndsIndexed,
     RefreshBeginsIndexed, RefreshFailsIndexed, RefreshLandsIndexed, RefreshClaimsIndexed,
     RefreshEndsIndexed, RestartIndexed, SaveBeginsIndexed, SaveReadsIndexed, SaveWritesIndexed,
     SaveValidatesIndexed, SaveClaimsIndexed, SaveAppliesIndexed, SaveRestoresIndexed,
     SaveNotListedIndexed DEF Kept!Next
<1>4. CoreFollows'
  BY <1>1, MakeBeginsCore, MakeMergeCore, MakeMainCore, MakeStoresCore, MakeFailsCore,
     DeleteBeginsCore, DeleteClaimsCore, DeleteAppliesCore, DeleteGivesUpCore, DeleteStoresCore,
     DeleteUndoneCore, DeleteEndsCore, RefreshBeginsCore, RefreshFailsCore, RefreshLandsCore,
     RefreshClaimsCore, RefreshEndsCore, RestartCore, SaveBeginsCore, SaveReadsCore,
     SaveWritesCore, SaveValidatesCore, SaveClaimsCore, SaveAppliesCore, SaveRestoresCore,
     SaveNotListedCore DEF Kept!Next
<1>5. ASSUME NEW t \in Savers PROVE SaveFollows(t)'
  <2>1. CASE Kept!Restart
    BY <2>1 DEF Kept!Restart, Kept!NoSave, SaveFollows
  <2>2. CASE ~Kept!Restart
    <3>1. \A i : Gone(i) => Gone(i)'
      BY <1>1, <2>2, GoneStays
    <3> QED
      BY <1>1, <1>2, <1>3, <2>2, <3>1, MakeBeginsSaves, MakeMergeSaves, MakeMainSaves,
         MakeStoresSaves, MakeFailsSaves, DeleteBeginsSaves, DeleteClaimsSaves,
         DeleteAppliesSaves, DeleteGivesUpSaves, DeleteStoresSaves, DeleteUndoneSaves,
         DeleteEndsSaves, RefreshBeginsSaves, RefreshFailsSaves, RefreshLandsSaves,
         RefreshClaimsSaves, RefreshEndsSaves, SaveBeginsSaves, SaveReadsSaves, SaveWritesSaves,
         SaveValidatesSaves, SaveClaimsSaves, SaveAppliesSaves, SaveRestoresSaves,
         SaveNotListedSaves DEF Kept!Next
  <2> QED
    BY <2>1, <2>2
<1> QED
  BY <1>2, <1>3, <1>4, <1>5 DEF FilesInv

\* A stutter of the files keeps the invariant.
LEMMA FilesStutter == FilesInv /\ UNCHANGED profiles_vars => FilesInv'
<1> SUFFICES ASSUME FilesInv, UNCHANGED profiles_vars PROVE FilesInv'
  OBVIOUS
<1> USE DEF profiles_vars
<1>1. FilesTyped'
  BY DEF FilesInv, FilesTyped
<1>2. IndexKept'
  BY DEF FilesInv, IndexKept, Listed, CurrentListed, MakerFollows, DeleterFollows
<1>3. CoreFollows'
  BY DEF FilesInv, CoreFollows
<1>4. \A s \in Savers : SaveFollows(s)'
  BY DEF FilesInv, SaveFollows, Gone, Kept!AffectsRuntime, Kept!MergeOf
<1> QED
  BY <1>1, <1>2, <1>3, <1>4 DEF FilesInv

\* What profiles.yaml lists is there, and a save that was answered Valid is what the Core
\* runs (ProfileFilesAreKept).
THEOREM FilesAreKept == Spec => []ProfileFilesAreKept
<1> DEFINE Inv == part = "profiles" => FilesInv
<1>1. Init => Inv
  BY FilesInit DEF Init
<1>2. Inv /\ [Next]_mcvars => Inv'
  <2> SUFFICES ASSUME part = "profiles", FilesInv, [Next]_mcvars PROVE FilesInv'
    BY PartStays
  <2>1. CASE Kept!Next
    BY <2>1, FilesStep
  <2>2. CASE UNCHANGED profiles_vars
    BY <2>2, FilesStutter
  <2> QED
    BY <2>1, <2>2 DEF Next, mcvars
<1>3. Inv => ProfileFilesAreKept
  BY DEF FilesInv, IndexKept, Listed, CoreFollows, ProfileFilesAreKept, Kept!ListedFilesExist,
     Kept!AcceptedSavesReachCore
<1> QED
  BY <1>1, <1>2, <1>3, PTL DEF Spec

-----------------------------------------------------------------------------
(* Provider publication *)

\* Chunks of a cache, and the steps of a pass while it is under way.
Chunks == [url : Urls, download : Nat]
Reading == {"reads", "looks", "rechecks"}
UnderWay == Reading \cup {"publishes"}
PassState ==
  [step : {"none", "waits", "pending", "done"} \cup UnderWay, attempt : Nat,
   url : Urls \cup {None}, session : Nat, before : Nat, data : Seq(Chunks), mtime : Nat, len : Nat]

ProviderTyped ==
  /\ windows \in BOOLEAN /\ now \in Nat /\ mtime \in Nat /\ downloads \in Nat
  /\ declared \in Urls /\ core \in Urls \cup {None}
  /\ session \in Nat /\ sessions \in Nat /\ session <= sessions
  /\ change \in {None, "applying", "applied"}
  /\ cache \in Seq(Chunks) /\ writer \in {"none", "writing", "closed"}
  /\ updatedAt \in [load : Nat, at : Nat]
  /\ queued \in BOOLEAN /\ asked \in BOOLEAN /\ taken_back \in BOOLEAN
  /\ passes \in [Tasks -> PassState]

\* The cache is one download as far as it is written, and all of it once the writer has
\* closed it; its time is that of a change, and away from Windows no older than Settle while
\* it is written.
CacheFollows ==
  /\ mtime <= now /\ Len(cache) <= 2
  /\ \A i \in 1..Len(cache) : cache[i] = [url |-> core, download |-> downloads]
  /\ writer = "none" => Len(cache) \in {0, 2}
  /\ writer = "closed" => Len(cache) = 2
  /\ core = None => writer = "none" /\ cache = <<>> /\ change = None
  /\ ~windows /\ writer = "writing" => now < mtime + Settle
  /\ change = None /\ core # None => declared = core

\* What a pass has read is of the download in the cache, as long as that is closed and its
\* time the one that was read; else its time will be another when the pass looks again.
Whole(data) == Len(data) = 2 /\ data[1] = data[2]
Holds(t) ==
  LET p == passes[t]
  IN /\ Len(p.data) <= p.len
     /\ p.mtime + Settle <= now /\ p.mtime <= mtime
     /\ p.mtime = mtime /\ writer # "writing" =>
          Len(cache) = 2 /\ p.len = 2 /\ \A i \in 1..Len(p.data) : p.data[i] = cache[1]
PassFollows(t) ==
  LET p == passes[t]
  IN /\ p.step \in UnderWay => p.url \in Urls /\ p.session <= sessions
     /\ p.step \in Reading /\ p.data # <<>> => Holds(t)
     /\ p.step \in {"looks", "rechecks"} => p.data # <<>> /\ Len(p.data) = p.len
     /\ p.step = "rechecks" /\ p.mtime = mtime => Whole(p.data)
     /\ p.step = "publishes" => Whole(p.data)
     /\ p.step \in UnderWay /\ p.data # <<>> /\ p.session = session /\ p.url = core
          /\ ~taken_back => p.data[1].url = core

\* A request waits in the queue for the first attempt of a pass.
QueueFollows ==
  /\ asked => queued
  /\ queued => \E t \in Tasks : passes[t].step = "waits" /\ passes[t].attempt = 1

\* The inductive invariant of the provider publication.
ProviderInv ==
  ProviderTyped /\ CacheFollows /\ QueueFollows /\ \A t \in Tasks : PassFollows(t)

\* None is no URL, and no change that is under way.
LEMMA NoneIsNoUrl == None \notin Urls \cup Tasks /\ None # "applying" /\ None # "applied"
BY PartsAssumption, NoneAssumption

\* What changes beside a pass: the clock goes on; the cache is touched now, was touched
\* too recently to have been read, or is what it was; and the Core and the session are what they
\* were for the pass.
Beside(t) ==
  LET p == passes[t]
  IN /\ now <= now' /\ sessions <= sessions'
     /\ \/ mtime' = now
        \/ mtime' = mtime /\ now < mtime + Settle
        \/ mtime' = mtime /\ (writer' # "writing" => writer # "writing" /\ cache' = cache)
     /\ p.url \in Urls /\ p.session <= sessions /\ p.session = session' /\ p.url = core'
          /\ ~taken_back' => session' = session /\ core' = core /\ ~taken_back

\* A pass that goes on beside a change keeps what it holds.
LEMMA PassStands ==
  ASSUME ProviderTyped, ProviderTyped', NEW t \in Tasks, PassFollows(t), Beside(t),
         passes'[t] = passes[t] \/ passes'[t].step = "waits"
  PROVE  PassFollows(t)'
<1>1. CASE passes'[t].step = "waits"
  BY <1>1 DEF PassFollows, Reading, UnderWay
<1>2. CASE passes'[t] = passes[t] /\ passes[t].step \notin UnderWay
  BY <1>2 DEF PassFollows, Reading, UnderWay
<1>3. CASE passes'[t] = passes[t] /\ passes[t].step \in UnderWay
  <2> DEFINE p == passes[t]
  <2>1. p \in PassState /\ p.mtime \in Nat /\ p.session \in Nat /\ p.len \in Nat
        /\ Settle \in Nat \ {0}
        /\ now \in Nat /\ mtime \in Nat /\ sessions \in Nat /\ now' \in Nat /\ mtime' \in Nat
        /\ sessions' \in Nat
    BY ProvidersAssumption DEF ProviderTyped, PassState
  <2>2. p.step \in Reading /\ p.data # <<>> => Holds(t)'
    <3> SUFFICES ASSUME p.step \in Reading, p.data # <<>> PROVE Holds(t)'
      OBVIOUS
    <3>1. /\ Len(p.data) <= p.len
          /\ p.mtime + Settle <= now /\ p.mtime <= mtime
      BY DEF PassFollows, Holds
    <3>2. p.mtime + Settle <= now' /\ p.mtime <= mtime'
      BY <2>1, <3>1 DEF Beside
    <3>3. ASSUME p.mtime = mtime', writer' # "writing"
          PROVE  /\ Len(cache) = 2 /\ p.len = 2 /\ \A i \in 1..Len(p.data) : p.data[i] = cache[1]
                 /\ cache' = cache
      <4>1. mtime' # now /\ ~(mtime' = mtime /\ now < mtime + Settle)
        BY <2>1, <3>1, <3>3
      <4>2. mtime' = mtime /\ writer # "writing" /\ cache' = cache
        BY <3>3, <4>1 DEF Beside
      <4> QED
        BY <3>3, <4>2 DEF PassFollows, Holds
    <3> QED
      BY <1>3, <3>1, <3>2, <3>3 DEF Holds
  <2>3. p.step = "rechecks" /\ p.mtime = mtime' => Whole(p.data)
    <3> SUFFICES ASSUME p.step = "rechecks", p.mtime = mtime' PROVE Whole(p.data)
      OBVIOUS
    <3>1. p.mtime + Settle <= now
      BY DEF PassFollows, Holds, Reading
    <3>2. mtime' = mtime
      BY <2>1, <3>1 DEF Beside
    <3> QED
      BY <3>2 DEF PassFollows
  <2>4. p.url \in Urls /\ p.session <= sessions /\ p.session <= sessions'
    BY <1>3, <2>1 DEF PassFollows, Beside
  <2>5. p.data # <<>> /\ p.session = session' /\ p.url = core' /\ ~taken_back' =>
          p.data[1].url = core'
    BY <1>3, <2>4 DEF PassFollows, Beside
  <2>6. /\ p.step \in {"looks", "rechecks"} => p.data # <<>> /\ Len(p.data) = p.len
        /\ p.step = "publishes" => Whole(p.data)
    BY DEF PassFollows
  <2> QED
    BY <1>3, <2>2, <2>3, <2>4, <2>5, <2>6 DEF PassFollows
<1> QED
  BY <1>1, <1>2, <1>3

\* A request is in the queue, and leaves the passes that are under way.
LEMMA RequestQueues ==
  ASSUME ProviderTyped, QueueFollows, Sync!Request
  PROVE  /\ asked' \in BOOLEAN /\ queued' \in BOOLEAN /\ passes' \in [Tasks -> PassState]
         /\ QueueFollows'
         /\ \A t \in Tasks : passes'[t] = passes[t] \/ passes'[t].step = "waits"
<1>1. asked'
  BY DEF Sync!Request
<1>2. CASE queued
  BY <1>2 DEF Sync!Request, ProviderTyped, QueueFollows
<1>3. CASE ~queued
  <2>1. PICK t \in Tasks : passes' = [passes EXCEPT ![t].step = "waits", ![t].attempt = 1]
    BY <1>3 DEF Sync!Request
  <2>2. /\ passes' \in [Tasks -> PassState]
        /\ passes'[t].step = "waits" /\ passes'[t].attempt = 1
        /\ \A u \in Tasks \ {t} : passes'[u] = passes[u]
    BY <2>1, ZenonT(45) DEF ProviderTyped, PassState
  <2>3. queued'
    BY <1>3 DEF Sync!Request
  <2> QED
    BY <1>1, <2>2, <2>3 DEF QueueFollows
<1> QED
  BY <1>2, <1>3 DEF ProviderTyped

\* Tick preserves the invariant.
LEMMA ProviderTick == ASSUME ProviderInv, Sync!Tick PROVE ProviderInv'
<1> USE ProvidersAssumption, NoneIsNoUrl DEF ProviderInv
<1>q. QueueFollows' /\ passes' = passes /\ UNCHANGED <<queued, asked>>
  BY DEF Sync!Tick, Sync!ownership, Sync!file, Sync!queue, QueueFollows
<1>t. ProviderTyped'
  BY <1>q DEF Sync!Tick, Sync!ownership, Sync!file, Sync!queue, ProviderTyped, Chunks
<1>c. CacheFollows'
  BY DEF Sync!Tick, Sync!ownership, Sync!file, Sync!queue, ProviderTyped, CacheFollows
<1>p. ASSUME NEW t \in Tasks PROVE PassFollows(t)'
  <2>1. Beside(t)
    BY DEF Beside, Sync!Tick, Sync!ownership, Sync!file, Sync!queue, ProviderTyped, CacheFollows
  <2> QED
    BY <1>q, <1>t, <2>1, PassStands
<1> QED
  BY <1>q, <1>t, <1>c, <1>p

\* Downloads preserves the invariant.
LEMMA ProviderDownloads == ASSUME ProviderInv, Sync!Downloads PROVE ProviderInv'
<1> USE ProvidersAssumption, NoneIsNoUrl DEF ProviderInv
<1>q. QueueFollows' /\ passes' = passes /\ UNCHANGED <<queued, asked>>
  BY DEF Sync!Downloads, Sync!ownership, Sync!file, Sync!queue, Sync!Touched, QueueFollows
<1>t. ProviderTyped'
  BY <1>q DEF Sync!Downloads, Sync!ownership, Sync!file, Sync!queue, Sync!Touched,
     ProviderTyped, Chunks
<1>c. CacheFollows'
  BY DEF Sync!Downloads, Sync!ownership, Sync!file, Sync!queue, Sync!Touched, ProviderTyped,
     CacheFollows
<1>p. ASSUME NEW t \in Tasks PROVE PassFollows(t)'
  <2>1. Beside(t)
    BY DEF Beside, Sync!Downloads, Sync!ownership, Sync!file, Sync!queue, Sync!Touched,
       ProviderTyped, CacheFollows
  <2> QED
    BY <1>q, <1>t, <2>1, PassStands
<1> QED
  BY <1>q, <1>t, <1>c, <1>p

\* Writes preserves the invariant.
LEMMA ProviderWrites == ASSUME ProviderInv, Sync!Writes PROVE ProviderInv'
<1> USE ProvidersAssumption, NoneIsNoUrl DEF ProviderInv
<1>w. core \in Urls /\ writer = "writing"
  BY DEF Sync!Writes, ProviderTyped, CacheFollows
<1> DEFINE chunk == [url |-> core, download |-> downloads]
<1>a. chunk \in Chunks
  BY <1>w DEF ProviderTyped, Chunks
<1>f. Len(cache) < 2 =>
        /\ cache' \in Seq(Chunks) /\ Len(cache') = Len(cache) + 1
        /\ \A i \in 1..Len(cache') : cache'[i] = chunk
  BY <1>a DEF Sync!Writes, ProviderTyped, CacheFollows
<1> HIDE DEF chunk
<1>r. UNCHANGED <<windows, now, downloads, declared, core, session, sessions, change, taken_back,
                updatedAt>>
  BY DEF Sync!Writes, Sync!ownership
<1>s. \/ Len(cache) < 2 /\ writer' = "writing" /\ mtime' = (IF windows THEN mtime ELSE now)
      \/ /\ ~(Len(cache) < 2) /\ writer' = "closed" /\ cache' = cache
         /\ mtime' = (IF windows THEN now ELSE mtime)
  BY <1>w DEF Sync!Writes, Sync!Touched
<1>q. QueueFollows' /\ passes' = passes /\ UNCHANGED <<queued, asked>>
  BY DEF Sync!Writes, Sync!ownership, Sync!file, Sync!queue, Sync!Touched, QueueFollows
<1>t. ProviderTyped'
  BY <1>q, <1>w, <1>f, <1>r, <1>s DEF ProviderTyped
<1>c. CacheFollows'
  <2>1. Len(cache) \in Nat /\ now \in Nat /\ mtime \in Nat /\ core # None
    BY <1>w DEF ProviderTyped
  <2>2. CASE Len(cache) < 2
    <3>1. /\ writer' = "writing" /\ mtime' = (IF windows THEN mtime ELSE now)
          /\ Len(cache') = Len(cache) + 1 /\ \A i \in 1..Len(cache') : cache'[i] = chunk
      BY <1>f, <1>s, <2>2
    <3>2. mtime' <= now /\ (~windows => now < mtime' + Settle) /\ Len(cache') <= 2
      BY <2>1, <2>2, <3>1 DEF CacheFollows
    <3> QED
      BY <1>r, <2>1, <3>1, <3>2 DEF CacheFollows, chunk
  <2>3. CASE ~(Len(cache) < 2)
    <3>1. Len(cache) = 2 /\ writer' = "closed" /\ cache' = cache /\ mtime' \in {now, mtime}
      <4>1. Len(cache) <= 2
        BY DEF CacheFollows
      <4>2. writer' = "closed" /\ cache' = cache /\ mtime' \in {now, mtime}
        BY <1>s, <2>3
      <4>3. Len(cache) = 2
        <5>1. \A n \in Nat : ~(n < 2) /\ n <= 2 => n = 2
          OBVIOUS
        <5> QED
          BY <2>1, <2>3, <4>1, <5>1, Zenon
      <4> QED
        BY <4>2, <4>3
    <3>2. mtime' <= now /\ (now < mtime + Settle => mtime' <= now)
      BY <2>1, <3>1 DEF CacheFollows
    <3>3. \A i \in 1..Len(cache) : cache[i] = [url |-> core, download |-> downloads]
      BY DEF CacheFollows
    <3> QED
      BY <1>r, <2>1, <3>1, <3>2, <3>3 DEF CacheFollows
  <2> QED
    BY <2>2, <2>3
<1>p. ASSUME NEW t \in Tasks PROVE PassFollows(t)'
  <2>1. Beside(t)
    BY DEF Beside, Sync!Writes, Sync!ownership, Sync!file, Sync!queue, Sync!Touched,
       ProviderTyped, CacheFollows
  <2> QED
    BY <1>q, <1>t, <2>1, PassStands
<1> QED
  BY <1>q, <1>t, <1>c, <1>p

\* Loads preserves the invariant.
LEMMA ProviderLoads == ASSUME ProviderInv, Sync!Loads PROVE ProviderInv'
<1> USE ProvidersAssumption, NoneIsNoUrl DEF ProviderInv
<1>q. QueueFollows' /\ passes' = passes /\ UNCHANGED <<queued, asked>>
  BY DEF Sync!Loads, Sync!ownership, Sync!file, Sync!queue, QueueFollows
<1>t. ProviderTyped'
  BY <1>q DEF Sync!Loads, Sync!ownership, Sync!file, Sync!queue, ProviderTyped, Chunks
<1>c. CacheFollows'
  BY DEF Sync!Loads, Sync!ownership, Sync!file, Sync!queue, ProviderTyped, CacheFollows
<1>p. ASSUME NEW t \in Tasks PROVE PassFollows(t)'
  <2>1. Beside(t)
    BY DEF Beside, Sync!Loads, Sync!ownership, Sync!file, Sync!queue, ProviderTyped, CacheFollows
  <2> QED
    BY <1>q, <1>t, <2>1, PassStands
<1> QED
  BY <1>q, <1>t, <1>c, <1>p

\* Asks preserves the invariant.
LEMMA ProviderAsks == ASSUME ProviderInv, Sync!Asks PROVE ProviderInv'
<1> USE ProvidersAssumption, NoneIsNoUrl DEF ProviderInv
<1>q. /\ asked' \in BOOLEAN /\ queued' \in BOOLEAN /\ passes' \in [Tasks -> PassState]
      /\ QueueFollows'
      /\ \A t \in Tasks : passes'[t] = passes[t] \/ passes'[t].step = "waits"
  BY RequestQueues DEF Sync!Asks
<1>t. ProviderTyped'
  BY <1>q DEF Sync!Asks, Sync!ownership, Sync!file, Sync!queue, ProviderTyped, Chunks
<1>c. CacheFollows'
  BY DEF Sync!Asks, Sync!ownership, Sync!file, Sync!queue, ProviderTyped, CacheFollows
<1>p. ASSUME NEW t \in Tasks PROVE PassFollows(t)'
  <2>1. Beside(t)
    BY DEF Beside, Sync!Asks, Sync!ownership, Sync!file, Sync!queue, ProviderTyped, CacheFollows
  <2> QED
    BY <1>q, <1>t, <2>1, PassStands
<1> QED
  BY <1>q, <1>t, <1>c, <1>p

\* Applies preserves the invariant.
LEMMA ProviderApplies == ASSUME ProviderInv, Sync!Applies PROVE ProviderInv'
<1> USE ProvidersAssumption, NoneIsNoUrl DEF ProviderInv
<1>k. /\ taken_back' \in BOOLEAN
      /\ ~taken_back' => ~taken_back /\ \A t \in Tasks : core' # core => passes[t].url # core'
  BY DEF Sync!Applies, ProviderTyped
<1>u. /\ session' \in Nat /\ sessions' \in Nat /\ session' <= sessions'
      /\ \/ session' = session /\ sessions' = sessions
         \/ session' = sessions + 1 /\ sessions' = sessions + 1
  BY DEF Sync!Applies, ProviderTyped
<1>v. /\ core' \in Urls /\ change' = "applying" /\ core # None
      /\ UNCHANGED <<windows, now, declared, downloads>>
      /\ \/ core' # core /\ cache' = <<>> /\ mtime' = now /\ writer' = "none"
         \/ core' = core /\ UNCHANGED <<cache, mtime, writer>>
  BY DEF Sync!Applies, Sync!Emptied
<1>w. updatedAt' \in [load : Nat, at : Nat]
  BY DEF Sync!Applies, Sync!Emptied, Sync!NeverLoaded, ProviderTyped
<1>q. QueueFollows' /\ passes' = passes /\ UNCHANGED <<queued, asked>>
  BY DEF Sync!Applies, Sync!ownership, Sync!file, Sync!queue, Sync!Emptied, Sync!NeverLoaded,
     QueueFollows
<1>t. ProviderTyped'
  <2>1. cache' \in Seq(Chunks) /\ mtime' \in Nat /\ writer' \in {"none", "writing", "closed"}
    <3>1. <<>> \in Seq(Chunks)
      OBVIOUS
    <3>2. CASE cache' = <<>> /\ mtime' = now /\ writer' = "none"
      BY <3>1, <3>2 DEF ProviderTyped
    <3>3. CASE UNCHANGED <<cache, mtime, writer>>
      BY <3>3 DEF ProviderTyped
    <3> QED
      BY <1>v, <3>2, <3>3
  <2> QED
    BY <1>q, <1>k, <1>u, <1>v, <1>w, <2>1 DEF ProviderTyped
<1>c. CacheFollows'
  BY <1>v DEF ProviderTyped, CacheFollows
<1>p. ASSUME NEW t \in Tasks PROVE PassFollows(t)'
  <2>1. Beside(t)
    BY <1>k, <1>u, <1>v DEF Beside, ProviderTyped
  <2> QED
    BY <1>q, <1>t, <2>1, PassStands
<1> QED
  BY <1>q, <1>t, <1>c, <1>p

\* Applied preserves the invariant.
LEMMA ProviderApplied == ASSUME ProviderInv, Sync!Applied PROVE ProviderInv'
<1> USE ProvidersAssumption, NoneIsNoUrl DEF ProviderInv
<1>q. /\ asked' \in BOOLEAN /\ queued' \in BOOLEAN /\ passes' \in [Tasks -> PassState]
      /\ QueueFollows'
      /\ \A t \in Tasks : passes'[t] = passes[t] \/ passes'[t].step = "waits"
  BY RequestQueues DEF Sync!Applied
<1>t. ProviderTyped'
  BY <1>q DEF Sync!Applied, Sync!ownership, Sync!file, Sync!queue, ProviderTyped, Chunks
<1>c. CacheFollows'
  BY DEF Sync!Applied, Sync!ownership, Sync!file, Sync!queue, ProviderTyped, CacheFollows
<1>p. ASSUME NEW t \in Tasks PROVE PassFollows(t)'
  <2>1. Beside(t)
    BY DEF Beside, Sync!Applied, Sync!ownership, Sync!file, Sync!queue, ProviderTyped, CacheFollows
  <2> QED
    BY <1>q, <1>t, <2>1, PassStands
<1> QED
  BY <1>q, <1>t, <1>c, <1>p

\* Commits preserves the invariant.
LEMMA ProviderCommits == ASSUME ProviderInv, Sync!Commits PROVE ProviderInv'
<1> USE ProvidersAssumption, NoneIsNoUrl DEF ProviderInv
<1>n. core \in Urls
  BY DEF Sync!Commits, ProviderTyped, CacheFollows
<1>q. QueueFollows' /\ passes' = passes /\ UNCHANGED <<queued, asked>>
  BY DEF Sync!Commits, Sync!ownership, Sync!file, Sync!queue, QueueFollows
<1>t. ProviderTyped'
  BY <1>q, <1>n DEF Sync!Commits, Sync!ownership, Sync!file, Sync!queue, ProviderTyped, Chunks
<1>c. CacheFollows'
  BY DEF Sync!Commits, Sync!ownership, Sync!file, Sync!queue, ProviderTyped, CacheFollows
<1>p. ASSUME NEW t \in Tasks PROVE PassFollows(t)'
  <2>1. Beside(t)
    BY DEF Beside, Sync!Commits, Sync!ownership, Sync!file, Sync!queue, ProviderTyped, CacheFollows
  <2> QED
    BY <1>q, <1>t, <2>1, PassStands
<1> QED
  BY <1>q, <1>t, <1>c, <1>p

\* Stops preserves the invariant.
LEMMA ProviderStops == ASSUME ProviderInv, Sync!Stops PROVE ProviderInv'
<1> USE ProvidersAssumption, NoneIsNoUrl DEF ProviderInv
<1>q. QueueFollows' /\ passes' = passes /\ UNCHANGED <<queued, asked>>
  BY DEF Sync!Stops, Sync!ownership, Sync!file, Sync!queue, Sync!Emptied, Sync!NeverLoaded,
     QueueFollows
<1>t. ProviderTyped'
  BY <1>q DEF Sync!Stops, Sync!ownership, Sync!file, Sync!queue, Sync!Emptied, Sync!NeverLoaded,
     ProviderTyped, Chunks
<1>c. CacheFollows'
  BY DEF Sync!Stops, Sync!ownership, Sync!file, Sync!queue, Sync!Emptied, Sync!NeverLoaded,
     ProviderTyped, CacheFollows
<1>p. ASSUME NEW t \in Tasks PROVE PassFollows(t)'
  <2>1. Beside(t)
    BY DEF Beside, Sync!Stops, Sync!ownership, Sync!file, Sync!queue, Sync!Emptied,
       Sync!NeverLoaded, ProviderTyped, CacheFollows
  <2> QED
    BY <1>q, <1>t, <2>1, PassStands
<1> QED
  BY <1>q, <1>t, <1>c, <1>p

\* Begins preserves the invariant.
LEMMA ProviderBegins == ASSUME ProviderInv, Sync!Begins PROVE ProviderInv'
<1> USE ProvidersAssumption, NoneIsNoUrl DEF ProviderInv
<1>q. /\ asked' \in BOOLEAN /\ queued' \in BOOLEAN /\ passes' \in [Tasks -> PassState]
      /\ QueueFollows'
      /\ \A t \in Tasks : passes'[t] = passes[t] \/ passes'[t].step = "waits"
  BY RequestQueues DEF Sync!Begins
<1>t. ProviderTyped'
  BY <1>q DEF Sync!Begins, Sync!ownership, Sync!file, Sync!queue, ProviderTyped, Chunks
<1>c. CacheFollows'
  BY DEF Sync!Begins, Sync!ownership, Sync!file, Sync!queue, ProviderTyped, CacheFollows
<1>p. ASSUME NEW t \in Tasks PROVE PassFollows(t)'
  <2>1. Beside(t)
    BY DEF Beside, Sync!Begins, Sync!ownership, Sync!file, Sync!queue, ProviderTyped, CacheFollows
  <2> QED
    BY <1>q, <1>t, <2>1, PassStands
<1> QED
  BY <1>q, <1>t, <1>c, <1>p

\* A step of one pass leaves the others what they are.
LEMMA OthersStand ==
  ASSUME ProviderTyped, ProviderTyped', CacheFollows, NEW t \in Tasks, NEW u \in Tasks \ {t},
         PassFollows(u), passes'[u] = passes[u],
         UNCHANGED <<windows, now, Sync!ownership, Sync!file>>
  PROVE  PassFollows(u)'
<1>1. Beside(u)
  BY DEF Beside, Sync!ownership, Sync!file, ProviderTyped
<1> QED
  BY <1>1, PassStands

\* What goes on from one step to another.
LEMMA PassGoes ==
  ASSUME ProviderTyped, NEW t \in Tasks,
         NEW s \in {"none", "waits", "pending", "done"} \cup UnderWay, Sync!Goes(t, s)
  PROVE  /\ passes' \in [Tasks -> PassState]
         /\ passes'[t].step = s /\ passes'[t].attempt = passes[t].attempt
         /\ passes'[t].url = passes[t].url /\ passes'[t].session = passes[t].session
         /\ passes'[t].data = passes[t].data /\ passes'[t].mtime = passes[t].mtime
         /\ passes'[t].len = passes[t].len
         /\ \A u \in Tasks \ {t} : passes'[u] = passes[u]
BY DEF ProviderTyped, PassState, Sync!Goes

\* A pass that has stopped or waits holds nothing.
LEMMA PassStops ==
  ASSUME NEW t \in Tasks, passes'[t].step \in {"none", "waits", "pending", "done"}
  PROVE  PassFollows(t)'
BY DEF PassFollows, Reading, UnderWay

\* The request stays in the queue when a pass goes on that has left it.
LEMMA QueueStands ==
  ASSUME QueueFollows, NEW t \in Tasks, passes[t].step # "waits", UNCHANGED <<queued, asked>>,
         \A u \in Tasks \ {t} : passes'[u] = passes[u]
  PROVE  QueueFollows'
BY DEF QueueFollows

\* What a step of a pass has to show for the invariant.
LEMMA PassKeeps ==
  ASSUME ProviderInv, NEW t \in Tasks, passes' \in [Tasks -> PassState],
         queued' \in BOOLEAN, asked' \in BOOLEAN, QueueFollows',
         \A u \in Tasks \ {t} : passes'[u] = passes[u],
         UNCHANGED <<windows, now, Sync!ownership, Sync!file>>, PassFollows(t)'
  PROVE  ProviderInv'
<1> USE DEF ProviderInv
<1>1. ProviderTyped'
  BY DEF ProviderTyped, Sync!ownership, Sync!file
<1>2. CacheFollows'
  BY DEF CacheFollows, Sync!ownership, Sync!file
<1>3. \A u \in Tasks : PassFollows(u)'
  BY <1>1, OthersStand
<1> QED
  BY <1>1, <1>2, <1>3

\* PassBegins preserves the invariant.
LEMMA ProviderPassBegins ==
  ASSUME ProviderInv, NEW t \in Tasks, Sync!PassBegins(t)
  PROVE  ProviderInv'
<1> USE DEF ProviderInv
<1>1. /\ passes[t].step = "waits" /\ asked' = FALSE
      /\ queued' \in BOOLEAN /\ (queued' => queued /\ passes[t].attempt # 1)
      /\ UNCHANGED <<windows, now, Sync!ownership, Sync!file>>
  <2>1. passes[t].attempt > 1 => passes[t].attempt # 1
    BY DEF ProviderTyped, PassState
  <2>2. queued' = (queued /\ passes[t].attempt > 1)
    BY DEF Sync!PassBegins
  <2>3. passes[t].step = "waits" /\ asked' = FALSE
        /\ UNCHANGED <<windows, now, Sync!ownership, Sync!file>>
    BY DEF Sync!PassBegins, Sync!At
  <2> QED
    BY Zenon, <2>1, <2>2, <2>3
<1>2. /\ passes' \in [Tasks -> PassState]
      /\ passes'[t].step \in {"done", "reads"} /\ passes'[t].data = <<>>
      /\ passes'[t].url = declared /\ passes'[t].session = session
      /\ \A u \in Tasks \ {t} : passes'[u] = passes[u]
  <2>1. passes[t] \in PassState /\ <<>> \in Seq(Chunks)
    BY DEF ProviderTyped
  <2> DEFINE p == [passes[t] EXCEPT !.step = IF session = 0 THEN "done" ELSE "reads",
                    !.url = declared, !.session = session, !.before = updatedAt.load,
                    !.data = <<>>, !.len = 0]
  <2>2. p \in PassState
    BY <2>1 DEF ProviderTyped, PassState, UnderWay, Reading
  <2>3. p.step \in {"done", "reads"} /\ p.data = <<>> /\ p.url = declared /\ p.session = session
    BY <2>1 DEF PassState
  <2>4. passes' = [passes EXCEPT ![t] = p]
    BY DEF Sync!PassBegins
  <2> HIDE DEF p
  <2> QED
    BY <2>2, <2>3, <2>4 DEF ProviderTyped
<1>3. QueueFollows'
  BY <1>1, <1>2 DEF QueueFollows
<1>4. PassFollows(t)'
  BY <1>1, <1>2 DEF PassFollows, Reading, UnderWay, ProviderTyped, Sync!ownership
<1> QED
  BY <1>1, <1>2, <1>3, <1>4, PassKeeps

\* Reads preserves the invariant.
LEMMA ProviderReads ==
  ASSUME ProviderInv, NEW t \in Tasks, Sync!Reads(t)
  PROVE  ProviderInv'
<1> USE NoneIsNoUrl, ProvidersAssumption DEF ProviderInv
<1> DEFINE p == passes[t]
           q == passes'[t]
<1>1. /\ p.step = "reads"
      /\ UNCHANGED <<windows, now, Sync!ownership, Sync!file, Sync!queue>>
  BY DEF Sync!Reads, Sync!At
<1>2. /\ p \in PassState /\ p.data \in Seq(Chunks) /\ Len(p.data) \in Nat /\ p.len \in Nat
      /\ cache \in Seq(Chunks) /\ Len(cache) \in Nat
  BY DEF ProviderTyped, PassState
<1>3. UNCHANGED <<queued, asked>>
  BY <1>1 DEF Sync!queue
<1>4. CASE Sync!Goes(t, "done") \/ Sync!Goes(t, "pending")
  <2>1. /\ passes' \in [Tasks -> PassState] /\ q.step \in {"done", "pending"}
        /\ \A u \in Tasks \ {t} : passes'[u] = passes[u]
    BY <1>4, PassGoes
  <2>2. PassFollows(t)'
    BY <2>1, PassStops
  <2>3. QueueFollows'
    BY <1>1, <1>3, <2>1, QueueStands
  <2> QED
    BY <1>1, <1>3, <2>1, <2>2, <2>3, PassKeeps DEF ProviderTyped
<1>5. CASE ~(Sync!Goes(t, "done") \/ Sync!Goes(t, "pending"))
  <2> DEFINE more == Len(p.data) < Len(cache)
             r == Sync!Fetched(p)
  <2>1. /\ p.session = session /\ cache # <<>> /\ Sync!HasSettled
        /\ p.data # <<>> => p.len = Len(cache) /\ p.mtime = mtime
        /\ passes' = [passes EXCEPT ![t] = r]
    <3>1. ~(p.session # session)
      BY <1>5 DEF Sync!Reads
    <3>2. ~(\/ cache = <<>> \/ ~Sync!HasSettled
            \/ p.data # <<>> /\ <<p.len, p.mtime>> # <<Len(cache), mtime>>)
      BY <1>5, <3>1 DEF Sync!Reads
    <3>3. passes' = [passes EXCEPT ![t] = r]
      BY <1>5, <3>1, <3>2 DEF Sync!Reads
    <3> QED
      BY <3>1, <3>2, <3>3
  <2>2. more => cache[Len(p.data) + 1] \in Chunks
    BY <1>2
  <2>3. r \in PassState
    <3> DEFINE read == IF more THEN Append(p.data, cache[Len(p.data) + 1]) ELSE p.data
    <3>1. read \in Seq(Chunks)
      BY <1>2, <2>2
    <3>2. r = [p EXCEPT !.len = Len(cache), !.mtime = mtime, !.data = read,
                 !.step = IF more THEN "reads" ELSE "looks"]
      BY DEF Sync!Fetched
    <3> HIDE DEF read, r
    <3> QED
      BY <1>2, <3>1, <3>2 DEF PassState, UnderWay, Reading, ProviderTyped
  <2>4. /\ r.len = Len(cache) /\ r.mtime = mtime /\ r.session = p.session /\ r.url = p.url
        /\ r.data = (IF more THEN Append(p.data, cache[Len(p.data) + 1]) ELSE p.data)
        /\ r.step = (IF more THEN "reads" ELSE "looks")
    BY <1>2 DEF PassState, Sync!Fetched
  <2> HIDE DEF r
  <2>5. /\ passes' \in [Tasks -> PassState] /\ q = r
        /\ \A u \in Tasks \ {t} : passes'[u] = passes[u]
    BY <2>1, <2>3 DEF ProviderTyped
  <2>6. QueueFollows'
    BY <1>1, <1>3, <2>5, QueueStands
  <2>7. mtime + Settle <= now /\ Len(cache) > 0
    BY <1>2, <2>1 DEF Sync!HasSettled, ProviderTyped
  <2>8. \A i \in 1..Len(cache) : cache[i] = cache[1]
    BY <2>7 DEF CacheFollows
  <2>9. p.data # <<>> => Len(p.data) > 0 /\ p.mtime = mtime /\ Holds(t) /\ p.len = Len(cache)
    BY <1>1, <1>2, <2>1 DEF PassFollows, Reading
  <2>10. r.data # <<>> /\ Len(r.data) \in Nat
         /\ Len(r.data) = (IF more THEN Len(p.data) + 1 ELSE Len(p.data))
    BY <1>2, <2>2, <2>4, <2>7
  <2>11. Len(r.data) <= r.len /\ (r.step = "looks" => Len(r.data) = r.len)
    <3>1. p.data # <<>> => Len(p.data) <= Len(cache)
      BY <2>9 DEF Holds
    <3>2. p.data = <<>> => Len(p.data) = 0
      OBVIOUS
    <3> QED
      BY <1>2, <2>4, <2>10, <3>1, <3>2
  <2>12. writer # "writing" => Len(cache) = 2 /\ r.len = 2
    BY <2>4, <2>7 DEF CacheFollows, ProviderTyped
  <2>13. writer # "writing" => \A i \in 1..Len(r.data) : r.data[i] = cache[1]
    <3> SUFFICES ASSUME writer # "writing", NEW i \in 1..Len(r.data) PROVE r.data[i] = cache[1]
      OBVIOUS
    <3>1. \A j \in 1..Len(p.data) : p.data[j] = cache[1]
      <4>1. CASE p.data = <<>>
        BY <4>1
      <4>2. CASE p.data # <<>>
        BY <2>9, <4>2 DEF Holds
      <4> QED
        BY <4>1, <4>2
    <3>2. CASE more
      <4>1. CASE i = Len(p.data) + 1
        BY <1>2, <2>2, <2>4, <2>8, <3>2, <4>1
      <4>2. CASE i # Len(p.data) + 1
        BY <1>2, <2>2, <2>4, <2>10, <3>1, <3>2, <4>2
      <4> QED
        BY <4>1, <4>2
    <3>3. CASE ~more
      BY <2>4, <3>1, <3>3
    <3> QED
      BY <3>2, <3>3
  <2>14. r.url = core /\ ~taken_back => r.data[1].url = core
    <3>1. CASE p.data = <<>>
      <4>1. cache[1].url = core
        BY <2>7 DEF CacheFollows, ProviderTyped
      <4>2. r.data[1] = cache[1]
        BY <1>2, <2>2, <2>4, <2>7, <3>1
      <4> QED
        BY <4>1, <4>2
    <3>2. CASE p.data # <<>>
      <4>1. r.data[1] = p.data[1]
        BY <1>2, <2>2, <2>4, <2>9, <3>2
      <4>2. p.url = core /\ ~taken_back => p.data[1].url = core
        BY <1>1, <2>1, <3>2 DEF PassFollows, Reading, UnderWay
      <4> QED
        BY <2>4, <4>1, <4>2
    <3> QED
      BY <3>1, <3>2
  <2>15. r.url \in Urls /\ r.session <= sessions
    BY <1>1, <2>4 DEF PassFollows, Reading, UnderWay
  <2>16. UNCHANGED <<now, mtime, writer, cache, core, session, sessions, taken_back>>
    BY <1>1 DEF Sync!ownership, Sync!file
  <2>17. Holds(t)'
    <3>1. r.mtime + Settle <= now /\ r.mtime <= mtime /\ Len(r.data) <= r.len
      BY <2>4, <2>7, <2>11 DEF ProviderTyped
    <3> HIDE DEF ProviderInv
    <3> QED
      BY <2>5, <2>12, <2>13, <2>16, <3>1 DEF Holds
  <2>18. PassFollows(t)'
    BY <2>4, <2>5, <2>10, <2>11, <2>14, <2>15, <2>16, <2>17 DEF PassFollows, Reading, UnderWay
  <2> QED
    BY <1>1, <1>3, <2>5, <2>6, <2>18, PassKeeps DEF ProviderTyped
<1> QED
  BY <1>4, <1>5

\* A pass that goes on to a step, or to none of those in which it holds something.
LEMMA PassSteps ==
  ASSUME ProviderInv, NEW t \in Tasks, passes[t].step # "waits",
         NEW s \in {"pending", "done"} \cup UnderWay, Sync!Goes(t, s),
         s \in UnderWay => passes[t].step \in Reading /\ PassFollows(t)',
         UNCHANGED <<windows, now, Sync!ownership, Sync!file, queued, asked>>
  PROVE  ProviderInv'
<1>1. /\ passes' \in [Tasks -> PassState] /\ passes'[t].step = s
      /\ \A u \in Tasks \ {t} : passes'[u] = passes[u]
  BY PassGoes DEF ProviderInv
<1>2. PassFollows(t)'
  BY <1>1, PassStops DEF UnderWay, Reading
<1>3. QueueFollows'
  BY <1>1, QueueStands DEF ProviderInv
<1> QED
  BY <1>1, <1>2, <1>3, PassKeeps DEF ProviderInv, ProviderTyped

\* LooksAgain preserves the invariant.
LEMMA ProviderLooksAgain ==
  ASSUME ProviderInv, NEW t \in Tasks, Sync!LooksAgain(t)
  PROVE  ProviderInv'
<1> DEFINE p == passes[t]
<1>1. /\ p.step = "looks" /\ (windows => writer # "writing")
      /\ UNCHANGED <<windows, now, Sync!ownership, Sync!file, queued, asked>>
  BY DEF Sync!LooksAgain, Sync!At, Sync!queue
<1>2. CASE Sync!Goes(t, "pending")
  BY <1>1, <1>2, PassSteps DEF UnderWay, Reading
<1>3. CASE Sync!Goes(t, "rechecks")
  <2>1. /\ passes'[t].step = "rechecks" /\ passes'[t].url = p.url
        /\ passes'[t].session = p.session /\ passes'[t].data = p.data
        /\ passes'[t].mtime = p.mtime /\ passes'[t].len = p.len
    BY <1>3, PassGoes DEF ProviderInv, UnderWay, Reading
  <2>2. /\ p.url \in Urls /\ p.session <= sessions /\ Holds(t) /\ p.data # <<>>
        /\ Len(p.data) = p.len
        /\ p.session = session /\ p.url = core /\ ~taken_back => p.data[1].url = core
    BY <1>1 DEF ProviderInv, PassFollows, UnderWay, Reading
  <2>3. p.mtime = mtime => Whole(p.data)
    <3> SUFFICES ASSUME p.mtime = mtime PROVE Whole(p.data)
      OBVIOUS
    <3>1. writer # "writing"
      <4>1. mtime + Settle <= now
        BY <2>2 DEF Holds
      <4> QED
        BY <1>1, <4>1, ProvidersAssumption DEF ProviderInv, ProviderTyped, CacheFollows
    <3>2. p.len = 2 /\ \A i \in 1..Len(p.data) : p.data[i] = cache[1]
      BY <2>2, <3>1 DEF Holds
    <3> QED
      BY <2>2, <3>2 DEF Whole
  <2>4. UNCHANGED <<now, mtime, writer, cache, core, session, sessions, taken_back>>
    BY <1>1 DEF Sync!ownership, Sync!file
  <2>5. Holds(t)'
    BY <2>1, <2>2, <2>4 DEF Holds
  <2>6. PassFollows(t)'
    BY <2>1, <2>2, <2>3, <2>4, <2>5 DEF PassFollows, UnderWay, Reading
  <2> QED
    BY <1>1, <1>3, <2>6, PassSteps DEF UnderWay, Reading
<1> QED
  BY <1>2, <1>3 DEF Sync!LooksAgain

\* RechecksIdentity preserves the invariant.
LEMMA ProviderRechecksIdentity ==
  ASSUME ProviderInv, NEW t \in Tasks, Sync!RechecksIdentity(t)
  PROVE  ProviderInv'
<1> DEFINE p == passes[t]
<1>1. /\ p.step = "rechecks"
      /\ UNCHANGED <<windows, now, Sync!ownership, Sync!file, queued, asked>>
  BY DEF Sync!RechecksIdentity, Sync!At, Sync!queue
<1>2. CASE Sync!Goes(t, "pending") \/ Sync!Goes(t, "done")
  BY <1>1, <1>2, PassSteps DEF UnderWay, Reading
<1>3. CASE Sync!Goes(t, "publishes") /\ p.mtime = mtime
  <2>1. /\ passes'[t].step = "publishes" /\ passes'[t].url = p.url
        /\ passes'[t].session = p.session /\ passes'[t].data = p.data
        /\ passes'[t].mtime = p.mtime /\ passes'[t].len = p.len
    BY <1>3, PassGoes DEF ProviderInv, UnderWay, Reading
  <2>2. /\ p.url \in Urls /\ p.session <= sessions /\ Whole(p.data) /\ p.data # <<>>
        /\ p.session = session /\ p.url = core /\ ~taken_back => p.data[1].url = core
    BY <1>1, <1>3 DEF ProviderInv, PassFollows, UnderWay, Reading
  <2>3. UNCHANGED <<now, mtime, writer, cache, core, session, sessions, taken_back>>
    BY <1>1 DEF Sync!ownership, Sync!file
  <2>4. PassFollows(t)'
    BY <2>1, <2>2, <2>3 DEF PassFollows, UnderWay, Reading
  <2> QED
    BY <1>1, <1>3, <2>4, PassSteps DEF UnderWay, Reading
<1> QED
  BY <1>2, <1>3 DEF Sync!RechecksIdentity

\* Publishes preserves the invariant.
LEMMA ProviderPublishes ==
  ASSUME ProviderInv, NEW t \in Tasks, Sync!Publishes(t)
  PROVE  ProviderInv'
<1>1. /\ passes[t].step = "publishes" /\ Sync!Goes(t, "done")
      /\ UNCHANGED <<windows, now, Sync!ownership, Sync!file, queued, asked>>
  BY DEF Sync!Publishes, Sync!At, Sync!queue
<1> QED
  BY <1>1, PassSteps DEF UnderWay, Reading

\* PassEnds preserves the invariant.
LEMMA ProviderPassEnds ==
  ASSUME ProviderInv, NEW t \in Tasks, Sync!PassEnds(t)
  PROVE  ProviderInv'
<1>1. /\ passes[t].step \in {"pending", "done"}
      /\ UNCHANGED <<windows, now, Sync!ownership, Sync!file, queued, asked>>
  BY DEF Sync!PassEnds, Sync!At
<1>2. Sync!NoPass \in PassState /\ Sync!NoPass.step = "none"
  <2>1. <<>> \in Seq(Chunks)
    OBVIOUS
  <2> QED
    BY <2>1 DEF Sync!NoPass, PassState
<1>3. /\ passes' \in [Tasks -> PassState] /\ passes'[t].step \in {"none", "waits"}
      /\ \A u \in Tasks \ {t} : passes'[u] = passes[u]
  <2> DEFINE next == [Sync!NoPass EXCEPT !.step = "waits", !.attempt = passes[t].attempt + 1]
  <2>1. next \in PassState /\ next.step = "waits"
    <3>1. passes[t].attempt + 1 \in Nat
      BY DEF ProviderInv, ProviderTyped, PassState
    <3> QED
      BY <1>2, <3>1 DEF PassState
  <2>2. \/ passes' = [passes EXCEPT ![t] = next]
        \/ passes' = [passes EXCEPT ![t] = Sync!NoPass]
    BY DEF Sync!PassEnds
  <2> HIDE DEF next
  <2> QED
    BY <1>2, <2>1, <2>2 DEF ProviderInv, ProviderTyped
<1>4. PassFollows(t)'
  BY <1>3, PassStops
<1>5. QueueFollows'
  BY <1>1, <1>3, QueueStands DEF ProviderInv
<1> QED
  BY <1>1, <1>3, <1>4, <1>5, PassKeeps DEF ProviderInv, ProviderTyped

\* The invariant holds at first.
LEMMA ProviderInit == ASSUME Sync!Init PROVE ProviderInv
<1> USE ProvidersAssumption, NoneIsNoUrl
<1>1. <<>> \in Seq(Chunks) /\ Len(<<>>) = 0 /\ Settle \in Nat
  OBVIOUS
<1>2. Sync!NoPass \in PassState /\ Sync!NoPass.step = "none"
  BY <1>1 DEF Sync!NoPass, PassState
<1>3. passes \in [Tasks -> PassState] /\ \A t \in Tasks : passes[t].step = "none"
  BY <1>2 DEF Sync!Init
<1>4. ProviderTyped
  <2>1. updatedAt \in [load : Nat, at : Nat]
    BY DEF Sync!Init, Sync!NeverLoaded
  <2>2. cache \in Seq(Chunks) /\ passes \in [Tasks -> PassState]
    BY <1>1, <1>3 DEF Sync!Init
  <2>3. /\ windows \in BOOLEAN /\ now = Settle /\ mtime = 0 /\ downloads = 0
        /\ declared \in Urls /\ core = declared /\ session = 1 /\ sessions = 1
        /\ change = None /\ writer = "none"
        /\ queued = FALSE /\ asked = FALSE /\ taken_back = FALSE
    BY DEF Sync!Init
  <2>4. core \in Urls \cup {None} /\ session <= sessions
        /\ writer \in {"none", "writing", "closed"} /\ change \in {None, "applying", "applied"}
    BY <2>3
  <2>5. now \in Nat /\ mtime \in Nat /\ downloads \in Nat /\ session \in Nat /\ sessions \in Nat
    BY <1>1, <2>3
  <2>6. queued \in BOOLEAN /\ asked \in BOOLEAN /\ taken_back \in BOOLEAN
    BY <2>3
  <2>7. windows \in BOOLEAN /\ declared \in Urls
    BY <2>3
  <2> QED
    BY <2>1, <2>2, <2>4, <2>5, <2>6, <2>7 DEF ProviderTyped
<1>5. CacheFollows
  BY <1>1 DEF Sync!Init, CacheFollows
<1>6. QueueFollows
  BY DEF Sync!Init, QueueFollows
<1>7. \A t \in Tasks : PassFollows(t)
  BY <1>3 DEF PassFollows, Reading, UnderWay
<1> QED
  BY <1>4, <1>5, <1>6, <1>7 DEF ProviderInv

\* Every step of the provider publication preserves the invariant.
LEMMA ProviderStep == ASSUME ProviderInv, Sync!Next PROVE ProviderInv'
<1>1. CASE Sync!Tick \/ Sync!Downloads \/ Sync!Writes \/ Sync!Loads
  BY <1>1, ProviderTick, ProviderDownloads, ProviderWrites, ProviderLoads
<1>2. CASE Sync!Asks \/ Sync!Applies \/ Sync!Applied \/ Sync!Commits \/ Sync!Stops \/ Sync!Begins
  BY <1>2, ProviderAsks, ProviderApplies, ProviderApplied, ProviderCommits, ProviderStops,
     ProviderBegins
<1>3. ASSUME NEW t \in Tasks, Sync!Pass(t) PROVE ProviderInv'
  BY <1>3, ProviderPassBegins, ProviderReads, ProviderLooksAgain, ProviderRechecksIdentity,
     ProviderPublishes, ProviderPassEnds DEF Sync!Pass
<1> QED
  BY <1>1, <1>2, <1>3 DEF Sync!Next

\* Nor does it go when the providers stay what they are.
LEMMA ProviderStutter == ASSUME ProviderInv, UNCHANGED providers_vars PROVE ProviderInv'
BY DEF ProviderInv, ProviderTyped, CacheFollows, QueueFollows, PassFollows, Holds, providers_vars

\* Only a pass that publishes changes the copy.
LEMMA OthersPublishNothing ==
  ASSUME Sync!Next, target' # target
  PROVE  \E t \in Tasks : Sync!Publishes(t)
<1>1. ~(Sync!Tick \/ Sync!Downloads \/ Sync!Writes \/ Sync!Loads)
  BY DEF Sync!Tick, Sync!Downloads, Sync!Writes, Sync!Loads
<1>2. ~(Sync!Asks \/ Sync!Applies \/ Sync!Applied)
  BY DEF Sync!Asks, Sync!Applies, Sync!Applied
<1>3. ~(Sync!Commits \/ Sync!Stops \/ Sync!Begins)
  BY DEF Sync!Commits, Sync!Stops, Sync!Begins
<1>4. ASSUME NEW t \in Tasks PROVE ~(Sync!PassBegins(t) \/ Sync!Reads(t) \/ Sync!LooksAgain(t))
  BY DEF Sync!PassBegins, Sync!Reads, Sync!LooksAgain
<1>5. ASSUME NEW t \in Tasks PROVE ~(Sync!RechecksIdentity(t) \/ Sync!PassEnds(t))
  BY DEF Sync!RechecksIdentity, Sync!PassEnds
<1> QED
  BY <1>1, <1>2, <1>3, <1>4, <1>5 DEF Sync!Next, Sync!Pass

\* A copy that is published is a whole download, of the provider the Core was given.
LEMMA CopiesAreWhole == ASSUME ProviderInv, Sync!Next PROVE Sync!PublishesLoaded
<1> SUFFICES ASSUME target' # target
             PROVE  /\ core # None
                    /\ Len(target') = 2 /\ target'[1] = target'[2]
                    /\ change = None /\ ~taken_back => target'[1].url = core
  BY DEF Sync!PublishesLoaded
<1>1. PICK t \in Tasks : Sync!Publishes(t)
  BY OthersPublishNothing
<1>2. /\ passes[t].step = "publishes"
      /\ core # None /\ passes[t].session = session /\ passes[t].url = declared
      /\ target' = passes[t].data
  BY <1>1 DEF Sync!Publishes, Sync!At
<1>3. Whole(passes[t].data)
  BY <1>2 DEF ProviderInv, PassFollows
<1>4. change = None => declared = core
  BY <1>2 DEF ProviderInv, CacheFollows
<1>5. passes[t].data # <<>>
  BY <1>3 DEF Whole
<1>6. change = None /\ ~taken_back => passes[t].data[1].url = core
  BY <1>2, <1>4, <1>5 DEF ProviderInv, PassFollows, UnderWay
<1> QED
  BY <1>2, <1>3, <1>6 DEF Whole

\* The inductive invariant of the bundle: a destination is of a file to copy or of one URL.
BundleFits ==
  /\ destinations = assets \cup {r.path : r \in remotes}
  /\ \A r \in remotes : r.path \notin assets
  /\ \A r \in remotes, s \in remotes : r.path = s.path => r = s
  /\ \A p \in rewritten : p.path \in destinations

\* A path that is copied, if it has no destination yet, fits.
LEMMA CopiesFit ==
  ASSUME BundleFits, NEW paths, Bundled!Copies(paths), remotes' = remotes,
         \A p \in rewritten' : p \in rewritten \/ p.path \in paths
  PROVE  BundleFits'
<1>1. /\ assets' = assets \cup (paths \ destinations)
      /\ destinations' = destinations \cup paths
  BY DEF Bundled!Copies
<1> QED
  BY <1>1 DEF BundleFits

\* Every step of the bundle preserves it.
LEMMA BundleStep == ASSUME BundleFits, Bundled!Next PROVE BundleFits'
<1>1. CASE Bundled!Remote
  <2> DEFINE source == [path |-> Bundled!Provider.path, url |-> Bundled!Provider.url]
  <2>1. assets' = assets
    BY <1>1 DEF Bundled!Remote
  <2>2. CASE UNCHANGED <<destinations, remotes, rewritten>>
    BY <2>1, <2>2 DEF BundleFits
  <2>3. CASE ~UNCHANGED <<destinations, remotes, rewritten>>
    <3>1. /\ ~Bundled!Taken
          /\ destinations' = destinations \cup {Bundled!Provider.path}
          /\ remotes' = remotes \cup {source}
          /\ rewritten' = rewritten \cup {Bundled!Provider}
      BY <1>1, <2>3 DEF Bundled!Remote, Bundled!Rewrites
    <3>2. source.path = Bundled!Provider.path
      OBVIOUS
    <3>3. \/ source \in remotes
          \/ Bundled!Provider.path \notin destinations
      BY <3>1 DEF Bundled!Taken
    <3> HIDE DEF source
    <3> QED
      BY <2>1, <3>1, <3>2, <3>3 DEF BundleFits
  <2> QED
    BY <2>2, <2>3
<1>2. CASE Bundled!Skip
  BY <1>2 DEF Bundled!Skip, BundleFits
<1>3. CASE Bundled!Local
  <2>1. /\ Bundled!Copies({Bundled!Provider.path}) /\ remotes' = remotes
        /\ rewritten' = rewritten \cup {Bundled!Provider}
    BY <1>3 DEF Bundled!Local, Bundled!Rewrites
  <2> QED
    BY <2>1, CopiesFit
<1>4. CASE Bundled!Bundle
  <2>1. Bundled!Copies(Geo \cap bundle_present) /\ remotes' = remotes /\ rewritten' = rewritten
    BY <1>4 DEF Bundled!Bundle
  <2> QED
    BY <2>1, CopiesFit
<1> QED
  BY <1>1, <1>2, <1>3, <1>4 DEF Bundled!Next

\* What is published of a provider is one whole download, of the provider the Core was given; a
\* request for a pass is not swallowed by one that had begun; and in a bundle each destination
\* has one source.
THEOREM ProvidersHold == Spec => ProvidersAreExact
<1> DEFINE SyncInv == part = "providers" => ProviderInv
           BundleInv == part = "bundle" => BundleFits
           Exact == /\ part = "providers" => Sync!PublishesLoaded /\ Sync!RequestsAreServed'
                    /\ part = "bundle" => Bundled!DestinationsAreExact'
<1>1. Init => SyncInv /\ BundleInv
  <2>1. Bundled!Init => BundleFits
    BY DEF Bundled!Init, BundleFits
  <2> QED
    BY <2>1, ProviderInit DEF Init
<1>2. SyncInv /\ [Next]_mcvars => SyncInv'
  <2> SUFFICES ASSUME SyncInv, [Next]_mcvars, part' = "providers" PROVE ProviderInv'
    OBVIOUS
  <2>1. part = "providers" /\ ProviderInv
    BY PartStays
  <2>2. CASE Sync!Next
    BY <2>1, <2>2, ProviderStep
  <2>3. CASE ~Sync!Next
    <3>1. UNCHANGED providers_vars
      BY <2>1, <2>3, Zenon DEF Next, mcvars
    <3> QED
      BY <2>1, <3>1, ProviderStutter
  <2> QED
    BY <2>2, <2>3
<1>3. BundleInv /\ [Next]_mcvars => BundleInv'
  <2> SUFFICES ASSUME BundleInv, [Next]_mcvars, part' = "bundle" PROVE BundleFits'
    OBVIOUS
  <2>1. part = "bundle" /\ BundleFits
    BY PartStays
  <2>2. CASE Bundled!Next
    BY <2>1, <2>2, BundleStep
  <2>3. CASE ~Bundled!Next
    <3>1. UNCHANGED bundle_vars
      BY <2>1, <2>3, Zenon DEF Next, mcvars
    <3> QED
      BY <2>1, <3>1 DEF BundleFits, bundle_vars
  <2> QED
    BY <2>2, <2>3
<1>4. ProviderInv => Sync!RequestsAreServed
  BY DEF ProviderInv, QueueFollows, Sync!RequestsAreServed, Sync!At
<1>5. BundleFits => Bundled!DestinationsAreExact
  <2> SUFFICES ASSUME BundleFits, outcome = "bundled"
               PROVE  /\ \A r \in remotes :
                           r.path \notin assets /\ \A s \in remotes : s.path = r.path => s = r
                      /\ \A p \in rewritten : p.path \in assets \cup {r.path : r \in remotes}
    BY DEF Bundled!DestinationsAreExact
  <2> QED
    BY DEF BundleFits
<1>6. SyncInv /\ SyncInv' /\ BundleInv' /\ [Next]_mcvars => [Exact]_mcvars
  <2> SUFFICES ASSUME SyncInv, SyncInv', BundleInv', Next, ~UNCHANGED mcvars PROVE Exact
    OBVIOUS
  <2>1. part' = part
    BY PartStays
  <2>2. ASSUME part = "providers" PROVE Sync!PublishesLoaded /\ Sync!RequestsAreServed'
    <3>1. Sync!Next
      BY <2>2, Zenon DEF Next
    <3>2. (ProviderInv => Sync!RequestsAreServed)'
      BY <1>4, PTL
    <3> QED
      BY <2>1, <2>2, <3>1, <3>2, CopiesAreWhole
  <2>3. ASSUME part = "bundle" PROVE Bundled!DestinationsAreExact'
    <3>1. (BundleFits => Bundled!DestinationsAreExact)'
      BY <1>5, PTL
    <3> QED
      BY <2>1, <2>3, <3>1
  <2> QED
    BY <2>2, <2>3
<1> QED
  BY <1>1, <1>2, <1>3, <1>6, PTL DEF Spec, ProvidersAreExact
=============================================================================
