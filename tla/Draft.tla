--------------------------------- MODULE Draft ---------------------------------
(***************************************************************************)
(* clash-verge-draft: layers of configuration shared by asynchronous tasks *)
(* on several threads.  A transactor claims several layers, stages an edit *)
(* in each and commits or rolls back; a modifier replaces committed data   *)
(* after an asynchronous edit (with_data_modify); a writer edits a draft   *)
(* and applies or discards it without claiming anything.  Each section     *)
(* under a layer's mutex and each atomic operation is one step.  A task    *)
(* makes one call: a caller that comes back is another task.               *)
(***************************************************************************)
EXTENDS DraftLayer, Sequences

CONSTANTS
  Layers,        \* the configuration layers
  Transactors,   \* tasks that run a DraftTransaction
  Modifiers,     \* tasks that call with_data_modify
  Writers,       \* tasks that edit and apply without a claim
  LayersOf       \* the layers each task names, in the order it names them

Tasks == Transactors \cup Modifiers \cup Writers

\* A task has one role, and its edit is named after it; only a transaction
\* names more than one layer, and none names a layer twice.
ASSUME RolesAssumption ==
  /\ Tasks \subseteq Edits
  /\ Transactors \cap Modifiers = {}
  /\ Transactors \cap Writers = {}
  /\ Modifiers \cap Writers = {}
ASSUME LayersOfAssumption ==
  /\ LayersOf \in [Tasks -> Seq(Layers)]
  /\ \A t \in Tasks :
       /\ Len(LayersOf[t]) >= 1
       /\ \A i, j \in 1 .. Len(LayersOf[t]) :
            LayersOf[t][i] = LayersOf[t][j] => i = j

VARIABLES
  layer,      \* committed data and draft of each layer
  claimed,    \* the claim flag of each layer
  modifying,  \* the data_modifying flag of each layer
  permit,     \* a notify_one that found nobody waiting
  pc,         \* where each task is
  first,      \* a transaction holds the claims of its layers from first ...
  last,       \* ... to last
  at,         \* how many of its layers a transaction has edited or applied
  read        \* the committed data a modifier started from

vars == <<layer, claimed, modifying, permit, pc, first, last, at, read>>

-----------------------------------------------------------------------------
Width(t) == Len(LayersOf[t])
Named(t) == {LayersOf[t][i] : i \in 1 .. Width(t)}

\* The only layer of a modifier or a writer.
LayerOf(t) == LayersOf[t][1]

TransactionSteps ==
  {"idle", "claiming", "unclaiming", "busy", "staging", "committing",
   "releasing", "discarding", "freeing", "committed", "rolledBack"}
ModifySteps ==
  {"idle", "fast", "trying", "parking", "parked", "reading", "changing",
   "unlocking", "notifying", "done"}
WriteSteps == {"idle", "edited", "done"}

Goto(t, step) == pc' = [pc EXCEPT ![t] = step]

\* The claims a transaction has taken and not yet released.
Held(t) == {LayersOf[t][i] : i \in first[t] .. last[t]}

Waiting(l) == {m \in Modifiers : LayerOf(m) = l /\ pc[m] = "parked"}

Init ==
  /\ layer = [l \in Layers |-> NewLayer]
  /\ claimed = [l \in Layers |-> FALSE]
  /\ modifying = [l \in Layers |-> FALSE]
  /\ permit = [l \in Layers |-> FALSE]
  /\ pc = [t \in Tasks |-> "idle"]
  /\ first = [t \in Transactors |-> 1]
  /\ last = [t \in Transactors |-> 0]
  /\ at = [t \in Transactors |-> 0]
  /\ read = [m \in Modifiers |-> [committed |-> {}, identity |-> 0]]

-----------------------------------------------------------------------------
(* DraftTransaction *)

Begin(t) ==
  /\ pc[t] = "idle"
  /\ Goto(t, "claiming")
  /\ UNCHANGED <<layer, claimed, modifying, permit, first, last, at, read>>

TryClaim(t) ==
  /\ pc[t] = "claiming"
  /\ LET l == LayersOf[t][last[t] + 1] IN
       /\ ~claimed[l]
       /\ claimed' = [claimed EXCEPT ![l] = TRUE]
  /\ last' = [last EXCEPT ![t] = last[t] + 1]
  /\ Goto(t, IF last[t] + 1 = Width(t) THEN "staging" ELSE "claiming")
  /\ UNCHANGED <<layer, modifying, permit, first, at, read>>

\* Someone else holds the next layer: release what was claimed, report Busy.
ClaimRefused(t) ==
  /\ pc[t] = "claiming"
  /\ claimed[LayersOf[t][last[t] + 1]]
  /\ Goto(t, IF last[t] = 0 THEN "busy" ELSE "unclaiming")
  /\ UNCHANGED <<layer, claimed, modifying, permit, first, last, at, read>>

\* Releases the first layer still held.
ReleaseNext(t, whenMore, whenLast) ==
  /\ claimed' = [claimed EXCEPT ![LayersOf[t][first[t]]] = FALSE]
  /\ first' = [first EXCEPT ![t] = first[t] + 1]
  /\ Goto(t, IF first[t] = last[t] THEN whenLast ELSE whenMore)
  /\ UNCHANGED <<layer, modifying, permit, last, at, read>>

ReleasePartialClaim(t) ==
  /\ pc[t] = "unclaiming"
  /\ ReleaseNext(t, "unclaiming", "busy")

\* The caller stages its change layer after layer.
Stage(t) ==
  /\ pc[t] = "staging"
  /\ at[t] < Width(t)
  /\ LET l == LayersOf[t][at[t] + 1] IN
       layer' = [layer EXCEPT ![l] = EditDraft(layer[l], t)]
  /\ at' = [at EXCEPT ![t] = at[t] + 1]
  /\ UNCHANGED <<claimed, modifying, permit, pc, first, last, read>>

Commit(t) ==
  /\ pc[t] = "staging"
  /\ at[t] = Width(t)
  /\ at' = [at EXCEPT ![t] = 0]
  /\ Goto(t, "committing")
  /\ UNCHANGED <<layer, claimed, modifying, permit, first, last, read>>

ApplyNext(t) ==
  /\ pc[t] = "committing"
  /\ LET l == LayersOf[t][at[t] + 1] IN
       layer' = [layer EXCEPT ![l] = ApplyDraft(layer[l])]
  /\ at' = [at EXCEPT ![t] = at[t] + 1]
  /\ Goto(t, IF at[t] + 1 = Width(t) THEN "releasing" ELSE "committing")
  /\ UNCHANGED <<claimed, modifying, permit, first, last, read>>

\* Dropping a committed transaction only releases.
DropCommitted(t) ==
  /\ pc[t] = "releasing"
  /\ ReleaseNext(t, "releasing", "committed")

\* An error return, an early return or rollback drops it uncommitted.
Rollback(t) ==
  /\ pc[t] = "staging"
  /\ Goto(t, "discarding")
  /\ UNCHANGED <<layer, claimed, modifying, permit, first, last, at, read>>

\* Mutation of DiscardNext: the layer is released with its draft in place.
DiscardNothing(t) ==
  /\ pc[t] = "discarding"
  /\ Goto(t, "freeing")
  /\ UNCHANGED <<layer, claimed, modifying, permit, first, last, at, read>>

DiscardNext(t) ==
  /\ pc[t] = "discarding"
  /\ LET l == LayersOf[t][first[t]] IN
       layer' = [layer EXCEPT ![l] = DiscardDraft(layer[l])]
  /\ Goto(t, "freeing")
  /\ UNCHANGED <<claimed, modifying, permit, first, last, at, read>>

DropUncommitted(t) ==
  /\ pc[t] = "freeing"
  /\ ReleaseNext(t, "discarding", "rolledBack")

-----------------------------------------------------------------------------
(* with_data_modify *)

StartModify(m) ==
  /\ pc[m] = "idle"
  /\ Goto(m, "fast")
  /\ UNCHANGED <<layer, claimed, modifying, permit, first, last, at, read>>

TakePermit(m) ==
  /\ ~modifying[LayerOf(m)]
  /\ modifying' = [modifying EXCEPT ![LayerOf(m)] = TRUE]
  /\ Goto(m, "reading")

\* One attempt before a yield, then the attempts of the loop, each of which
\* fails into the poll of the notified() created before it.
Acquire(m) ==
  /\ \/ pc[m] \in {"fast", "trying"} /\ TakePermit(m)
     \/ /\ modifying[LayerOf(m)]
        /\ \/ pc[m] = "fast" /\ Goto(m, "trying")
           \/ pc[m] = "trying" /\ Goto(m, "parking")
        /\ UNCHANGED modifying
  /\ UNCHANGED <<layer, claimed, permit, first, last, at, read>>

\* Mutation of Park: the stored permit is not looked at.
ParkAnyway(m) ==
  /\ pc[m] = "parking"
  /\ Goto(m, "parked")
  /\ UNCHANGED <<layer, claimed, modifying, permit, first, last, at, read>>

\* A permit stored by an earlier notify_one ends the wait at once.
Park(m) ==
  /\ pc[m] = "parking"
  /\ permit' = [permit EXCEPT ![LayerOf(m)] = FALSE]
  /\ Goto(m, IF permit[LayerOf(m)] THEN "trying" ELSE "parked")
  /\ UNCHANGED <<layer, claimed, modifying, first, last, at, read>>

ReadCommitted(m) ==
  /\ pc[m] = "reading"
  /\ LET s == layer[LayerOf(m)] IN
       read' = [read EXCEPT ![m] = [committed |-> s.committed, identity |-> s.identity]]
  /\ Goto(m, "changing")
  /\ UNCHANGED <<layer, claimed, modifying, permit, first, last, at>>

\* Mutation of Store: the committed Arc is replaced without comparing it.
StoreUncompared(m) ==
  /\ pc[m] = "changing"
  /\ LET l == LayerOf(m) IN
       layer' = [layer EXCEPT ![l] = ReplaceCommitted(layer[l], read[m].committed \cup {m})]
  /\ Goto(m, "unlocking")
  /\ UNCHANGED <<claimed, modifying, permit, first, last, at, read>>

\* The edit succeeded and the committed Arc is still the one it started from.
Store(m) ==
  /\ pc[m] = "changing"
  /\ LET l == LayerOf(m) IN
       /\ layer[l].identity = read[m].identity
       /\ layer' = [layer EXCEPT ![l] = ReplaceCommitted(layer[l], read[m].committed \cup {m})]
  /\ Goto(m, "unlocking")
  /\ UNCHANGED <<claimed, modifying, permit, first, last, at, read>>

\* The edit failed, or the committed data changed under it.
GiveUp(m) ==
  /\ pc[m] = "changing"
  /\ Goto(m, "unlocking")
  /\ UNCHANGED <<layer, claimed, modifying, permit, first, last, at, read>>

\* Dropping the permit: the flag first, the notification after it.
Unlock(m) ==
  /\ pc[m] = "unlocking"
  /\ modifying' = [modifying EXCEPT ![LayerOf(m)] = FALSE]
  /\ Goto(m, "notifying")
  /\ UNCHANGED <<layer, claimed, permit, first, last, at, read>>

\* Mutation of NotifyOne: a notification nobody waits for is lost.
NotifyWaitingOnly(m) ==
  /\ pc[m] = "notifying"
  /\ IF Waiting(LayerOf(m)) = {}
     THEN Goto(m, "done")
     ELSE \E w \in Waiting(LayerOf(m)) :
            pc' = [pc EXCEPT ![m] = "done", ![w] = "trying"]
  /\ UNCHANGED <<layer, claimed, modifying, permit, first, last, at, read>>

\* Wakes one task that waits, whichever, or stores the notification.
NotifyOne(m) ==
  /\ pc[m] = "notifying"
  /\ IF Waiting(LayerOf(m)) = {}
     THEN /\ permit' = [permit EXCEPT ![LayerOf(m)] = TRUE]
          /\ Goto(m, "done")
     ELSE /\ \E w \in Waiting(LayerOf(m)) :
               pc' = [pc EXCEPT ![m] = "done", ![w] = "trying"]
          /\ UNCHANGED permit
  /\ UNCHANGED <<layer, claimed, modifying, first, last, at, read>>

-----------------------------------------------------------------------------
(* edit_draft, apply and discard without a claim *)

DirectEdit(w) ==
  /\ pc[w] = "idle"
  /\ layer' = [layer EXCEPT ![LayerOf(w)] = EditDraft(layer[LayerOf(w)], w)]
  /\ Goto(w, "edited")
  /\ UNCHANGED <<claimed, modifying, permit, first, last, at, read>>

DirectApply(w) ==
  /\ pc[w] = "edited"
  /\ layer' = [layer EXCEPT ![LayerOf(w)] = ApplyDraft(layer[LayerOf(w)])]
  /\ Goto(w, "done")
  /\ UNCHANGED <<claimed, modifying, permit, first, last, at, read>>

DirectDiscard(w) ==
  /\ pc[w] = "edited"
  /\ layer' = [layer EXCEPT ![LayerOf(w)] = DiscardDraft(layer[LayerOf(w)])]
  /\ Goto(w, "done")
  /\ UNCHANGED <<claimed, modifying, permit, first, last, at, read>>

-----------------------------------------------------------------------------
Transact(t) ==
  \/ Begin(t) \/ TryClaim(t) \/ ClaimRefused(t) \/ ReleasePartialClaim(t)
  \/ Stage(t) \/ Commit(t) \/ ApplyNext(t) \/ DropCommitted(t)
  \/ Rollback(t) \/ DiscardNext(t) \/ DropUncommitted(t)

Modify(m) ==
  \/ StartModify(m) \/ Acquire(m) \/ Park(m) \/ ReadCommitted(m)
  \/ Store(m) \/ GiveUp(m) \/ Unlock(m) \/ NotifyOne(m)

Write(w) == DirectEdit(w) \/ DirectApply(w) \/ DirectDiscard(w)

Next ==
  \/ \E t \in Transactors : Transact(t)
  \/ \E m \in Modifiers : Modify(m)
  \/ \E w \in Writers : Write(w)

Spec == Init /\ [][Next]_vars

\* The runtime keeps polling a task that is ready, and an edit ends.
FairSpec == Spec /\ \A m \in Modifiers : WF_vars(Modify(m) /\ pc[m] # "idle")

-----------------------------------------------------------------------------
\* Layers, flags, program counters and positions have their types; the claims
\* a transaction holds are an interval of its layers.
TypeOK ==
  /\ layer \in [Layers -> LayerState]
  /\ claimed \in [Layers -> BOOLEAN]
  /\ modifying \in [Layers -> BOOLEAN]
  /\ permit \in [Layers -> BOOLEAN]
  /\ pc \in [Tasks -> TransactionSteps \cup ModifySteps \cup WriteSteps]
  /\ \A t \in Transactors : pc[t] \in TransactionSteps
  /\ \A m \in Modifiers : pc[m] \in ModifySteps
  /\ \A w \in Writers : pc[w] \in WriteSteps
  /\ first \in [Transactors -> Nat \ {0}]
  /\ last \in [Transactors -> Nat]
  /\ at \in [Transactors -> Nat]
  /\ \A t \in Transactors :
       first[t] <= last[t] + 1 /\ last[t] <= Width(t) /\ at[t] <= Width(t)
  /\ read \in [Modifiers -> [committed : SUBSET Edits, identity : Nat]]

\* A layer is claimed exactly while one transaction holds its claim: two never
\* stage in the same draft, and no refused, failed or finished transaction
\* leaves a claim behind (DraftTransaction::begin and Drop).
ClaimsAreHeld ==
  \A l \in Layers :
    /\ claimed[l] <=> \E t \in Transactors : l \in Held(t)
    /\ \A t, u \in Transactors : l \in Held(t) /\ l \in Held(u) => t = u

\* The steps of a modifier that holds the permit.
WithPermit == {"reading", "changing", "unlocking"}

\* One with_data_modify at a time per layer, and the flag says so
\* (try_acquire_data_modify_permit).
PermitIsHeld ==
  \A l \in Layers :
    /\ modifying[l] <=> \E m \in Modifiers : LayerOf(m) = l /\ pc[m] \in WithPermit
    /\ \A m, n \in Modifiers :
         LayerOf(m) = l /\ LayerOf(n) = l /\ pc[m] \in WithPermit /\ pc[n] \in WithPermit
           => m = n

\* While a task sleeps on a layer whose permit is free, another is about to
\* notify it or to take the permit, which it will give back: no wakeup is lost
\* between a failed attempt and the wait (acquire_data_modify_permit).
NoLostWakeup ==
  \A l \in Layers :
    Waiting(l) # {} /\ ~modifying[l]
      => \E m \in Modifiers : LayerOf(m) = l /\ pc[m] \in {"notifying", "trying"}

\* Committed edits vanish only under a draft that is applied: what
\* with_data_modify stores keeps everything committed while its asynchronous
\* edit ran.
OnlyDraftsOverwrite ==
  [][\A l \in Layers :
       \/ layer[l].committed \subseteq layer'[l].committed
       \/ layer'[l] = ApplyDraft(layer[l])]_vars

\* A transaction that has not committed is not visible in committed data, and
\* one that rolled back has left nothing in a draft either (Drop).
RollbackLeavesNoTrace ==
  \A t \in Transactors, l \in Layers :
    /\ t \in layer[l].committed => pc[t] \in {"committing", "releasing", "committed"}
    /\ pc[t] = "rolledBack" => t \notin Latest(layer[l])

\* A committed transaction has landed in every layer it named, and stays there
\* whatever later transactions and modifiers do (commit).
CommitLandsEverywhere ==
  \A t \in Transactors :
    pc[t] = "committed" => \A l \in Named(t) : t \in layer[l].committed

\* A with_data_modify that was called returns.
ModifiersReturn == \A m \in Modifiers : pc[m] = "fast" ~> pc[m] = "done"
=============================================================================
