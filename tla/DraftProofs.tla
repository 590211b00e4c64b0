------------------------------ MODULE DraftProofs ------------------------------
(***************************************************************************)
(* What holds of Draft for any layers, any tasks in the three roles and    *)
(* any order in which a transaction names its layers.                      *)
(***************************************************************************)
EXTENDS Draft, TLAPS

Pos(t) == 1 .. Width(t)

\* A task names layers, at least one, and the positions it names are numbers.
LEMMA Naming ==
  ASSUME NEW t \in Tasks
  PROVE  /\ Width(t) \in Nat /\ Width(t) >= 1
         /\ \A i \in Pos(t) : LayersOf[t][i] \in Layers
         /\ LayerOf(t) \in Layers
         /\ \A i, j \in Pos(t) : LayersOf[t][i] = LayersOf[t][j] => i = j
BY LayersOfAssumption DEF Width, Pos, LayerOf

\* How far a transaction has got in each step: the claims it holds are a
\* prefix while it begins, all of them while it stages and commits, and a
\* suffix while it is dropped.
Progress ==
  \A t \in Transactors :
    /\ pc[t] = "idle" => first[t] = 1 /\ last[t] = 0 /\ at[t] = 0
    /\ pc[t] = "claiming" => first[t] = 1 /\ last[t] < Width(t) /\ at[t] = 0
    /\ pc[t] = "unclaiming" => first[t] <= last[t] /\ last[t] < Width(t)
    /\ pc[t] \in {"busy", "committed", "rolledBack"} => first[t] = last[t] + 1
    /\ pc[t] \in {"staging", "committing"} => first[t] = 1 /\ last[t] = Width(t)
    /\ pc[t] = "committing" => at[t] < Width(t)
    /\ pc[t] \in {"releasing", "discarding", "freeing"}
         => first[t] <= last[t] /\ last[t] = Width(t)

Typed == TypeOK /\ Progress

\* What the operations on a layer return is a layer.
LEMMA LayerValues ==
  /\ NewLayer \in LayerState
  /\ \A s \in LayerState :
       /\ Latest(s) \in SUBSET Edits
       /\ \A e \in Edits : EditDraft(s, e) \in LayerState
       /\ ApplyDraft(s) \in LayerState
       /\ DiscardDraft(s) \in LayerState
       /\ \A v \in SUBSET Edits : ReplaceCommitted(s, v) \in LayerState
<1>1. NewLayer \in LayerState
  BY DEF NewLayer, LayerState
<1> SUFFICES ASSUME NEW s \in LayerState
             PROVE  /\ Latest(s) \in SUBSET Edits
                    /\ \A e \in Edits : EditDraft(s, e) \in LayerState
                    /\ ApplyDraft(s) \in LayerState
                    /\ DiscardDraft(s) \in LayerState
                    /\ \A v \in SUBSET Edits : ReplaceCommitted(s, v) \in LayerState
  BY <1>1
<1>2. Latest(s) \in SUBSET Edits
  BY DEF LayerState, Latest
<1>3. \A e \in Edits : EditDraft(s, e) \in LayerState
  BY <1>2 DEF LayerState, EditDraft
<1>4. ApplyDraft(s) \in LayerState
  BY DEF LayerState, ApplyDraft
<1>5. DiscardDraft(s) \in LayerState
  BY DEF LayerState, DiscardDraft
<1>6. \A v \in SUBSET Edits : ReplaceCommitted(s, v) \in LayerState
  <2>1. s.identity + 1 \in Nat
    BY DEF LayerState
  <2> QED
    BY <2>1 DEF LayerState, ReplaceCommitted
<1> QED BY <1>2, <1>3, <1>4, <1>5, <1>6

LEMMA TypedInit == Init => Typed
BY LayerValues, Naming, RolesAssumption
DEF Init, Typed, TypeOK, Progress, Tasks, TransactionSteps, ModifySteps, WriteSteps

\* Releasing a claim keeps the types.
LEMMA ReleaseTyped ==
  ASSUME TypeOK, NEW t \in Transactors, first[t] <= last[t],
         NEW whenMore \in TransactionSteps, NEW whenLast \in TransactionSteps,
         ReleaseNext(t, whenMore, whenLast)
  PROVE  TypeOK'
<1> USE RolesAssumption DEF TypeOK, ReleaseNext
<1>1. claimed' \in [Layers -> BOOLEAN]
  OBVIOUS
<1>2. /\ first' \in [Transactors -> Nat \ {0}]
      /\ \A u \in Transactors : first'[u] <= last[u] + 1
  <2>1. first[t] + 1 \in Nat \ {0} /\ first[t] + 1 <= last[t] + 1
    OBVIOUS
  <2> QED
    BY <2>1
<1>3. /\ pc' \in [Tasks -> TransactionSteps \cup ModifySteps \cup WriteSteps]
      /\ \A u \in Transactors : pc'[u] \in TransactionSteps
      /\ \A m \in Modifiers : pc'[m] \in ModifySteps
      /\ \A w \in Writers : pc'[w] \in WriteSteps
  BY DEF Goto, Tasks
<1>4. \A u \in Transactors : Width(u)' = Width(u)
  BY DEF Width
<1> QED
  BY <1>1, <1>2, <1>3, <1>4

\* A step of a transaction keeps the types and the positions.
LEMMA TransactTyped ==
  ASSUME Typed, NEW t \in Transactors, Transact(t)
  PROVE  Typed'
<1> USE RolesAssumption DEF Typed, TypeOK, Goto, TransactionSteps
<1>a. /\ t \in Tasks /\ t \in Edits /\ t \notin Modifiers /\ t \notin Writers
      /\ \A u \in Transactors : u \in Tasks
  BY DEF Tasks
<1>b. \A u \in Transactors : Width(u) \in Nat /\ Width(u) >= 1 /\ Width(u)' = Width(u)
  BY <1>a, Naming DEF Width
<1>c. \A i \in Pos(t) : LayersOf[t][i] \in Layers
  BY <1>a, Naming
<1>1. CASE Begin(t)
  BY <1>1, <1>a, <1>b DEF Begin, Progress
<1>2. CASE TryClaim(t)
  <2>1. last[t] + 1 \in Nat /\ last[t] + 1 <= Width(t) /\ first[t] = 1 /\ at[t] = 0
    BY <1>2, <1>b DEF TryClaim, Progress
  <2>2. /\ claimed' \in [Layers -> BOOLEAN]
        /\ last' = [last EXCEPT ![t] = last[t] + 1]
        /\ pc' = [pc EXCEPT ![t] = IF last[t] + 1 = Width(t) THEN "staging" ELSE "claiming"]
        /\ UNCHANGED <<layer, modifying, permit, first, at, read>>
    BY <1>2 DEF TryClaim
  <2>3. TypeOK'
    BY <2>1, <2>2, <1>a, <1>b
  <2>4. Progress'
    BY <2>1, <2>2, <1>a, <1>b DEF Progress
  <2> QED
    BY <2>3, <2>4
<1>3. CASE ClaimRefused(t)
  BY <1>3, <1>a, <1>b DEF ClaimRefused, Progress
<1>4. CASE ReleasePartialClaim(t)
  <2>1. TypeOK'
    BY <1>4, ReleaseTyped DEF ReleasePartialClaim, Progress
  <2>2. Progress'
    BY <1>4, <1>a, <1>b DEF ReleasePartialClaim, ReleaseNext, Progress
  <2> QED
    BY <2>1, <2>2
<1>5. CASE Stage(t)
  <2>1. at[t] + 1 \in Pos(t)
    BY <1>5, <1>b DEF Stage, Progress, Pos
  <2>2. layer' \in [Layers -> LayerState]
    BY <1>5, <1>a, <1>c, <2>1, LayerValues DEF Stage
  <2> QED
    BY <1>5, <2>2, <1>a, <1>b DEF Stage, Progress
<1>6. CASE Commit(t)
  BY <1>6, <1>a, <1>b DEF Commit, Progress
<1>7. CASE ApplyNext(t)
  <2>1. at[t] + 1 \in Pos(t)
    BY <1>7, <1>b DEF ApplyNext, Progress, Pos
  <2>2. layer' \in [Layers -> LayerState]
    BY <1>7, <1>a, <1>c, <2>1, LayerValues DEF ApplyNext
  <2> QED
    BY <1>7, <2>2, <1>a, <1>b DEF ApplyNext, Progress
<1>8. CASE DropCommitted(t)
  <2>1. TypeOK'
    BY <1>8, ReleaseTyped DEF DropCommitted, Progress
  <2>2. Progress'
    BY <1>8, <1>a, <1>b DEF DropCommitted, ReleaseNext, Progress
  <2> QED
    BY <2>1, <2>2
<1>9. CASE Rollback(t)
  BY <1>9, <1>a, <1>b DEF Rollback, Progress
<1>10. CASE DiscardNext(t)
  <2>1. first[t] \in Pos(t)
    BY <1>10, <1>b DEF DiscardNext, Progress, Pos
  <2>2. layer' \in [Layers -> LayerState]
    BY <1>10, <1>a, <1>c, <2>1, LayerValues DEF DiscardNext
  <2> QED
    BY <1>10, <2>2, <1>a, <1>b DEF DiscardNext, Progress
<1>11. CASE DropUncommitted(t)
  <2>1. TypeOK'
    BY <1>11, ReleaseTyped DEF DropUncommitted, Progress
  <2>2. Progress'
    BY <1>11, <1>a, <1>b DEF DropUncommitted, ReleaseNext, Progress
  <2> QED
    BY <2>1, <2>2
<1> QED
  BY <1>1, <1>2, <1>3, <1>4, <1>5, <1>6, <1>7, <1>8, <1>9, <1>10, <1>11 DEF Transact

\* So does a step of a modifier, which leaves the transactions alone.
LEMMA ModifyTyped ==
  ASSUME Typed, NEW m \in Modifiers, Modify(m)
  PROVE  Typed'
<1> USE RolesAssumption DEF Typed, TypeOK, Goto, ModifySteps
<1>a. /\ m \in Tasks /\ m \in Edits /\ m \notin Transactors /\ m \notin Writers
      /\ LayerOf(m) \in Layers
      /\ \A n \in Modifiers : n \in Tasks /\ n \notin Transactors /\ n \notin Writers
  BY Naming DEF Tasks
<1>b. /\ UNCHANGED <<first, last, at>>
      /\ \A u \in Tasks \ Modifiers : pc'[u] = pc[u]
  BY <1>a DEF Modify, StartModify, Acquire, TakePermit, Park, ReadCommitted,
              Store, GiveUp, Unlock, NotifyOne, Waiting
<1>c. Progress'
  BY <1>b DEF Progress, Tasks, Width
<1>d. pc' \in [Tasks -> TransactionSteps \cup ModifySteps \cup WriteSteps]
      /\ \A n \in Modifiers : pc'[n] \in ModifySteps
  BY <1>a DEF Modify, StartModify, Acquire, TakePermit, Park, ReadCommitted,
              Store, GiveUp, Unlock, NotifyOne, Waiting
<1>e. /\ \A u \in Transactors : pc'[u] \in TransactionSteps /\ Width(u)' = Width(u)
      /\ \A w \in Writers : pc'[w] \in WriteSteps
  BY <1>b DEF Tasks, Width
<1>1. CASE StartModify(m)
  BY <1>1, <1>a, <1>b, <1>c, <1>d, <1>e DEF StartModify
<1>2. CASE Acquire(m)
  BY <1>2, <1>a, <1>b, <1>c, <1>d, <1>e DEF Acquire, TakePermit
<1>3. CASE Park(m)
  BY <1>3, <1>a, <1>b, <1>c, <1>d, <1>e DEF Park
<1>4. CASE ReadCommitted(m)
  BY <1>4, <1>a, <1>b, <1>c, <1>d, <1>e DEF ReadCommitted, LayerState
<1>5. CASE Store(m)
  <2>1. layer' \in [Layers -> LayerState]
    BY <1>5, <1>a, LayerValues DEF Store
  <2> QED
    BY <1>5, <2>1, <1>a, <1>b, <1>c, <1>d, <1>e DEF Store
<1>6. CASE GiveUp(m)
  BY <1>6, <1>a, <1>b, <1>c, <1>d, <1>e DEF GiveUp
<1>7. CASE Unlock(m)
  BY <1>7, <1>a, <1>b, <1>c, <1>d, <1>e DEF Unlock
<1>8. CASE NotifyOne(m)
  BY <1>8, <1>a, <1>b, <1>c, <1>d, <1>e DEF NotifyOne, Waiting
<1> QED
  BY <1>1, <1>2, <1>3, <1>4, <1>5, <1>6, <1>7, <1>8 DEF Modify

\* A writer's step keeps them too.
LEMMA WriteTyped ==
  ASSUME Typed, NEW w \in Writers, Write(w)
  PROVE  Typed'
<1> USE RolesAssumption DEF Typed, TypeOK, Goto, WriteSteps
<1>a. /\ w \in Tasks /\ w \in Edits /\ LayerOf(w) \in Layers
      /\ w \notin Transactors /\ w \notin Modifiers
  BY Naming DEF Tasks
<1>1. layer' \in [Layers -> LayerState]
  <2>1. CASE DirectEdit(w)
    BY <2>1, <1>a, LayerValues DEF DirectEdit
  <2>2. CASE DirectApply(w)
    BY <2>2, <1>a, LayerValues DEF DirectApply
  <2>3. CASE DirectDiscard(w)
    BY <2>3, <1>a, LayerValues DEF DirectDiscard
  <2> QED
    BY <2>1, <2>2, <2>3 DEF Write
<1>2. /\ pc' \in [Tasks -> TransactionSteps \cup ModifySteps \cup WriteSteps]
      /\ \A u \in Tasks \ {w} : pc'[u] = pc[u]
      /\ pc'[w] \in WriteSteps
      /\ UNCHANGED <<claimed, modifying, permit, first, last, at, read>>
  BY <1>a DEF Write, DirectEdit, DirectApply, DirectDiscard
<1>3. /\ \A t \in Transactors : pc'[t] = pc[t] /\ Width(t)' = Width(t)
      /\ \A m \in Modifiers : pc'[m] = pc[m]
      /\ \A v \in Writers : pc'[v] \in WriteSteps
  BY <1>a, <1>2 DEF Tasks, Width
<1>4. Progress'
  BY <1>2, <1>3 DEF Progress
<1> QED
  BY <1>1, <1>2, <1>3, <1>4

LEMMA TypedStep == Typed /\ [Next]_vars => Typed'
<1> SUFFICES ASSUME Typed, [Next]_vars PROVE Typed'
  OBVIOUS
<1>1. CASE UNCHANGED vars
  BY <1>1 DEF vars, Typed, TypeOK, Progress, Width
<1> QED
  BY <1>1, TransactTyped, ModifyTyped, WriteTyped DEF Next

\* Layers, flags, program counters and positions keep their types, and the
\* claims a transaction holds are an interval of the layers it names.
THEOREM TypeCorrect == Spec => []TypeOK
<1>1. Typed => TypeOK
  BY DEF Typed
<1> QED
  BY <1>1, TypedInit, TypedStep, PTL DEF Spec

LEMMA AlwaysTyped == Spec => []Typed
BY TypedInit, TypedStep, PTL DEF Spec

-----------------------------------------------------------------------------
\* Outside TryClaim and the releases, no claim changes hands.
LEMMA ClaimsUntouched ==
  ASSUME ClaimsAreHeld, UNCHANGED <<claimed, first, last>>
  PROVE  ClaimsAreHeld'
BY DEF ClaimsAreHeld, Held

\* A release gives up the claim of exactly the first layer still held.
LEMMA ReleaseGivesUpOne ==
  ASSUME Typed, ClaimsAreHeld, NEW t \in Transactors,
         first[t] <= last[t], last[t] <= Width(t),
         NEW whenMore, NEW whenLast, ReleaseNext(t, whenMore, whenLast)
  PROVE  ClaimsAreHeld'
<1> DEFINE l == LayersOf[t][first[t]]
<1>1. /\ t \in Tasks
      /\ first[t] \in Pos(t) /\ first[t] \in first[t] .. last[t]
      /\ first[t] .. last[t] \subseteq Pos(t)
      /\ first'[t] .. last'[t] = (first[t] .. last[t]) \ {first[t]}
      /\ \A u \in Transactors \ {t} : first'[u] = first[u] /\ last'[u] = last[u]
  BY Naming DEF Typed, TypeOK, Tasks, ReleaseNext, Pos
<1>2. l \in Layers /\ l \in Held(t)
  BY <1>1, Naming DEF Held
<1>3. ~claimed'[l] /\ \A k \in Layers \ {l} : claimed'[k] = claimed[k]
  BY <1>2 DEF ReleaseNext, Typed, TypeOK
<1>4. Held(t)' = Held(t) \ {l}
  BY <1>1, Naming DEF Held
<1>5. \A u \in Transactors \ {t} : Held(u)' = Held(u) /\ l \notin Held(u)
  BY <1>1, <1>2 DEF Held, ClaimsAreHeld
<1> HIDE DEF l
<1>6. ASSUME NEW k \in Layers
      PROVE  /\ claimed'[k] <=> \E u \in Transactors : k \in Held(u)'
             /\ \A u, v \in Transactors : k \in Held(u)' /\ k \in Held(v)' => u = v
  <2>1. CASE k = l
    BY <2>1, <1>3, <1>2, <1>4, <1>5 DEF ClaimsAreHeld
  <2>2. CASE k # l
    <3>1. \A u \in Transactors : k \in Held(u)' <=> k \in Held(u)
      BY <2>2, <1>4, <1>5
    <3>2. claimed'[k] = claimed[k]
      BY <2>2, <1>3
    <3> QED
      BY <3>1, <3>2 DEF ClaimsAreHeld
  <2> QED
    BY <2>1, <2>2
<1> QED
  BY <1>6 DEF ClaimsAreHeld

\* TryClaim takes a claim that nobody holds.
LEMMA ClaimTakesOne ==
  ASSUME Typed, ClaimsAreHeld, NEW t \in Transactors, TryClaim(t)
  PROVE  ClaimsAreHeld'
<1> DEFINE l == LayersOf[t][last[t] + 1]
<1>1. /\ t \in Tasks
      /\ last[t] + 1 \in Pos(t)
      /\ first'[t] .. last'[t] = (first[t] .. last[t]) \cup {last[t] + 1}
      /\ \A u \in Transactors \ {t} : first'[u] = first[u] /\ last'[u] = last[u]
      /\ ~claimed[l]
  BY Naming DEF Typed, TypeOK, Progress, Tasks, TryClaim, Pos
<1>2. l \in Layers /\ \A u \in Transactors : l \notin Held(u)
  BY <1>1, Naming DEF ClaimsAreHeld
<1>3. claimed'[l] /\ \A k \in Layers \ {l} : claimed'[k] = claimed[k]
  BY <1>2 DEF TryClaim, Typed, TypeOK
<1>4. Held(t)' = Held(t) \cup {l}
  BY <1>1 DEF Held
<1>5. \A u \in Transactors \ {t} : Held(u)' = Held(u)
  BY <1>1 DEF Held
<1> HIDE DEF l
<1>6. ASSUME NEW k \in Layers
      PROVE  /\ claimed'[k] <=> \E u \in Transactors : k \in Held(u)'
             /\ \A u, v \in Transactors : k \in Held(u)' /\ k \in Held(v)' => u = v
  <2>1. CASE k = l
    BY <2>1, <1>3, <1>2, <1>4, <1>5 DEF ClaimsAreHeld
  <2>2. CASE k # l
    <3>1. \A u \in Transactors : k \in Held(u)' <=> k \in Held(u)
      BY <2>2, <1>4, <1>5
    <3>2. claimed'[k] = claimed[k]
      BY <2>2, <1>3
    <3> QED
      BY <3>1, <3>2 DEF ClaimsAreHeld
  <2> QED
    BY <2>1, <2>2
<1> QED
  BY <1>6 DEF ClaimsAreHeld

LEMMA ClaimsStep ==
  ASSUME Typed, ClaimsAreHeld, [Next]_vars
  PROVE  ClaimsAreHeld'
<1>1. CASE UNCHANGED vars
  BY <1>1, ClaimsUntouched DEF vars
<1>2. ASSUME NEW t \in Transactors, Transact(t) PROVE ClaimsAreHeld'
  <2>1. CASE TryClaim(t)
    BY <2>1, ClaimTakesOne
  <2>2. CASE ReleasePartialClaim(t)
    BY <2>2, ReleaseGivesUpOne DEF ReleasePartialClaim, Typed, TypeOK, Progress
  <2>3. CASE DropCommitted(t)
    BY <2>3, ReleaseGivesUpOne DEF DropCommitted, Typed, TypeOK, Progress
  <2>4. CASE DropUncommitted(t)
    BY <2>4, ReleaseGivesUpOne DEF DropUncommitted, Typed, TypeOK, Progress
  <2> QED
    BY <1>2, <2>1, <2>2, <2>3, <2>4, ClaimsUntouched
    DEF Transact, Begin, ClaimRefused, Stage, Commit, ApplyNext, Rollback, DiscardNext
<1>3. ASSUME NEW m \in Modifiers, Modify(m) PROVE ClaimsAreHeld'
  BY <1>3, ClaimsUntouched
  DEF Modify, StartModify, Acquire, Park, ReadCommitted, Store, GiveUp, Unlock, NotifyOne
<1>4. ASSUME NEW w \in Writers, Write(w) PROVE ClaimsAreHeld'
  BY <1>4, ClaimsUntouched DEF Write, DirectEdit, DirectApply, DirectDiscard
<1> QED
  BY <1>1, <1>2, <1>3, <1>4 DEF Next

\* A layer is claimed exactly while one transaction holds its claim, whatever
\* the orders in which transactions name their layers.
THEOREM ClaimsExact == Spec => []ClaimsAreHeld
<1>1. Init => ClaimsAreHeld
  BY DEF Init, ClaimsAreHeld, Held
<1>2. Typed /\ ClaimsAreHeld /\ [Next]_vars => ClaimsAreHeld'
  BY ClaimsStep
<1> QED
  BY <1>1, <1>2, AlwaysTyped, PTL DEF Spec

-----------------------------------------------------------------------------
\* Who holds a permit changes only with the flag.
LEMMA PermitUntouched ==
  ASSUME PermitIsHeld, UNCHANGED modifying,
         \A n \in Modifiers : pc'[n] \in WithPermit <=> pc[n] \in WithPermit
  PROVE  PermitIsHeld'
BY DEF PermitIsHeld

\* Tasks in the other roles are not modifiers, and do not move them.
LEMMA ModifiersAtRest ==
  ASSUME Typed, [Next]_vars, ~ \E m \in Modifiers : Modify(m)
  PROVE  /\ UNCHANGED <<modifying, permit, read>>
         /\ \A n \in Modifiers : pc'[n] = pc[n]
<1> USE DEF Goto, ReleaseNext
<1>1. CASE UNCHANGED vars
  BY <1>1 DEF vars
<1>2. ASSUME NEW t \in Transactors, Transact(t)
      PROVE  UNCHANGED <<modifying, permit, read>> /\ \A n \in Modifiers : pc'[n] = pc[n]
  <2>1. \A n \in Modifiers : n # t /\ n \in Tasks
    BY RolesAssumption DEF Tasks
  <2>2. UNCHANGED <<modifying, permit, read>>
    BY <1>2 DEF Transact, Begin, TryClaim, ClaimRefused, ReleasePartialClaim, Stage, Commit,
                ApplyNext, DropCommitted, Rollback, DiscardNext, DropUncommitted
  <2>3. pc' = pc \/ \E step : pc' = [pc EXCEPT ![t] = step]
    BY <1>2 DEF Transact, Begin, TryClaim, ClaimRefused, ReleasePartialClaim, Stage, Commit,
                ApplyNext, DropCommitted, Rollback, DiscardNext, DropUncommitted
  <2> QED
    BY <2>1, <2>2, <2>3 DEF Typed, TypeOK
<1>3. ASSUME NEW w \in Writers, Write(w)
      PROVE  UNCHANGED <<modifying, permit, read>> /\ \A n \in Modifiers : pc'[n] = pc[n]
  <2>1. \A n \in Modifiers : n # w /\ n \in Tasks
    BY RolesAssumption DEF Tasks
  <2> QED
    BY <1>3, <2>1 DEF Typed, TypeOK, Write, DirectEdit, DirectApply, DirectDiscard
<1> QED
  BY <1>1, <1>2, <1>3 DEF Next

\* What the proofs about a modifier need of its types.
LEMMA ModifierTypes ==
  ASSUME Typed, NEW m \in Modifiers, Modify(m)
  PROVE  /\ LayerOf(m) \in Layers
         /\ pc \in [Tasks -> TransactionSteps \cup ModifySteps \cup WriteSteps]
         /\ \A n \in Modifiers : n \in Tasks
         /\ modifying \in [Layers -> BOOLEAN] /\ permit \in [Layers -> BOOLEAN]
BY Naming DEF Typed, TypeOK, Tasks

LEMMA PermitStep ==
  ASSUME Typed, PermitIsHeld, NEW m \in Modifiers, Modify(m)
  PROVE  PermitIsHeld'
<1> USE DEF Goto, WithPermit
<1> DEFINE l == LayerOf(m)
<1> USE ModifierTypes
<1>1. CASE Acquire(m) /\ TakePermit(m)
  <2>1. /\ ~modifying[l] /\ modifying' = [modifying EXCEPT ![l] = TRUE]
        /\ pc' = [pc EXCEPT ![m] = "reading"]
    BY <1>1 DEF TakePermit
  <2>2. \A n \in Modifiers : LayerOf(n) = l => pc[n] \notin WithPermit
    BY <2>1 DEF PermitIsHeld
  <2> QED
    BY <2>1, <2>2 DEF PermitIsHeld
<1>2. CASE Unlock(m)
  <2>1. /\ pc[m] = "unlocking" /\ modifying' = [modifying EXCEPT ![l] = FALSE]
        /\ pc' = [pc EXCEPT ![m] = "notifying"]
    BY <1>2 DEF Unlock
  <2>2. \A n \in Modifiers \ {m} : LayerOf(n) = l => pc[n] \notin WithPermit
    BY <2>1 DEF PermitIsHeld
  <2> QED
    BY <2>1, <2>2 DEF PermitIsHeld
<1>3. CASE ~Unlock(m) /\ ~(Acquire(m) /\ TakePermit(m))
  <2>1. /\ UNCHANGED modifying
        /\ \A n \in Modifiers : pc'[n] \in WithPermit <=> pc[n] \in WithPermit
    BY <1>3 DEF Modify, StartModify, Acquire, Park, ReadCommitted, Store, GiveUp, NotifyOne, Waiting
  <2> QED
    BY <2>1, PermitUntouched
<1> QED
  BY <1>1, <1>2, <1>3

\* One with_data_modify at a time holds the permit of a layer, and the flag
\* data_modifying is set exactly while one does.
THEOREM PermitExact == Spec => []PermitIsHeld
<1>1. Init => PermitIsHeld
  BY DEF Init, PermitIsHeld, WithPermit, Tasks
<1>2. Typed /\ PermitIsHeld /\ [Next]_vars => PermitIsHeld'
  BY PermitStep, ModifiersAtRest, PermitUntouched
<1> QED
  BY <1>1, <1>2, AlwaysTyped, PTL DEF Spec

-----------------------------------------------------------------------------
\* A task that has failed its attempt and is about to sleep needs waking as
\* much as one asleep: the notification may be stored for it instead.
Wakeup ==
  \A l \in Layers :
    /\ permit[l] => Waiting(l) = {}
    /\ (\E m \in Modifiers : LayerOf(m) = l /\ pc[m] \in {"parking", "parked"}) /\ ~modifying[l]
         => \/ permit[l]
            \/ \E m \in Modifiers : LayerOf(m) = l /\ pc[m] \in {"notifying", "trying"}

LEMMA WakeupStep ==
  ASSUME Typed, Wakeup, NEW m \in Modifiers, Modify(m)
  PROVE  Wakeup'
<1> USE DEF Goto, Waiting
<1> USE ModifierTypes
<1>1. CASE StartModify(m)
  BY <1>1 DEF Wakeup, StartModify
<1>2. CASE Acquire(m)
  BY <1>2 DEF Wakeup, Acquire, TakePermit
<1>3. CASE Park(m)
  BY <1>3 DEF Wakeup, Park
<1>4. CASE ReadCommitted(m)
  BY <1>4 DEF Wakeup, ReadCommitted
<1>5. CASE Store(m)
  BY <1>5 DEF Wakeup, Store
<1>6. CASE GiveUp(m)
  BY <1>6 DEF Wakeup, GiveUp
<1>7. CASE Unlock(m)
  BY <1>7 DEF Wakeup, Unlock
<1>8. CASE NotifyOne(m)
  BY <1>8 DEF Wakeup, NotifyOne
<1> QED
  BY <1>1, <1>2, <1>3, <1>4, <1>5, <1>6, <1>7, <1>8 DEF Modify

\* While a task sleeps on a layer whose permit is free, another is about to
\* notify it or to take the permit: no wakeup is lost.
THEOREM NoWakeupLost == Spec => []NoLostWakeup
<1>1. Init => Wakeup
  BY DEF Init, Wakeup, Waiting, Tasks
<1>2. Typed /\ Wakeup /\ [Next]_vars => Wakeup'
  BY WakeupStep, ModifiersAtRest DEF Wakeup, Waiting
<1>3. Wakeup => NoLostWakeup
  BY DEF Wakeup, NoLostWakeup, Waiting
<1> QED
  BY <1>1, <1>2, <1>3, AlwaysTyped, PTL DEF Spec

-----------------------------------------------------------------------------
\* Each operation on a layer leaves the committed data alone or gives it a
\* later identity.
LEMMA LayerMoves ==
  ASSUME NEW s \in LayerState
  PROVE  /\ s.identity \in Nat
         /\ \A e \in Edits : /\ EditDraft(s, e).committed = s.committed
                             /\ EditDraft(s, e).identity = s.identity
                             /\ EditDraft(s, e).draft = Latest(s) \cup {e}
         /\ /\ DiscardDraft(s).committed = s.committed
            /\ DiscardDraft(s).identity = s.identity
            /\ DiscardDraft(s).draft = NoDraft
         /\ s.draft = NoDraft => ApplyDraft(s) = s
         /\ s.draft # NoDraft => /\ ApplyDraft(s).committed = s.draft
                                 /\ ApplyDraft(s).identity = s.identity + 1
                                 /\ ApplyDraft(s).draft = NoDraft
         /\ \A v \in SUBSET Edits : /\ ReplaceCommitted(s, v).committed = v
                                     /\ ReplaceCommitted(s, v).identity = s.identity + 1
                                     /\ ReplaceCommitted(s, v).draft = s.draft
BY DEF LayerState, EditDraft, DiscardDraft, ApplyDraft, ReplaceCommitted

\* What a step may do to the layers.
LayerMove(l) ==
  \/ layer'[l] = layer[l]
  \/ \E e \in Edits : layer'[l] = EditDraft(layer[l], e)
  \/ layer'[l] = DiscardDraft(layer[l])
  \/ layer'[l] = ApplyDraft(layer[l])
  \/ \E m \in Modifiers :
       /\ LayerOf(m) = l /\ pc[m] = "changing"
       /\ layer[l].identity = read[m].identity
       /\ layer'[l] = ReplaceCommitted(layer[l], read[m].committed \cup {m})

LEMMA EveryLayerMove ==
  ASSUME Typed, [Next]_vars, NEW l \in Layers
  PROVE  LayerMove(l)
<1> USE DEF LayerMove, Typed, TypeOK
<1>1. CASE UNCHANGED vars
  BY <1>1 DEF vars
<1>2. ASSUME NEW t \in Transactors, Transact(t) PROVE LayerMove(l)
  <2>1. t \in Edits
    BY RolesAssumption DEF Tasks
  <2>2. CASE Stage(t)
    BY <2>1, <2>2 DEF Stage
  <2>3. CASE ApplyNext(t)
    BY <2>3 DEF ApplyNext
  <2>4. CASE DiscardNext(t)
    BY <2>4 DEF DiscardNext
  <2> QED
    BY <1>2, <2>2, <2>3, <2>4
    DEF Transact, Begin, TryClaim, ClaimRefused, ReleasePartialClaim, ReleaseNext, Commit,
        DropCommitted, Rollback, DropUncommitted
<1>3. ASSUME NEW m \in Modifiers, Modify(m) PROVE LayerMove(l)
  <2>1. CASE Store(m)
    BY <2>1 DEF Store
  <2> QED
    BY <1>3, <2>1
    DEF Modify, StartModify, Acquire, Park, ReadCommitted, GiveUp, Unlock, NotifyOne
<1>4. ASSUME NEW w \in Writers, Write(w) PROVE LayerMove(l)
  <2>1. w \in Edits
    BY RolesAssumption DEF Tasks
  <2> QED
    BY <1>4, <2>1 DEF Write, DirectEdit, DirectApply, DirectDiscard
<1> QED
  BY <1>1, <1>2, <1>3, <1>4 DEF Next

\* Seen from the committed data: unchanged, replaced by the draft, or replaced
\* by a modifier that compared identities.
LEMMA CommittedMoves ==
  ASSUME Typed, [Next]_vars, NEW l \in Layers
  PROVE  \/ /\ layer'[l].committed = layer[l].committed
            /\ layer'[l].identity = layer[l].identity
         \/ /\ layer'[l] = ApplyDraft(layer[l])
            /\ layer'[l].identity = layer[l].identity + 1
         \/ \E m \in Modifiers :
              /\ LayerOf(m) = l /\ pc[m] = "changing"
              /\ layer[l].identity = read[m].identity
              /\ layer'[l].committed = read[m].committed \cup {m}
              /\ layer'[l].identity = layer[l].identity + 1
<1>1. layer[l] \in LayerState
  BY DEF Typed, TypeOK
<1>2. \A n \in Modifiers : read[n].committed \cup {n} \in SUBSET Edits
  BY RolesAssumption DEF Typed, TypeOK, Tasks
<1>3. CASE layer'[l] = layer[l]
  BY <1>3
<1>4. CASE \E e \in Edits : layer'[l] = EditDraft(layer[l], e)
  BY <1>1, <1>4, LayerMoves
<1>5. CASE layer'[l] = DiscardDraft(layer[l])
  BY <1>1, <1>5, LayerMoves
<1>6. CASE layer'[l] = ApplyDraft(layer[l])
  BY <1>1, <1>6, LayerMoves
<1>7. ASSUME NEW m \in Modifiers,
             layer'[l] = ReplaceCommitted(layer[l], read[m].committed \cup {m})
      PROVE  /\ layer'[l].committed = read[m].committed \cup {m}
             /\ layer'[l].identity = layer[l].identity + 1
  BY <1>1, <1>2, <1>7, LayerMoves
<1>8. LayerMove(l)
  BY EveryLayerMove
<1> QED
  BY <1>3, <1>4, <1>5, <1>6, <1>7, <1>8 DEF LayerMove

\* The identity a modifier remembers is not of the future, and while it is the
\* current one, so is the data.
ReadIsKnown ==
  \A m \in Modifiers :
    pc[m] = "changing" =>
      /\ read[m].identity <= layer[LayerOf(m)].identity
      /\ read[m].identity = layer[LayerOf(m)].identity
           => read[m].committed = layer[LayerOf(m)].committed

LEMMA ReadIsKnownStep ==
  ASSUME Typed, ReadIsKnown, [Next]_vars
  PROVE  ReadIsKnown'
<1> SUFFICES ASSUME NEW m \in Modifiers, pc'[m] = "changing"
             PROVE  /\ read'[m].identity <= layer'[LayerOf(m)].identity
                    /\ read'[m].identity = layer'[LayerOf(m)].identity
                         => read'[m].committed = layer'[LayerOf(m)].committed
  BY DEF ReadIsKnown
<1> DEFINE l == LayerOf(m)
<1>1. /\ m \in Tasks /\ l \in Layers /\ layer[l] \in LayerState
      /\ read[m].identity \in Nat /\ layer[l].identity \in Nat
  BY Naming DEF Tasks, Typed, TypeOK, LayerState
<1>2. CASE ReadCommitted(m)
  BY <1>1, <1>2 DEF ReadCommitted, Typed, TypeOK
<1>3. CASE ~ReadCommitted(m)
  <2>1. pc[m] = "changing" /\ read'[m] = read[m]
    <3>1. CASE \E n \in Modifiers : Modify(n)
      <4>1. PICK n \in Modifiers : Modify(n)
        BY <3>1
      <4>2. CASE ReadCommitted(n)
        BY <1>1, <1>3, <4>2 DEF ReadCommitted, Goto, Typed, TypeOK
      <4> QED
        BY <1>1, <4>1, <4>2
        DEF Modify, StartModify, Acquire, TakePermit, Park, Store, GiveUp, Unlock, NotifyOne,
            Waiting, Goto, Typed, TypeOK
    <3> QED
      BY <3>1, ModifiersAtRest
  <2>2. \/ layer'[l].identity = layer[l].identity /\ layer'[l].committed = layer[l].committed
        \/ layer'[l].identity = layer[l].identity + 1
    BY <1>1, CommittedMoves
  <2> QED
    BY <1>1, <2>1, <2>2 DEF ReadIsKnown
<1> QED
  BY <1>2, <1>3

LEMMA AlwaysKnown == Spec => [](Typed /\ ReadIsKnown)
<1>1. Init => ReadIsKnown
  BY DEF Init, ReadIsKnown, Tasks
<1>2. Typed /\ ReadIsKnown /\ [Next]_vars => ReadIsKnown'
  BY ReadIsKnownStep
<1> QED
  BY <1>1, <1>2, AlwaysTyped, PTL DEF Spec

\* Committed edits vanish only under a draft that is applied: comparing the
\* committed Arc is enough for with_data_modify to overwrite nothing.
THEOREM NothingOverwritten == Spec => OnlyDraftsOverwrite
<1> DEFINE Kept ==
      \A l \in Layers :
        \/ layer[l].committed \subseteq layer'[l].committed
        \/ layer'[l] = ApplyDraft(layer[l])
<1>1. ASSUME Typed, ReadIsKnown, [Next]_vars PROVE Kept
  <2> SUFFICES ASSUME NEW l \in Layers
               PROVE  \/ layer[l].committed \subseteq layer'[l].committed
                      \/ layer'[l] = ApplyDraft(layer[l])
    OBVIOUS
  <2>1. ASSUME NEW m \in Modifiers, LayerOf(m) = l, pc[m] = "changing",
               layer[l].identity = read[m].identity
        PROVE  layer[l].committed = read[m].committed
    BY <1>1, <2>1 DEF ReadIsKnown
  <2> QED
    BY <1>1, <2>1, CommittedMoves
<1>2. Typed /\ ReadIsKnown /\ [Next]_vars => [Kept]_vars
  BY <1>1
<1> QED
  BY <1>2, AlwaysKnown, PTL DEF Spec, OnlyDraftsOverwrite

-----------------------------------------------------------------------------
\* The steps in which what a transaction staged may still be in a draft.
Staging == {"staging", "committing", "discarding", "freeing"}

\* Uncommitted edits of a transaction are in no committed data.
Unseen ==
  \A t \in Transactors, l \in Layers :
    t \in layer[l].committed => pc[t] \in {"committing", "releasing", "committed"}

\* They are in a draft only while the transaction holds the claim of its layer,
\* and no longer once the layer is discarded.
UnderClaim(t, l) ==
  layer[l].draft # NoDraft /\ t \in layer[l].draft /\ t \notin layer[l].committed
    => /\ l \in Held(t) /\ pc[t] \in Staging
       /\ pc[t] = "freeing" => l # LayersOf[t][first[t]]

StagedUnderClaim == \A t \in Transactors, l \in Layers : UnderClaim(t, l)

\* A draft knows what transactions committed before it.
DraftIsCurrent ==
  \A t \in Transactors, l \in Layers :
    layer[l].draft # NoDraft /\ t \in layer[l].committed => t \in layer[l].draft

\* What a transaction staged is still there when it commits, and what it
\* applied stays.
Landed(t, i) ==
  LET s == layer[LayersOf[t][i]] IN
    /\ pc[t] = "staging" /\ i <= at[t] => s.draft # NoDraft /\ t \in s.draft
    /\ pc[t] = "committing" /\ i > at[t] => s.draft # NoDraft /\ t \in s.draft
    /\ pc[t] = "committing" /\ i <= at[t] => t \in s.committed
    /\ pc[t] \in {"releasing", "committed"} => t \in s.committed

Landing == \A t \in Transactors : \A i \in 1 .. Width(t) : Landed(t, i)

Isolated == Unseen /\ StagedUnderClaim /\ DraftIsCurrent /\ Landing

Claimed == Typed /\ ClaimsAreHeld

\* What the proofs about a transaction's step need of its types.
LEMMA TransactionFacts ==
  ASSUME Claimed, NEW t \in Transactors
  PROVE  /\ t \in Tasks /\ t \in Edits
         /\ Width(t) \in Nat /\ first[t] \in Nat /\ last[t] \in Nat /\ at[t] \in Nat
         /\ at[t] <= Width(t)
         /\ \A i \in 1 .. Width(t) :
              /\ LayersOf[t][i] \in Layers /\ layer[LayersOf[t][i]] \in LayerState
              /\ \A j \in 1 .. Width(t) : LayersOf[t][i] = LayersOf[t][j] => i = j
         /\ pc[t] \in {"staging", "committing"} =>
              \A i \in 1 .. Width(t) : LayersOf[t][i] \in Held(t)
         /\ pc[t] \in {"discarding", "freeing"} =>
              first[t] \in 1 .. Width(t) /\ LayersOf[t][first[t]] \in Held(t)
BY Naming, RolesAssumption DEF Claimed, Typed, TypeOK, Progress, Tasks, Pos, Held

\* Steps that move one transaction and leave the layers alone.
MovesAlone(t, step) ==
  /\ UNCHANGED layer
  /\ pc' = [pc EXCEPT ![t] = step]
  /\ \A u \in Transactors \ {t} :
       first'[u] = first[u] /\ last'[u] = last[u] /\ at'[u] = at[u]

\* While another transaction moves, what is said of this one stays true.
LEMMA OthersKeep ==
  ASSUME Claimed, NEW t \in Transactors, NEW step, MovesAlone(t, step), NEW u \in Transactors \ {t}
  PROVE  pc'[u] = pc[u] /\ first'[u] = first[u] /\ at'[u] = at[u] /\ Held(u)' = Held(u)
<1>1. u \in Tasks /\ t \in Tasks
  BY DEF Tasks
<1> QED
  BY <1>1 DEF Claimed, Typed, TypeOK, MovesAlone, Held

\* A transaction that has staged nothing yet, or whose drafts are gone, is
\* nowhere: it may go from one such step to another.
Nowhere ==
  {"idle", "claiming", "unclaiming", "busy", "rolledBack"}

LEMMA NothingStaged ==
  ASSUME Claimed, Isolated, NEW t \in Transactors, pc[t] \in Nowhere,
         NEW step \in Nowhere \cup {"staging"}, MovesAlone(t, step),
         step = "staging" => at'[t] = 0
  PROVE  Isolated'
<1>1. t \in Tasks /\ pc'[t] = step
  BY DEF Tasks, Claimed, Typed, TypeOK, MovesAlone
<1>2. \A l \in Layers :
        /\ t \notin layer[l].committed
        /\ ~(layer[l].draft # NoDraft /\ t \in layer[l].draft)
  BY DEF Isolated, Unseen, StagedUnderClaim, UnderClaim, Staging, Nowhere
<1>3. Unseen'
  BY <1>1, <1>2, OthersKeep DEF MovesAlone, Isolated, Unseen
<1>4. StagedUnderClaim'
  <2> SUFFICES ASSUME NEW u \in Transactors, NEW l \in Layers,
                      layer'[l].draft # NoDraft, u \in layer'[l].draft,
                      u \notin layer'[l].committed
               PROVE  /\ l \in Held(u)' /\ pc'[u] \in Staging
                      /\ pc'[u] = "freeing" => l # LayersOf[u][first'[u]]
    BY DEF StagedUnderClaim, UnderClaim
  <2>1. u # t
    BY <1>2 DEF MovesAlone
  <2>2. /\ l \in Held(u) /\ pc[u] \in Staging
        /\ pc[u] = "freeing" => l # LayersOf[u][first[u]]
    BY DEF MovesAlone, Isolated, StagedUnderClaim, UnderClaim
  <2> QED
    BY <2>1, <2>2, OthersKeep
<1>5. DraftIsCurrent'
  BY DEF MovesAlone, Isolated, DraftIsCurrent
<1>6. Landing'
  <2> SUFFICES ASSUME NEW u \in Transactors, NEW i \in 1 .. Width(u)
               PROVE  Landed(u, i)'
    BY DEF Landing
  <2> USE DEF Landed
  <2>1. CASE u = t
    BY <2>1, <1>1, TransactionFacts DEF Nowhere
  <2>2. CASE u # t
    BY <2>2, OthersKeep DEF MovesAlone, Isolated, Landing
  <2> QED
    BY <2>1, <2>2
<1> QED
  BY <1>3, <1>4, <1>5, <1>6 DEF Isolated

\* Going on to commit, to release or to roll back, and releasing a layer that
\* holds nothing more of the transaction.
LEMMA StagingMoves ==
  ASSUME Claimed, Isolated, NEW t \in Transactors,
         \/ Commit(t) \/ Rollback(t) \/ DropCommitted(t) \/ DropUncommitted(t)
  PROVE  Isolated'
<1> USE TransactionFacts
<1>0. /\ pc' = [pc EXCEPT ![t] = pc'[t]] /\ t \in Tasks
      /\ MovesAlone(t, pc'[t])
      /\ \/ /\ pc[t] = "staging" /\ pc'[t] = "committing" /\ at[t] = Width(t) /\ at'[t] = 0
           /\ Held(t)' = Held(t)
         \/ pc[t] = "staging" /\ pc'[t] = "discarding" /\ Held(t)' = Held(t)
         \/ pc[t] = "releasing" /\ pc'[t] \in {"releasing", "committed"}
         \/ /\ pc[t] = "freeing" /\ pc'[t] \in {"discarding", "rolledBack"}
           /\ \A l \in Held(t) : l # LayersOf[t][first[t]] =>
                l \in Held(t)' /\ pc'[t] = "discarding"
  <2>1. CASE Commit(t)
    BY <2>1 DEF Commit, Goto, MovesAlone, Held, Claimed, Typed, TypeOK
  <2>2. CASE Rollback(t)
    BY <2>2 DEF Rollback, Goto, MovesAlone, Held, Claimed, Typed, TypeOK
  <2>3. CASE DropCommitted(t)
    BY <2>3 DEF DropCommitted, ReleaseNext, Goto, MovesAlone, Held, Claimed, Typed, TypeOK
  <2>4. CASE DropUncommitted(t)
    <3>1. /\ pc[t] = "freeing" /\ UNCHANGED <<layer, last, at>>
          /\ first' = [first EXCEPT ![t] = first[t] + 1]
          /\ pc' = [pc EXCEPT ![t] = IF first[t] = last[t] THEN "rolledBack" ELSE "discarding"]
          /\ t \in Tasks
      BY <2>4 DEF DropUncommitted, ReleaseNext, Goto
    <3>2. pc' = [pc EXCEPT ![t] = pc'[t]] /\ MovesAlone(t, pc'[t])
      BY <3>1 DEF MovesAlone, Claimed, Typed, TypeOK
    <3>3. pc'[t] \in {"discarding", "rolledBack"}
      BY <3>1 DEF Claimed, Typed, TypeOK
    <3>4. ASSUME NEW l \in Held(t), l # LayersOf[t][first[t]]
          PROVE  l \in Held(t)' /\ pc'[t] = "discarding"
      <4>1. PICK i \in first[t] .. last[t] : l = LayersOf[t][i]
        BY <3>4 DEF Held
      <4>2. i \in first[t] + 1 .. last[t] /\ first[t] # last[t]
        BY <3>4, <4>1
      <4> QED
        BY <3>1, <4>1, <4>2 DEF Held, Claimed, Typed, TypeOK
    <3> QED
      BY <3>1, <3>2, <3>3, <3>4
  <2> QED
    BY <2>1, <2>2, <2>3, <2>4
<1>1. Unseen'
  BY <1>0, OthersKeep DEF MovesAlone, Isolated, Unseen
<1>2. StagedUnderClaim'
  <2> SUFFICES ASSUME NEW u \in Transactors, NEW l \in Layers,
                      layer'[l].draft # NoDraft, u \in layer'[l].draft,
                      u \notin layer'[l].committed
               PROVE  /\ l \in Held(u)' /\ pc'[u] \in Staging
                      /\ pc'[u] = "freeing" => l # LayersOf[u][first'[u]]
    BY DEF StagedUnderClaim, UnderClaim
  <2>0. /\ l \in Held(u) /\ pc[u] \in Staging
        /\ pc[u] = "freeing" => l # LayersOf[u][first[u]]
    BY <1>0 DEF MovesAlone, Isolated, StagedUnderClaim, UnderClaim
  <2>1. CASE u = t
    BY <2>0, <2>1, <1>0 DEF Staging
  <2>2. CASE u # t
    BY <2>0, <2>2, <1>0, OthersKeep
  <2> QED
    BY <2>1, <2>2
<1>3. DraftIsCurrent'
  BY <1>0 DEF MovesAlone, Isolated, DraftIsCurrent
<1>4. Landing'
  <2> SUFFICES ASSUME NEW u \in Transactors, NEW i \in 1 .. Width(u)
               PROVE  Landed(u, i)'
    BY DEF Landing
  <2> USE DEF Landed
  <2>1. CASE u = t
    <3>1. LET s == layer[LayersOf[t][i]] IN
            /\ pc[t] = "staging" /\ i <= at[t] => s.draft # NoDraft /\ t \in s.draft
            /\ pc[t] \in {"releasing", "committed"} => t \in s.committed
      BY <2>1 DEF Isolated, Landing
    <3>2. layer' = layer
      BY <1>0 DEF MovesAlone
    <3>3. CASE pc'[t] = "committing"
      BY <2>1, <3>1, <3>2, <3>3, <1>0
    <3>4. CASE pc'[t] # "committing"
      BY <2>1, <3>1, <3>2, <3>4, <1>0
    <3> QED
      BY <3>3, <3>4
  <2>2. CASE u # t
    <3>1. pc'[u] = pc[u] /\ at'[u] = at[u] /\ layer' = layer
      BY <2>2, <1>0, OthersKeep DEF MovesAlone
    <3> QED
      BY <3>1 DEF Isolated, Landing
  <2> QED
    BY <2>1, <2>2
<1> QED
  BY <1>1, <1>2, <1>3, <1>4 DEF Isolated

\* Staging adds to a draft whose claim the transaction holds.
LEMMA StageIsolated ==
  ASSUME Claimed, Isolated, NEW t \in Transactors, Stage(t)
  PROVE  Isolated'
<1> DEFINE k == LayersOf[t][at[t] + 1]
<1>0. /\ t \in Tasks /\ t \in Edits /\ pc[t] = "staging" /\ pc' = pc
      /\ k \in Layers /\ k \in Held(t) /\ layer[k] \in LayerState
      /\ at' = [at EXCEPT ![t] = at[t] + 1]
      /\ UNCHANGED <<first, last>>
      /\ layer'[k] = EditDraft(layer[k], t)
      /\ \A l \in Layers \ {k} : layer'[l] = layer[l]
  <2>1. pc[t] = "staging" /\ at[t] + 1 \in 1 .. Width(t)
    BY TransactionFacts DEF Stage
  <2>2. /\ t \in Tasks /\ t \in Edits
        /\ k \in Layers /\ k \in Held(t) /\ layer[k] \in LayerState
    BY <2>1, TransactionFacts
  <2>3. layer \in [Layers -> LayerState]
    BY DEF Claimed, Typed, TypeOK
  <2>4. /\ layer' = [layer EXCEPT ![k] = EditDraft(layer[k], t)]
        /\ at' = [at EXCEPT ![t] = at[t] + 1]
        /\ UNCHANGED <<pc, first, last>>
    BY DEF Stage
  <2>5. /\ layer'[k] = EditDraft(layer[k], t)
        /\ \A l \in Layers \ {k} : layer'[l] = layer[l]
    BY <2>2, <2>3, <2>4
  <2> QED
    BY <2>1, <2>2, <2>4, <2>5
<1>1. /\ layer'[k].committed = layer[k].committed
      /\ layer'[k].draft = Latest(layer[k]) \cup {t}
      /\ layer'[k].draft # NoDraft
  BY <1>0, LayerMoves, LayerValues, NoDraftAssumption
<1>2. \A u \in Transactors : Held(u)' = Held(u)
  BY <1>0 DEF Held
<1>3. Unseen'
  BY <1>0, <1>1 DEF Isolated, Unseen
<1>4. StagedUnderClaim'
  <2> SUFFICES ASSUME NEW u \in Transactors, NEW l \in Layers,
                      layer'[l].draft # NoDraft, u \in layer'[l].draft,
                      u \notin layer'[l].committed
               PROVE  /\ l \in Held(u) /\ pc[u] \in Staging
                      /\ pc[u] = "freeing" => l # LayersOf[u][first[u]]
    BY <1>0, <1>2 DEF StagedUnderClaim, UnderClaim
  <2>1. CASE l = k /\ u = t
    BY <2>1, <1>0 DEF Staging
  <2>2. CASE l = k /\ u # t
    <3>1. layer[k].draft # NoDraft /\ u \in layer[k].draft /\ u \notin layer[k].committed
      BY <2>2, <1>1 DEF Latest
    <3> QED
      BY <2>2, <3>1, <1>0 DEF Isolated, StagedUnderClaim, UnderClaim
  <2>3. CASE l # k
    BY <2>3, <1>0 DEF Isolated, StagedUnderClaim, UnderClaim
  <2> QED
    BY <2>1, <2>2, <2>3
<1>5. DraftIsCurrent'
  BY <1>0, <1>1 DEF Isolated, DraftIsCurrent, Latest
<1>6. Landing'
  <2> SUFFICES ASSUME NEW u \in Transactors, NEW i \in 1 .. Width(u)
               PROVE  Landed(u, i)'
    BY DEF Landing
  <2>0. LayersOf[u][i] \in Layers /\ Landed(u, i)
    BY TransactionFacts DEF Isolated, Landing
  <2>1. pc' = pc /\ at[u] \in Nat /\ (u # t => at'[u] = at[u])
    BY <1>0, TransactionFacts DEF Claimed, Typed, TypeOK
  <2>2. u = t => pc[u] = "staging" /\ at'[u] = at[u] + 1
    BY <1>0 DEF Claimed, Typed, TypeOK
  <2>3. CASE LayersOf[u][i] = k
    <3>1. layer[k].draft # NoDraft /\ u \in layer[k].draft => u \in layer'[k].draft
      BY <1>1 DEF Latest
    <3>2. u = t => u \in layer'[k].draft
      BY <1>1
    <3> QED
      BY <2>0, <2>1, <2>2, <2>3, <3>1, <3>2, <1>1 DEF Landed
  <2>4. CASE LayersOf[u][i] # k
    <3>1. u = t => i # at[t] + 1
      BY <2>4
    <3>2. layer'[LayersOf[u][i]] = layer[LayersOf[u][i]]
      BY <2>0, <2>4, <1>0
    <3> QED
      BY <2>0, <2>1, <2>2, <3>1, <3>2 DEF Landed
  <2> QED
    BY <2>3, <2>4
<1> QED
  BY <1>3, <1>4, <1>5, <1>6 DEF Isolated

\* Nobody else commits or stages in a layer whose claim the transaction holds.
LEMMA OneStages ==
  ASSUME Claimed, NEW t \in Transactors, NEW u \in Transactors \ {t}, NEW l \in Held(t), l \in Layers
  PROVE  /\ l \notin Held(u)
         /\ \A i \in 1 .. Width(u) : LayersOf[u][i] = l => pc[u] \notin {"staging", "committing"}
BY TransactionFacts DEF Claimed, ClaimsAreHeld

\* Applying a draft publishes this transaction's edits and no other's.
LEMMA ApplyIsolated ==
  ASSUME Claimed, Isolated, NEW t \in Transactors, ApplyNext(t)
  PROVE  Isolated'
<1> DEFINE k == LayersOf[t][at[t] + 1]
<1>0. /\ t \in Tasks /\ pc[t] = "committing"
      /\ at[t] + 1 \in 1 .. Width(t)
      /\ pc' = [pc EXCEPT ![t] = IF at[t] + 1 = Width(t) THEN "releasing" ELSE "committing"]
      /\ at' = [at EXCEPT ![t] = at[t] + 1]
      /\ UNCHANGED <<first, last>>
  BY TransactionFacts DEF ApplyNext, Goto, Claimed, Typed, Progress
<1>1. /\ k \in Layers /\ k \in Held(t) /\ layer[k] \in LayerState
      /\ layer[k].draft # NoDraft /\ t \in layer[k].draft
  BY <1>0, TransactionFacts DEF Isolated, Landing, Landed
<1>2. /\ layer'[k].committed = layer[k].draft /\ layer'[k].draft = NoDraft
      /\ \A l \in Layers \ {k} : layer'[l] = layer[l]
  BY <1>1, LayerMoves DEF ApplyNext, Claimed, Typed, TypeOK
<1>3. \A u \in Transactors : Held(u)' = Held(u)
  BY <1>0 DEF Held
<1>4. /\ pc'[t] \in {"committing", "releasing"}
      /\ \A u \in Transactors \ {t} : pc'[u] = pc[u] /\ at'[u] = at[u]
      /\ at'[t] = at[t] + 1
      /\ pc'[t] = "releasing" => at[t] + 1 = Width(t)
  BY <1>0 DEF Claimed, Typed, TypeOK, Tasks
<1>5. Unseen'
  <2> SUFFICES ASSUME NEW u \in Transactors, NEW l \in Layers, u \in layer'[l].committed
               PROVE  pc'[u] \in {"committing", "releasing", "committed"}
    BY DEF Unseen
  <2>1. CASE u = t
    BY <2>1, <1>4
  <2>2. CASE u # t /\ l = k /\ u \notin layer[k].committed
    BY <2>2, <1>1, <1>2, OneStages DEF Isolated, StagedUnderClaim, UnderClaim
  <2>3. CASE u # t /\ ~(l = k /\ u \notin layer[k].committed)
    BY <2>3, <1>2, <1>4 DEF Isolated, Unseen
  <2> QED
    BY <2>1, <2>2, <2>3
<1>6. StagedUnderClaim'
  <2> SUFFICES ASSUME NEW u \in Transactors, NEW l \in Layers,
                      layer'[l].draft # NoDraft, u \in layer'[l].draft,
                      u \notin layer'[l].committed
               PROVE  /\ l \in Held(u)' /\ pc'[u] \in Staging
                      /\ pc'[u] = "freeing" => l # LayersOf[u][first'[u]]
    BY DEF StagedUnderClaim, UnderClaim
  <2>1. l # k
    BY <1>2
  <2>2. /\ l \in Held(u) /\ pc[u] \in Staging
        /\ pc[u] = "freeing" => l # LayersOf[u][first[u]]
    BY <2>1, <1>2 DEF Isolated, StagedUnderClaim, UnderClaim
  <2>3. CASE u # t
    BY <2>2, <2>3, <1>0, <1>3, <1>4
  <2>4. CASE u = t /\ pc'[t] = "committing"
    BY <2>2, <2>4, <1>3 DEF Staging
  <2>5. CASE u = t /\ pc'[t] = "releasing"
    <3>1. PICK i \in first[t] .. last[t] : l = LayersOf[t][i]
      BY <2>2, <2>5 DEF Held
    <3>2. i \in 1 .. Width(t) /\ i <= at[t]
      BY <3>1, <2>1, <2>5, <1>0, <1>4, TransactionFacts DEF Claimed, Typed, Progress
    <3>3. t \in layer[l].committed
      BY <3>1, <3>2, <1>0 DEF Isolated, Landing, Landed
    <3> QED
      BY <3>3, <2>1, <2>5, <1>2
  <2> QED
    BY <2>3, <2>4, <2>5, <1>4
<1>7. DraftIsCurrent'
  BY <1>2 DEF Isolated, DraftIsCurrent
<1>8. Landing'
  <2> SUFFICES ASSUME NEW u \in Transactors, NEW i \in 1 .. Width(u)
               PROVE  Landed(u, i)'
    BY DEF Landing
  <2>0. LayersOf[u][i] \in Layers /\ Landed(u, i)
    BY TransactionFacts DEF Isolated, Landing
  <2>1. CASE u = t /\ i = at[t] + 1
    BY <2>1, <1>1, <1>2, <1>4 DEF Landed
  <2>2. CASE u = t /\ i # at[t] + 1
    <3>1. LayersOf[t][i] # k /\ layer'[LayersOf[t][i]] = layer[LayersOf[t][i]]
      BY <2>0, <2>2, <1>0, <1>2, TransactionFacts
    <3> QED
      BY <2>0, <2>2, <3>1, <1>0, <1>4, TransactionFacts DEF Landed
  <2>3. CASE u # t /\ LayersOf[u][i] = k
    <3>1. pc'[u] \notin {"staging", "committing"}
      BY <2>3, <1>1, <1>4, OneStages
    <3>2. pc'[u] \in {"releasing", "committed"} => u \in layer'[k].committed
      BY <2>0, <2>3, <1>1, <1>2, <1>4 DEF Landed, Isolated, DraftIsCurrent
    <3> QED
      BY <2>3, <3>1, <3>2 DEF Landed
  <2>4. CASE u # t /\ LayersOf[u][i] # k
    BY <2>0, <2>4, <1>2, <1>4 DEF Landed
  <2> QED
    BY <2>1, <2>2, <2>3, <2>4
<1> QED
  BY <1>5, <1>6, <1>7, <1>8 DEF Isolated

\* Discarding a draft drops this transaction's edits and no other's.
LEMMA DiscardIsolated ==
  ASSUME Claimed, Isolated, NEW t \in Transactors, DiscardNext(t)
  PROVE  Isolated'
<1> DEFINE k == LayersOf[t][first[t]]
<1>0. /\ t \in Tasks /\ pc[t] = "discarding" /\ pc' = [pc EXCEPT ![t] = "freeing"]
      /\ UNCHANGED <<first, last, at>>
      /\ k \in Layers /\ k \in Held(t) /\ layer[k] \in LayerState
  BY TransactionFacts DEF DiscardNext, Goto
<1>1. /\ layer'[k].committed = layer[k].committed /\ layer'[k].draft = NoDraft
      /\ \A l \in Layers \ {k} : layer'[l] = layer[l]
  BY <1>0, LayerMoves DEF DiscardNext, Claimed, Typed, TypeOK
<1>2. \A u \in Transactors : Held(u)' = Held(u)
  BY <1>0 DEF Held
<1>3. pc'[t] = "freeing" /\ \A u \in Transactors \ {t} : pc'[u] = pc[u]
  BY <1>0 DEF Claimed, Typed, TypeOK, Tasks
<1>4. Unseen'
  BY <1>0, <1>1, <1>3 DEF Isolated, Unseen
<1>5. StagedUnderClaim'
  <2> SUFFICES ASSUME NEW u \in Transactors, NEW l \in Layers,
                      layer'[l].draft # NoDraft, u \in layer'[l].draft,
                      u \notin layer'[l].committed
               PROVE  /\ l \in Held(u)' /\ pc'[u] \in Staging
                      /\ pc'[u] = "freeing" => l # LayersOf[u][first'[u]]
    BY DEF StagedUnderClaim, UnderClaim
  <2>1. l # k
    BY <1>1
  <2>2. /\ l \in Held(u) /\ pc[u] \in Staging
        /\ pc[u] = "freeing" => l # LayersOf[u][first[u]]
    BY <2>1, <1>1 DEF Isolated, StagedUnderClaim, UnderClaim
  <2> QED
    BY <2>1, <2>2, <1>0, <1>2, <1>3 DEF Staging
<1>6. DraftIsCurrent'
  BY <1>1 DEF Isolated, DraftIsCurrent
<1>7. Landing'
  <2> SUFFICES ASSUME NEW u \in Transactors, NEW i \in 1 .. Width(u)
               PROVE  Landed(u, i)'
    BY DEF Landing
  <2>0. LayersOf[u][i] \in Layers /\ Landed(u, i)
    BY TransactionFacts DEF Isolated, Landing
  <2>1. CASE u = t
    BY <2>1, <1>3 DEF Landed
  <2>2. CASE u # t /\ LayersOf[u][i] = k
    BY <2>0, <2>2, <1>0, <1>1, <1>3, OneStages DEF Landed
  <2>3. CASE u # t /\ LayersOf[u][i] # k
    BY <2>0, <2>3, <1>0, <1>1, <1>3 DEF Landed
  <2> QED
    BY <2>1, <2>2, <2>3
<1> QED
  BY <1>4, <1>5, <1>6, <1>7 DEF Isolated

\* A modifier moves no transaction.
LEMMA TransactionsAtRest ==
  ASSUME Typed, NEW m \in Modifiers, Modify(m)
  PROVE  /\ UNCHANGED <<first, last, at>>
         /\ \A u \in Transactors : pc'[u] = pc[u] /\ Held(u)' = Held(u)
<1>1. \A u \in Transactors : u \in Tasks /\ u \notin Modifiers
  BY RolesAssumption DEF Tasks
<1>2. UNCHANGED <<first, last, at>>
  BY DEF Modify, StartModify, Acquire, Park, ReadCommitted, Store, GiveUp, Unlock, NotifyOne
<1>3. \A u \in Transactors : pc'[u] = pc[u]
  BY <1>1 DEF Modify, StartModify, Acquire, TakePermit, Park, ReadCommitted, Store, GiveUp,
              Unlock, NotifyOne, Waiting, Goto, Typed, TypeOK
<1> QED
  BY <1>2, <1>3 DEF Held

\* What a modifier stores holds the same edits of transactions as before.
LEMMA ModifyIsolated ==
  ASSUME Claimed, ReadIsKnown, Isolated, NEW m \in Modifiers, Modify(m)
  PROVE  Isolated'
<1>1. ASSUME NEW l \in Layers
      PROVE  /\ layer'[l].draft = layer[l].draft
             /\ \A u \in Transactors : u \in layer'[l].committed <=> u \in layer[l].committed
  <2>1. layer[l] \in LayerState /\ read[m].committed \cup {m} \in SUBSET Edits
        /\ \A u \in Transactors : u # m
    BY RolesAssumption DEF Claimed, Typed, TypeOK, Tasks
  <2>2. CASE Store(m) /\ l = LayerOf(m)
    <3>1. /\ layer'[l] = ReplaceCommitted(layer[l], read[m].committed \cup {m})
          /\ read[m].committed = layer[l].committed
      BY <2>2 DEF Store, ReadIsKnown, Claimed, Typed, TypeOK
    <3> QED
      BY <2>1, <3>1, LayerMoves
  <2>3. CASE ~(Store(m) /\ l = LayerOf(m))
    <3>1. layer'[l] = layer[l]
      BY <2>3 DEF Modify, StartModify, Acquire, Park, ReadCommitted, Store, GiveUp, Unlock,
                  NotifyOne, Claimed, Typed, TypeOK
    <3> QED
      BY <3>1
  <2> QED
    BY <2>2, <2>3
<1>2. /\ UNCHANGED <<first, last, at>>
      /\ \A u \in Transactors : pc'[u] = pc[u] /\ Held(u)' = Held(u)
  BY TransactionsAtRest DEF Claimed
<1>3. Unseen'
  BY <1>1, <1>2 DEF Isolated, Unseen
<1>4. StagedUnderClaim'
  BY <1>1, <1>2 DEF Isolated, StagedUnderClaim, UnderClaim
<1>5. DraftIsCurrent'
  BY <1>1 DEF Isolated, DraftIsCurrent
<1>6. Landing'
  <2> SUFFICES ASSUME NEW u \in Transactors, NEW i \in 1 .. Width(u)
               PROVE  Landed(u, i)'
    BY DEF Landing
  <2> QED
    BY <1>1, <1>2, TransactionFacts DEF Isolated, Landing, Landed
<1> QED
  BY <1>3, <1>4, <1>5, <1>6 DEF Isolated

\* Writers that claim nothing keep to layers that no transaction names.
WritersApart == \A w \in Writers, t \in Transactors : LayerOf(w) \notin Named(t)

\* A writer in a layer of its own finds there no edit of a transaction that has
\* not committed, so that applying its draft publishes none.
LEMMA WriteIsolated ==
  ASSUME WritersApart, Claimed, Isolated, NEW w \in Writers, Write(w)
  PROVE  Isolated'
<1> DEFINE k == LayerOf(w)
<1>0. /\ w \in Tasks /\ w \in Edits /\ k \in Layers /\ layer[k] \in LayerState
      /\ \A u \in Transactors : u \in Tasks /\ u # w
  BY RolesAssumption, Naming DEF Tasks, LayerOf, Width, Claimed, Typed, TypeOK
<1>1. /\ UNCHANGED <<first, last, at>>
      /\ \A u \in Transactors : pc'[u] = pc[u] /\ Held(u)' = Held(u)
  <2>1. UNCHANGED <<first, last, at>>
    BY DEF Write, DirectEdit, DirectApply, DirectDiscard
  <2>2. \A u \in Transactors : pc'[u] = pc[u]
    BY <1>0 DEF Write, DirectEdit, DirectApply, DirectDiscard, Goto, Claimed, Typed, TypeOK
  <2> QED
    BY <2>1, <2>2 DEF Held
<1>2. \A u \in Transactors : k \notin Held(u) /\ \A i \in 1 .. Width(u) : LayersOf[u][i] # k
  BY TransactionFacts DEF WritersApart, Named, Held, Claimed, Typed, TypeOK
<1>3. /\ \A l \in Layers \ {k} : layer'[l] = layer[l]
      /\ \/ layer'[k] = EditDraft(layer[k], w)
         \/ layer'[k] = ApplyDraft(layer[k])
         \/ layer'[k] = DiscardDraft(layer[k])
  BY <1>0 DEF Write, DirectEdit, DirectApply, DirectDiscard, Claimed, Typed, TypeOK
<1>4. \A u \in Transactors :
        layer[k].draft # NoDraft /\ u \in layer[k].draft => u \in layer[k].committed
  BY <1>0, <1>2 DEF Isolated, StagedUnderClaim, UnderClaim
<1>5. \A u \in Transactors :
        /\ u \in layer'[k].committed => u \in layer[k].committed
        /\ layer'[k].draft # NoDraft =>
             (u \in layer'[k].draft <=> u \in layer'[k].committed)
  <2> SUFFICES ASSUME NEW u \in Transactors
               PROVE  /\ u \in layer'[k].committed => u \in layer[k].committed
                      /\ layer'[k].draft # NoDraft =>
                           (u \in layer'[k].draft <=> u \in layer'[k].committed)
    OBVIOUS
  <2>1. layer[k].draft # NoDraft /\ u \in layer[k].committed => u \in layer[k].draft
    BY <1>0 DEF Isolated, DraftIsCurrent
  <2>2. CASE layer'[k] = EditDraft(layer[k], w)
    BY <1>0, <1>4, <2>1, <2>2, LayerMoves DEF Latest
  <2>3. CASE layer'[k] = ApplyDraft(layer[k])
    BY <1>0, <1>4, <2>1, <2>3, LayerMoves
  <2>4. CASE layer'[k] = DiscardDraft(layer[k])
    BY <1>0, <2>4, LayerMoves
  <2> QED
    BY <1>3, <2>2, <2>3, <2>4
<1>6. Unseen'
  BY <1>0, <1>1, <1>3, <1>5 DEF Isolated, Unseen
<1>7. StagedUnderClaim'
  BY <1>1, <1>3, <1>5 DEF Isolated, StagedUnderClaim, UnderClaim
<1>8. DraftIsCurrent'
  BY <1>1, <1>3, <1>5 DEF Isolated, DraftIsCurrent
<1>9. Landing'
  <2> SUFFICES ASSUME NEW u \in Transactors, NEW i \in 1 .. Width(u)
               PROVE  Landed(u, i)'
    BY DEF Landing
  <2>1. LayersOf[u][i] \in Layers /\ layer'[LayersOf[u][i]] = layer[LayersOf[u][i]]
    BY <1>2, <1>3, TransactionFacts
  <2> QED
    BY <1>1, <2>1 DEF Isolated, Landing, Landed
<1> QED
  BY <1>6, <1>7, <1>8, <1>9 DEF Isolated

LEMMA IsolatedStep ==
  ASSUME WritersApart, Claimed, ReadIsKnown, Isolated, [Next]_vars
  PROVE  Isolated'
<1>1. CASE UNCHANGED vars
  BY <1>1 DEF vars, Isolated, Unseen, StagedUnderClaim, UnderClaim, DraftIsCurrent, Landing,
              Landed, Held
<1>2. ASSUME NEW t \in Transactors, Transact(t) PROVE Isolated'
  <2>1. CASE Begin(t) \/ TryClaim(t) \/ ClaimRefused(t) \/ ReleasePartialClaim(t)
    <3>1. t \in Tasks /\ pc[t] \in Nowhere
      BY <2>1 DEF Begin, TryClaim, ClaimRefused, ReleasePartialClaim, Nowhere, Tasks
    <3>2. PICK step \in Nowhere \cup {"staging"} :
            /\ MovesAlone(t, step)
            /\ step = "staging" => pc[t] = "claiming" /\ at' = at
      <4>1. CASE Begin(t)
        BY <4>1 DEF Begin, Goto, MovesAlone, Nowhere
      <4>2. CASE TryClaim(t)
        <5>1. CASE last[t] + 1 = Width(t)
          <6>1. pc[t] = "claiming" /\ at' = at /\ MovesAlone(t, "staging")
            BY <4>2, <5>1 DEF TryClaim, Goto, MovesAlone, Claimed, Typed, TypeOK
          <6> QED
            BY <6>1
        <5>2. CASE last[t] + 1 # Width(t)
          <6>1. at' = at /\ MovesAlone(t, "claiming")
            BY <4>2, <5>2 DEF TryClaim, Goto, MovesAlone, Claimed, Typed, TypeOK
          <6> QED
            BY <6>1 DEF Nowhere
        <5> QED
          BY <5>1, <5>2
      <4>3. CASE ClaimRefused(t)
        <5>1. MovesAlone(t, IF last[t] = 0 THEN "busy" ELSE "unclaiming")
          BY <4>3 DEF ClaimRefused, Goto, MovesAlone
        <5> QED
          BY <5>1 DEF Nowhere
      <4>4. CASE ReleasePartialClaim(t)
        <5>1. MovesAlone(t, IF first[t] = last[t] THEN "busy" ELSE "unclaiming")
          BY <4>4 DEF ReleasePartialClaim, ReleaseNext, Goto, MovesAlone, Claimed, Typed, TypeOK
        <5> QED
          BY <5>1 DEF Nowhere
      <4> QED
        BY <2>1, <4>1, <4>2, <4>3, <4>4
    <3>3. step = "staging" => at'[t] = 0
      BY <3>2 DEF Claimed, Typed, Progress
    <3> QED
      BY <3>1, <3>2, <3>3, NothingStaged
  <2> QED
    BY <1>2, <2>1, StageIsolated, StagingMoves, ApplyIsolated, DiscardIsolated DEF Transact
<1> QED
  BY <1>1, <1>2, ModifyIsolated, WriteIsolated DEF Next

LEMMA AlwaysIsolated ==
  ASSUME WritersApart
  PROVE  Spec => []Isolated
<1> DEFINE Inv == Typed /\ ClaimsAreHeld /\ ReadIsKnown /\ Isolated
<1>1. Init => Isolated
  BY TypedInit
  DEF Init, Isolated, Unseen, StagedUnderClaim, UnderClaim, DraftIsCurrent, Landing, Landed,
      NewLayer, Tasks
<1>2. Init => Inv
  BY <1>1, TypedInit DEF Init, ClaimsAreHeld, Held, ReadIsKnown, Tasks
<1>3. Inv /\ [Next]_vars => Inv'
  BY TypedStep, ClaimsStep, ReadIsKnownStep, IsolatedStep DEF Claimed
<1> QED
  BY <1>2, <1>3, PTL DEF Spec

\* Where everybody who changes a layer of a transaction claims it or uses
\* with_data_modify, nothing of a transaction is visible before it commits and a
\* rollback leaves no trace (RollbackLeavesNoTrace).
THEOREM TransactionsAreIsolated ==
  ASSUME WritersApart
  PROVE  Spec => []RollbackLeavesNoTrace
<1>1. Isolated => RollbackLeavesNoTrace
  BY DEF Isolated, Unseen, StagedUnderClaim, UnderClaim, Staging, Latest, RollbackLeavesNoTrace
<1> QED
  BY <1>1, AlwaysIsolated, PTL

\* There, what a transaction commits lands in every layer it named and stays
\* (CommitLandsEverywhere).
THEOREM CommitsLand ==
  ASSUME WritersApart
  PROVE  Spec => []CommitLandsEverywhere
<1>1. Isolated => CommitLandsEverywhere
  BY DEF Isolated, Landing, Landed, Named, CommitLandsEverywhere
<1> QED
  BY <1>1, AlwaysIsolated, PTL
=============================================================================
