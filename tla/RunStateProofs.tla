--------------------------- MODULE RunStateProofs ---------------------------
(***************************************************************************)
(* What holds of RunState for any set of tasks, any privileged actions and *)
(* any number of calls.                                                    *)
(***************************************************************************)
EXTENDS RunState, TLAPS

\* A task about to record its request carries out one of the actions: it is
\* not a refresh, and it has not given its action up.
RequestHasAction ==
  \A t \in Tasks :
    pc[t] = "request" \/ (pc[t] \in Announcing /\ after[t] = "request")
      => action[t] \in Actions

\* Every value the store writes is a stored Service, and every value a task
\* reads is a snapshot.
LEMMA Values ==
  /\ \A h \in Health : Observed(h) \in StoredService
  /\ Detected \subseteq Health /\ ReplyHealth \subseteq Health
  /\ "Unavailable" \in Health /\ "NotInstalled" \in Health
  /\ FreshService \in StoredService
  /\ NothingSeen \in Snapshot
  /\ \A s \in StoredService, b, d \in BOOLEAN : Saw(s, b, d) \in Snapshot
  /\ \A x \in Snapshot :
       x.service \in StoredService /\ x.running \in BOOLEAN /\ x.during \in BOOLEAN
BY DEF Health, Detected, ReplyHealth, Observed, StoredService, FreshService, NoAction,
       NothingSeen, Saw, Snapshot

\* So is every value a request or an allowance derives from a stored one.
LEMMA ServiceValues ==
  ASSUME service \in StoredService
  PROVE  /\ \A a \in Actions \cup {"Install"} : Requested(a) \in StoredService
         /\ SidecarAllowed \in StoredService
         /\ Withdrawn \in StoredService
BY DEF StoredService, Requested, SidecarAllowed, Withdrawn, NoAction

\* Every step keeps what the store holds in its type.
LEMMA StoreTypeStep ==
  ASSUME TypeOK, RequestHasAction, [Next]_vars
  PROVE  StoreTypeOK'
<1> USE DEF TypeOK, StoreTypeOK, NextObservation, wait_vars, env_vars, service_vars
<1>1. CASE UNCHANGED vars
  BY <1>1 DEF vars
<1>2. ASSUME NEW t \in Tasks, StartsCall(t) PROVE StoreTypeOK'
  <2> USE MaxCallsAssumption DEF StartCall
  <2>1. CASE RecordReply(t)
    BY <2>1, Values DEF RecordReply, Observe
  <2>2. CASE AllowSidecarForSession(t)
    BY <2>2, ServiceValues DEF AllowSidecarForSession
  <2>3. CASE RequireInstall(t)
    BY <2>3, ServiceValues DEF RequireInstall
  <2>4. CASE BeginOperation(t)
    BY <2>4 DEF BeginOperation
  <2>5. CASE Settled(t)
    BY <2>5 DEF Settled, Register
  <2> QED
    BY <1>2, <2>1, <2>2, <2>3, <2>4, <2>5
    DEF StartsCall
<1>3. ASSUME NEW t \in Tasks, Continues(t) PROVE StoreTypeOK'
  <2>1. CASE DetectStartupStatus(t)
    BY <2>1 DEF DetectStartupStatus, ReserveReading
  <2>2. CASE CommitObservedHealth(t)
    BY <2>2, Values DEF CommitObservedHealth, CommitReading
  <2>3. CASE StartupDetected(t)
    BY <2>3 DEF StartupDetected
  <2>4. CASE SidecarStarted(t)
    BY <2>4 DEF SidecarStarted
  <2>5. CASE WithdrawSidecarAllowance(t)
    BY <2>5, ServiceValues DEF WithdrawSidecarAllowance
  <2>6. CASE RequestAction(t)
    BY <2>6, ServiceValues DEF RequestAction, RequestHasAction
  <2>7. CASE PerformSucceeds(t)
    <3>1. service' \in StoredService
      BY <2>7, Values DEF PerformSucceeds, Observe
    <3> QED
      BY <2>7, <3>1 DEF PerformSucceeds, Observe
  <2>8. CASE PerformFails(t)
    BY <2>8 DEF PerformFails, ReserveReading
  <2>9. CASE CommitAfterFailure(t)
    BY <2>9, Values DEF CommitAfterFailure, CommitReading
  <2>10. CASE AwaitReady(t)
    BY <2>10, Values DEF AwaitReady, Observe
  <2>11. CASE RefreshProbe(t)
    <3>1. service' \in StoredService
      BY <2>11, Values DEF RefreshProbe, Observe
    <3> QED
      BY <2>11, <3>1 DEF RefreshProbe, Observe
  <2>12. CASE RestoreAllowance(t)
    BY <2>12, ServiceValues DEF RestoreAllowance
  <2>13. CASE Release(t)
    BY <2>13 DEF Release
  <2>14. CASE NotifyWaiters(t)
    BY <2>14 DEF NotifyWaiters
  <2>15. CASE Announce(t)
    BY <2>15 DEF Announce, ReadService
  <2>16. CASE AnnounceFlag(t)
    BY <2>16 DEF AnnounceFlag, ReadOperationFlag
  <2>17. CASE Publish(t)
    BY <2>17, Values DEF Publish, TaskTypeOK
  <2>18. CASE SettledReadService(t)
    BY <2>18 DEF SettledReadService, ReadService
  <2>19. CASE SettledReadFlag(t)
    BY <2>19 DEF SettledReadFlag, ReadOperationFlag
  <2>20. CASE SettledWoken(t)
    BY <2>20 DEF SettledWoken, Register
  <2>21. CASE SettledReturn(t)
    BY <2>21 DEF SettledReturn
  <2> QED
    BY <1>3, <2>1, <2>2, <2>3, <2>4, <2>5, <2>6, <2>7, <2>8, <2>9, <2>10,
       <2>11, <2>12, <2>13, <2>14, <2>15, <2>16, <2>17, <2>18, <2>19, <2>20,
       <2>21
    DEF Continues
<1> QED BY <1>1, <1>2, <1>3 DEF Next

\* Every step keeps what the tasks hold in its type.
LEMMA TaskTypeStep ==
  ASSUME TypeOK, [Next]_vars
  PROVE  TaskTypeOK'
<1> USE DEF TypeOK, StoreTypeOK, TaskTypeOK, OperationSteps, PcValues, NextObservation, Reading,
            Goto, AnnounceThen, wait_vars, env_vars, service_vars
<1>1. CASE UNCHANGED vars
  BY <1>1 DEF vars, task_vars
<1>2. ASSUME NEW t \in Tasks, StartsCall(t) PROVE TaskTypeOK'
  <2> USE DEF StartCall
  <2>1. CASE RecordReply(t)
    BY <2>1 DEF RecordReply, Observe, AnnounceIfChanged
  <2>2. CASE AllowSidecarForSession(t)
    BY <2>2 DEF AllowSidecarForSession
  <2>3. CASE RequireInstall(t)
    BY <2>3 DEF RequireInstall
  <2>4. CASE BeginOperation(t)
    BY <2>4 DEF BeginOperation, Refresh
  <2>5. CASE Settled(t)
    BY <2>5 DEF Settled, Register
  <2> QED
    BY <1>2, <2>1, <2>2, <2>3, <2>4, <2>5
    DEF StartsCall
<1>3. ASSUME NEW t \in Tasks, Continues(t) PROVE TaskTypeOK'
  <2>1. CASE DetectStartupStatus(t)
    BY <2>1 DEF DetectStartupStatus, ReserveReading
  <2>2. CASE CommitObservedHealth(t)
    BY <2>2 DEF CommitObservedHealth, CommitReading, AnnounceIfChanged
  <2>3. CASE StartupDetected(t)
    BY <2>3 DEF StartupDetected
  <2>4. CASE SidecarStarted(t)
    BY <2>4 DEF SidecarStarted
  <2>5. CASE WithdrawSidecarAllowance(t)
    BY <2>5 DEF WithdrawSidecarAllowance
  <2>6. CASE RequestAction(t)
    BY <2>6 DEF RequestAction, AnnounceIfChanged, StoredService
  <2>7. CASE PerformSucceeds(t)
    BY <2>7 DEF PerformSucceeds, Observe, AnnounceIfChanged
  <2>8. CASE PerformFails(t)
    BY <2>8 DEF PerformFails, ReserveReading
  <2>9. CASE CommitAfterFailure(t)
    BY <2>9 DEF CommitAfterFailure, CommitReading, AnnounceIfChanged
  <2>10. CASE AwaitReady(t)
    BY <2>10 DEF AwaitReady, Observe, AnnounceIfChanged
  <2>11. CASE RefreshProbe(t)
    BY <2>11 DEF RefreshProbe, Observe, AnnounceIfChanged
  <2>12. CASE RestoreAllowance(t)
    BY <2>12 DEF RestoreAllowance, AnnounceIfChanged
  <2>13. CASE Release(t)
    BY <2>13 DEF Release, NoAction
  <2>14. CASE NotifyWaiters(t)
    BY <2>14 DEF NotifyWaiters
  <2>15. CASE Announce(t)
    BY <2>15, Values DEF Announce, ReadService
  <2>16. CASE AnnounceFlag(t)
    BY <2>16, Values DEF AnnounceFlag, ReadOperationFlag
  <2>17. CASE Publish(t)
    BY <2>17, Values DEF Publish
  <2>18. CASE SettledReadService(t)
    BY <2>18, Values DEF SettledReadService, ReadService
  <2>19. CASE SettledReadFlag(t)
    BY <2>19, Values DEF SettledReadFlag, ReadOperationFlag
  <2>20. CASE SettledWoken(t)
    BY <2>20 DEF SettledWoken, Register
  <2>21. CASE SettledReturn(t)
    BY <2>21, Values DEF SettledReturn
  <2> QED
    BY <1>3, <2>1, <2>2, <2>3, <2>4, <2>5, <2>6, <2>7, <2>8, <2>9, <2>10,
       <2>11, <2>12, <2>13, <2>14, <2>15, <2>16, <2>17, <2>18, <2>19, <2>20,
       <2>21
    DEF Continues
<1> QED BY <1>1, <1>2, <1>3 DEF Next

-----------------------------------------------------------------------------
(* The operation slot.                                                     *)

\* Only the task that steps moves: every other one stays where it is.
OnlyMoves(t) ==
  \A u \in Tasks \ {t} : pc'[u] = pc[u] /\ after'[u] = after[u] /\ action'[u] = action[u]

\* Starting a call takes the slot only as BeginOperation, and only if free.
LEMMA StartStep ==
  ASSUME TypeOK, NEW t \in Tasks, StartsCall(t)
  PROVE  /\ OnlyMoves(t)
         /\ ~InOperation(t)
         /\ \/ operationRunning' = operationRunning /\ ~InOperation(t)'
            \/ ~operationRunning /\ operationRunning' /\ InOperation(t)'
<1> USE DEF TypeOK, TaskTypeOK, StartCall, OnlyMoves, InOperation, Announcing, OperationSteps,
            AnnounceThen, Goto, Refresh
<1>1. CASE RecordReply(t)
  BY <1>1 DEF RecordReply, Observe, AnnounceIfChanged
<1>2. CASE AllowSidecarForSession(t)
  BY <1>2 DEF AllowSidecarForSession
<1>3. CASE RequireInstall(t)
  BY <1>3 DEF RequireInstall
<1>4. CASE BeginOperation(t)
  BY <1>4 DEF BeginOperation
<1>5. CASE Settled(t)
  BY <1>5 DEF Settled, Register, service_vars
<1> QED BY <1>1, <1>2, <1>3, <1>4, <1>5 DEF StartsCall

\* A step inside a call gives the slot back only as Release, and a task that
\* is outside an operation never enters one.
LEMMA ContinueStep ==
  ASSUME TypeOK, NEW t \in Tasks, Continues(t)
  PROVE  /\ OnlyMoves(t)
         /\ \/ operationRunning' = operationRunning /\ InOperation(t)' = InOperation(t)
            \/ InOperation(t) /\ ~operationRunning' /\ ~InOperation(t)'
<1> USE DEF TypeOK, TaskTypeOK, OnlyMoves, InOperation, Announcing, OperationSteps, AnnounceThen,
            AnnounceIfChanged, Goto, wait_vars, env_vars, service_vars
<1>1. CASE DetectStartupStatus(t)
  BY <1>1 DEF DetectStartupStatus, ReserveReading
<1>2. CASE CommitObservedHealth(t)
  BY <1>2 DEF CommitObservedHealth, CommitReading
<1>3. CASE StartupDetected(t)
  BY <1>3 DEF StartupDetected
<1>4. CASE SidecarStarted(t)
  BY <1>4 DEF SidecarStarted
<1>5. CASE WithdrawSidecarAllowance(t)
  BY <1>5 DEF WithdrawSidecarAllowance
<1>6. CASE RequestAction(t)
  BY <1>6 DEF RequestAction
<1>7. CASE PerformSucceeds(t)
  BY <1>7 DEF PerformSucceeds, Observe
<1>8. CASE PerformFails(t)
  BY <1>8 DEF PerformFails, ReserveReading
<1>9. CASE CommitAfterFailure(t)
  BY <1>9 DEF CommitAfterFailure, CommitReading
<1>10. CASE AwaitReady(t)
  BY <1>10 DEF AwaitReady, Observe
<1>11. CASE RefreshProbe(t)
  BY <1>11 DEF RefreshProbe, Observe
<1>12. CASE RestoreAllowance(t)
  BY <1>12 DEF RestoreAllowance
<1>13. CASE Release(t)
  BY <1>13 DEF Release
<1>14. CASE NotifyWaiters(t)
  BY <1>14 DEF NotifyWaiters
<1>15. CASE Announce(t)
  BY <1>15 DEF Announce, ReadService
<1>16. CASE AnnounceFlag(t)
  BY <1>16 DEF AnnounceFlag, ReadOperationFlag
<1>17. CASE Publish(t)
  BY <1>17 DEF Publish
<1>18. CASE SettledReadService(t)
  BY <1>18 DEF SettledReadService, ReadService
<1>19. CASE SettledReadFlag(t)
  BY <1>19 DEF SettledReadFlag, ReadOperationFlag
<1>20. CASE SettledWoken(t)
  BY <1>20 DEF SettledWoken, Register
<1>21. CASE SettledReturn(t)
  BY <1>21 DEF SettledReturn
<1> QED
  BY <1>1, <1>2, <1>3, <1>4, <1>5, <1>6, <1>7, <1>8, <1>9, <1>10, <1>11, <1>12,
     <1>13, <1>14, <1>15, <1>16, <1>17, <1>18, <1>19, <1>20, <1>21 DEF Continues

\* The request a task is about to record survives every step.
LEMMA RequestStep ==
  ASSUME TypeOK, RequestHasAction, [Next]_vars
  PROVE  RequestHasAction'
<1> USE DEF TypeOK, TaskTypeOK, RequestHasAction, Announcing, OperationSteps, AnnounceThen,
            AnnounceIfChanged, Goto, wait_vars, env_vars, service_vars
<1>1. CASE UNCHANGED vars
  BY <1>1 DEF vars, task_vars
<1>2. ASSUME NEW t \in Tasks, StartsCall(t) PROVE RequestHasAction'
  <2>1. OnlyMoves(t)
    BY <1>2, StartStep
  <2>2. pc'[t] = "request" \/ (pc'[t] \in Announcing /\ after'[t] = "request") => action'[t] \in Actions
    BY <1>2 DEF StartsCall, StartCall, RecordReply, AllowSidecarForSession, RequireInstall,
                BeginOperation, Settled, Register, Observe, Refresh
  <2> QED BY <2>1, <2>2 DEF OnlyMoves
<1>3. ASSUME NEW t \in Tasks, Continues(t) PROVE RequestHasAction'
  <2>1. OnlyMoves(t)
    BY <1>3, ContinueStep
  <2>2. CASE Publish(t)
    BY <2>1, <2>2 DEF OnlyMoves, Publish
  <2>3. CASE Announce(t) \/ AnnounceFlag(t)
    BY <2>1, <2>3 DEF OnlyMoves, Announce, AnnounceFlag, ReadService, ReadOperationFlag
  <2>4. CASE ~(Publish(t) \/ Announce(t) \/ AnnounceFlag(t))
    <3>1. CASE DetectStartupStatus(t) \/ CommitObservedHealth(t) \/ StartupDetected(t)
               \/ PerformFails(t) \/ CommitAfterFailure(t)
      BY <2>1, <3>1 DEF OnlyMoves, DetectStartupStatus, ReserveReading, CommitObservedHealth, CommitReading,
         StartupDetected, PerformFails, CommitAfterFailure
    <3>2. CASE SidecarStarted(t) \/ WithdrawSidecarAllowance(t) \/ RequestAction(t)
               \/ RestoreAllowance(t) \/ Release(t) \/ NotifyWaiters(t)
      BY <2>1, <3>2 DEF OnlyMoves, SidecarStarted, WithdrawSidecarAllowance, RequestAction, RestoreAllowance,
         Release, NotifyWaiters
    <3>3. CASE PerformSucceeds(t) \/ AwaitReady(t) \/ RefreshProbe(t)
      BY <2>1, <3>3 DEF OnlyMoves, PerformSucceeds, AwaitReady, RefreshProbe, Observe
    <3>4. CASE SettledReadService(t) \/ SettledReadFlag(t) \/ SettledWoken(t)
               \/ SettledReturn(t)
      BY <2>1, <3>4 DEF OnlyMoves, SettledReadService, ReadService, SettledReadFlag, ReadOperationFlag,
         SettledWoken, Register, SettledReturn
    <3> QED BY <1>3, <2>4, <3>1, <3>2, <3>3, <3>4 DEF Continues
  <2> QED BY <2>2, <2>3, <2>4
<1> QED BY <1>1, <1>2, <1>3 DEF Next

\* The slot stays with one task at a time.
LEMMA SlotStep ==
  ASSUME TypeOK, OperationExclusive, [Next]_vars
  PROVE  OperationExclusive'
<1>1. CASE UNCHANGED vars
  BY <1>1 DEF vars, service_vars, task_vars, OperationExclusive, InOperation
<1>2. ASSUME NEW t \in Tasks, StartsCall(t) PROVE OperationExclusive'
  <2>1. \A u \in Tasks \ {t} : InOperation(u)' = InOperation(u)
    BY <1>2, StartStep DEF OnlyMoves, InOperation
  <2> QED BY <1>2, <2>1, StartStep DEF OperationExclusive
<1>3. ASSUME NEW t \in Tasks, Continues(t) PROVE OperationExclusive'
  <2>1. \A u \in Tasks \ {t} : InOperation(u)' = InOperation(u)
    BY <1>3, ContinueStep DEF OnlyMoves, InOperation
  <2> QED BY <1>3, <2>1, ContinueStep DEF OperationExclusive
<1> QED BY <1>1, <1>2, <1>3 DEF Next

-----------------------------------------------------------------------------
(* Theorems.                                                               *)

IInv == TypeOK /\ RequestHasAction /\ OperationExclusive

\* The initial states satisfy the invariant.
LEMMA InitIInv == Init => IInv
<1> SUFFICES ASSUME Init PROVE IInv
  OBVIOUS
<1>1. StoreTypeOK
  <2>1. service \in StoredService
    <3>1. CASE started = TRUE
      BY <3>1 DEF Init, StoredService, Health, NoAction
    <3>2. CASE started = FALSE
      BY <3>2 DEF Init, StoredService, Health, NoAction
    <3>3. started \in BOOLEAN
      BY DEF Init
    <3> QED BY <3>1, <3>2, <3>3
  <2>2. operationRunning \in BOOLEAN /\ started \in BOOLEAN
    BY Zenon DEF Init
  <2>3. view \in [service : StoredService, running : BOOLEAN]
    <3>1. view = [service |-> service, running |-> operationRunning]
      BY Zenon DEF Init, CurrentView
    <3> QED BY <2>1, <2>2, <3>1
  <2>4. observation = 0 /\ calls = 0
    BY Zenon DEF Init
  <2>5. observation \in Nat /\ calls \in 0..MaxCalls
    BY <2>4, MaxCallsAssumption
  <2> QED BY Zenon, <2>1, <2>2, <2>3, <2>5 DEF StoreTypeOK
<1>2. TaskTypeOK
  BY Values DEF Init, TaskTypeOK, PcValues, OperationSteps
<1>3. RequestHasAction /\ OperationExclusive
  BY DEF Init, RequestHasAction, OperationExclusive, InOperation, OperationSteps, Announcing
<1> QED BY <1>1, <1>2, <1>3 DEF IInv, TypeOK

\* Every step preserves it.
LEMMA StepIInv == IInv /\ [Next]_vars => IInv'
BY StoreTypeStep, TaskTypeStep, RequestStep, SlotStep DEF IInv, TypeOK

\* The inductive invariant holds in every reachable state.
THEOREM Invariance == Spec => []IInv
BY InitIInv, StepIInv, PTL DEF Spec

\* Every variable of the store keeps its type, for any tasks and any number
\* of calls.
THEOREM TypeCorrect == Spec => []TypeOK
BY Invariance, PTL DEF IInv

\* At most one privileged operation runs, and the slot is taken exactly
\* while one does.
THEOREM SlotExclusive == Spec => []OperationExclusive
BY Invariance, PTL DEF IInv

\* Every write to what is known about the Service is one of five.
LEMMA ServiceWrites ==
  ASSUME [Next]_vars
  PROVE  \/ service' = service
         \/ service' = SidecarAllowed
         \/ service' = Withdrawn
         \/ \E h : service' = Observed(h)
         \/ \E a : service' = Requested(a)
<1> USE DEF Observe, ReserveReading, CommitReading, service_vars
<1>1. CASE UNCHANGED vars
  BY <1>1 DEF vars
<1>2. ASSUME NEW t \in Tasks, StartsCall(t)
      PROVE service' = service \/ service' = SidecarAllowed \/ (\E h : service' = Observed(h))
              \/ \E a : service' = Requested(a)
  BY <1>2 DEF StartsCall, RecordReply, AllowSidecarForSession, RequireInstall, BeginOperation,
              Settled
<1>3. ASSUME NEW t \in Tasks, Continues(t)
      PROVE service' = service \/ service' = SidecarAllowed \/ service' = Withdrawn
              \/ (\E h : service' = Observed(h)) \/ \E a : service' = Requested(a)
  <2>1. CASE \/ DetectStartupStatus(t) \/ StartupDetected(t) \/ SidecarStarted(t)
             \/ PerformFails(t) \/ Release(t) \/ NotifyWaiters(t) \/ Announce(t)
             \/ AnnounceFlag(t) \/ Publish(t) \/ SettledReadService(t)
             \/ SettledReadFlag(t) \/ SettledWoken(t) \/ SettledReturn(t)
    BY <2>1 DEF DetectStartupStatus, StartupDetected, SidecarStarted, PerformFails, Release,
       NotifyWaiters, Announce, AnnounceFlag, Publish, SettledReadService, SettledReadFlag,
       SettledWoken, SettledReturn
  <2>2. CASE CommitObservedHealth(t) \/ CommitAfterFailure(t)
    BY <2>2 DEF CommitObservedHealth, CommitAfterFailure
  <2>3. CASE PerformSucceeds(t) \/ AwaitReady(t) \/ RefreshProbe(t)
    BY <2>3 DEF PerformSucceeds, AwaitReady, RefreshProbe
  <2>4. CASE RequestAction(t) \/ RestoreAllowance(t) \/ WithdrawSidecarAllowance(t)
    BY <2>4 DEF RequestAction, RestoreAllowance, WithdrawSidecarAllowance
  <2> QED BY <1>3, <2>1, <2>2, <2>3, <2>4 DEF Continues
<1> QED BY <1>1, <1>2, <1>3 DEF Next

\* A pending action and a Sidecar allowance never coexist.
THEOREM PendingExclusion == Spec => []PendingExcludesSidecar
<1>1. Init => PendingExcludesSidecar
  BY DEF Init, PendingExcludesSidecar, FreshService, Observed, NoAction
<1>2. PendingExcludesSidecar /\ [Next]_vars => PendingExcludesSidecar'
  BY ServiceWrites
  DEF PendingExcludesSidecar, SidecarAllowed, Withdrawn, Observed, Requested, NoAction
<1> QED BY <1>1, <1>2, PTL DEF Spec

-----------------------------------------------------------------------------
(* Readings and reservations.                                              *)

\* A task that reads holds a reservation; what overtook it took a later one.
ReservationsOrdered ==
  /\ overtaken \subseteq Reading
  /\ \A t \in Reading : reservation[t] <= observation
  /\ \A t \in overtaken : reservation[t] < observation

\* What a step does to the readings in flight: nothing, overtake them all,
\* overtake them all and add one, or end one.
Overtakes == NextObservation /\ reservation' = reservation /\ Reading' = Reading
Reserves(t) ==
  /\ NextObservation
  /\ t \notin Reading
  /\ reservation' = [reservation EXCEPT ![t] = observation + 1]
  /\ Reading' = Reading \cup {t}
Ends(t) ==
  /\ observation' = observation
  /\ overtaken' = overtaken \ {t}
  /\ reservation' = [reservation EXCEPT ![t] = 0]
  /\ Reading' = Reading \ {t}
LeavesReadings ==
  /\ observation' = observation
  /\ overtaken' = overtaken
  /\ reservation' = reservation
  /\ Reading' = Reading

\* A call starts outside any reading and overtakes those in flight, or leaves them.
LEMMA StartReading ==
  ASSUME TypeOK, NEW t \in Tasks, StartsCall(t)
  PROVE  Overtakes \/ LeavesReadings
<1> USE DEF TypeOK, TaskTypeOK, StartCall, Overtakes, LeavesReadings, NextObservation, Reading,
            AnnounceThen, Goto, service_vars
<1>1. CASE RecordReply(t)
  BY <1>1 DEF RecordReply, Observe, AnnounceIfChanged
<1>2. CASE AllowSidecarForSession(t)
  BY <1>2 DEF AllowSidecarForSession
<1>3. CASE RequireInstall(t)
  BY <1>3 DEF RequireInstall
<1>4. CASE BeginOperation(t)
  BY <1>4 DEF BeginOperation
<1>5. CASE Settled(t)
  BY <1>5 DEF Settled, Register
<1> QED BY <1>1, <1>2, <1>3, <1>4, <1>5 DEF StartsCall

\* Inside a call a reading starts with a reservation and ends with its commit.
LEMMA ContinueReading ==
  ASSUME TypeOK, NEW t \in Tasks, Continues(t)
  PROVE  Overtakes \/ LeavesReadings \/ Reserves(t) \/ Ends(t)
<1> USE DEF TypeOK, TaskTypeOK, NextObservation, Reading, AnnounceThen, AnnounceIfChanged, Goto,
            wait_vars, env_vars, service_vars
<1>1. CASE DetectStartupStatus(t)
  BY <1>1 DEF DetectStartupStatus, ReserveReading, Reserves
<1>2. CASE PerformFails(t)
  BY <1>2 DEF PerformFails, ReserveReading, Reserves
<1>3. CASE CommitObservedHealth(t)
  BY <1>3 DEF CommitObservedHealth, CommitReading, Ends
<1>4. CASE CommitAfterFailure(t)
  BY <1>4 DEF CommitAfterFailure, CommitReading, Ends
<1>5. CASE WithdrawSidecarAllowance(t)
  BY <1>5 DEF WithdrawSidecarAllowance, Overtakes, LeavesReadings
<1>6. CASE RequestAction(t)
  BY <1>6 DEF RequestAction, Overtakes
<1>7. CASE PerformSucceeds(t)
  BY <1>7 DEF PerformSucceeds, Observe, Overtakes, LeavesReadings
<1>8. CASE AwaitReady(t)
  BY <1>8 DEF AwaitReady, Observe, Overtakes
<1>9. CASE RefreshProbe(t)
  BY <1>9 DEF RefreshProbe, Observe, Overtakes, LeavesReadings
<1>10. CASE RestoreAllowance(t)
  BY <1>10 DEF RestoreAllowance, Overtakes, LeavesReadings
<1>11. CASE Publish(t)
  BY <1>11 DEF Publish, LeavesReadings, OperationSteps
<1>12. CASE StartupDetected(t) \/ SidecarStarted(t) \/ Release(t) \/ NotifyWaiters(t)
  BY <1>12 DEF StartupDetected, SidecarStarted, Release, NotifyWaiters, LeavesReadings
<1>13. CASE Announce(t) \/ AnnounceFlag(t) \/ SettledReadService(t) \/ SettledReadFlag(t)
  BY <1>13 DEF Announce, AnnounceFlag, SettledReadService, SettledReadFlag, ReadService,
               ReadOperationFlag, LeavesReadings
<1>14. CASE SettledWoken(t) \/ SettledReturn(t)
  BY <1>14 DEF SettledWoken, Register, SettledReturn, LeavesReadings
<1> QED
  BY <1>1, <1>2, <1>3, <1>4, <1>5, <1>6, <1>7, <1>8, <1>9, <1>10, <1>11, <1>12,
     <1>13, <1>14 DEF Continues

\* Reservations stay ordered.
LEMMA ReservationStep ==
  ASSUME TypeOK, ReservationsOrdered, [Next]_vars
  PROVE  ReservationsOrdered'
<1>0. observation \in Nat /\ reservation \in [Tasks -> Nat] /\ Reading \subseteq Tasks
  BY DEF TypeOK, StoreTypeOK, TaskTypeOK, Reading
<1>1. CASE LeavesReadings
  BY <1>1 DEF LeavesReadings, ReservationsOrdered
<1>2. CASE Overtakes
  BY <1>0, <1>2 DEF Overtakes, NextObservation, ReservationsOrdered
<1>3. ASSUME NEW t \in Tasks, Reserves(t) PROVE ReservationsOrdered'
  <2>1. /\ observation' = observation + 1 /\ overtaken' = Reading
        /\ Reading' = Reading \cup {t} /\ t \notin Reading
        /\ \A u \in Reading : reservation'[u] = reservation[u]
        /\ reservation'[t] = observation + 1
    BY <1>0, <1>3 DEF Reserves, NextObservation, ReservationsOrdered
  <2> QED BY <1>0, <2>1 DEF ReservationsOrdered
<1>4. ASSUME NEW t \in Tasks, Ends(t) PROVE ReservationsOrdered'
  BY <1>0, <1>4 DEF Ends, ReservationsOrdered
<1>5. CASE UNCHANGED vars
  BY <1>5 DEF vars, service_vars, task_vars, Reading, ReservationsOrdered
<1> QED
  BY <1>1, <1>2, <1>3, <1>4, <1>5, StartReading, ContinueReading DEF Next

\* A commit whose reservation is no longer the latest writes nothing.
LEMMA StaleCommit ==
  ASSUME TypeOK, ReservationsOrdered, NEW t \in overtaken,
         CommitObservedHealth(t) \/ CommitAfterFailure(t)
  PROVE  service' = service
<1>1. observation # reservation[t]
  BY DEF ReservationsOrdered, TypeOK, StoreTypeOK, TaskTypeOK, Reading
<1> QED BY <1>1 DEF CommitObservedHealth, CommitAfterFailure, CommitReading

\* A reading of the Service's health that something newer overtook never
\* changes what is known, for any number of readings in flight.
THEOREM NoStaleReading == Spec => StaleReadingNeverLands
<1>1. Init => ReservationsOrdered
  BY DEF Init, ReservationsOrdered, Reading
<1>2. IInv /\ ReservationsOrdered /\ [Next]_vars => ReservationsOrdered'
  BY ReservationStep DEF IInv
<1>3. IInv /\ ReservationsOrdered /\ [Next]_vars
        => [\A t \in overtaken :
              CommitObservedHealth(t) \/ CommitAfterFailure(t) => service' = service]_vars
  BY StaleCommit DEF IInv
<1> QED BY <1>1, <1>2, <1>3, Invariance, PTL DEF Spec, StaleReadingNeverLands

-----------------------------------------------------------------------------
(* What an operation leaves pending.                                       *)

\* Nothing is pending, or the install the startup flow asks for.
Settling == service.pending \in {NoAction, "Install"}

\* The task still answers for the request pending: its operation is carried
\* out or awaited, or reads the health and nothing overtook the reading.
Answers(t) ==
  \/ pc[t] \in {"privileged", "awaitReady"}
  \/ pc[t] \in Announcing /\ after[t] \in {"privileged", "awaitReady"}
  \/ pc[t] = "readingAfterFailure" /\ reservation[t] = observation

Answered == Settling \/ \E t \in Tasks : Answers(t)

\* A step changes neither the request pending nor the order of readings.
Untouched == service' = service /\ observation' = observation

\* What a step of a task leaves of the request: untouched, or nothing but an install.
LEMMA StartAnswers ==
  ASSUME TypeOK, PendingExcludesSidecar, NEW t \in Tasks, StartsCall(t)
  PROVE  Untouched \/ Settling' \/ (~operationRunning /\ service' = service)
<1> USE DEF Untouched, Settling, service_vars
<1>1. CASE RecordReply(t)
  BY <1>1 DEF RecordReply, Observe, Observed
<1>2. CASE AllowSidecarForSession(t)
  BY <1>2 DEF AllowSidecarForSession, SidecarAllowed
<1>3. CASE RequireInstall(t)
  BY <1>3 DEF RequireInstall, Requested
<1>4. CASE BeginOperation(t)
  BY <1>4 DEF BeginOperation
<1>5. CASE Settled(t)
  BY <1>5 DEF Settled
<1> QED BY <1>1, <1>2, <1>3, <1>4, <1>5 DEF StartsCall

\* A step inside a call clears the request, keeps answering for it, or leaves it alone.
LEMMA ContinueAnswers ==
  ASSUME TypeOK, PendingExcludesSidecar, NEW t \in Tasks, Continues(t)
  PROVE  \/ Settling'
         \/ Answers(t)'
         \/ Untouched /\ ~Answers(t)
         \/ pc[t] = "idle" /\ ~started /\ service' = service /\ \A u \in Tasks : pc[u] = "idle"
<1> USE DEF TypeOK, TaskTypeOK, Untouched, Settling, Answers, Announcing, AnnounceThen,
            AnnounceIfChanged, Goto, wait_vars, env_vars, service_vars
<1>1. CASE DetectStartupStatus(t)
  BY <1>1 DEF DetectStartupStatus, ReserveReading
<1>2. CASE PerformFails(t)
  BY <1>2 DEF PerformFails, ReserveReading, NextObservation
<1>3. CASE CommitObservedHealth(t)
  BY <1>3 DEF CommitObservedHealth, CommitReading, Observed
<1>4. CASE CommitAfterFailure(t)
  BY <1>4 DEF CommitAfterFailure, CommitReading, Observed
<1>5. CASE WithdrawSidecarAllowance(t)
  BY <1>5 DEF WithdrawSidecarAllowance, Withdrawn, PendingExcludesSidecar
<1>6. CASE RequestAction(t)
  BY <1>6 DEF RequestAction
<1>7. CASE PerformSucceeds(t)
  BY <1>7 DEF PerformSucceeds, Observe, Observed
<1>8. CASE AwaitReady(t)
  BY <1>8 DEF AwaitReady, Observe, Observed
<1>9. CASE RefreshProbe(t)
  BY <1>9 DEF RefreshProbe, Observe, Observed
<1>10. CASE RestoreAllowance(t)
  BY <1>10 DEF RestoreAllowance, SidecarAllowed
<1>11. CASE Publish(t)
  BY <1>11 DEF Publish
<1>12. CASE StartupDetected(t) \/ SidecarStarted(t) \/ Release(t) \/ NotifyWaiters(t)
  BY <1>12 DEF StartupDetected, SidecarStarted, Release, NotifyWaiters
<1>13. CASE Announce(t) \/ AnnounceFlag(t) \/ SettledReadService(t) \/ SettledReadFlag(t)
  BY <1>13 DEF Announce, AnnounceFlag, SettledReadService, SettledReadFlag, ReadService,
               ReadOperationFlag
<1>14. CASE SettledWoken(t) \/ SettledReturn(t)
  BY <1>14 DEF SettledWoken, Register, SettledReturn
<1> QED
  BY <1>1, <1>2, <1>3, <1>4, <1>5, <1>6, <1>7, <1>8, <1>9, <1>10, <1>11, <1>12,
     <1>13, <1>14 DEF Continues

\* Who answers for a request is inside an operation.
LEMMA AnsweringIsInside == \A t \in Tasks : Answers(t) => InOperation(t)
BY DEF Answers, InOperation, OperationSteps, Announcing

\* Another task's answer outlives a step that touches neither of the two.
LEMMA OthersAnswer ==
  ASSUME TypeOK, NEW t \in Tasks, StartsCall(t) \/ Continues(t), Untouched,
         NEW u \in Tasks \ {t}, Answers(u)
  PROVE  Answers(u)'
<1>1. pc'[u] = pc[u] /\ after'[u] = after[u]
  BY StartStep, ContinueStep DEF OnlyMoves
<1>2. reservation'[u] = reservation[u]
  BY StartReading, ContinueReading
  DEF TypeOK, TaskTypeOK, Overtakes, LeavesReadings, Reserves, Ends
<1> QED BY <1>1, <1>2 DEF Answers, Untouched

\* A request pending keeps a task that answers for it.
LEMMA AnsweredStep ==
  ASSUME TypeOK, OperationExclusive, PendingExcludesSidecar, Answered, [Next]_vars
  PROVE  Answered'
<1>1. CASE UNCHANGED vars
  BY <1>1 DEF vars, service_vars, task_vars, Answered, Settling, Answers
<1>2. CASE Settling'
  BY <1>2 DEF Answered
<1>3. ASSUME NEW t \in Tasks, StartsCall(t), ~Settling' PROVE Answered'
  <2>1. CASE ~operationRunning /\ service' = service
    <3>1. Settling
      BY <2>1, AnsweringIsInside DEF Answered, OperationExclusive
    <3> QED BY <2>1, <3>1, <1>3 DEF Settling
  <2>2. CASE Untouched
    <3>1. ~Settling
      BY <2>2, <1>3 DEF Untouched, Settling
    <3>2. PICK u \in Tasks : Answers(u)
      BY <3>1 DEF Answered
    <3>3. u # t
      BY <1>3, <3>2, StartStep, AnsweringIsInside
    <3> QED BY <1>3, <2>2, <3>2, <3>3, OthersAnswer DEF Answered
  <2> QED BY <1>3, <2>1, <2>2, StartAnswers
<1>4. ASSUME NEW t \in Tasks, Continues(t), ~Settling' PROVE Answered'
  <2>1. CASE Answers(t)'
    BY <2>1 DEF Answered
  <2>2. CASE service' = service /\ \A u \in Tasks : pc[u] = "idle"
    <3>1. Settling
      BY <2>2 DEF Answered, Answers, Announcing
    <3> QED BY <2>2, <3>1, <1>4 DEF Settling
  <2>3. CASE Untouched /\ ~Answers(t)
    <3>1. ~Settling
      BY <2>3, <1>4 DEF Untouched, Settling
    <3>2. PICK u \in Tasks : Answers(u)
      BY <3>1 DEF Answered
    <3>3. u # t
      BY <2>3, <3>2
    <3> QED BY <1>4, <2>3, <3>2, <3>3, OthersAnswer DEF Answered
  <2> QED BY <1>4, <2>1, <2>2, <2>3, ContinueAnswers
<1> QED BY <1>1, <1>2, <1>3, <1>4 DEF Next

\* Once the slot is free, no request of an operation is left behind, whatever
\* failed on the way and whatever else was read meanwhile.
THEOREM NothingOrphaned == Spec => []NoOrphanedAction
<1>1. Init => Answered
  BY DEF Init, Answered, Settling
<1>2. IInv /\ PendingExcludesSidecar /\ Answered /\ [Next]_vars => Answered'
  BY AnsweredStep DEF IInv
<1>3. IInv /\ Answered => NoOrphanedAction
  BY AnsweringIsInside DEF IInv, OperationExclusive, Answered, Settling, NoOrphanedAction
<1> QED BY <1>1, <1>2, <1>3, Invariance, PendingExclusion, PTL DEF Spec

\* The allowance is only ever granted between operations, or given back by
\* the operation that displaced it.
LEMMA AllowanceStep ==
  ASSUME Next, operationRunning, ~service.sidecarAllowed, service'.sidecarAllowed
  PROVE  \E t \in Tasks : pc[t] = "restore"
<1>0. /\ service' # service /\ service' # Withdrawn
      /\ \A h : service' # Observed(h)
      /\ \A a : service' # Requested(a)
  <2>1. /\ ~Withdrawn.sidecarAllowed
        /\ \A h : ~Observed(h).sidecarAllowed
        /\ \A a : ~Requested(a).sidecarAllowed
    BY DEF Withdrawn, Observed, Requested
  <2> QED BY <2>1
<1> USE DEF Observe, ReserveReading, CommitReading, service_vars
<1>1. PICK t \in Tasks : StartsCall(t) \/ Continues(t)
  BY DEF Next
<1>2. CASE StartsCall(t)
  BY <1>0, <1>2 DEF StartsCall, RecordReply, AllowSidecarForSession, SidecarPermitted, RequireInstall,
              BeginOperation, Settled
<1>3. CASE \/ DetectStartupStatus(t) \/ StartupDetected(t) \/ SidecarStarted(t)
           \/ PerformFails(t) \/ Release(t) \/ NotifyWaiters(t) \/ Announce(t)
           \/ AnnounceFlag(t) \/ Publish(t) \/ SettledReadService(t)
           \/ SettledReadFlag(t) \/ SettledWoken(t) \/ SettledReturn(t)
  BY <1>0, <1>3 DEF DetectStartupStatus, StartupDetected, SidecarStarted, PerformFails, Release,
     NotifyWaiters, Announce, AnnounceFlag, Publish, SettledReadService, SettledReadFlag,
     SettledWoken, SettledReturn
<1>4. CASE CommitObservedHealth(t) \/ CommitAfterFailure(t)
  BY <1>0, <1>4 DEF CommitObservedHealth, CommitAfterFailure
<1>5. CASE PerformSucceeds(t) \/ AwaitReady(t) \/ RefreshProbe(t)
  BY <1>0, <1>5 DEF PerformSucceeds, AwaitReady, RefreshProbe
<1>6. CASE RequestAction(t) \/ RestoreAllowance(t) \/ WithdrawSidecarAllowance(t)
  BY <1>0, <1>6 DEF RequestAction, RestoreAllowance, WithdrawSidecarAllowance
<1> QED BY <1>1, <1>2, <1>3, <1>4, <1>5, <1>6 DEF Continues

\* A session falls back to Sidecar only between operations.
THEOREM AllowedBetweenOperations == Spec => SidecarAllowedBetweenOperations
<1>1. [Next]_vars => [operationRunning /\ ~service.sidecarAllowed /\ service'.sidecarAllowed
                        => \E t \in Tasks : pc[t] = "restore"]_vars
  BY AllowanceStep
<1> QED BY <1>1, PTL DEF Spec, SidecarAllowedBetweenOperations
=============================================================================
