------------------------------ MODULE RunState ------------------------------
(***************************************************************************)
(* The service half of core::runstate: what is known about the privileged  *)
(* Service, which action on it is pending, whether this session has        *)
(* settled on the Sidecar, and the slot that lets one privileged operation *)
(* run at a time.  Any number of asynchronous tasks call the store; every  *)
(* section run under the service lock is one step, and everything outside  *)
(* it (I/O, the separate reads of a snapshot, publishing, waking the       *)
(* waiters) is a step of its own, so that other tasks interleave with it.  *)
(*                                                                         *)
(* The Running Mode and PAC, the other half of the store, are modelled in  *)
(* CoreLifecycle.  VersionedService.generation is read only by tests and   *)
(* is left out; observation, which orders readings, is kept.               *)
(***************************************************************************)
EXTENDS Naturals, FiniteSets

CONSTANTS
  Tasks,      \* asynchronous tasks that call the store
  Actions,    \* privileged actions a task may carry out
  MaxCalls    \* bound on the calls the tasks start

ASSUME TasksAssumption == IsFiniteSet(Tasks)
ASSUME ActionsAssumption ==
  Actions \subseteq {"Install", "Uninstall", "Reinstall", "ForceReinstall"}
ASSUME MaxCallsAssumption == MaxCalls \in Nat

VARIABLES
  service,          \* StoredService: health, pending, sidecarAllowed
  observation,      \* revision that orders readings of the Service
  operationRunning, \* the privileged-operation slot
  pc,               \* where each task is
  after,            \* where a task goes once it has announced
  action,           \* the operation a task carries out
  reservation,      \* the revision a task reserved before reading health
  displaced,        \* whether the request cleared a Sidecar allowance
  seen,             \* the snapshot a task is taking
  waiters,          \* tasks registered with operation_done
  notified,         \* registered tasks that notify_waiters has woken
  view,             \* the run state the frontend was last sent
  calls,            \* number of calls started, bounded by MaxCalls
  started,          \* startup detection has settled; calls may come
  overtaken         \* history: tasks whose reading something newer overtook

service_vars == <<service, observation, operationRunning>>
task_vars == <<pc, after, action, reservation, displaced, seen>>
wait_vars == <<waiters, notified>>
env_vars == <<view, calls, started>>
vars == <<service_vars, task_vars, wait_vars, env_vars, overtaken>>

-----------------------------------------------------------------------------
Health == {"Unknown", "Ready", "NotInstalled", "VersionMismatch", "Unavailable"}

\* What detect_service_health can conclude.
Detected == Health \ {"Unknown"}

\* What a readable version reply can mean.
ReplyHealth == {"Ready", "VersionMismatch"}

NoAction == "None"
Refresh == "Refresh"

StoredService ==
  [health : Health, pending : Actions \cup {"Install", NoAction}, sidecarAllowed : BOOLEAN]

\* A torn snapshot keeps what it read; "during" is history: whether an
\* operation was in flight when the service part was read.
Snapshot == [service : StoredService, running : BOOLEAN, during : BOOLEAN]

Observed(h) == [health |-> h, pending |-> NoAction, sidecarAllowed |-> FALSE]

\* Mutation of Requested: the request leaves the Sidecar allowance standing.
RequestedBesideAllowance(a) ==
  [health |-> service.health, pending |-> a, sidecarAllowed |-> service.sidecarAllowed]

Requested(a) ==
  [health |-> service.health, pending |-> a, sidecarAllowed |-> FALSE]

SidecarAllowed ==
  [health |-> service.health, pending |-> NoAction, sidecarAllowed |-> TRUE]

Withdrawn ==
  [health |-> service.health, pending |-> service.pending, sidecarAllowed |-> FALSE]

FreshService == Observed("Unknown")

CurrentView == [service |-> service, running |-> operationRunning]

Saw(s, flag, inOperation) == [service |-> s, running |-> flag, during |-> inOperation]

NothingSeen == Saw(FreshService, FALSE, FALSE)

OperationSteps ==
  {"request", "privileged", "awaitReady", "readingAfterFailure", "restore",
   "refresh", "release"}

PcValues ==
  OperationSteps \cup
  {"idle", "reading", "detected", "startingSidecar", "notify",
   "announce", "announceFlag", "publish",
   "settledService", "settledFlag", "settledWait", "settledReturn"}

StoreTypeOK ==
  /\ service \in StoredService
  /\ observation \in Nat
  /\ operationRunning \in BOOLEAN
  /\ view \in [service : StoredService, running : BOOLEAN]
  /\ calls \in 0..MaxCalls
  /\ started \in BOOLEAN

TaskTypeOK ==
  /\ pc \in [Tasks -> PcValues]
  /\ after \in [Tasks -> (OperationSteps \ {"readingAfterFailure"}) \cup
                       {"idle", "detected", "startingSidecar"}]
  /\ action \in [Tasks -> Actions \cup {Refresh, NoAction}]
  /\ reservation \in [Tasks -> Nat]
  /\ displaced \in [Tasks -> BOOLEAN]
  /\ seen \in [Tasks -> Snapshot]
  /\ waiters \cup notified \cup overtaken \subseteq Tasks

TypeOK == StoreTypeOK /\ TaskTypeOK

\* A development build accepts Sidecar before anything else runs; every other
\* build starts from a store that knows nothing and detects the Service first.
Init ==
  /\ started \in BOOLEAN
  /\ service = [health |-> "Unknown", pending |-> NoAction, sidecarAllowed |-> started]
  /\ observation = 0
  /\ operationRunning = FALSE
  /\ pc = [t \in Tasks |-> "idle"]
  /\ after = [t \in Tasks |-> "idle"]
  /\ action = [t \in Tasks |-> NoAction]
  /\ reservation = [t \in Tasks |-> 0]
  /\ displaced = [t \in Tasks |-> FALSE]
  /\ seen = [t \in Tasks |-> NothingSeen]
  /\ waiters = {}
  /\ notified = {}
  /\ view = CurrentView
  /\ calls = 0
  /\ overtaken = {}

-----------------------------------------------------------------------------
(* Helpers of the actions.                                                 *)

Goto(t, label) == pc' = [pc EXCEPT ![t] = label]

\* Tasks that hold a reservation and have not committed their reading yet.
Reading == {t \in Tasks : pc[t] \in {"reading", "readingAfterFailure"}}

\* A new revision: nothing read before it may land any more.
NextObservation ==
  /\ observation' = observation + 1
  /\ overtaken' = overtaken \cup Reading

StartCall(t) ==
  /\ started
  /\ pc[t] = "idle"
  /\ calls < MaxCalls
  /\ calls' = calls + 1
  /\ UNCHANGED <<started, view>>

\* Publish after the lock is released, then carry on at next.
AnnounceThen(t, next) ==
  /\ Goto(t, "announce")
  /\ after' = [after EXCEPT ![t] = next]

\* A change that altered nothing visible is not announced.
AnnounceIfChanged(t, next) ==
  IF service' = service
  THEN Goto(t, next) /\ UNCHANGED after
  ELSE AnnounceThen(t, next)

\* RunStateStore::observe: even a repeated observation takes a new revision.
Observe(t, h, next) ==
  /\ NextObservation
  /\ service' = Observed(h)
  /\ AnnounceIfChanged(t, next)

\* reserve_health_observation, before the I/O of detect_service_health.
ReserveReading(t, next) ==
  /\ NextObservation
  /\ reservation' = [reservation EXCEPT ![t] = observation + 1]
  /\ Goto(t, next)
  /\ UNCHANGED <<service, after>>

\* Mutation of CommitReading: a reading lands whatever happened meanwhile.
CommitAnyReading(t, h, next) ==
  /\ service' = Observed(h)
  /\ AnnounceIfChanged(t, next)
  /\ reservation' = [reservation EXCEPT ![t] = 0]
  /\ overtaken' = overtaken \ {t}
  /\ UNCHANGED observation

\* commit_reserved_observation: only the latest reservation may land.
CommitReading(t, h, next) ==
  /\ IF observation = reservation[t]
     THEN /\ service' = Observed(h)
          /\ AnnounceIfChanged(t, next)
     ELSE Goto(t, next) /\ UNCHANGED <<service, after>>
  /\ reservation' = [reservation EXCEPT ![t] = 0]
  /\ overtaken' = overtaken \ {t}
  /\ UNCHANGED observation

-----------------------------------------------------------------------------
(* Calls made outside a privileged operation.                              *)

\* A reply to probe or await_ready, or a failure of the running service,
\* recorded as soon as it arrives.  A silent probe changes nothing.
RecordReply(t) ==
  /\ StartCall(t)
  /\ \E h \in ReplyHealth \cup {"Unavailable"} : Observe(t, h, "idle")
  /\ UNCHANGED <<operationRunning, action, reservation, displaced, seen, wait_vars>>

\* detect_startup_status: the first reading, before any call can come.
DetectStartupStatus(t) ==
  /\ ~started
  /\ \A u \in Tasks : pc[u] = "idle"
  /\ ReserveReading(t, "reading")
  /\ UNCHANGED <<operationRunning, action, displaced, seen, wait_vars, env_vars>>

CommitObservedHealth(t) ==
  /\ pc[t] = "reading"
  /\ \E h \in Detected : CommitReading(t, h, "detected")
  /\ UNCHANGED <<operationRunning, action, displaced, seen, wait_vars, env_vars>>

\* The window and every other caller come only after the detection.
StartupDetected(t) ==
  /\ pc[t] = "detected"
  /\ started' = TRUE
  /\ Goto(t, "idle")
  /\ UNCHANGED <<service_vars, after, action, reservation, displaced, seen,
                 wait_vars, view, calls, overtaken>>

\* Mutation of SidecarPermitted: an operation in flight does not matter.
SidecarPermittedAnyTime ==
  \/ service.pending = "Install"
  \/ /\ service.pending = NoAction
     /\ ~service.sidecarAllowed
     /\ service.health \in {"NotInstalled", "VersionMismatch", "Unavailable"}

\* continue_with_sidecar up to allow_sidecar_for_session; a refusal changes nothing.
SidecarPermitted ==
  /\ ~operationRunning
  /\ \/ service.pending = "Install"
     \/ /\ service.pending = NoAction
        /\ ~service.sidecarAllowed
        /\ service.health \in {"NotInstalled", "VersionMismatch", "Unavailable"}

AllowSidecarForSession(t) ==
  /\ StartCall(t)
  /\ SidecarPermitted
  /\ NextObservation
  /\ service' = SidecarAllowed
  /\ AnnounceThen(t, "startingSidecar")
  /\ UNCHANGED <<operationRunning, action, reservation, displaced, seen, wait_vars>>

\* The Sidecar came up: the allowance stands.
SidecarStarted(t) ==
  /\ pc[t] = "startingSidecar"
  /\ Goto(t, "idle")
  /\ UNCHANGED <<service_vars, after, action, reservation, displaced, seen,
                 wait_vars, env_vars, overtaken>>

\* withdraw_sidecar_allowance, after the Sidecar failed to start.
WithdrawSidecarAllowance(t) ==
  /\ pc[t] = "startingSidecar"
  /\ IF service.sidecarAllowed
     THEN /\ NextObservation
          /\ service' = Withdrawn
          /\ AnnounceThen(t, "idle")
     ELSE /\ Goto(t, "idle")
          /\ UNCHANGED <<service, observation, overtaken, after>>
  /\ UNCHANGED <<operationRunning, action, reservation, displaced, seen,
                 wait_vars, env_vars>>

\* require_install_for_session: an absent Service gets an install request, a
\* request already there is reasserted; it announces either way.
RequireInstall(t) ==
  /\ StartCall(t)
  /\ ~operationRunning
  /\ IF service = Observed("NotInstalled")
     THEN service' = Requested("Install") /\ NextObservation
     ELSE /\ UNCHANGED service
          /\ IF service.pending = "Install"
             THEN NextObservation
             ELSE UNCHANGED <<observation, overtaken>>
  /\ AnnounceThen(t, "idle")
  /\ UNCHANGED <<operationRunning, action, reservation, displaced, seen, wait_vars>>

-----------------------------------------------------------------------------
(* A privileged operation: handle_service_status for an action, refresh    *)
(* for a mere probe.  Both hold the slot from BeginOperation to Release.   *)

\* Mutations of BeginOperation: the slot is set without looking at it; a mere
\* refresh records a request.
BeginOperationUnguarded(t) ==
  /\ StartCall(t)
  /\ operationRunning' = TRUE
  /\ NextObservation
  /\ \E a \in Actions \cup {Refresh} :
       /\ action' = [action EXCEPT ![t] = a]
       /\ AnnounceThen(t, IF a = Refresh THEN "refresh" ELSE "request")
  /\ UNCHANGED <<service, reservation, displaced, seen, wait_vars>>

\* begin_operation: swaps the slot under the service lock.
BeginOperation(t) ==
  /\ StartCall(t)
  /\ ~operationRunning
  /\ operationRunning' = TRUE
  /\ NextObservation
  /\ \E a \in Actions \cup {Refresh} :
       /\ action' = [action EXCEPT ![t] = a]
       /\ AnnounceThen(t, IF a = Refresh THEN "refresh" ELSE "request")
  /\ UNCHANGED <<service, reservation, displaced, seen, wait_vars>>

\* request_action: remembers the Sidecar allowance it displaces.
RequestAction(t) ==
  /\ pc[t] = "request"
  /\ displaced' = [displaced EXCEPT ![t] = service.sidecarAllowed]
  /\ service' = Requested(action[t])
  /\ NextObservation
  /\ AnnounceIfChanged(t, "privileged")
  /\ UNCHANGED <<operationRunning, action, reservation, seen, wait_vars, env_vars>>

\* Mutation of PerformSucceeds: an uninstall is not recorded.
PerformUnrecorded(t) ==
  /\ pc[t] = "privileged"
  /\ Goto(t, IF action[t] = "Uninstall" THEN "release" ELSE "awaitReady")
  /\ UNCHANGED <<service_vars, overtaken, after, action, reservation, displaced, seen,
                 wait_vars, env_vars>>

\* perform: an uninstalled Service is known to be gone, a failed action
\* leaves the Service to be read again.
PerformSucceeds(t) ==
  /\ pc[t] = "privileged"
  /\ IF action[t] = "Uninstall"
     THEN Observe(t, "NotInstalled", "release")
     ELSE Goto(t, "awaitReady") /\ UNCHANGED <<service, observation, overtaken, after>>
  /\ UNCHANGED <<operationRunning, action, reservation, displaced, seen,
                 wait_vars, env_vars>>

PerformFails(t) ==
  /\ pc[t] = "privileged"
  /\ ReserveReading(t, "readingAfterFailure")
  /\ UNCHANGED <<operationRunning, action, displaced, seen, wait_vars, env_vars>>

CommitAfterFailure(t) ==
  /\ pc[t] = "readingAfterFailure"
  /\ \E h \in Detected : CommitReading(t, h, "restore")
  /\ UNCHANGED <<operationRunning, action, displaced, seen, wait_vars, env_vars>>

\* wait_for_service_ipc: a rejected reply or lasting silence fails the operation.
AwaitReady(t) ==
  /\ pc[t] = "awaitReady"
  /\ \E h \in ReplyHealth \cup {"Unavailable"} :
       Observe(t, h, IF h = "Ready" THEN "release" ELSE "restore")
  /\ UNCHANGED <<operationRunning, action, reservation, displaced, seen,
                 wait_vars, env_vars>>

\* refresh probes once: silence preserves what was known.
RefreshProbe(t) ==
  /\ pc[t] = "refresh"
  /\ \/ \E h \in ReplyHealth : Observe(t, h, "release")
     \/ Goto(t, "release") /\ UNCHANGED <<service, observation, overtaken, after>>
  /\ UNCHANGED <<operationRunning, action, reservation, displaced, seen,
                 wait_vars, env_vars>>

\* restore_sidecar_allowance, after a failure that displaced an allowance.
RestoreAllowance(t) ==
  /\ pc[t] = "restore"
  /\ IF displaced[t] /\ (service.sidecarAllowed \/ service.health # "Ready")
     THEN /\ service' = SidecarAllowed
          /\ NextObservation
          /\ AnnounceIfChanged(t, "release")
     ELSE /\ Goto(t, "release")
          /\ UNCHANGED <<service, observation, overtaken, after>>
  /\ UNCHANGED <<operationRunning, action, reservation, displaced, seen,
                 wait_vars, env_vars>>

\* Drop of the guard: free the slot, wake the waiters, announce.
Release(t) ==
  /\ pc[t] = "release"
  /\ operationRunning' = FALSE
  /\ action' = [action EXCEPT ![t] = NoAction]
  /\ displaced' = [displaced EXCEPT ![t] = FALSE]
  /\ Goto(t, "notify")
  /\ UNCHANGED <<service, observation, after, reservation, seen, wait_vars,
                 env_vars, overtaken>>

\* Mutation of NotifyWaiters: nobody is woken.
NotifyNobody(t) ==
  /\ pc[t] = "notify"
  /\ AnnounceThen(t, "idle")
  /\ UNCHANGED <<service_vars, action, reservation, displaced, seen, wait_vars, env_vars,
                 overtaken>>

\* notify_waiters wakes those registered now and leaves no permit behind.
NotifyWaiters(t) ==
  /\ pc[t] = "notify"
  /\ notified' = notified \cup waiters
  /\ waiters' = {}
  /\ AnnounceThen(t, "idle")
  /\ UNCHANGED <<service_vars, action, reservation, displaced, seen, env_vars,
                 overtaken>>

-----------------------------------------------------------------------------
(* announce: the snapshot is read in two parts after the lock is released, *)
(* then published.                                                         *)

ReadService(t, next) ==
  /\ seen' = [seen EXCEPT ![t] = Saw(service, FALSE, operationRunning)]
  /\ Goto(t, next)

ReadOperationFlag(t, next) ==
  /\ seen' = [seen EXCEPT ![t] = Saw(@.service, operationRunning, @.during)]
  /\ Goto(t, next)

Announce(t) ==
  /\ pc[t] = "announce"
  /\ ReadService(t, "announceFlag")
  /\ UNCHANGED <<service_vars, after, action, reservation, displaced,
                 wait_vars, env_vars, overtaken>>

AnnounceFlag(t) ==
  /\ pc[t] = "announceFlag"
  /\ ReadOperationFlag(t, "publish")
  /\ UNCHANGED <<service_vars, after, action, reservation, displaced,
                 wait_vars, env_vars, overtaken>>

Publish(t) ==
  /\ pc[t] = "publish"
  /\ view' = [service |-> seen[t].service, running |-> seen[t].running]
  /\ Goto(t, after[t])
  /\ after' = [after EXCEPT ![t] = "idle"]
  /\ seen' = [seen EXCEPT ![t] = NothingSeen]
  /\ UNCHANGED <<service_vars, action, reservation, displaced, wait_vars,
                 calls, started, overtaken>>

-----------------------------------------------------------------------------
(* settled: registers for operation_done, then reads; while the snapshot   *)
(* shows an operation it waits to be woken and starts over.                *)

Register(t) ==
  /\ waiters' = waiters \cup {t}
  /\ notified' = notified \ {t}
  /\ Goto(t, "settledService")

Settled(t) ==
  /\ StartCall(t)
  /\ Register(t)
  /\ UNCHANGED <<service_vars, after, action, reservation, displaced, seen, overtaken>>

SettledReadService(t) ==
  /\ pc[t] = "settledService"
  /\ ReadService(t, "settledFlag")
  /\ UNCHANGED <<service_vars, after, action, reservation, displaced,
                 wait_vars, env_vars, overtaken>>

SettledReadFlag(t) ==
  /\ pc[t] = "settledFlag"
  /\ ReadOperationFlag(t, IF operationRunning THEN "settledWait" ELSE "settledReturn")
  /\ UNCHANGED <<service_vars, after, action, reservation, displaced,
                 wait_vars, env_vars, overtaken>>

SettledWoken(t) ==
  /\ pc[t] = "settledWait"
  /\ t \in notified
  /\ Register(t)
  /\ UNCHANGED <<service_vars, after, action, reservation, displaced, seen,
                 env_vars, overtaken>>

SettledReturn(t) ==
  /\ pc[t] = "settledReturn"
  /\ waiters' = waiters \ {t}
  /\ notified' = notified \ {t}
  /\ seen' = [seen EXCEPT ![t] = NothingSeen]
  /\ Goto(t, "idle")
  /\ UNCHANGED <<service_vars, after, action, reservation, displaced,
                 env_vars, overtaken>>

-----------------------------------------------------------------------------
StartsCall(t) ==
  \/ RecordReply(t) \/ AllowSidecarForSession(t)
  \/ RequireInstall(t) \/ BeginOperation(t) \/ Settled(t)

Continues(t) ==
  \/ DetectStartupStatus(t) \/ CommitObservedHealth(t) \/ StartupDetected(t)
  \/ SidecarStarted(t) \/ WithdrawSidecarAllowance(t)
  \/ RequestAction(t) \/ PerformSucceeds(t) \/ PerformFails(t)
  \/ CommitAfterFailure(t) \/ AwaitReady(t) \/ RefreshProbe(t)
  \/ RestoreAllowance(t) \/ Release(t) \/ NotifyWaiters(t)
  \/ Announce(t) \/ AnnounceFlag(t) \/ Publish(t)
  \/ SettledReadService(t) \/ SettledReadFlag(t) \/ SettledWoken(t) \/ SettledReturn(t)

Next == \E t \in Tasks : StartsCall(t) \/ Continues(t)

Spec == Init /\ [][Next]_vars

\* The runtime polls every task that can run, every probe and privileged
\* command is bounded by a timeout or a fixed number of attempts; nobody has
\* to start another call.
FairSpec == Spec /\ \A t \in Tasks : WF_vars(Continues(t))

-----------------------------------------------------------------------------
(* Properties.                                                             *)

\* A pending action and a Sidecar allowance exclude each other, whatever
\* the interleaving of observations, requests, restores and withdrawals.
PendingExcludesSidecar == ~(service.pending # NoAction /\ service.sidecarAllowed)

\* The tasks that hold the operation slot: inside an operation, or
\* announcing one of its steps.
Announcing == {"announce", "announceFlag", "publish"}
InOperation(t) ==
  \/ pc[t] \in OperationSteps
  \/ pc[t] \in Announcing /\ after[t] \in OperationSteps

\* The slot is taken exactly while some task runs an operation, and two
\* tasks never run one at the same time.
OperationExclusive ==
  /\ operationRunning <=> \E t \in Tasks : InOperation(t)
  /\ \A t, u \in Tasks : InOperation(t) /\ InOperation(u) => t = u

\* A reading of the Service's health that something newer overtook while
\* its I/O ran never changes what is known.
StaleReadingNeverLands ==
  [][\A t \in overtaken :
       CommitObservedHealth(t) \/ CommitAfterFailure(t) => service' = service]_vars

\* An operation that was carried out leaves no request of its own behind:
\* once it gave the slot back, only an install asked for by the startup
\* flow can be pending, whatever failed on the way.
NoOrphanedAction ==
  ~operationRunning => service.pending \in {NoAction, "Install"}

\* An operation in flight never has its Sidecar allowance granted behind
\* its back: a session falls back to Sidecar only between operations.
SidecarAllowedBetweenOperations ==
  [][operationRunning /\ ~service.sidecarAllowed /\ service'.sidecarAllowed
       => \E t \in Tasks : pc[t] = "restore"]_vars

\* settled always returns once operations stop being started: no wakeup is
\* lost between its registration and its reading.
SettledReturns ==
  \A t \in Tasks : pc[t] = "settledService" ~> pc[t] = "idle"
=============================================================================
