---------------------------- MODULE CoreLifecycle ----------------------------
(***************************************************************************)
(* core::manager: who runs the Core (mihomo) and how it changes hands.     *)
(* The application runs the Core itself (Sidecar) or has the privileged    *)
(* Service run it.  Starts, stops, restarts and fallbacks hold             *)
(* lifecycle_lock from their first step to their last; beside the holder   *)
(* run the tasks that do not hold it: the reader of each Sidecar process,  *)
(* the owner monitors, log polls, a port save that closes PAC, and the     *)
(* failures of processes and of the Service.  A step of the holder ends    *)
(* where the code awaits, so those tasks interleave with every operation.  *)
(*                                                                         *)
(* The knowledge of the Service (health, verdict) is the one of RunState,  *)
(* which details it; VersionMismatch counts as Unavailable, they are       *)
(* treated alike here.  OS writes of the system proxy either happen or     *)
(* fail; core::sysopt is not opened.                                       *)
(***************************************************************************)
EXTENDS Naturals, FiniteSets

CONSTANTS
  IsMacOS,        \* the Service writes the system proxy of its own Core
  Elevated,       \* the application may carry TUN on a Sidecar
  StartAttempts,  \* attempts at a Service start (several on Windows only)
  MaxCalls,       \* bound on the operations and port saves that are started
  MaxFaults,      \* bound on the failures of processes and of the Service
  MaxSaves        \* bound on the port saves alone

ASSUME IsMacOSAssumption == IsMacOS \in BOOLEAN
ASSUME ElevatedAssumption == Elevated \in BOOLEAN
ASSUME StartAttemptsAssumption == StartAttempts \in Nat \ {0}
ASSUME BoundsAssumption == MaxCalls \in Nat /\ MaxFaults \in Nat /\ MaxSaves \in Nat

VARIABLES
  mode,         \* Running Mode
  pac,          \* whether PAC is served
  readiness,    \* core_readiness_state: its generation and the active bit
  child,        \* the Sidecar the manager supervises (pid), or NoChild
  alive,        \* Sidecar processes that run
  spawned,      \* pids given out
  readers,      \* [pid, generation]: tasks draining a Sidecar's output
  reaping,      \* pids whose reader saw the end and wants the lock
  core,         \* session of the Core the Service runs for us, or NoSession
  issued,       \* sessions the Service gave out
  session,      \* session proof the application holds, or NoSession
  ownerGen,     \* OWNER_MONITOR_GENERATION
  monitors,     \* generations of the owner monitors still looping
  reports,      \* [generation, reason]: losses sampled, not yet claimed
  recoveries,   \* [generation, reason]: claimed recoveries that want the lock
  health,       \* what is known of the Service
  verdict,      \* InstallRequired, SidecarAllowed, or NoVerdict
  tun,          \* enable_tun_mode
  wanted,       \* enable_system_proxy
  osProxy,      \* whether the OS proxy points at our Core
  guard,        \* whether a proxy guard enforces it
  op,           \* the operation that holds lifecycle_lock, or Free
  step,         \* where it is
  expectation,  \* the ProxyRestoreExpectation it captured
  attempt,      \* attempts at the Service start so far
  saver,        \* where the port save is
  calls, faults, saves,  \* what the bounds count
  outage,       \* history: the Service was out of reach since the last accepted call
  exposed       \* history: the proxy was given up on, or its Core was lost

core_vars == <<mode, pac, readiness>>
sidecar_vars == <<child, alive, spawned, readers, reaping>>
service_vars == <<core, issued, session, ownerGen, monitors, reports, recoveries>>
status_vars == <<health, verdict, tun>>
proxy_vars == <<wanted, osProxy, guard>>
lock_vars == <<op, step, expectation, attempt>>
env_vars == <<saver, calls, faults, saves>>
history_vars == <<outage, exposed>>
vars == <<core_vars, sidecar_vars, service_vars, status_vars, proxy_vars,
          lock_vars, env_vars, history_vars>>

-----------------------------------------------------------------------------
Modes == {"NotRunning", "Sidecar", "Service"}
NoChild == 0
NoSession == 0

Health == {"Ready", "NotInstalled", "Unavailable"}
NoVerdict == "None"
Verdicts == {NoVerdict, "InstallRequired", "SidecarAllowed"}
Reasons == {"Displaced", "SameOwnerFailure", "TransportFailure"}

Free == "Free"

\* Operations that claim config_update_in_progress before the lock.
ConfigUpdates == {"start", "restart", "continue", "uninstall", "replace"}
Operations ==
  ConfigUpdates \cup {"stop", "install", "reinstall", "reapply", "proxyOn"}

\* What each operation accepts as a Core that became ready.
ReadyModes(o) ==
  CASE o \in {"continue", "uninstall"} -> {"Sidecar"}
    [] o = "replace" -> {"Service"}
    [] OTHER -> {"Sidecar", "Service"}

Steps ==
  {Free, "stopping", "stopCore", "stopReply", "operate", "begin", "spawn", "poll",
   "serviceStart", "serviceReply", "startFailed", "ready", "apply", "verify",
   "guard", "verifyGuard", "undo"}

NoExpectation == [mode |-> "NotRunning", generation |-> 0, owner |-> 0]

Loss == [generation : Nat, reason : Reasons]

TypeOK ==
  /\ mode \in Modes
  /\ pac \in BOOLEAN
  /\ readiness \in [generation : Nat, active : BOOLEAN]
  /\ child \in Nat /\ spawned \in Nat
  /\ alive \subseteq Nat /\ reaping \subseteq Nat
  /\ readers \subseteq [pid : Nat, generation : Nat]
  /\ core \in Nat /\ issued \in Nat /\ session \in Nat /\ ownerGen \in Nat
  /\ monitors \subseteq Nat
  /\ reports \subseteq Loss /\ recoveries \subseteq Loss
  /\ health \in Health /\ verdict \in Verdicts /\ tun \in BOOLEAN
  /\ wanted \in BOOLEAN /\ osProxy \in BOOLEAN /\ guard \in BOOLEAN
  /\ op \in Operations \cup {Free} /\ step \in Steps
  /\ expectation \in [mode : Modes, generation : Nat, owner : Nat]
  /\ attempt \in 0..StartAttempts
  /\ saver \in {"idle", "starting", "open", "shut"}
  /\ calls \in 0..MaxCalls /\ faults \in 0..MaxFaults /\ saves \in 0..MaxSaves
  /\ outage \in BOOLEAN /\ exposed \in BOOLEAN

\* The Service has been detected, no Core runs, and nothing was asked yet.
Init ==
  /\ mode = "NotRunning"
  /\ pac = FALSE
  /\ readiness = [generation |-> 0, active |-> FALSE]
  /\ child = NoChild
  /\ alive = {}
  /\ spawned = 0
  /\ readers = {}
  /\ reaping = {}
  /\ core = NoSession
  /\ issued = 0
  /\ session = NoSession
  /\ ownerGen = 0
  /\ monitors = {}
  /\ reports = {}
  /\ recoveries = {}
  /\ health \in Health
  /\ verdict = NoVerdict
  /\ tun \in BOOLEAN
  /\ wanted \in BOOLEAN
  /\ osProxy = FALSE
  /\ guard = FALSE
  /\ op = Free
  /\ step = Free
  /\ expectation = NoExpectation
  /\ attempt = 0
  /\ saver = "idle"
  /\ calls = 0
  /\ faults = 0
  /\ saves = 0
  /\ outage = FALSE
  /\ exposed = FALSE

-----------------------------------------------------------------------------
(* Helpers.                                                                *)

Goto(next) ==
  /\ step' = next
  /\ UNCHANGED <<op, expectation, attempt>>

Release ==
  /\ op' = Free
  /\ step' = Free
  /\ expectation' = NoExpectation
  /\ attempt' = 0

\* Mutation of Invalidated: the active bit survives.
KeptReady == readiness

\* next_active_core_readiness_state and inactive_core_readiness_state.
MarkedReady == [generation |-> readiness.generation + 1, active |-> TRUE]
Invalidated ==
  IF readiness.active
  THEN [generation |-> readiness.generation + 1, active |-> FALSE]
  ELSE readiness

CoreStarted(m) == mode' = m /\ pac' = TRUE
\* Mutation of CoreStopped: PAC stays open.
CoreStoppedPacOpen == mode' = "NotRunning" /\ readiness' = Invalidated /\ UNCHANGED pac

CoreStopped == mode' = "NotRunning" /\ pac' = FALSE /\ readiness' = Invalidated

\* SERVICE_MANAGER.current(): a verdict outranks the health.
Status == IF verdict = NoVerdict THEN health ELSE verdict

\* startup_decision, once prepare_startup has asked for a missing install.
StartupDecision(status) ==
  CASE status = "Ready" -> "Service"
    [] status = "SidecarAllowed" -> "Sidecar"
    [] status = "NotInstalled" /\ ~tun -> "Sidecar"
    [] OTHER -> "Wait"

InstallAsked == Status = "NotInstalled" /\ tun
PreparedStatus == IF InstallAsked THEN "InstallRequired" ELSE Status
PrepareStartup ==
  /\ verdict' = IF InstallAsked THEN "InstallRequired" ELSE verdict
  /\ UNCHANGED <<health, tun>>

\* A reply of the Service, or a failure of it, replaces any verdict.
ObserveHealth(h) == health' = h /\ verdict' = NoVerdict /\ UNCHANGED tun

\* wait_for_service_if_needed: a Service that answers in time is observed; only Windows waits.
WaitForService ==
  /\ ~IsMacOS /\ tun /\ ~Elevated /\ Status # "Ready"
  /\ \E h \in {"Ready", "Unavailable"} : ObserveHealth(h)

\* start_owner_monitor supersedes every monitor, cancel_owner_monitors ends them.
CancelMonitors == ownerGen' = ownerGen + 1 /\ UNCHANGED monitors
StartMonitor ==
  /\ ownerGen' = ownerGen + 1
  /\ monitors' = monitors \cup {ownerGen + 1}

\* Mutations of ClearProxy: the guard is left running; a clear that joins
\* another one answers before anything was written.
ClearProxyLeavesGuard(ok) ==
  /\ osProxy' = (osProxy /\ ~ok)
  /\ exposed' = (exposed \/ ~ok)
  /\ UNCHANGED guard
ClearProxyTooEarly(ok) == guard' = FALSE /\ UNCHANGED <<osProxy, exposed>>

\* proxy_control::clear stops the guard before it writes, so the guard is gone
\* even when the write fails.
ClearProxy(ok) ==
  /\ guard' = FALSE
  /\ osProxy' = (osProxy /\ ~ok)
  /\ exposed' = (exposed \/ ~ok)

\* Mutation of StopGuard: the guard lingers.
StopGuardLingers == UNCHANGED <<guard, osProxy, exposed>>

StopGuard == guard' = FALSE /\ UNCHANGED <<osProxy, exposed>>

\* A failed patch of the setting rolls back.
RevertSetting == wanted' = (wanted /\ op # "proxyOn")

\* Mutation of KillChild: the handle is dropped, the process lives on.
DropChild == child' = NoChild /\ UNCHANGED <<alive, spawned, readers, reaping>>

\* stop_core_by_sidecar_unprepared; a process already gone is no error.
KillChild ==
  /\ alive' = alive \ {child}
  /\ child' = NoChild
  /\ UNCHANGED <<spawned, readers, reaping>>

\* A failed step after the start: the Sidecar flows undo, the others give up.
GiveUp ==
  IF op \in {"continue", "uninstall"} THEN Goto("undo") ELSE Release

AfterStop ==
  \/ op = "restart" /\ Goto("begin")
  \/ op = "replace" /\ Goto("serviceStart")
  \/ op \in {"uninstall", "reinstall"} /\ Goto("operate")
  \/ op \notin {"restart", "replace", "uninstall", "reinstall"} /\ Release

\* ProxyRestoreExpectation::is_valid.
StillExpected ==
  /\ mode = expectation.mode
  /\ readiness.active /\ readiness.generation = expectation.generation
  /\ mode = "Service" => ownerGen = expectation.owner

-----------------------------------------------------------------------------
(* Taking the lock.                                                        *)

\* A port save holds the configuration lock and the update claim; beside it
\* run only the operations that take neither, and its own restart.
MayBegin(o) ==
  /\ op = Free
  /\ calls + saves < MaxCalls
  /\ \/ saver = "idle"
     \/ o \in {"stop", "install", "reinstall"}
     \/ o = "restart" /\ saver = "starting"

Take(o, first) ==
  /\ MayBegin(o)
  /\ op' = o
  /\ step' = first
  /\ calls' = calls + 1
  /\ UNCHANGED <<expectation, attempt, saver, faults, saves>>

\* start_core, stop_core, restart_core, uninstall_service_and_start_sidecar,
\* the service commands, and an update of the configuration the Service
\* will not stage in place.
Begin ==
  /\ \/ Take("start", "begin")
     \/ \E o \in {"stop", "restart", "reinstall", "uninstall"} : Take(o, "stopping")
     \/ mode = "Service" /\ Take("replace", "stopping")
     \/ Take("install", "operate")
  /\ UNCHANGED <<core_vars, sidecar_vars, service_vars, status_vars, proxy_vars,
                 history_vars>>

CanAllowSidecar ==
  \/ mode = "NotRunning" /\ Status \in {"NotInstalled", "InstallRequired", "Unavailable"}
  \/ mode = "Sidecar" /\ Status = "InstallRequired"

\* continue_with_sidecar up to start_core_inner: the allowance is recorded
\* first, TUN written off next, the guard dropped last.
ContinueWithSidecar ==
  /\ CanAllowSidecar
  /\ Take("continue", "begin")
  /\ verdict' = "SidecarAllowed"
  /\ tun' = (tun /\ Elevated)
  /\ StopGuard
  /\ UNCHANGED <<core_vars, sidecar_vars, service_vars, health, wanted, outage>>

\* The configuration could not be prepared: the allowance is withdrawn.
ContinuePreparationFails ==
  /\ CanAllowSidecar
  /\ MayBegin("continue")
  /\ calls' = calls + 1
  /\ verdict' = NoVerdict
  /\ tun' \in {tun, tun /\ Elevated}
  /\ UNCHANGED <<core_vars, sidecar_vars, service_vars, health, proxy_vars,
                 lock_vars, saver, faults, saves, history_vars>>

\* enable_system_proxy switched on, or written again after a network change.
TurnProxyOn ==
  /\ \/ wanted /\ Take("reapply", "ready")
     \/ ~wanted /\ Take("proxyOn", "ready")
  /\ wanted' = TRUE
  /\ UNCHANGED <<core_vars, sidecar_vars, service_vars, status_vars, osProxy, guard,
                 history_vars>>

\* Switching it off only writes OS state, whatever runs.
TurnProxyOff ==
  /\ MayBegin("proxyOff")
  /\ wanted
  /\ calls' = calls + 1
  /\ \E ok \in BOOLEAN : ClearProxy(ok) /\ wanted' = ~ok
  /\ UNCHANGED <<core_vars, sidecar_vars, service_vars, status_vars, lock_vars,
                 saver, faults, saves, outage>>

-----------------------------------------------------------------------------
(* The controlled stop.                                                    *)

\* A restart on macOS decides before it stops whether the Service takes over.
Decides == op = "restart" /\ IsMacOS /\ mode = "Sidecar"
HandOverToService == Decides /\ StartupDecision(PreparedStatus) = "Service"

\* The proxy is cleared before the Core stops, unless the Service owns it or
\* is about to; a proxy that will not clear keeps the Core running.
Stopping ==
  /\ step = "stopping"
  /\ IF Decides THEN PrepareStartup ELSE UNCHANGED status_vars
  /\ \/ /\ mode = "NotRunning"
        /\ Goto("stopCore")
        /\ UNCHANGED <<osProxy, guard, exposed>>
     \/ /\ HandOverToService \/ (mode = "Service" /\ IsMacOS)
        /\ StopGuard
        /\ Goto("stopCore")
     \/ /\ mode # "NotRunning"
        /\ ~HandOverToService /\ ~(mode = "Service" /\ IsMacOS)
        /\ \E ok \in BOOLEAN :
             ClearProxy(ok) /\ IF ok THEN Goto("stopCore") ELSE Release
  /\ UNCHANGED <<core_vars, sidecar_vars, service_vars, wanted, env_vars, outage>>

StopCore ==
  /\ step = "stopCore"
  /\ \/ mode = "NotRunning" /\ AfterStop /\ UNCHANGED <<core_vars, sidecar_vars, ownerGen>>
     \/ mode = "Sidecar" /\ KillChild /\ CoreStopped /\ AfterStop /\ UNCHANGED ownerGen
     \/ /\ mode = "Service"
        /\ CancelMonitors
        /\ Goto("stopReply")
        /\ UNCHANGED <<core_vars, sidecar_vars>>
  /\ UNCHANGED <<core, issued, session, monitors, reports, recoveries, status_vars,
                 proxy_vars, env_vars, history_vars>>

\* recover_after_owner_loss_while_locked.
GiveUpService(reason) ==
  /\ IF reason = "TransportFailure" THEN ObserveHealth("Unavailable") ELSE UNCHANGED status_vars
  /\ guard' = FALSE
  /\ IF ~IsMacOS \/ reason = "SameOwnerFailure"
     THEN osProxy' \in {osProxy, FALSE}
     ELSE UNCHANGED osProxy
  /\ exposed' = TRUE
  /\ session' = NoSession
  /\ CoreStopped
  /\ UNCHANGED <<core, issued, wanted>>

\* The Service stopped our Core and, on macOS, took down the proxy it wrote.
StopAccepted ==
  /\ step = "stopReply"
  /\ core = session
  /\ core' = NoSession
  /\ session' = NoSession
  /\ osProxy' = (osProxy /\ ~IsMacOS)
  /\ CoreStopped
  /\ AfterStop
  /\ outage' = FALSE
  /\ UNCHANGED <<sidecar_vars, issued, ownerGen, monitors, reports, recoveries,
                 status_vars, wanted, guard, env_vars, exposed>>

\* The request or its answer got lost, or was refused: the Core stays ours to watch.
StopFails ==
  /\ step = "stopReply"
  /\ StartMonitor
  /\ \/ outage' = TRUE /\ core' \in {core, NoSession}
     \/ UNCHANGED <<core, outage>>
  /\ Release
  /\ UNCHANGED <<core_vars, sidecar_vars, issued, session, reports, recoveries,
                 status_vars, proxy_vars, env_vars, exposed>>

\* NotActive or StaleOwnerSession: another owner's Core is not ours to stop.
StopDisplaced ==
  /\ step = "stopReply"
  /\ core # session
  /\ GiveUpService("Displaced")
  /\ Release
  /\ UNCHANGED <<sidecar_vars, ownerGen, monitors, reports, recoveries, env_vars, outage>>

-----------------------------------------------------------------------------
(* Privileged operations between a stop and a start.                       *)

\* handle_service_status: an operation replaces the Service process.
OperateSucceeds ==
  /\ step = "operate"
  /\ core' = NoSession
  /\ IF op = "uninstall"
     THEN /\ health' = "NotInstalled"
          /\ tun' = (tun /\ Elevated)
          /\ Goto("begin") \/ Goto("undo")
     ELSE health' = "Ready" /\ UNCHANGED tun /\ Release
  /\ verdict' = NoVerdict
  /\ outage' = FALSE
  /\ UNCHANGED <<core_vars, sidecar_vars, issued, session, ownerGen, monitors, reports,
                 recoveries, proxy_vars, env_vars, exposed>>

\* A failed one reads the health again and restores a displaced allowance.
OperateFails ==
  /\ step = "operate"
  /\ health' \in Health
  /\ verdict' = IF verdict = "SidecarAllowed" /\ health' # "Ready" THEN verdict ELSE NoVerdict
  /\ GiveUp
  /\ UNCHANGED <<core_vars, sidecar_vars, service_vars, tun, proxy_vars, env_vars,
                 history_vars>>

-----------------------------------------------------------------------------
(* start_core_inner.                                                       *)

BeginStart ==
  /\ step = "begin"
  /\ IF mode # "NotRunning"
     THEN Goto("ready") /\ UNCHANGED <<core_vars, status_vars, guard>>
     ELSE \/ WaitForService /\ UNCHANGED <<core_vars, lock_vars, guard>>
          \/ /\ PrepareStartup
             /\ \/ /\ StartupDecision(PreparedStatus) = "Wait"
                   /\ guard' = FALSE /\ CoreStopped /\ Goto("ready")
                \/ /\ StartupDecision(PreparedStatus) = "Sidecar"
                   /\ Goto("spawn") /\ UNCHANGED <<core_vars, guard>>
                \/ /\ StartupDecision(PreparedStatus) = "Service"
                   /\ pac' = FALSE
                   /\ Goto("serviceStart") \/ Goto("startFailed")
                   /\ UNCHANGED <<mode, readiness, guard>>
  /\ UNCHANGED <<sidecar_vars, service_vars, wanted, osProxy, env_vars, history_vars>>

\* A Sidecar is drained, and its end noticed, from the moment it runs.
Spawn ==
  /\ step = "spawn"
  /\ mode' = "NotRunning"
  /\ pac' = FALSE
  /\ \/ /\ readiness' = [generation |-> Invalidated.generation + 1, active |-> TRUE]
        /\ spawned' = spawned + 1
        /\ alive' = alive \cup {spawned + 1}
        /\ readers' = readers \cup
             {[pid |-> spawned + 1, generation |-> Invalidated.generation + 1]}
        /\ Goto("poll")
        /\ UNCHANGED <<child, reaping>>
     \/ readiness' = Invalidated /\ Goto("startFailed") /\ UNCHANGED sidecar_vars
  /\ UNCHANGED <<service_vars, status_vars, proxy_vars, env_vars, history_vars>>

\* poll_sidecar_readiness: the child is supervised once its API answered.
Poll ==
  /\ step = "poll"
  /\ \/ /\ child' = spawned
        /\ CoreStarted("Sidecar")
        /\ Goto("ready")
        /\ UNCHANGED <<alive, readiness, guard>>
     \/ /\ guard' = FALSE
        /\ CoreStopped
        /\ alive' = alive \ {spawned}
        /\ Goto("startFailed")
        /\ UNCHANGED child
  /\ UNCHANGED <<spawned, readers, reaping, service_vars, status_vars, wanted, osProxy,
                 env_vars, history_vars>>

FailAttempt(n) ==
  /\ step' = IF n < StartAttempts THEN "serviceStart" ELSE "startFailed"
  /\ attempt' = n
  /\ UNCHANGED <<op, expectation>>

\* run_core_by_service: only a Service that answers as ready is asked.
ServiceStart ==
  /\ step = "serviceStart"
  /\ \/ /\ ObserveHealth("Unavailable") \/ UNCHANGED status_vars
        /\ FailAttempt(attempt + 1)
        /\ UNCHANGED session
     \/ /\ ObserveHealth("Ready")
        /\ session' = NoSession
        /\ Goto("serviceReply") \/ FailAttempt(attempt + 1)
  /\ UNCHANGED <<core_vars, sidecar_vars, core, issued, ownerGen, monitors, reports,
                 recoveries, proxy_vars, env_vars, history_vars>>

StartAccepted ==
  /\ step = "serviceReply"
  /\ issued' = issued + 1
  /\ core' = issued + 1
  /\ session' = issued + 1
  /\ StartMonitor
  /\ readiness' = MarkedReady
  /\ CoreStarted("Service")
  /\ Goto("ready")
  /\ outage' = FALSE
  /\ UNCHANGED <<sidecar_vars, reports, recoveries, status_vars, proxy_vars, env_vars,
                 exposed>>

\* No answer: the Core may run all the same, but no session proves it ours.
StartReplyLost ==
  /\ step = "serviceReply"
  /\ issued' \in {issued, issued + 1}
  /\ core' = IF issued' = issued THEN core ELSE issued'
  /\ outage' = TRUE
  /\ StartMonitor
  /\ FailAttempt(attempt + 1)
  /\ UNCHANGED <<core_vars, sidecar_vars, session, reports, recoveries, status_vars,
                 proxy_vars, env_vars, exposed>>

StartRefused ==
  /\ step = "serviceReply"
  /\ IF mode = "NotRunning" THEN ObserveHealth("Unavailable") ELSE UNCHANGED status_vars
  /\ StartMonitor
  /\ FailAttempt(attempt + 1)
  /\ UNCHANGED <<core_vars, sidecar_vars, core, issued, session, reports, recoveries,
                 proxy_vars, env_vars, history_vars>>

\* rollback_failed_start; a replacement that failed leaves the stop as it was.
StartFailed ==
  /\ step = "startFailed"
  /\ IF op = "replace"
     THEN UNCHANGED <<core_vars, guard>>
     ELSE guard' = FALSE /\ CoreStopped
  /\ verdict' = IF op = "continue" /\ verdict = "SidecarAllowed" THEN NoVerdict ELSE verdict
  /\ Release
  /\ UNCHANGED <<sidecar_vars, service_vars, health, tun, wanted, osProxy, env_vars,
                 history_vars>>

-----------------------------------------------------------------------------
(* apply_proxy_after_start, and the rollback of a Sidecar flow.            *)

\* What the start left is checked and captured at once.
Ready ==
  /\ step = "ready"
  /\ IF mode \in ReadyModes(op) /\ mode # "NotRunning" /\ readiness.active
     THEN /\ expectation' = [mode |-> mode, generation |-> readiness.generation,
                             owner |-> IF mode = "Service" THEN ownerGen ELSE 0]
          /\ step' = "apply"
          /\ UNCHANGED <<op, attempt, wanted>>
     ELSE GiveUp /\ RevertSetting
  /\ UNCHANGED <<core_vars, sidecar_vars, service_vars, status_vars, osProxy, guard,
                 env_vars, history_vars>>

\* proxy_control::apply drains the guard, then writes.  At login, macOS may
\* have no network to write to yet and leaves it to the network watcher.  A
\* refused local write probes the Service to explain itself.
Apply ==
  /\ step = "apply"
  /\ \/ /\ osProxy' = wanted
        /\ guard' = FALSE
        /\ Goto("verify")
        /\ UNCHANGED <<wanted, status_vars>>
     \/ /\ IsMacOS /\ wanted /\ op = "start"
        /\ Release
        /\ UNCHANGED <<proxy_vars, status_vars>>
     \/ /\ osProxy' \in {osProxy, FALSE}
        /\ guard' \in {guard, FALSE}
        /\ GiveUp
        /\ RevertSetting
        /\ \/ UNCHANGED status_vars
           \/ mode = "Sidecar" /\ \E h \in {"Ready", "Unavailable"} : ObserveHealth(h)
  /\ UNCHANGED <<core_vars, sidecar_vars, service_vars, env_vars, history_vars>>

\* A Core that changed under the write gets its proxy taken back.
Validate(next) ==
  \/ /\ StillExpected
     /\ IF next = Free THEN Release ELSE Goto(next)
     /\ UNCHANGED <<proxy_vars, exposed>>
  \/ /\ ~StillExpected
     /\ \E ok \in BOOLEAN : ClearProxy(ok)
     /\ GiveUp
     /\ RevertSetting

Verify ==
  /\ \/ step = "verify" /\ Validate("guard")
     \/ step = "verifyGuard" /\ Validate(Free)
  /\ UNCHANGED <<core_vars, sidecar_vars, service_vars, status_vars, env_vars, outage>>

\* refresh_guard; only the Service route can fail.
RefreshGuard ==
  /\ step = "guard"
  /\ \/ guard' = wanted /\ Goto("verifyGuard") /\ UNCHANGED wanted
     \/ IsMacOS /\ mode = "Service" /\ guard' = FALSE /\ GiveUp /\ RevertSetting
  /\ UNCHANGED <<core_vars, sidecar_vars, service_vars, status_vars, osProxy, env_vars,
                 history_vars>>

\* rollback_failed_sidecar_transition: a proxy that will not clear keeps the
\* Sidecar running.
Undo ==
  /\ step = "undo"
  /\ verdict' = IF op = "continue" /\ verdict = "SidecarAllowed" THEN NoVerdict ELSE verdict
  /\ \/ /\ mode # "Sidecar"
        /\ StopGuard
        /\ CoreStopped
        /\ UNCHANGED sidecar_vars
     \/ mode = "Sidecar" /\ ClearProxy(TRUE) /\ KillChild /\ CoreStopped
     \/ mode = "Sidecar" /\ ClearProxy(FALSE) /\ UNCHANGED <<core_vars, sidecar_vars>>
  /\ Release
  /\ UNCHANGED <<service_vars, health, tun, wanted, env_vars, outage>>

-----------------------------------------------------------------------------
(* Tasks beside the holder of the lock.                                    *)

SidecarDies ==
  /\ faults < MaxFaults
  /\ \E p \in alive : alive' = alive \ {p}
  /\ faults' = faults + 1
  /\ exposed' = TRUE
  /\ UNCHANGED <<core_vars, child, spawned, readers, reaping, service_vars, status_vars,
                 proxy_vars, lock_vars, saver, calls, saves, outage>>

\* Mutation of ReaderSeesEnd: nobody is told.
ReaderEndsSilently(r) ==
  /\ r.pid \notin alive
  /\ readers' = readers \ {r}
  /\ readiness' = IF readiness.generation = r.generation THEN Invalidated ELSE readiness
  /\ UNCHANGED <<mode, pac, child, alive, spawned, reaping, service_vars, status_vars,
                 proxy_vars, lock_vars, env_vars, history_vars>>

\* The reader disowns the readiness it saw begin, without the lock ...
ReaderSeesEnd(r) ==
  /\ r.pid \notin alive
  /\ readers' = readers \ {r}
  /\ reaping' = reaping \cup {r.pid}
  /\ readiness' = IF readiness.generation = r.generation THEN Invalidated ELSE readiness
  /\ UNCHANGED <<mode, pac, child, alive, spawned, service_vars, status_vars, proxy_vars,
                 lock_vars, env_vars, history_vars>>

\* Mutation of ClearTerminatedSidecar: whichever Sidecar runs is cleared.
ClearAnySidecar(p) ==
  /\ op = Free
  /\ reaping' = reaping \ {p}
  /\ IF mode = "Sidecar"
     THEN child' = NoChild /\ guard' = FALSE /\ CoreStopped
     ELSE UNCHANGED <<core_vars, child, guard>>
  /\ UNCHANGED <<alive, spawned, readers, service_vars, status_vars, wanted, osProxy,
                 lock_vars, env_vars, history_vars>>

\* ... and with it clears the Sidecar, if it is still the one.
ClearTerminatedSidecar(p) ==
  /\ op = Free
  /\ reaping' = reaping \ {p}
  /\ IF mode = "Sidecar" /\ child = p
     THEN child' = NoChild /\ guard' = FALSE /\ CoreStopped
     ELSE UNCHANGED <<core_vars, child, guard>>
  /\ UNCHANGED <<alive, spawned, readers, service_vars, status_vars, wanted, osProxy,
                 lock_vars, env_vars, history_vars>>

\* Another owner took the Service, or its Core ended for good.
ServiceLosesCore ==
  /\ faults < MaxFaults
  /\ core # NoSession
  /\ core' = NoSession
  /\ faults' = faults + 1
  /\ exposed' = TRUE
  /\ UNCHANGED <<core_vars, sidecar_vars, issued, session, ownerGen, monitors, reports,
                 recoveries, status_vars, proxy_vars, lock_vars, saver, calls, saves, outage>>

\* A monitor that was superseded, or outlived the mode, ends.
MonitorEnds(g) ==
  /\ g # ownerGen \/ mode # "Service"
  /\ monitors' = monitors \ {g}
  /\ UNCHANGED <<core_vars, sidecar_vars, core, issued, session, ownerGen, reports,
                 recoveries, status_vars, proxy_vars, lock_vars, env_vars, history_vars>>

Reported(reason) == reports' = reports \cup {[generation |-> ownerGen, reason |-> reason]}

\* The current monitor learns that the Core is no longer ours; it acts on
\* that later.
MonitorSeesLoss ==
  /\ mode = "Service" /\ core # session
  /\ ownerGen \in monitors
  /\ monitors' = monitors \ {ownerGen}
  /\ \E reason \in {"Displaced", "SameOwnerFailure"} : Reported(reason)
  /\ UNCHANGED <<core_vars, sidecar_vars, core, issued, session, ownerGen, recoveries,
                 status_vars, proxy_vars, lock_vars, env_vars, history_vars>>

\* So does a log poll that is refused; faults bounds how often.
LogsRefused ==
  /\ mode = "Service" /\ core # session
  /\ faults < MaxFaults
  /\ faults' = faults + 1
  /\ Reported("Displaced")
  /\ UNCHANGED <<core_vars, sidecar_vars, core, issued, session, ownerGen, monitors,
                 recoveries, status_vars, proxy_vars, lock_vars, saver, calls, saves,
                 history_vars>>

\* The monitor could not reach the Service, nor its Core, for long enough.
TransportFails ==
  /\ mode = "Service"
  /\ faults < MaxFaults
  /\ faults' = faults + 1
  /\ ownerGen \in monitors
  /\ monitors' = monitors \ {ownerGen}
  /\ Reported("TransportFailure")
  /\ outage' = TRUE
  /\ UNCHANGED <<core_vars, sidecar_vars, core, issued, session, ownerGen, recoveries,
                 status_vars, proxy_vars, lock_vars, saver, calls, saves, exposed>>

\* Mutation of ClaimRecovery: the recovery keeps the generation it sampled.
ClaimOldGeneration(r) ==
  /\ reports' = reports \ {r}
  /\ IF mode = "Service" /\ ownerGen = r.generation
     THEN /\ ownerGen' = ownerGen + 1
          /\ recoveries' = recoveries \cup {r}
          /\ readiness' = Invalidated
     ELSE UNCHANGED <<ownerGen, recoveries, readiness>>
  /\ UNCHANGED <<mode, pac, sidecar_vars, core, issued, session, monitors, status_vars,
                 proxy_vars, lock_vars, env_vars, history_vars>>

\* recover_after_owner_loss: the loss is claimed for the generation it was
\* sampled in, and readiness ends before the lock is waited for.
ClaimRecovery(r) ==
  /\ reports' = reports \ {r}
  /\ IF mode = "Service" /\ ownerGen = r.generation
     THEN /\ ownerGen' = ownerGen + 1
          /\ recoveries' = recoveries \cup
               {[generation |-> ownerGen + 1, reason |-> r.reason]}
          /\ readiness' = Invalidated
     ELSE UNCHANGED <<ownerGen, recoveries, readiness>>
  /\ UNCHANGED <<mode, pac, sidecar_vars, core, issued, session, monitors, status_vars,
                 proxy_vars, lock_vars, env_vars, history_vars>>

Recover(r) ==
  /\ op = Free
  /\ recoveries' = recoveries \ {r}
  /\ IF mode = "Service" /\ ownerGen = r.generation
     THEN GiveUpService(r.reason)
     ELSE UNCHANGED <<core_vars, core, issued, session, status_vars, proxy_vars, exposed>>
  /\ UNCHANGED <<sidecar_vars, ownerGen, monitors, reports, lock_vars, env_vars, outage>>

\* save_proxy_ports: PAC closes while the ports are staged and is derived
\* from the mode again on every way out, neither under lifecycle_lock.
SaveStarts ==
  /\ saver = "idle"
  /\ saves < MaxSaves /\ calls + saves < MaxCalls
  /\ op \notin ConfigUpdates \cup {"reapply", "proxyOn"}
  /\ pac' = FALSE
  /\ saver' = "starting"
  /\ saves' = saves + 1
  /\ UNCHANGED <<mode, readiness, sidecar_vars, service_vars, status_vars, proxy_vars,
                 lock_vars, calls, faults, history_vars>>

SaveReadsMode ==
  /\ saver = "starting"
  /\ op # "restart"
  /\ saver' = IF mode = "NotRunning" THEN "shut" ELSE "open"
  /\ UNCHANGED <<core_vars, sidecar_vars, service_vars, status_vars, proxy_vars, lock_vars,
                 calls, faults, saves, history_vars>>

SaveSettles ==
  /\ saver \in {"open", "shut"}
  /\ pac' = (saver = "open")
  /\ saver' = "idle"
  /\ UNCHANGED <<mode, readiness, sidecar_vars, service_vars, status_vars, proxy_vars,
                 lock_vars, calls, faults, saves, history_vars>>

-----------------------------------------------------------------------------
Starts == Begin \/ ContinueWithSidecar \/ ContinuePreparationFails \/ TurnProxyOn \/ TurnProxyOff \/ SaveStarts

Holder ==
  \/ Stopping \/ StopCore \/ StopAccepted \/ StopFails \/ StopDisplaced
  \/ OperateSucceeds \/ OperateFails
  \/ BeginStart \/ Spawn \/ Poll \/ ServiceStart
  \/ StartAccepted \/ StartReplyLost \/ StartRefused \/ StartFailed
  \/ Ready \/ Apply \/ Verify \/ RefreshGuard \/ Undo

Tasks ==
  \/ \E r \in readers : ReaderSeesEnd(r)
  \/ \E p \in reaping : ClearTerminatedSidecar(p)
  \/ \E g \in monitors : MonitorEnds(g)
  \/ \E r \in reports : ClaimRecovery(r)
  \/ \E r \in recoveries : Recover(r)
  \/ MonitorSeesLoss
  \/ SaveReadsMode \/ SaveSettles

Faults == SidecarDies \/ ServiceLosesCore \/ LogsRefused \/ TransportFails

Next == Starts \/ Holder \/ Tasks \/ Faults

Spec == Init /\ [][Next]_vars

\* Every await of the holder ends, by an answer or a timeout; the lock is fair
\* to those that wait for it; readers and monitors are polled for ever.
\* Nobody has to start another operation.
FairSpec == Spec /\ WF_vars(Holder) /\ WF_vars(Tasks)

-----------------------------------------------------------------------------
(* What an observer of the mode and of readiness is promised.              *)

Promise == INSTANCE CorePromise WITH owner <- mode, ready <- readiness.active

\* Every step of every interleaving is a step CorePromise allows, or none.
KeepsPromise == Promise!Spec

-----------------------------------------------------------------------------
(* Properties.                                                             *)

\* Between operations every Sidecar process is the supervised one, and a Core
\* the Service runs for us is one we know of and watch in Service mode, unless
\* the Service was out of reach: no start, stop, fallback or rollback leaves
\* a second or a forgotten Core behind.
NoUnsupervisedCore ==
  op = Free =>
    /\ alive \subseteq {child}
    /\ core # NoSession /\ ~outage => mode = "Service" /\ core = session

\* Between operations in Service mode somebody still watches the ownership: a
\* monitor of the current generation, or a loss on its way to recovery.
ServiceCoreIsWatched ==
  op = Free /\ mode = "Service" =>
    \/ ownerGen \in monitors
    \/ \E r \in reports \cup recoveries : r.generation = ownerGen

\* Behind the back of the operations a Core is given up only when it is gone
\* or out of reach: late news about an earlier Core never ends a newer one.
OnlyLostCoresAreGivenUp ==
  [][op = Free /\ mode # "NotRunning" /\ mode' = "NotRunning" =>
       \/ mode = "Sidecar" /\ child \notin alive
       \/ mode = "Service" /\ (core # session \/ outage)]_vars

\* Once no operation runs, no guard keeps writing the proxy of a Core that stopped.
GuardStopsWithCore == op = Free /\ mode = "NotRunning" => ~guard

\* The system proxy outlives its Core only when that Core was lost or the
\* proxy would not clear, never by an ordinary stop, restart or failed start.
ProxyClearedWithCore == op = Free /\ mode = "NotRunning" /\ osProxy => exposed

\* PAC goes back to following the Running Mode (manager/mod.rs:215), and can
\* never disagree with it (runstate/mod.rs:1059).
PacFollowsMode == pac => mode # "NotRunning"

\* A Sidecar that died is noticed, and the mode stops naming it.
DeadSidecarIsNoticed ==
  (mode = "Sidecar" /\ child \notin alive) ~> (mode # "Sidecar" \/ child \in alive)

\* A Core the Service lost is noticed too.
LostServiceCoreIsNoticed ==
  (mode = "Service" /\ core # session) ~> (mode # "Service" \/ core = session)

=============================================================================
