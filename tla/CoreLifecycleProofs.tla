------------------------ MODULE CoreLifecycleProofs -------------------------
(***************************************************************************)
(* What holds of core::manager for every number of operations, failures    *)
(* and saves, on every platform: no guard outlives its Core, a Core of the *)
(* Service is always watched, and an observer of the mode and of readiness *)
(* sees what CorePromise promises; no second or forgotten Core runs, none  *)
(* is given up on late news, and where the application clears the system   *)
(* proxy itself, no proxy is left without a Core.                          *)
(***************************************************************************)
EXTENDS CoreLifecycle, TLAPS

Watched ==
  \/ ownerGen \in monitors
  \/ \E r \in reports \cup recoveries : r.generation = ownerGen

\* The lock and the place of its holder agree.
LockShape == op = Free <=> step = Free

\* A start works on a Core that is not running ...
StartsFromRest ==
  step \in {"spawn", "poll", "serviceStart", "serviceReply"} => mode = "NotRunning"

\* ... and the proxy is applied for one that is.
AppliesToACore ==
  step \in {"apply", "verify", "guard", "verifyGuard"} => mode # "NotRunning"

\* The guard is gone before the Core is stopped and stays away from then on.
GuardAway ==
  mode = "NotRunning" \/ step \in {"stopCore", "stopReply"} => ~guard

\* Only while the Service is asked to stop our Core nobody watches it.
WatchedUnlessStopping == mode = "Service" /\ step # "stopReply" => Watched

\* The inductive invariant: every conjunct needs the ones before it.
IInv ==
  /\ readiness.active \in BOOLEAN
  /\ LockShape
  /\ StartsFromRest
  /\ AppliesToACore
  /\ GuardAway
  /\ WatchedUnlessStopping

\* The initial states satisfy the invariant.
LEMMA InitIInv == Init => IInv
BY DEF Init, IInv, LockShape, StartsFromRest, AppliesToACore, GuardAway,
       WatchedUnlessStopping, Watched, Free

\* The invariant looks at these parts of the state only.
Seen == <<step, op, mode, guard, readiness, ownerGen, monitors, reports, recoveries>>

\* A step that changes none of them preserves it.
LEMMA UnseenStep == IInv /\ UNCHANGED Seen => IInv'
BY DEF Seen, IInv, LockShape, StartsFromRest, AppliesToACore, GuardAway,
       WatchedUnlessStopping, Watched

\* Invalidated readiness is inactive, and stopping leaves it so.
LEMMA Inactive == readiness.active \in BOOLEAN => Invalidated.active = FALSE
BY DEF Invalidated

\* A Core that is stopped is not running, and its readiness stays a Boolean.
LEMMA StoppedCore ==
  IInv /\ CoreStopped => mode' = "NotRunning" /\ readiness'.active \in BOOLEAN
BY Inactive DEF CoreStopped, IInv

\* Taking the lock preserves the invariant.
LEMMA StartsStep == IInv /\ Starts => IInv'
<1> SUFFICES ASSUME IInv, Starts PROVE IInv'
    OBVIOUS
<1> USE DEF IInv, LockShape, StartsFromRest, AppliesToACore, GuardAway,
            WatchedUnlessStopping, Watched, Take, MayBegin, Free
<1>1. CASE Begin
  BY <1>1 DEF Begin, core_vars, service_vars, proxy_vars
<1>2. CASE ContinueWithSidecar
  BY <1>2 DEF ContinueWithSidecar, StopGuard, core_vars, service_vars
<1>3. CASE ContinuePreparationFails
  BY <1>3 DEF ContinuePreparationFails, core_vars, service_vars, proxy_vars, lock_vars
<1>4. CASE TurnProxyOn
  BY <1>4 DEF TurnProxyOn, core_vars, service_vars
<1>5. CASE TurnProxyOff
  BY <1>5 DEF TurnProxyOff, ClearProxy, core_vars, service_vars, lock_vars
<1>6. CASE SaveStarts
  BY <1>6 DEF SaveStarts, service_vars, proxy_vars, lock_vars
<1>7. QED BY <1>1, <1>2, <1>3, <1>4, <1>5, <1>6 DEF Starts

\* The steps of a stop and of a privileged operation preserve the invariant.
LEMMA StopStep ==
  IInv /\ (Stopping \/ StopCore \/ StopAccepted \/ StopFails \/ StopDisplaced
           \/ OperateSucceeds \/ OperateFails) => IInv'
<1> SUFFICES ASSUME IInv,
                    Stopping \/ StopCore \/ StopAccepted \/ StopFails \/ StopDisplaced
                    \/ OperateSucceeds \/ OperateFails
             PROVE IInv'
    OBVIOUS
<1> USE DEF IInv, LockShape, StartsFromRest, AppliesToACore, GuardAway,
            WatchedUnlessStopping, Watched, Free, Goto, Release, GiveUp, AfterStop,
            CoreStopped, Invalidated
<1>1. CASE Stopping
  BY <1>1 DEF Stopping, StopGuard, ClearProxy, core_vars, service_vars
<1>2. CASE StopCore
  <2> USE DEF StopCore
  <2>0. step = "stopCore" /\ op # Free /\ ~guard /\ UNCHANGED <<monitors, reports, recoveries, guard>>
    BY <1>2 DEF proxy_vars
  <2>1. CASE mode = "NotRunning"
    BY <1>2, <2>0, <2>1 DEF core_vars
  <2>2. CASE mode = "Sidecar"
    <3>1. mode' = "NotRunning" /\ readiness' = Invalidated /\ AfterStop
      BY <1>2, <2>2
    <3>2. step' \in {"begin", "serviceStart", "operate", Free} /\ (op' = Free <=> step' = Free)
      BY <2>0, <3>1
    <3>3. readiness'.active \in BOOLEAN
      BY <3>1
    <3>4. QED BY <2>0, <3>1, <3>2, <3>3
  <2>3. CASE mode = "Service"
    BY <1>2, <2>0, <2>3 DEF core_vars
  <2>4. QED BY <1>2, <2>1, <2>2, <2>3
<1>3. CASE StopAccepted
  BY <1>3 DEF StopAccepted
<1>4. CASE StopFails
  BY <1>4 DEF StopFails, StartMonitor, core_vars, proxy_vars
<1>5. CASE StopDisplaced
  BY <1>5 DEF StopDisplaced, GiveUpService
<1>6. CASE OperateSucceeds
  BY <1>6 DEF OperateSucceeds, core_vars, proxy_vars
<1>7. CASE OperateFails
  BY <1>7 DEF OperateFails, core_vars, service_vars, proxy_vars
<1>8. QED BY <1>1, <1>2, <1>3, <1>4, <1>5, <1>6, <1>7

\* The steps that start a Core preserve the invariant.
LEMMA StartCoreStep ==
  IInv /\ (BeginStart \/ Spawn \/ Poll \/ ServiceStart \/ StartAccepted
           \/ StartReplyLost \/ StartRefused \/ StartFailed) => IInv'
<1> SUFFICES ASSUME IInv,
                    BeginStart \/ Spawn \/ Poll \/ ServiceStart \/ StartAccepted
                    \/ StartReplyLost \/ StartRefused \/ StartFailed
             PROVE IInv'
    OBVIOUS
<1> USE DEF IInv, LockShape, StartsFromRest, AppliesToACore, GuardAway,
            WatchedUnlessStopping, Watched, Free, Goto, Release, FailAttempt,
            CoreStarted
<1>1. CASE BeginStart
  <2> USE <1>1 DEF BeginStart, service_vars
  <2>1. CASE mode # "NotRunning"
    BY <2>1 DEF core_vars
  <2>2. CASE mode = "NotRunning" /\ CoreStopped
    BY <2>2, StoppedCore DEF lock_vars
  <2>3. CASE mode = "NotRunning" /\ UNCHANGED <<mode, readiness, guard>>
    BY <2>3 DEF core_vars, lock_vars
  <2>4. QED BY <2>1, <2>2, <2>3 DEF core_vars
<1>2. CASE Spawn
  <2>1. mode' = "NotRunning" /\ step' \in {"poll", "startFailed"}
    BY <1>2 DEF Spawn
  <2>2. ~guard' /\ UNCHANGED <<op, ownerGen, monitors, reports, recoveries>>
    BY <1>2 DEF Spawn, service_vars, proxy_vars
  <2>3. readiness'.active \in BOOLEAN
    <3> DEFINE marked == [generation |-> Invalidated.generation + 1, active |-> TRUE]
    <3>1. marked.active = TRUE /\ Invalidated.active = FALSE
      BY Inactive
    <3>2. readiness' = marked \/ readiness' = Invalidated
      BY <1>2 DEF Spawn
    <3>3. readiness'.active = marked.active \/ readiness'.active = Invalidated.active
      BY <3>2
    <3>4. QED BY <3>1, <3>3
  <2>4. op # Free
    BY <1>2 DEF Spawn
  <2>5. QED BY <2>1, <2>2, <2>3, <2>4
<1>3. CASE Poll
  <2>1. step = "poll" /\ op # Free /\ ~guard /\ UNCHANGED <<op, ownerGen, monitors, reports, recoveries>>
    BY <1>3 DEF Poll, service_vars
  <2>2. CASE mode' = "Sidecar" /\ step' = "ready" /\ UNCHANGED <<readiness, guard>>
    BY <2>1, <2>2
  <2>3. CASE guard' = FALSE /\ CoreStopped /\ step' = "startFailed"
    BY <2>1, <2>3, StoppedCore
  <2>4. QED BY <1>3, <2>2, <2>3 DEF Poll
<1>4. CASE ServiceStart
  BY <1>4 DEF ServiceStart, core_vars, proxy_vars
<1>5. CASE StartAccepted
  BY <1>5 DEF StartAccepted, StartMonitor, MarkedReady, proxy_vars
<1>6. CASE StartReplyLost
  BY <1>6 DEF StartReplyLost, StartMonitor, core_vars, proxy_vars
<1>7. CASE StartRefused
  BY <1>7 DEF StartRefused, StartMonitor, core_vars, proxy_vars
<1>8. CASE StartFailed
  <2>1. step = "startFailed" /\ step' = Free /\ op' = Free
        /\ UNCHANGED <<ownerGen, monitors, reports, recoveries>>
    BY <1>8 DEF StartFailed, service_vars
  <2>2. CASE UNCHANGED <<mode, readiness, guard>>
    BY <2>1, <2>2
  <2>3. CASE guard' = FALSE /\ CoreStopped
    BY <2>1, <2>3, StoppedCore
  <2>4. QED BY <1>8, <2>2, <2>3 DEF StartFailed, core_vars
<1>9. QED BY <1>1, <1>2, <1>3, <1>4, <1>5, <1>6, <1>7, <1>8

\* The steps that apply the proxy or undo a Sidecar flow preserve the invariant.
LEMMA ApplyStep ==
  IInv /\ (Ready \/ Apply \/ Verify \/ RefreshGuard \/ Undo) => IInv'
<1> SUFFICES ASSUME IInv, Ready \/ Apply \/ Verify \/ RefreshGuard \/ Undo
             PROVE IInv'
    OBVIOUS
<1> USE DEF IInv, LockShape, StartsFromRest, AppliesToACore, GuardAway,
            WatchedUnlessStopping, Watched, Free, Goto, Release, GiveUp, core_vars,
            service_vars
<1>1. CASE Ready
  BY <1>1 DEF Ready
<1>2. CASE Apply
  BY <1>2 DEF Apply, proxy_vars
<1>3. CASE Verify
  BY <1>3 DEF Verify, Validate, ClearProxy, proxy_vars
<1>4. CASE RefreshGuard
  BY <1>4 DEF RefreshGuard
<1>5. CASE Undo
  <2>1. step = "undo" /\ step' = Free /\ op' = Free /\ guard' = FALSE
        /\ UNCHANGED <<ownerGen, monitors, reports, recoveries>>
    BY <1>5 DEF Undo, StopGuard, ClearProxy
  <2>2. CASE CoreStopped
    BY <2>1, <2>2, StoppedCore
  <2>3. CASE UNCHANGED <<mode, readiness>>
    BY <2>1, <2>3
  <2>4. QED BY <1>5, <2>2, <2>3 DEF Undo
<1>6. QED BY <1>1, <1>2, <1>3, <1>4, <1>5

\* What happens beside the holder of the lock preserves the invariant.
LEMMA TasksStep == IInv /\ (Tasks \/ Faults) => IInv'
<1> SUFFICES ASSUME IInv, Tasks \/ Faults PROVE IInv'
    OBVIOUS
<1> USE DEF IInv, LockShape, StartsFromRest, AppliesToACore, GuardAway,
            WatchedUnlessStopping, Watched, Free
<1>1. ASSUME NEW r \in readers, ReaderSeesEnd(r) PROVE IInv'
  <2>1. UNCHANGED <<mode, step, op, guard, ownerGen, monitors, reports, recoveries>>
    BY <1>1 DEF ReaderSeesEnd, service_vars, proxy_vars, lock_vars
  <2>2. readiness'.active \in BOOLEAN
    BY <1>1, Inactive DEF ReaderSeesEnd
  <2>3. QED BY <2>1, <2>2
<1>2. ASSUME NEW p \in reaping, ClearTerminatedSidecar(p) PROVE IInv'
  <2>1. op = Free /\ UNCHANGED <<step, op, ownerGen, monitors, reports, recoveries>>
    BY <1>2 DEF ClearTerminatedSidecar, service_vars, lock_vars
  <2>2. CASE guard' = FALSE /\ CoreStopped
    BY <2>1, <2>2, StoppedCore
  <2>3. CASE UNCHANGED <<mode, readiness, guard>>
    BY <2>1, <2>3
  <2>4. QED BY <1>2, <2>2, <2>3 DEF ClearTerminatedSidecar, core_vars
<1>3. ASSUME NEW g \in monitors, MonitorEnds(g) PROVE IInv'
  BY <1>3 DEF MonitorEnds, core_vars, proxy_vars, lock_vars
<1>4. ASSUME NEW r \in reports, ClaimRecovery(r) PROVE IInv'
  <2>1. /\ reports' = reports \ {r}
        /\ UNCHANGED <<mode, step, op, guard, monitors>>
    BY <1>4 DEF ClaimRecovery, proxy_vars, lock_vars
  <2> DEFINE claimed == [generation |-> ownerGen + 1, reason |-> r.reason]
  <2>2. CASE mode = "Service" /\ ownerGen = r.generation
    <3>1. ownerGen' = ownerGen + 1 /\ claimed \in recoveries' /\ readiness' = Invalidated
      BY <1>4, <2>2 DEF ClaimRecovery
    <3>2. claimed.generation = ownerGen'
      BY <3>1
    <3>3. Watched'
      BY <3>1, <3>2
    <3>4. QED BY <2>1, <3>1, <3>3, Inactive
  <2>3. CASE ~(mode = "Service" /\ ownerGen = r.generation)
    <3>1. UNCHANGED <<ownerGen, recoveries, readiness>>
      BY <1>4, <2>3 DEF ClaimRecovery
    <3>2. mode = "Service" /\ Watched => Watched'
      BY <2>1, <2>3, <3>1
    <3>3. QED BY <2>1, <3>1, <3>2
  <2>4. QED BY <2>2, <2>3
<1>5. ASSUME NEW r \in recoveries, Recover(r) PROVE IInv'
  <2>1. /\ op = Free /\ recoveries' = recoveries \ {r}
        /\ UNCHANGED <<step, op, ownerGen, monitors, reports>>
    BY <1>5 DEF Recover, lock_vars
  <2>2. CASE mode = "Service" /\ ownerGen = r.generation
    <3>1. guard' = FALSE /\ CoreStopped
      BY <1>5, <2>2 DEF Recover, GiveUpService
    <3>2. QED BY <2>1, <3>1, StoppedCore
  <2>3. CASE ~(mode = "Service" /\ ownerGen = r.generation)
    <3>1. UNCHANGED <<mode, readiness, guard>>
      BY <1>5, <2>3 DEF Recover, core_vars, proxy_vars
    <3>2. mode = "Service" /\ Watched => Watched'
      BY <2>1, <2>3
    <3>3. QED BY <2>1, <3>1, <3>2
  <2>4. QED BY <2>2, <2>3
<1>6. ASSUME \E reason \in Reasons : Reported(reason),
             UNCHANGED <<mode, readiness, guard, step, op, ownerGen, recoveries>>
      PROVE IInv'
  <2>1. PICK reason \in Reasons : Reported(reason)
    BY <1>6
  <2> DEFINE reported == [generation |-> ownerGen, reason |-> reason]
  <2>2. reported \in reports' /\ reported.generation = ownerGen
    BY <2>1 DEF Reported
  <2>3. Watched'
    BY <1>6, <2>2
  <2>4. QED BY <1>6, <2>3
<1>7. CASE MonitorSeesLoss
  BY <1>6, <1>7 DEF MonitorSeesLoss, Reasons, core_vars, proxy_vars, lock_vars
<1>8. CASE LogsRefused
  BY <1>6, <1>8 DEF LogsRefused, Reasons, core_vars, proxy_vars, lock_vars
<1>9. CASE TransportFails
  BY <1>6, <1>9 DEF TransportFails, Reasons, core_vars, proxy_vars, lock_vars
<1>10. CASE SaveReadsMode \/ SaveSettles
  BY <1>10 DEF SaveReadsMode, SaveSettles, core_vars, service_vars, proxy_vars, lock_vars
<1>11. CASE SidecarDies \/ ServiceLosesCore
  BY <1>11 DEF SidecarDies, ServiceLosesCore, core_vars, service_vars, proxy_vars, lock_vars
<1>12. QED
  BY <1>1, <1>2, <1>3, <1>4, <1>5, <1>7, <1>8, <1>9, <1>10, <1>11 DEF Tasks, Faults

\* Every step preserves the invariant.
LEMMA StepIInv == IInv /\ [Next]_vars => IInv'
<1> SUFFICES ASSUME IInv, [Next]_vars PROVE IInv'
    OBVIOUS
<1>1. CASE Starts
  BY <1>1, StartsStep
<1>2. CASE Holder
  BY <1>2, StopStep, StartCoreStep, ApplyStep DEF Holder
<1>3. CASE Tasks \/ Faults
  BY <1>3, TasksStep
<1>4. CASE UNCHANGED vars
  BY <1>4, UnseenStep
  DEF vars, core_vars, service_vars, proxy_vars, lock_vars, Seen
<1>5. QED BY <1>1, <1>2, <1>3, <1>4 DEF Next

\* The invariant holds in every reachable state.
THEOREM Invariance == Spec => []IInv
<1>1. QED BY InitIInv, StepIInv, PTL DEF Spec

\* No guard goes on writing the proxy of a Core that is not running.
THEOREM GuardStops == Spec => []GuardStopsWithCore
<1>1. IInv => GuardStopsWithCore
  BY DEF IInv, GuardAway, GuardStopsWithCore
<1>2. QED BY <1>1, Invariance, PTL

\* Between operations a Core of the Service always has a monitor of the
\* current generation, or a loss of that generation on its way to recovery.
THEOREM CoreWatched == Spec => []ServiceCoreIsWatched
<1>1. IInv => ServiceCoreIsWatched
  BY DEF IInv, LockShape, WatchedUnlessStopping, Watched, ServiceCoreIsWatched, Free
<1>2. QED BY <1>1, Invariance, PTL

-----------------------------------------------------------------------------
(* The detailed specification implements CorePromise.                      *)

\* What an observer of the mode and of readiness may see happen in one step.
Promised == [Promise!Next]_(Promise!vars)

\* A step that touches neither is invisible.
LEMMA StepUnseen == UNCHANGED <<mode, readiness>> => Promised
BY DEF Promised, Promise!vars

\* Stopping the Core is Stops.
LEMMA StepStops == IInv /\ CoreStopped => Promised
BY Inactive DEF IInv, CoreStopped, Promised, Promise!Next, Promise!Stops

\* Disowning readiness is LosesReadiness.
LEMMA StepLoses == IInv /\ UNCHANGED mode /\ readiness' = Invalidated => Promised
BY Inactive DEF IInv, Promised, Promise!Next, Promise!LosesReadiness

\* A Core that runs takes over from nobody.
LEMMA StepTakesOver ==
  /\ mode = "NotRunning" /\ mode' \in {"Sidecar", "Service"}
  /\ readiness' = readiness \/ readiness'.active = TRUE
  => Promised
BY DEF Promised, Promise!Next, Promise!TakesOver, Promise!Owners

\* Every step of every operation, task and failure is one CorePromise allows.
LEMMA StepPromised == IInv /\ [Next]_vars => Promised
<1> SUFFICES ASSUME IInv, [Next]_vars PROVE Promised
    OBVIOUS
<1>1. CASE Starts
  BY <1>1, StepUnseen
  DEF Starts, Begin, ContinueWithSidecar, ContinuePreparationFails, TurnProxyOn,
      TurnProxyOff, SaveStarts, core_vars
<1>2. CASE Stopping \/ StopFails \/ OperateSucceeds \/ OperateFails \/ ServiceStart
           \/ StartReplyLost \/ StartRefused \/ Ready \/ Apply \/ Verify \/ RefreshGuard
  BY <1>2, StepUnseen
  DEF Stopping, StopFails, OperateSucceeds, OperateFails, ServiceStart, StartReplyLost,
      StartRefused, Ready, Apply, Verify, RefreshGuard, core_vars
<1>3. CASE StopCore \/ StopAccepted \/ StopDisplaced \/ StartFailed \/ Undo
  BY <1>3, StepUnseen, StepStops
  DEF StopCore, StopAccepted, StopDisplaced, GiveUpService, StartFailed, Undo, core_vars
<1>4. CASE BeginStart
  BY <1>4, StepUnseen, StepStops DEF BeginStart, core_vars
<1>5. CASE Spawn
  <2>1. mode = "NotRunning" /\ UNCHANGED mode
    BY <1>5 DEF Spawn, IInv, StartsFromRest
  <2>2. CASE readiness' = [generation |-> Invalidated.generation + 1, active |-> TRUE]
    BY <2>1, <2>2 DEF Promised, Promise!Next, Promise!BecomesReady
  <2>3. CASE readiness' = Invalidated
    BY <2>1, <2>3, StepLoses
  <2>4. QED BY <1>5, <2>2, <2>3 DEF Spawn
<1>6. CASE Poll
  BY <1>6, StepTakesOver, StepStops DEF Poll, CoreStarted, IInv, StartsFromRest
<1>7. CASE StartAccepted
  <2>1. mode = "NotRunning" /\ mode' = "Service"
    BY <1>7 DEF StartAccepted, CoreStarted, IInv, StartsFromRest
  <2>2. readiness'.active = TRUE
    BY <1>7 DEF StartAccepted, MarkedReady
  <2>3. QED BY <2>1, <2>2, StepTakesOver
<1>8. CASE Tasks
  <2>1. ASSUME NEW r \in readers, ReaderSeesEnd(r) PROVE Promised
    BY <2>1, StepUnseen, StepLoses DEF ReaderSeesEnd
  <2>2. ASSUME NEW p \in reaping, ClearTerminatedSidecar(p) PROVE Promised
    BY <2>2, StepUnseen, StepStops DEF ClearTerminatedSidecar, core_vars
  <2>3. ASSUME NEW r \in reports, ClaimRecovery(r) PROVE Promised
    BY <2>3, StepUnseen, StepLoses DEF ClaimRecovery
  <2>4. ASSUME NEW r \in recoveries, Recover(r) PROVE Promised
    BY <2>4, StepUnseen, StepStops DEF Recover, GiveUpService, core_vars
  <2>5. CASE (\E g \in monitors : MonitorEnds(g)) \/ MonitorSeesLoss
             \/ SaveReadsMode \/ SaveSettles
    BY <2>5, StepUnseen DEF MonitorEnds, MonitorSeesLoss, SaveReadsMode, SaveSettles, core_vars
  <2>6. QED BY <1>8, <2>1, <2>2, <2>3, <2>4, <2>5 DEF Tasks
<1>9. CASE Faults
  BY <1>9, StepUnseen
  DEF Faults, SidecarDies, ServiceLosesCore, LogsRefused, TransportFails, core_vars
<1>10. CASE UNCHANGED vars
  BY <1>10, StepUnseen DEF vars, core_vars
<1>11. QED
  BY <1>1, <1>2, <1>3, <1>4, <1>5, <1>6, <1>7, <1>8, <1>9, <1>10 DEF Next, Holder

\* The whole of core::manager implements CorePromise: to those who look at the
\* mode and at readiness one owner runs the Core, it changes only by way of
\* NotRunning, and lost readiness does not come back while the owner stays.
THEOREM Implements == Spec => KeepsPromise
<1>1. Init => Promise!Init
  BY DEF Init, Promise!Init
<1>2. QED
  BY <1>1, Invariance, StepPromised, PTL DEF Spec, KeepsPromise, Promise!Spec, Promised

-----------------------------------------------------------------------------
(* Types, part by part: each lemma takes the actions that write its part   *)
(* one by one, and the others together.                                    *)

\* What the store says of the Core.
CoreType ==
  /\ mode \in Modes
  /\ pac \in BOOLEAN
  /\ readiness \in [generation : Nat, active : BOOLEAN]

\* The Sidecar processes and their readers.
SidecarType ==
  /\ child \in Nat /\ spawned \in Nat
  /\ alive \subseteq Nat /\ reaping \subseteq Nat
  /\ readers \subseteq [pid : Nat, generation : Nat]

\* The Service, its monitors and what they report.
ServiceType ==
  /\ core \in Nat /\ issued \in Nat /\ session \in Nat /\ ownerGen \in Nat
  /\ monitors \subseteq Nat
  /\ reports \subseteq Loss /\ recoveries \subseteq Loss

\* What is known of the Service.
StatusType == health \in Health /\ verdict \in Verdicts /\ tun \in BOOLEAN

\* The system proxy.
ProxyType == wanted \in BOOLEAN /\ osProxy \in BOOLEAN /\ guard \in BOOLEAN

\* The lock: the attempts at a start are counted from 0 and end before the limit.
LockType ==
  /\ op \in Operations \cup {Free} /\ step \in Steps
  /\ expectation \in [mode : Modes, generation : Nat, owner : Nat]
  /\ attempt \in 0..StartAttempts
  /\ step \in {"serviceStart", "serviceReply"} => attempt < StartAttempts
  /\ step \notin {"serviceStart", "serviceReply", "startFailed", "ready", "apply", "verify",
                  "guard", "verifyGuard", "undo"} => attempt = 0

\* The port save, the bounds and the history.
EnvType ==
  /\ saver \in {"idle", "starting", "open", "shut"}
  /\ calls \in 0..MaxCalls /\ faults \in 0..MaxFaults /\ saves \in 0..MaxSaves
  /\ outage \in BOOLEAN /\ exposed \in BOOLEAN

\* All of them.
Typed == CoreType /\ SidecarType /\ ServiceType /\ StatusType /\ ProxyType /\ LockType /\ EnvType

\* Readiness that was disowned is readiness still.
LEMMA InvalidatedTyped ==
  ASSUME readiness \in [generation : Nat, active : BOOLEAN]
  PROVE  Invalidated \in [generation : Nat, active : BOOLEAN]
BY DEF Invalidated

\* What the store says of the Core: every step keeps the type.
LEMMA CoreTypeStep == Typed /\ Next => CoreType'
<1> SUFFICES ASSUME Typed, Next PROVE CoreType'
  OBVIOUS
<1> USE DEF Typed, CoreType, Modes, core_vars
<1>1. CASE SaveStarts
  BY <1>1 DEF SaveStarts
<1>2. CASE StopCore
  BY <1>2, InvalidatedTyped DEF StopCore, CoreStopped
<1>3. CASE StopAccepted
  BY <1>3, InvalidatedTyped DEF StopAccepted, CoreStopped
<1>4. CASE StopDisplaced
  BY <1>4, InvalidatedTyped DEF StopDisplaced, GiveUpService, CoreStopped
<1>5. CASE BeginStart
  BY <1>5, InvalidatedTyped DEF BeginStart, CoreStopped
<1>6. CASE Spawn
  <2> DEFINE marked == [generation |-> Invalidated.generation + 1, active |-> TRUE]
  <2>1. marked \in [generation : Nat, active : BOOLEAN]
    BY InvalidatedTyped
  <2>2. mode' = "NotRunning" /\ pac' = FALSE /\ (readiness' = marked \/ readiness' = Invalidated)
    BY <1>6 DEF Spawn
  <2> QED BY <2>1, <2>2, InvalidatedTyped
<1>7. CASE Poll
  BY <1>7, InvalidatedTyped DEF Poll, CoreStarted, CoreStopped
<1>8. CASE StartAccepted
  BY <1>8 DEF StartAccepted, MarkedReady, CoreStarted
<1>9. CASE StartFailed
  BY <1>9, InvalidatedTyped DEF StartFailed, CoreStopped
<1>10. CASE Undo
  BY <1>10, InvalidatedTyped DEF Undo, CoreStopped
<1>11. CASE (\E r \in readers : ReaderSeesEnd(r))
  BY <1>11, InvalidatedTyped DEF ReaderSeesEnd
<1>12. CASE (\E p \in reaping : ClearTerminatedSidecar(p))
  BY <1>12, InvalidatedTyped DEF ClearTerminatedSidecar, CoreStopped
<1>13. CASE (\E r \in reports : ClaimRecovery(r))
  BY <1>13, InvalidatedTyped DEF ClaimRecovery
<1>14. CASE (\E r \in recoveries : Recover(r))
  BY <1>14, InvalidatedTyped DEF Recover, GiveUpService, CoreStopped
<1>15. CASE SaveSettles
  BY <1>15 DEF SaveSettles
<1>16. CASE Begin \/ ContinueWithSidecar \/ ContinuePreparationFails \/ TurnProxyOn \/
  TurnProxyOff \/ Stopping \/ StopFails \/ OperateSucceeds
  BY <1>16 DEF Begin, ContinueWithSidecar, ContinuePreparationFails, TurnProxyOn, TurnProxyOff,
    Stopping, StopFails, OperateSucceeds
<1>17. CASE OperateFails \/ ServiceStart \/ StartReplyLost \/ StartRefused \/ Ready \/ Apply \/
  Verify \/ RefreshGuard
  BY <1>17 DEF OperateFails, ServiceStart, StartReplyLost, StartRefused, Ready, Apply, Verify,
    RefreshGuard
<1>18. CASE (\E g \in monitors : MonitorEnds(g)) \/ MonitorSeesLoss \/ SaveReadsMode \/
  SidecarDies \/ ServiceLosesCore \/ LogsRefused \/ TransportFails
  BY <1>18 DEF MonitorEnds, MonitorSeesLoss, SaveReadsMode, SidecarDies, ServiceLosesCore,
    LogsRefused, TransportFails
<1> QED BY <1>1, <1>2, <1>3, <1>4, <1>5, <1>6, <1>7, <1>8, <1>9, <1>10, <1>11, <1>12, <1>13,
  <1>14, <1>15, <1>16, <1>17, <1>18 DEF Next, Starts, Holder, Tasks, Faults

\* The Sidecar processes and their readers: every step keeps the type.
LEMMA SidecarTypeStep == Typed /\ Next => SidecarType'
<1> SUFFICES ASSUME Typed, Next PROVE SidecarType'
  OBVIOUS
<1> USE DEF Typed, SidecarType, sidecar_vars
<1>1. CASE StopCore
  <2>1. CASE KillChild
    BY <2>1 DEF KillChild, NoChild
  <2>2. CASE UNCHANGED sidecar_vars
    BY <2>2
  <2> QED BY <1>1, <2>1, <2>2 DEF StopCore
<1>2. CASE Spawn
  <2>1. CASE UNCHANGED sidecar_vars
    BY <2>1
  <2>2. CASE ~UNCHANGED sidecar_vars
    <3> DEFINE started == [pid |-> spawned + 1, generation |-> Invalidated.generation + 1]
    <3>1. started \in [pid : Nat, generation : Nat]
      BY InvalidatedTyped DEF CoreType
    <3>2. /\ spawned' = spawned + 1 /\ alive' = alive \cup {spawned + 1}
          /\ readers' = readers \cup {started} /\ UNCHANGED <<child, reaping>>
      BY <1>2, <2>2 DEF Spawn
    <3> HIDE DEF started
    <3> QED BY <3>1, <3>2
  <2> QED BY <2>1, <2>2
<1>3. CASE Poll
  BY <1>3 DEF Poll
<1>4. CASE Undo
  <2>1. CASE KillChild
    BY <2>1 DEF KillChild, NoChild
  <2>2. CASE UNCHANGED sidecar_vars
    BY <2>2
  <2> QED BY <1>4, <2>1, <2>2 DEF Undo
<1>5. CASE (\E r \in readers : ReaderSeesEnd(r))
  BY <1>5 DEF ReaderSeesEnd
<1>6. CASE (\E p \in reaping : ClearTerminatedSidecar(p))
  BY <1>6 DEF ClearTerminatedSidecar, NoChild
<1>7. CASE SidecarDies
  BY <1>7 DEF SidecarDies
<1>8. CASE Begin \/ ContinueWithSidecar \/ ContinuePreparationFails \/ TurnProxyOn \/
  TurnProxyOff \/ SaveStarts \/ Stopping \/ StopAccepted
  BY <1>8 DEF Begin, ContinueWithSidecar, ContinuePreparationFails, TurnProxyOn, TurnProxyOff,
    SaveStarts, Stopping, StopAccepted
<1>9. CASE StopFails \/ StopDisplaced \/ OperateSucceeds \/ OperateFails \/ BeginStart \/
  ServiceStart \/ StartAccepted \/ StartReplyLost
  BY <1>9 DEF StopFails, StopDisplaced, OperateSucceeds, OperateFails, BeginStart,
    ServiceStart, StartAccepted, StartReplyLost
<1>10. CASE StartRefused \/ StartFailed \/ Ready \/ Apply \/ Verify \/ RefreshGuard \/ (\E g
  \in monitors : MonitorEnds(g)) \/ (\E r \in reports : ClaimRecovery(r))
  BY <1>10 DEF StartRefused, StartFailed, Ready, Apply, Verify, RefreshGuard, MonitorEnds,
    ClaimRecovery
<1>11. CASE (\E r \in recoveries : Recover(r)) \/ MonitorSeesLoss \/ SaveReadsMode \/
  SaveSettles \/ ServiceLosesCore \/ LogsRefused \/ TransportFails
  BY <1>11 DEF Recover, MonitorSeesLoss, SaveReadsMode, SaveSettles, ServiceLosesCore,
    LogsRefused, TransportFails
<1> QED BY <1>1, <1>2, <1>3, <1>4, <1>5, <1>6, <1>7, <1>8, <1>9, <1>10, <1>11 DEF Next, Starts,
  Holder, Tasks, Faults

\* The Service, its monitors and what they report: every step keeps the type.
LEMMA ServiceTypeStep == Typed /\ Next => ServiceType'
<1> SUFFICES ASSUME Typed, Next PROVE ServiceType'
  OBVIOUS
<1> USE DEF Typed, ServiceType, service_vars
<1>1. CASE StopCore
  BY <1>1 DEF StopCore, CancelMonitors
<1>2. CASE StopAccepted
  BY <1>2 DEF StopAccepted, NoSession
<1>3. CASE StopFails
  BY <1>3 DEF StopFails, StartMonitor, NoSession
<1>4. CASE StopDisplaced
  BY <1>4 DEF StopDisplaced, GiveUpService, NoSession
<1>5. CASE OperateSucceeds
  BY <1>5 DEF OperateSucceeds, NoSession
<1>6. CASE ServiceStart
  BY <1>6 DEF ServiceStart, NoSession
<1>7. CASE StartAccepted
  BY <1>7 DEF StartAccepted, StartMonitor
<1>8. CASE StartReplyLost
  BY <1>8 DEF StartReplyLost, StartMonitor
<1>9. CASE StartRefused
  BY <1>9 DEF StartRefused, StartMonitor
<1>10. CASE (\E g \in monitors : MonitorEnds(g))
  BY <1>10 DEF MonitorEnds
<1>11. CASE (\E r \in reports : ClaimRecovery(r))
  BY <1>11 DEF ClaimRecovery, Loss
<1>12. CASE (\E r \in recoveries : Recover(r))
  <2>1. /\ UNCHANGED <<core, issued, ownerGen, monitors, reports>>
        /\ session' \in {session, NoSession} /\ recoveries' \subseteq recoveries
    BY <1>12 DEF Recover, GiveUpService
  <2> QED BY <2>1 DEF NoSession
<1>13. CASE MonitorSeesLoss
  BY <1>13 DEF MonitorSeesLoss, Reported, Loss, Reasons
<1>14. CASE ServiceLosesCore
  BY <1>14 DEF ServiceLosesCore, NoSession
<1>15. CASE LogsRefused
  BY <1>15 DEF LogsRefused, Reported, Loss, Reasons
<1>16. CASE TransportFails
  BY <1>16 DEF TransportFails, Reported, Loss, Reasons
<1>17. CASE Begin \/ ContinueWithSidecar \/ ContinuePreparationFails \/ TurnProxyOn \/
  TurnProxyOff \/ SaveStarts \/ Stopping \/ OperateFails
  BY <1>17 DEF Begin, ContinueWithSidecar, ContinuePreparationFails, TurnProxyOn, TurnProxyOff,
    SaveStarts, Stopping, OperateFails
<1>18. CASE BeginStart \/ Spawn \/ Poll \/ StartFailed \/ Ready \/ Apply \/ Verify \/
  RefreshGuard
  BY <1>18 DEF BeginStart, Spawn, Poll, StartFailed, Ready, Apply, Verify, RefreshGuard
<1>19. CASE Undo \/ (\E r \in readers : ReaderSeesEnd(r)) \/ (\E p \in reaping :
  ClearTerminatedSidecar(p)) \/ SaveReadsMode \/ SaveSettles \/ SidecarDies
  BY <1>19 DEF Undo, ReaderSeesEnd, ClearTerminatedSidecar, SaveReadsMode, SaveSettles,
    SidecarDies
<1> QED BY <1>1, <1>2, <1>3, <1>4, <1>5, <1>6, <1>7, <1>8, <1>9, <1>10, <1>11, <1>12, <1>13,
  <1>14, <1>15, <1>16, <1>17, <1>18, <1>19 DEF Next, Starts, Holder, Tasks, Faults

\* What is known of the Service: every step keeps the type.
LEMMA StatusTypeStep == Typed /\ Next => StatusType'
<1> SUFFICES ASSUME Typed, Next PROVE StatusType'
  OBVIOUS
<1> USE DEF Typed, StatusType, Health, Verdicts, NoVerdict, status_vars
<1>1. CASE ContinueWithSidecar
  BY <1>1 DEF ContinueWithSidecar
<1>2. CASE ContinuePreparationFails
  BY <1>2 DEF ContinuePreparationFails
<1>3. CASE Stopping
  BY <1>3 DEF Stopping, PrepareStartup
<1>4. CASE StopDisplaced
  BY <1>4 DEF StopDisplaced, GiveUpService, ObserveHealth
<1>5. CASE OperateSucceeds
  BY <1>5 DEF OperateSucceeds
<1>6. CASE OperateFails
  BY <1>6 DEF OperateFails
<1>7. CASE BeginStart
  BY <1>7 DEF BeginStart, PrepareStartup, WaitForService, ObserveHealth
<1>8. CASE ServiceStart
  BY <1>8 DEF ServiceStart, ObserveHealth
<1>9. CASE StartRefused
  BY <1>9 DEF StartRefused, ObserveHealth
<1>10. CASE StartFailed
  BY <1>10 DEF StartFailed
<1>11. CASE Apply
  BY <1>11 DEF Apply, ObserveHealth
<1>12. CASE Undo
  BY <1>12 DEF Undo
<1>13. CASE (\E r \in recoveries : Recover(r))
  BY <1>13 DEF Recover, GiveUpService, ObserveHealth
<1>14. CASE Begin \/ TurnProxyOn \/ TurnProxyOff \/ SaveStarts \/ StopCore \/ StopAccepted \/
  StopFails \/ Spawn
  BY <1>14 DEF Begin, TurnProxyOn, TurnProxyOff, SaveStarts, StopCore, StopAccepted, StopFails,
    Spawn
<1>15. CASE Poll \/ StartAccepted \/ StartReplyLost \/ Ready \/ Verify \/ RefreshGuard \/ (\E r
  \in readers : ReaderSeesEnd(r)) \/ (\E p \in reaping : ClearTerminatedSidecar(p))
  BY <1>15 DEF Poll, StartAccepted, StartReplyLost, Ready, Verify, RefreshGuard, ReaderSeesEnd,
    ClearTerminatedSidecar
<1>16. CASE (\E g \in monitors : MonitorEnds(g)) \/ (\E r \in reports : ClaimRecovery(r)) \/
  MonitorSeesLoss \/ SaveReadsMode \/ SaveSettles \/ SidecarDies \/ ServiceLosesCore \/
  LogsRefused
  BY <1>16 DEF MonitorEnds, ClaimRecovery, MonitorSeesLoss, SaveReadsMode, SaveSettles,
    SidecarDies, ServiceLosesCore, LogsRefused
<1>17. CASE TransportFails
  BY <1>17 DEF TransportFails
<1> QED BY <1>1, <1>2, <1>3, <1>4, <1>5, <1>6, <1>7, <1>8, <1>9, <1>10, <1>11, <1>12, <1>13,
  <1>14, <1>15, <1>16, <1>17 DEF Next, Starts, Holder, Tasks, Faults

\* The system proxy: every step keeps the type.
LEMMA ProxyTypeStep == Typed /\ Next => ProxyType'
<1> SUFFICES ASSUME Typed, Next PROVE ProxyType'
  OBVIOUS
<1> USE DEF Typed, ProxyType, proxy_vars
<1>1. CASE ContinueWithSidecar
  BY <1>1 DEF ContinueWithSidecar, StopGuard
<1>2. CASE TurnProxyOn
  BY <1>2 DEF TurnProxyOn
<1>3. CASE TurnProxyOff
  BY <1>3 DEF TurnProxyOff, ClearProxy
<1>4. CASE Stopping
  BY <1>4 DEF Stopping, StopGuard, ClearProxy
<1>5. CASE StopAccepted
  BY <1>5 DEF StopAccepted
<1>6. CASE StopDisplaced
  BY <1>6 DEF StopDisplaced, GiveUpService
<1>7. CASE BeginStart
  BY <1>7 DEF BeginStart
<1>8. CASE Poll
  BY <1>8 DEF Poll
<1>9. CASE StartFailed
  BY <1>9 DEF StartFailed
<1>10. CASE Ready
  BY <1>10 DEF Ready, RevertSetting
<1>11. CASE Apply
  BY <1>11 DEF Apply, RevertSetting
<1>12. CASE Verify
  BY <1>12 DEF Verify, Validate, ClearProxy, RevertSetting
<1>13. CASE RefreshGuard
  BY <1>13 DEF RefreshGuard, RevertSetting
<1>14. CASE Undo
  BY <1>14 DEF Undo, StopGuard, ClearProxy
<1>15. CASE (\E p \in reaping : ClearTerminatedSidecar(p))
  BY <1>15 DEF ClearTerminatedSidecar
<1>16. CASE (\E r \in recoveries : Recover(r))
  BY <1>16 DEF Recover, GiveUpService
<1>17. CASE Begin \/ ContinuePreparationFails \/ SaveStarts \/ StopCore \/ StopFails \/
  OperateSucceeds \/ OperateFails \/ Spawn
  BY <1>17 DEF Begin, ContinuePreparationFails, SaveStarts, StopCore, StopFails,
    OperateSucceeds, OperateFails, Spawn
<1>18. CASE ServiceStart \/ StartAccepted \/ StartReplyLost \/ StartRefused \/ (\E r \in
  readers : ReaderSeesEnd(r)) \/ (\E g \in monitors : MonitorEnds(g)) \/ (\E r \in reports :
  ClaimRecovery(r)) \/ MonitorSeesLoss
  BY <1>18 DEF ServiceStart, StartAccepted, StartReplyLost, StartRefused, ReaderSeesEnd,
    MonitorEnds, ClaimRecovery, MonitorSeesLoss
<1>19. CASE SaveReadsMode \/ SaveSettles \/ SidecarDies \/ ServiceLosesCore \/ LogsRefused \/
  TransportFails
  BY <1>19 DEF SaveReadsMode, SaveSettles, SidecarDies, ServiceLosesCore, LogsRefused,
    TransportFails
<1> QED BY <1>1, <1>2, <1>3, <1>4, <1>5, <1>6, <1>7, <1>8, <1>9, <1>10, <1>11, <1>12, <1>13,
  <1>14, <1>15, <1>16, <1>17, <1>18, <1>19 DEF Next, Starts, Holder, Tasks, Faults

\* The lock: every step keeps the type.
LEMMA LockTypeStep == IInv /\ Typed /\ Next => LockType'
<1> SUFFICES ASSUME IInv, Typed, Next PROVE LockType'
  OBVIOUS
<1> USE StartAttemptsAssumption DEF Typed, LockType, Modes, Operations, ConfigUpdates, Steps,
  Free, NoExpectation, Goto, Release, GiveUp, lock_vars
<1>1. CASE Begin
  <2>1. PICK o \in Operations, first \in {"begin", "stopping", "operate"} : Take(o, first)
    BY <1>1 DEF Begin
  <2> QED BY <2>1 DEF Take, MayBegin, IInv, LockShape
<1>2. CASE ContinueWithSidecar
  BY <1>2 DEF ContinueWithSidecar, Take, MayBegin, IInv, LockShape
<1>3. CASE TurnProxyOn
  BY <1>3 DEF TurnProxyOn, Take, MayBegin, IInv, LockShape
<1>4. CASE Stopping
  BY <1>4 DEF Stopping
<1>5. CASE StopCore
  BY <1>5 DEF StopCore, AfterStop
<1>6. CASE StopAccepted
  BY <1>6 DEF StopAccepted, AfterStop
<1>7. CASE StopFails
  BY <1>7 DEF StopFails
<1>8. CASE StopDisplaced
  BY <1>8 DEF StopDisplaced
<1>9. CASE OperateSucceeds
  BY <1>9 DEF OperateSucceeds
<1>10. CASE OperateFails
  BY <1>10 DEF OperateFails
<1>11. CASE BeginStart
  BY <1>11 DEF BeginStart
<1>12. CASE Spawn
  BY <1>12 DEF Spawn
<1>13. CASE Poll
  BY <1>13 DEF Poll
<1>14. CASE ServiceStart
  BY <1>14 DEF ServiceStart, FailAttempt
<1>15. CASE StartAccepted
  BY <1>15 DEF StartAccepted
<1>16. CASE StartReplyLost
  BY <1>16 DEF StartReplyLost, FailAttempt
<1>17. CASE StartRefused
  BY <1>17 DEF StartRefused, FailAttempt
<1>18. CASE StartFailed
  BY <1>18 DEF StartFailed
<1>19. CASE Ready
  BY <1>19 DEF Ready, CoreType, ServiceType
<1>20. CASE Apply
  <2>1. Goto("verify") \/ Release \/ GiveUp
    BY <1>20 DEF Apply
  <2>2. step = "apply"
    BY <1>20 DEF Apply
  <2> QED BY <2>1, <2>2
<1>21. CASE Verify
  BY <1>21 DEF Verify, Validate
<1>22. CASE RefreshGuard
  BY <1>22 DEF RefreshGuard
<1>23. CASE Undo
  BY <1>23 DEF Undo
<1>24. CASE ContinuePreparationFails \/ TurnProxyOff \/ SaveStarts \/ (\E r \in readers :
  ReaderSeesEnd(r)) \/ (\E p \in reaping : ClearTerminatedSidecar(p)) \/ (\E g \in monitors :
  MonitorEnds(g)) \/ (\E r \in reports : ClaimRecovery(r)) \/ (\E r \in recoveries :
  Recover(r))
  BY <1>24 DEF ContinuePreparationFails, TurnProxyOff, SaveStarts, ReaderSeesEnd,
    ClearTerminatedSidecar, MonitorEnds, ClaimRecovery, Recover
<1>25. CASE MonitorSeesLoss \/ SaveReadsMode \/ SaveSettles \/ SidecarDies \/ ServiceLosesCore
  \/ LogsRefused \/ TransportFails
  BY <1>25 DEF MonitorSeesLoss, SaveReadsMode, SaveSettles, SidecarDies, ServiceLosesCore,
    LogsRefused, TransportFails
<1> QED BY <1>1, <1>2, <1>3, <1>4, <1>5, <1>6, <1>7, <1>8, <1>9, <1>10, <1>11, <1>12, <1>13,
  <1>14, <1>15, <1>16, <1>17, <1>18, <1>19, <1>20, <1>21, <1>22, <1>23, <1>24, <1>25 DEF Next,
  Starts, Holder, Tasks, Faults

\* The port save, the bounds and the history: every step keeps the type.
LEMMA EnvTypeStep == Typed /\ Next => EnvType'
<1> SUFFICES ASSUME Typed, Next PROVE EnvType'
  OBVIOUS
<1> USE BoundsAssumption DEF Typed, EnvType, env_vars, history_vars
<1>1. CASE Begin
  BY <1>1 DEF Begin, Take, MayBegin
<1>2. CASE ContinueWithSidecar
  BY <1>2 DEF ContinueWithSidecar, Take, MayBegin, StopGuard
<1>3. CASE ContinuePreparationFails
  BY <1>3 DEF ContinuePreparationFails, MayBegin
<1>4. CASE TurnProxyOn
  BY <1>4 DEF TurnProxyOn, Take, MayBegin
<1>5. CASE TurnProxyOff
  BY <1>5 DEF TurnProxyOff, MayBegin, ClearProxy
<1>6. CASE SaveStarts
  BY <1>6 DEF SaveStarts
<1>7. CASE Stopping
  BY <1>7 DEF Stopping, StopGuard, ClearProxy
<1>8. CASE StopAccepted
  BY <1>8 DEF StopAccepted
<1>9. CASE StopFails
  BY <1>9 DEF StopFails
<1>10. CASE StopDisplaced
  BY <1>10 DEF StopDisplaced, GiveUpService
<1>11. CASE OperateSucceeds
  BY <1>11 DEF OperateSucceeds
<1>12. CASE StartAccepted
  BY <1>12 DEF StartAccepted
<1>13. CASE StartReplyLost
  BY <1>13 DEF StartReplyLost
<1>14. CASE Verify
  BY <1>14 DEF Verify, Validate, ClearProxy
<1>15. CASE Undo
  BY <1>15 DEF Undo, StopGuard, ClearProxy
<1>16. CASE (\E r \in recoveries : Recover(r))
  BY <1>16 DEF Recover, GiveUpService
<1>17. CASE SaveReadsMode
  BY <1>17 DEF SaveReadsMode
<1>18. CASE SaveSettles
  BY <1>18 DEF SaveSettles
<1>19. CASE SidecarDies
  BY <1>19 DEF SidecarDies
<1>20. CASE ServiceLosesCore
  BY <1>20 DEF ServiceLosesCore
<1>21. CASE LogsRefused
  BY <1>21 DEF LogsRefused
<1>22. CASE TransportFails
  BY <1>22 DEF TransportFails
<1>23. CASE StopCore \/ OperateFails \/ BeginStart \/ Spawn \/ Poll \/ ServiceStart \/
  StartRefused \/ StartFailed
  BY <1>23 DEF StopCore, OperateFails, BeginStart, Spawn, Poll, ServiceStart, StartRefused,
    StartFailed
<1>24. CASE Ready \/ Apply \/ RefreshGuard \/ (\E r \in readers : ReaderSeesEnd(r)) \/ (\E p
  \in reaping : ClearTerminatedSidecar(p)) \/ (\E g \in monitors : MonitorEnds(g)) \/ (\E r \in
  reports : ClaimRecovery(r)) \/ MonitorSeesLoss
  BY <1>24 DEF Ready, Apply, RefreshGuard, ReaderSeesEnd, ClearTerminatedSidecar, MonitorEnds,
    ClaimRecovery, MonitorSeesLoss
<1> QED BY <1>1, <1>2, <1>3, <1>4, <1>5, <1>6, <1>7, <1>8, <1>9, <1>10, <1>11, <1>12, <1>13,
  <1>14, <1>15, <1>16, <1>17, <1>18, <1>19, <1>20, <1>21, <1>22, <1>23, <1>24 DEF Next, Starts,
  Holder, Tasks, Faults

\* The initial states are well typed.
LEMMA TypedInit == Init => Typed
<1> SUFFICES ASSUME Init PROVE Typed
  OBVIOUS
<1>1. CoreType /\ StatusType /\ ProxyType
  BY DEF Init, CoreType, StatusType, ProxyType, Modes, Verdicts, NoVerdict
<1>2. SidecarType /\ ServiceType
  BY DEF Init, SidecarType, ServiceType, NoChild, NoSession
<1>3. LockType
  BY StartAttemptsAssumption DEF Init, LockType, Steps, Modes, Free, NoExpectation
<1>4. EnvType
  <2>1. calls = 0 /\ faults = 0 /\ saves = 0 /\ saver = "idle"
    BY DEF Init
  <2>2. outage \in BOOLEAN /\ exposed \in BOOLEAN
    BY DEF Init
  <2> QED BY <2>1, <2>2, BoundsAssumption DEF EnvType
<1> QED BY <1>1, <1>2, <1>3, <1>4 DEF Typed

\* Every variable of core::manager keeps its type; the attempts at a Service start never
\* exceed the limit (start_attempts).
THEOREM TypeCorrect == Spec => []TypeOK
<1>1. IInv /\ Typed /\ [Next]_vars => Typed'
  <2> SUFFICES ASSUME IInv, Typed, [Next]_vars PROVE Typed'
    OBVIOUS
  <2>1. CASE Next
    BY <2>1, CoreTypeStep, SidecarTypeStep, ServiceTypeStep, StatusTypeStep, ProxyTypeStep,
       LockTypeStep, EnvTypeStep DEF Typed
  <2>2. CASE UNCHANGED vars
    BY <2>2 DEF Typed, CoreType, SidecarType, ServiceType, StatusType, ProxyType, LockType,
       EnvType, vars, core_vars, sidecar_vars, service_vars, status_vars, proxy_vars,
       lock_vars, env_vars, history_vars
  <2> QED BY <2>1, <2>2
<1>2. Typed => TypeOK
  BY DEF Typed, CoreType, SidecarType, ServiceType, StatusType, ProxyType, LockType, EnvType,
     TypeOK
<1> QED BY <1>1, <1>2, TypedInit, Invariance, PTL DEF Spec

-----------------------------------------------------------------------------
(* Whose Core runs *)


\* The Sidecar processes: outside a start only the supervised one runs, the reader of a
\* process that ended names no later one, and a start that failed left nothing running.
Processes ==
  /\ mode \in {"NotRunning", "Sidecar", "Service"}
  /\ spawned \in Nat
  /\ \A r \in readers : r.pid \in 1 .. spawned
  /\ reaping \subseteq 1 .. spawned
  /\ reaping \cap alive = {}
  /\ alive \subseteq IF mode = "Sidecar" THEN {child} ELSE IF step = "poll" THEN {spawned} ELSE {}
  /\ step = "startFailed" => mode = "NotRunning"
  /\ step = "stopReply" => mode = "Service"

\* Taking the lock preserves the invariant of the processes ...
LEMMA ProcessesStarts == IInv /\ Processes /\ Starts => Processes'
<1> SUFFICES ASSUME IInv, Processes, Starts PROVE Processes'
    OBVIOUS
<1>1. UNCHANGED <<mode, sidecar_vars>>
  BY DEF Starts, Begin, ContinueWithSidecar, ContinuePreparationFails, TurnProxyOn, TurnProxyOff,
         SaveStarts, core_vars
<1>2. UNCHANGED step \/ (step = Free /\ step' \in {"begin", "stopping", "operate", "ready"})
  <2>1. ASSUME NEW o, NEW first \in {"begin", "stopping", "operate", "ready"}, Take(o, first)
        PROVE  step = Free /\ step' \in {"begin", "stopping", "operate", "ready"}
    BY <2>1 DEF Take, MayBegin, IInv, LockShape
  <2>2. CASE Begin \/ ContinueWithSidecar \/ TurnProxyOn
    BY <2>1, <2>2 DEF Begin, ContinueWithSidecar, TurnProxyOn
  <2>3. CASE ContinuePreparationFails \/ TurnProxyOff \/ SaveStarts
    BY <2>3 DEF ContinuePreparationFails, TurnProxyOff, SaveStarts, lock_vars
  <2> QED BY <2>2, <2>3 DEF Starts
<1> QED BY <1>1, <1>2 DEF Processes, sidecar_vars, Free

\* ... and so do the steps of a stop and of a privileged operation,
LEMMA ProcessesStops ==
  IInv /\ Processes /\ (Stopping \/ StopCore \/ StopAccepted \/ StopFails \/ StopDisplaced
           \/ OperateSucceeds \/ OperateFails) => Processes'
<1> SUFFICES ASSUME IInv, Processes,
                    Stopping \/ StopCore \/ StopAccepted \/ StopFails \/ StopDisplaced
                    \/ OperateSucceeds \/ OperateFails
             PROVE Processes'
    OBVIOUS
<1> USE DEF Processes, Goto, Release, GiveUp, AfterStop, CoreStopped, Free, core_vars, sidecar_vars
<1>1. CASE Stopping
  BY <1>1 DEF Stopping
<1>2. CASE StopCore
  BY <1>2 DEF StopCore, KillChild
<1>3. CASE StopAccepted
  BY <1>3 DEF StopAccepted
<1>4. CASE StopFails
  BY <1>4 DEF StopFails
<1>5. CASE StopDisplaced
  BY <1>5 DEF StopDisplaced, GiveUpService
<1>6. CASE OperateSucceeds
  BY <1>6 DEF OperateSucceeds
<1>7. CASE OperateFails
  BY <1>7 DEF OperateFails
<1> QED BY <1>1, <1>2, <1>3, <1>4, <1>5, <1>6, <1>7

\* the steps that start a Core,
LEMMA ProcessesStartCore ==
  IInv /\ Processes /\ (BeginStart \/ Spawn \/ Poll \/ ServiceStart \/ StartAccepted
           \/ StartReplyLost \/ StartRefused \/ StartFailed) => Processes'
<1> SUFFICES ASSUME IInv, Processes,
                    BeginStart \/ Spawn \/ Poll \/ ServiceStart \/ StartAccepted
                    \/ StartReplyLost \/ StartRefused \/ StartFailed
             PROVE Processes'
    OBVIOUS
<1> USE DEF Processes, Goto, Release, FailAttempt, CoreStopped, CoreStarted, Free, core_vars, sidecar_vars
<1>1. CASE BeginStart
  BY <1>1 DEF BeginStart, lock_vars
<1>2. CASE Spawn
  <2>1. mode = "NotRunning" /\ step = "spawn" /\ mode' = "NotRunning" /\ alive = {}
    BY <1>2 DEF Spawn, IInv, StartsFromRest
  <2>2. CASE UNCHANGED sidecar_vars /\ step' = "startFailed"
    BY <2>1, <2>2
  <2>3. CASE ~(UNCHANGED sidecar_vars /\ step' = "startFailed")
    <3> DEFINE started == [pid |-> spawned + 1, generation |-> Invalidated.generation + 1]
    <3>1. spawned' = spawned + 1 /\ alive' = alive \cup {spawned + 1}
          /\ readers' = readers \cup {started} /\ reaping' = reaping /\ step' = "poll"
      BY <1>2, <2>3 DEF Spawn
    <3>2. started.pid = spawned + 1
      OBVIOUS
    <3> HIDE DEF started
    <3>3. \A r \in readers' : r.pid \in 1 .. spawned'
      BY <3>1, <3>2
    <3> QED BY <2>1, <3>1, <3>3
  <2> QED BY <2>2, <2>3
<1>3. CASE Poll
  BY <1>3 DEF Poll, IInv, StartsFromRest
<1>4. CASE ServiceStart
  BY <1>4 DEF ServiceStart, IInv, StartsFromRest
<1>5. CASE StartAccepted
  BY <1>5 DEF StartAccepted, IInv, StartsFromRest
<1>6. CASE StartReplyLost
  BY <1>6 DEF StartReplyLost, IInv, StartsFromRest
<1>7. CASE StartRefused
  BY <1>7 DEF StartRefused, IInv, StartsFromRest
<1>8. CASE StartFailed
  BY <1>8 DEF StartFailed
<1> QED BY <1>1, <1>2, <1>3, <1>4, <1>5, <1>6, <1>7, <1>8

\* the steps that apply the proxy or undo a Sidecar flow,
LEMMA ProcessesApply ==
  IInv /\ Processes /\ (Ready \/ Apply \/ Verify \/ RefreshGuard \/ Undo) => Processes'
<1> SUFFICES ASSUME IInv, Processes, Ready \/ Apply \/ Verify \/ RefreshGuard \/ Undo
             PROVE Processes'
    OBVIOUS
<1> USE DEF Processes, Goto, Release, GiveUp, CoreStopped, Free, core_vars, sidecar_vars
<1>1. CASE Ready
  BY <1>1 DEF Ready
<1>2. CASE Apply
  BY <1>2 DEF Apply
<1>3. CASE Verify
  BY <1>3 DEF Verify, Validate
<1>4. CASE RefreshGuard
  BY <1>4 DEF RefreshGuard
<1>5. CASE Undo
  BY <1>5 DEF Undo, KillChild
<1> QED BY <1>1, <1>2, <1>3, <1>4, <1>5

\* and what happens beside the holder of the lock.
LEMMA ProcessesTasks == IInv /\ Processes /\ (Tasks \/ Faults) => Processes'
<1> SUFFICES ASSUME IInv, Processes, Tasks \/ Faults PROVE Processes'
    OBVIOUS
<1> USE DEF Processes, IInv, LockShape, CoreStopped, Free, core_vars, sidecar_vars, lock_vars
<1>1. ASSUME NEW r \in readers, ReaderSeesEnd(r) PROVE Processes'
  BY <1>1 DEF ReaderSeesEnd
<1>2. ASSUME NEW p \in reaping, ClearTerminatedSidecar(p) PROVE Processes'
  BY <1>2 DEF ClearTerminatedSidecar
<1>3. ASSUME NEW g \in monitors, MonitorEnds(g) PROVE Processes'
  BY <1>3 DEF MonitorEnds
<1>4. ASSUME NEW r \in reports, ClaimRecovery(r) PROVE Processes'
  BY <1>4 DEF ClaimRecovery
<1>5. ASSUME NEW r \in recoveries, Recover(r) PROVE Processes'
  BY <1>5 DEF Recover, GiveUpService
<1>6. CASE MonitorSeesLoss \/ LogsRefused \/ TransportFails
  BY <1>6 DEF MonitorSeesLoss, LogsRefused, TransportFails
<1>7. CASE SaveReadsMode \/ SaveSettles
  BY <1>7 DEF SaveReadsMode, SaveSettles
<1>8. CASE SidecarDies
  BY <1>8 DEF SidecarDies
<1>9. CASE ServiceLosesCore
  BY <1>9 DEF ServiceLosesCore
<1> QED
  BY <1>1, <1>2, <1>3, <1>4, <1>5, <1>6, <1>7, <1>8, <1>9 DEF Tasks, Faults

-----------------------------------------------------------------------------
(* The Sidecar flows.                                                      *)

\* A flow that settles on the Sidecar never meets a Core of the Service once the stop is
\* over: the verdict, or the uninstalled Service, rules the Service out, and TUN is written off,
\* so that no start waits for the Service.
Fallbacks ==
  /\ op \in {"continue", "uninstall"} /\ step \notin {"stopping", "stopCore", "stopReply"}
       => mode # "Service"
  /\ op = "continue" /\ step = "begin" => verdict = "SidecarAllowed"
  /\ op = "uninstall" /\ step = "begin" => verdict = NoVerdict /\ health = "NotInstalled"
  /\ step \in {"serviceStart", "serviceReply"} => op \notin {"continue", "uninstall"}
  /\ step = "undo" => op \in {"continue", "uninstall"}
  /\ op \in {"continue", "uninstall"} /\ step = "begin" => ~tun \/ Elevated

\* Taking the lock preserves the invariant of the Sidecar flows ...
LEMMA FallbacksStarts == IInv /\ Fallbacks /\ Starts => Fallbacks'
<1> SUFFICES ASSUME IInv, Fallbacks, Starts PROVE Fallbacks'
    OBVIOUS
<1> USE DEF Fallbacks, IInv, LockShape, Free, Take, MayBegin, core_vars, status_vars, lock_vars
<1>1. CASE Begin
  BY <1>1 DEF Begin
<1>2. CASE ContinueWithSidecar
  BY <1>2 DEF ContinueWithSidecar, CanAllowSidecar
<1>3. CASE ContinuePreparationFails
  BY <1>3 DEF ContinuePreparationFails
<1>4. CASE TurnProxyOn
  BY <1>4 DEF TurnProxyOn
<1>5. CASE TurnProxyOff
  BY <1>5 DEF TurnProxyOff
<1>6. CASE SaveStarts
  BY <1>6 DEF SaveStarts
<1> QED BY <1>1, <1>2, <1>3, <1>4, <1>5, <1>6 DEF Starts

\* ... and so do the steps of a stop and of a privileged operation,
LEMMA FallbacksStops ==
  IInv /\ Processes /\ Fallbacks /\ (Stopping \/ StopCore \/ StopAccepted \/ StopFails
           \/ StopDisplaced \/ OperateSucceeds \/ OperateFails) => Fallbacks'
<1> SUFFICES ASSUME IInv, Processes, Fallbacks,
                    Stopping \/ StopCore \/ StopAccepted \/ StopFails \/ StopDisplaced
                    \/ OperateSucceeds \/ OperateFails
             PROVE Fallbacks'
    OBVIOUS
<1> USE DEF Fallbacks, Processes, Goto, Release, GiveUp, AfterStop, CoreStopped, Free,
            core_vars, status_vars
<1>1. CASE Stopping
  BY <1>1 DEF Stopping
<1>2. CASE StopCore
  BY <1>2 DEF StopCore
<1>3. CASE StopAccepted
  BY <1>3 DEF StopAccepted
<1>4. CASE StopFails
  BY <1>4 DEF StopFails
<1>5. CASE StopDisplaced
  BY <1>5 DEF StopDisplaced, GiveUpService
<1>6. CASE OperateSucceeds
  BY <1>6 DEF OperateSucceeds
<1>7. CASE OperateFails
  BY <1>7 DEF OperateFails
<1> QED BY <1>1, <1>2, <1>3, <1>4, <1>5, <1>6, <1>7

\* the steps that start a Core,
LEMMA FallbacksStartCore ==
  IInv /\ Processes /\ Fallbacks /\ (BeginStart \/ Spawn \/ Poll \/ ServiceStart \/ StartAccepted
           \/ StartReplyLost \/ StartRefused \/ StartFailed) => Fallbacks'
<1> SUFFICES ASSUME IInv, Processes, Fallbacks,
                    BeginStart \/ Spawn \/ Poll \/ ServiceStart \/ StartAccepted
                    \/ StartReplyLost \/ StartRefused \/ StartFailed
             PROVE Fallbacks'
    OBVIOUS
<1> USE DEF Fallbacks, Goto, Release, FailAttempt, CoreStopped, CoreStarted, Free, IInv,
            StartsFromRest, core_vars, status_vars
<1>1. CASE BeginStart
  BY <1>1 DEF BeginStart, WaitForService, lock_vars, StartupDecision, PreparedStatus, InstallAsked,
     Status, NoVerdict
<1>2. CASE Spawn
  BY <1>2 DEF Spawn
<1>3. CASE Poll
  BY <1>3 DEF Poll
<1>4. CASE ServiceStart
  BY <1>4 DEF ServiceStart
<1>5. CASE StartAccepted
  BY <1>5 DEF StartAccepted
<1>6. CASE StartReplyLost
  BY <1>6 DEF StartReplyLost
<1>7. CASE StartRefused
  BY <1>7 DEF StartRefused
<1>8. CASE StartFailed
  BY <1>8 DEF StartFailed
<1> QED BY <1>1, <1>2, <1>3, <1>4, <1>5, <1>6, <1>7, <1>8

\* the steps that apply the proxy or undo a Sidecar flow,
LEMMA FallbacksApply ==
  IInv /\ Fallbacks /\ (Ready \/ Apply \/ Verify \/ RefreshGuard \/ Undo) => Fallbacks'
<1> SUFFICES ASSUME IInv, Fallbacks, Ready \/ Apply \/ Verify \/ RefreshGuard \/ Undo
             PROVE Fallbacks'
    OBVIOUS
<1> USE DEF Fallbacks, Goto, Release, GiveUp, CoreStopped, Free, core_vars, status_vars
<1>1. CASE Ready
  BY <1>1 DEF Ready
<1>2. CASE Apply
  BY <1>2 DEF Apply
<1>3. CASE Verify
  BY <1>3 DEF Verify, Validate
<1>4. CASE RefreshGuard
  BY <1>4 DEF RefreshGuard
<1>5. CASE Undo
  BY <1>5 DEF Undo
<1> QED BY <1>1, <1>2, <1>3, <1>4, <1>5

\* and what happens beside the holder of the lock.
LEMMA FallbacksTasks == IInv /\ Fallbacks /\ (Tasks \/ Faults) => Fallbacks'
<1> SUFFICES ASSUME IInv, Fallbacks, Tasks \/ Faults PROVE Fallbacks'
    OBVIOUS
<1> USE DEF Fallbacks, IInv, LockShape, CoreStopped, Free, core_vars, status_vars, lock_vars
<1>1. ASSUME NEW r \in readers, ReaderSeesEnd(r) PROVE Fallbacks'
  BY <1>1 DEF ReaderSeesEnd
<1>2. ASSUME NEW p \in reaping, ClearTerminatedSidecar(p) PROVE Fallbacks'
  BY <1>2 DEF ClearTerminatedSidecar
<1>3. ASSUME NEW g \in monitors, MonitorEnds(g) PROVE Fallbacks'
  BY <1>3 DEF MonitorEnds
<1>4. ASSUME NEW r \in reports, ClaimRecovery(r) PROVE Fallbacks'
  BY <1>4 DEF ClaimRecovery
<1>5. ASSUME NEW r \in recoveries, Recover(r) PROVE Fallbacks'
  BY <1>5 DEF Recover
<1>6. CASE MonitorSeesLoss \/ LogsRefused \/ TransportFails
  BY <1>6 DEF MonitorSeesLoss, LogsRefused, TransportFails
<1>7. CASE SaveReadsMode \/ SaveSettles
  BY <1>7 DEF SaveReadsMode, SaveSettles
<1>8. CASE SidecarDies \/ ServiceLosesCore
  BY <1>8 DEF SidecarDies, ServiceLosesCore
<1> QED
  BY <1>1, <1>2, <1>3, <1>4, <1>5, <1>6, <1>7, <1>8 DEF Tasks, Faults

-----------------------------------------------------------------------------
(* The Core of the Service.                                                *)

\* A Core the Service runs for us is the one we hold the proof of, in Service mode, unless
\* the Service was out of reach; a loss of the current generation is a loss, or an outage.
Sessions ==
  /\ issued \in Nat /\ ownerGen \in Nat
  /\ mode = "Service" => session # NoSession
  /\ core # NoSession /\ ~outage => mode = "Service" /\ core = session
  /\ \A r \in reports \cup recoveries :
       r.generation <= ownerGen /\ (r.generation = ownerGen => core = NoSession \/ outage)
  /\ \A r \in reports \cup recoveries : r.generation \in Nat

\* Taking the lock preserves the invariant of the sessions ...
LEMMA SessionsStarts == IInv /\ Sessions /\ Starts => Sessions'
<1> SUFFICES ASSUME IInv, Sessions, Starts PROVE Sessions'
    OBVIOUS
<1>1. UNCHANGED <<mode, service_vars, outage>>
  BY DEF Starts, Begin, ContinueWithSidecar, ContinuePreparationFails, TurnProxyOn, TurnProxyOff,
         SaveStarts, core_vars, history_vars
<1> QED BY <1>1 DEF Sessions, service_vars

\* ... and so do the steps of a stop and of a privileged operation,
LEMMA SessionsStops ==
  IInv /\ Processes /\ Sessions /\ (Stopping \/ StopCore \/ StopAccepted \/ StopFails \/ StopDisplaced
           \/ OperateSucceeds \/ OperateFails) => Sessions'
<1> SUFFICES ASSUME IInv, Processes, Sessions,
                    Stopping \/ StopCore \/ StopAccepted \/ StopFails \/ StopDisplaced
                    \/ OperateSucceeds \/ OperateFails
             PROVE Sessions'
    OBVIOUS
<1> USE DEF Sessions, CoreStopped, core_vars, service_vars, history_vars
<1>1. CASE Stopping
  BY <1>1 DEF Stopping
<1>2. CASE StopCore
  BY <1>2 DEF StopCore, KillChild, CancelMonitors
<1>3. CASE StopAccepted
  BY <1>3 DEF StopAccepted
<1>4. CASE StopFails
  BY <1>4 DEF StopFails, StartMonitor
<1>5. CASE StopDisplaced
  BY <1>5 DEF StopDisplaced, GiveUpService
<1>6. CASE OperateSucceeds
  BY <1>6 DEF OperateSucceeds
<1>7. CASE OperateFails
  BY <1>7 DEF OperateFails
<1> QED BY <1>1, <1>2, <1>3, <1>4, <1>5, <1>6, <1>7

\* the steps that start a Core,
LEMMA SessionsStartCore ==
  IInv /\ Processes /\ Sessions /\ (BeginStart \/ Spawn \/ Poll \/ ServiceStart \/ StartAccepted
           \/ StartReplyLost \/ StartRefused \/ StartFailed) => Sessions'
<1> SUFFICES ASSUME IInv, Processes, Sessions,
                    BeginStart \/ Spawn \/ Poll \/ ServiceStart \/ StartAccepted
                    \/ StartReplyLost \/ StartRefused \/ StartFailed
             PROVE Sessions'
    OBVIOUS
<1> USE DEF Sessions, CoreStopped, CoreStarted, IInv, StartsFromRest, core_vars, service_vars, history_vars
<1>1. CASE BeginStart
  BY <1>1 DEF BeginStart, lock_vars
<1>2. CASE Spawn
  BY <1>2 DEF Spawn
<1>3. CASE Poll
  BY <1>3 DEF Poll
<1>4. CASE ServiceStart
  BY <1>4 DEF ServiceStart
<1>5. CASE StartAccepted
  BY <1>5 DEF StartAccepted, StartMonitor, NoSession
<1>6. CASE StartReplyLost
  BY <1>6 DEF StartReplyLost, StartMonitor
<1>7. CASE StartRefused
  BY <1>7 DEF StartRefused, StartMonitor
<1>8. CASE StartFailed
  BY <1>8 DEF StartFailed, Processes
<1> QED BY <1>1, <1>2, <1>3, <1>4, <1>5, <1>6, <1>7, <1>8

\* the steps that apply the proxy or undo a Sidecar flow,
LEMMA SessionsApply ==
  IInv /\ Fallbacks /\ Sessions /\ (Ready \/ Apply \/ Verify \/ RefreshGuard \/ Undo) => Sessions'
<1> SUFFICES ASSUME IInv, Fallbacks, Sessions, Ready \/ Apply \/ Verify \/ RefreshGuard \/ Undo
             PROVE Sessions'
    OBVIOUS
<1> USE DEF Sessions, CoreStopped, core_vars, service_vars, history_vars
<1>1. CASE Ready
  BY <1>1 DEF Ready
<1>2. CASE Apply
  BY <1>2 DEF Apply
<1>3. CASE Verify
  BY <1>3 DEF Verify
<1>4. CASE RefreshGuard
  BY <1>4 DEF RefreshGuard
<1>5. CASE Undo
  BY <1>5 DEF Undo, Fallbacks
<1> QED BY <1>1, <1>2, <1>3, <1>4, <1>5

\* and what happens beside the holder of the lock.
LEMMA SessionsTasks == IInv /\ Sessions /\ (Tasks \/ Faults) => Sessions'
<1> SUFFICES ASSUME IInv, Sessions, Tasks \/ Faults PROVE Sessions'
    OBVIOUS
<1> USE DEF Sessions, CoreStopped, core_vars, service_vars, history_vars
<1>1. ASSUME NEW r \in readers, ReaderSeesEnd(r) PROVE Sessions'
  BY <1>1 DEF ReaderSeesEnd
<1>2. ASSUME NEW p \in reaping, ClearTerminatedSidecar(p) PROVE Sessions'
  BY <1>2 DEF ClearTerminatedSidecar
<1>3. ASSUME NEW g \in monitors, MonitorEnds(g) PROVE Sessions'
  BY <1>3 DEF MonitorEnds
<1>4. ASSUME NEW r \in reports, ClaimRecovery(r) PROVE Sessions'
  BY <1>4 DEF ClaimRecovery
<1>5. ASSUME NEW r \in recoveries, Recover(r) PROVE Sessions'
  BY <1>5 DEF Recover, GiveUpService
<1>6. ASSUME NEW reason \in Reasons, Reported(reason), core = NoSession \/ outage',
             UNCHANGED <<mode, issued, session, core, ownerGen, recoveries>>,
             outage' = outage \/ outage' = TRUE
      PROVE  Sessions'
  BY <1>6 DEF Reported
<1>7. CASE MonitorSeesLoss
  BY <1>6, <1>7 DEF MonitorSeesLoss, Reasons
<1>8. CASE LogsRefused
  BY <1>6, <1>8 DEF LogsRefused, Reasons
<1>9. CASE TransportFails
  BY <1>6, <1>9 DEF TransportFails, Reasons
<1>10. CASE SaveReadsMode \/ SaveSettles
  BY <1>10 DEF SaveReadsMode, SaveSettles
<1>11. CASE SidecarDies
  BY <1>11 DEF SidecarDies
<1>12. CASE ServiceLosesCore
  BY <1>12 DEF ServiceLosesCore
<1> QED
  BY <1>1, <1>2, <1>3, <1>4, <1>5, <1>7, <1>8, <1>9, <1>10, <1>11, <1>12 DEF Tasks, Faults

-----------------------------------------------------------------------------
(* Theorems.                                                               *)

\* What is known of the Cores in every state, on every platform.
Custody == IInv /\ Processes /\ Fallbacks /\ Sessions

\* The initial states satisfy it.
LEMMA CustodyInit == Init => Custody
BY InitIInv DEF Init, Custody, Processes, Fallbacks, Sessions, Free

\* Every step preserves it.
LEMMA CustodyStep == Custody /\ [Next]_vars => Custody'
<1> SUFFICES ASSUME Custody, [Next]_vars PROVE Custody'
    OBVIOUS
<1>1. IInv'
  BY StepIInv DEF Custody
<1>2. Processes'
  <2>1. CASE UNCHANGED vars
    BY <2>1 DEF Custody, Processes, vars, core_vars, sidecar_vars, lock_vars
  <2>2. CASE Next
    BY <2>2, ProcessesStarts, ProcessesStops, ProcessesStartCore, ProcessesApply, ProcessesTasks
    DEF Custody, Next, Holder
  <2> QED BY <2>1, <2>2
<1>3. Fallbacks'
  <2>1. CASE UNCHANGED vars
    BY <2>1 DEF Custody, Fallbacks, vars, core_vars, status_vars, lock_vars
  <2>2. CASE Next
    BY <2>2, FallbacksStarts, FallbacksStops, FallbacksStartCore, FallbacksApply, FallbacksTasks
    DEF Custody, Next, Holder
  <2> QED BY <2>1, <2>2
<1>4. Sessions'
  <2>1. CASE UNCHANGED vars
    BY <2>1 DEF Custody, Sessions, vars, core_vars, service_vars, history_vars
  <2>2. CASE Next
    BY <2>2, SessionsStarts, SessionsStops, SessionsStartCore, SessionsApply, SessionsTasks
    DEF Custody, Next, Holder
  <2> QED BY <2>1, <2>2
<1> QED BY <1>1, <1>2, <1>3, <1>4 DEF Custody

\* Custody holds in every reachable state.
THEOREM CustodyHolds == Spec => []Custody
BY CustodyInit, CustodyStep, PTL DEF Spec

\* Between operations the only Sidecar is the supervised one, and a Core of the Service is
\* known and in Service mode, unless the Service was out of reach: whatever start, stop,
\* restart, fallback or rollback of core::manager failed where.
THEOREM CoresAreSupervised == Spec => []NoUnsupervisedCore
<1>1. Custody => NoUnsupervisedCore
  BY DEF Custody, IInv, LockShape, Processes, Sessions, NoUnsupervisedCore, Free
<1> QED BY <1>1, CustodyHolds, PTL

\* Only a reader's clearing and a recovery end a mode while the lock is free, and each
\* finds the Core gone or out of reach.
LEMMA LateNews ==
  ASSUME Custody, Next, op = Free, mode # "NotRunning", mode' = "NotRunning"
  PROVE  \/ mode = "Sidecar" /\ child \notin alive
         \/ mode = "Service" /\ (core # session \/ outage)
<1>1. step = Free
  BY DEF Custody, IInv, LockShape
<1>2. ~Holder
  BY <1>1 DEF Holder, Stopping, StopCore, StopAccepted, StopFails, StopDisplaced, OperateSucceeds,
     OperateFails, BeginStart, Spawn, Poll, ServiceStart, StartAccepted, StartReplyLost,
     StartRefused, StartFailed, Ready, Apply, Verify, RefreshGuard, Undo, Free
<1>3. ~Starts
  BY DEF Starts, Begin, ContinueWithSidecar, ContinuePreparationFails, TurnProxyOn,
     TurnProxyOff, SaveStarts, core_vars
<1>4. ~Faults
  BY DEF Faults, SidecarDies, ServiceLosesCore, LogsRefused, TransportFails, core_vars
<1>5. \/ \E p \in reaping : ClearTerminatedSidecar(p)
      \/ \E r \in recoveries : Recover(r)
  BY <1>2, <1>3, <1>4 DEF Next, Tasks, ReaderSeesEnd, MonitorEnds, ClaimRecovery, MonitorSeesLoss,
     SaveReadsMode, SaveSettles, core_vars
<1>6. ASSUME NEW p \in reaping, ClearTerminatedSidecar(p)
      PROVE  mode = "Sidecar" /\ child \notin alive
  BY <1>6 DEF ClearTerminatedSidecar, Custody, Processes, core_vars
<1>7. ASSUME NEW r \in recoveries, Recover(r)
      PROVE  mode = "Service" /\ (core # session \/ outage)
  <2>1. mode = "Service" /\ ownerGen = r.generation
    BY <1>7 DEF Recover, core_vars
  <2> QED BY <2>1 DEF Custody, Sessions
<1> QED BY <1>5, <1>6, <1>7

\* News of an earlier Core (clear_terminated_sidecar, recover_after_owner_loss) never ends
\* the mode of a newer one, however late it comes.
THEOREM LateNewsIsHarmless == Spec => OnlyLostCoresAreGivenUp
<1>1. Custody /\ [Next]_vars =>
        [op = Free /\ mode # "NotRunning" /\ mode' = "NotRunning" =>
           \/ mode = "Sidecar" /\ child \notin alive
           \/ mode = "Service" /\ (core # session \/ outage)]_vars
  BY LateNews
<1> QED BY <1>1, CustodyHolds, PTL DEF Spec, OnlyLostCoresAreGivenUp

-----------------------------------------------------------------------------
(* The system proxy.                                                       *)

\* From the stop on, a proxy that is still set was exposed by a failure; so was the proxy
\* of a Sidecar that died under supervision or while it started.
Exposure ==
  /\ mode = "NotRunning" \/ step \in {"stopCore", "stopReply"} => (osProxy => exposed)
  /\ mode = "Sidecar" => child \in alive \/ exposed
  /\ step = "poll" => spawned \in alive \/ exposed

\* Taking the lock preserves the invariant of the exposure ...
LEMMA ExposureStarts == Custody /\ Exposure /\ Starts => Exposure'
<1> SUFFICES ASSUME Custody, Exposure, Starts PROVE Exposure'
    OBVIOUS
<1> USE DEF Exposure, Custody, IInv, LockShape, Free, Take, MayBegin, core_vars, sidecar_vars, lock_vars,
            proxy_vars, history_vars
<1>1. CASE Begin
  BY <1>1 DEF Begin
<1>2. CASE ContinueWithSidecar
  BY <1>2 DEF ContinueWithSidecar, StopGuard
<1>3. CASE ContinuePreparationFails
  BY <1>3 DEF ContinuePreparationFails
<1>4. CASE TurnProxyOn
  BY <1>4 DEF TurnProxyOn
<1>5. CASE TurnProxyOff
  BY <1>5 DEF TurnProxyOff, ClearProxy
<1>6. CASE SaveStarts
  BY <1>6 DEF SaveStarts
<1> QED BY <1>1, <1>2, <1>3, <1>4, <1>5, <1>6 DEF Starts

\* ... and so do the steps of a stop and of a privileged operation,
LEMMA ExposureStops ==
  ASSUME ~IsMacOS, Custody, Exposure,
         Stopping \/ StopCore \/ StopAccepted \/ StopFails \/ StopDisplaced
         \/ OperateSucceeds \/ OperateFails
  PROVE  Exposure'
<1> USE DEF Exposure, Custody, Processes, Goto, Release, GiveUp, AfterStop, CoreStopped, Free,
            core_vars, sidecar_vars, proxy_vars, history_vars
<1>1. CASE Stopping
  <2>1. CASE mode = "NotRunning"
    <3>1. step' = "stopCore" /\ UNCHANGED <<mode, child, alive, spawned, osProxy, exposed>>
      BY <1>1, <2>1 DEF Stopping, HandOverToService, Decides
    <3> QED BY <2>1, <3>1
  <2>2. CASE mode # "NotRunning"
    <3>1. PICK ok \in BOOLEAN : ClearProxy(ok) /\ IF ok THEN Goto("stopCore") ELSE Release
      BY <1>1, <2>2 DEF Stopping, HandOverToService, Decides
    <3>2. UNCHANGED <<core_vars, sidecar_vars>>
      BY <1>1 DEF Stopping
    <3>3. CASE ok
      BY <2>2, <3>1, <3>2, <3>3 DEF ClearProxy
    <3>4. CASE ~ok
      BY <2>2, <3>1, <3>2, <3>4 DEF ClearProxy
    <3> QED BY <3>3, <3>4
  <2> QED BY <2>1, <2>2
<1>2. CASE StopCore
  BY <1>2 DEF StopCore, KillChild
<1>3. CASE StopAccepted
  BY <1>3 DEF StopAccepted
<1>4. CASE StopFails
  BY <1>4 DEF StopFails
<1>5. CASE StopDisplaced
  BY <1>5 DEF StopDisplaced, GiveUpService
<1>6. CASE OperateSucceeds
  BY <1>6 DEF OperateSucceeds
<1>7. CASE OperateFails
  BY <1>7 DEF OperateFails
<1> QED BY <1>1, <1>2, <1>3, <1>4, <1>5, <1>6, <1>7

\* the steps that start a Core,
LEMMA ExposureStartCore ==
  Custody /\ Exposure /\ (BeginStart \/ Spawn \/ Poll \/ ServiceStart \/ StartAccepted
           \/ StartReplyLost \/ StartRefused \/ StartFailed) => Exposure'
<1> SUFFICES ASSUME Custody, Exposure,
                    BeginStart \/ Spawn \/ Poll \/ ServiceStart \/ StartAccepted
                    \/ StartReplyLost \/ StartRefused \/ StartFailed
             PROVE Exposure'
    OBVIOUS
<1> USE DEF Exposure, Custody, Processes, IInv, StartsFromRest, Goto, Release, FailAttempt,
            CoreStopped, CoreStarted, Free, core_vars, sidecar_vars, proxy_vars, history_vars
<1>1. CASE BeginStart
  BY <1>1 DEF BeginStart, lock_vars
<1>2. CASE Spawn
  BY <1>2 DEF Spawn
<1>3. CASE Poll
  BY <1>3 DEF Poll
<1>4. CASE ServiceStart
  BY <1>4 DEF ServiceStart
<1>5. CASE StartAccepted
  BY <1>5 DEF StartAccepted
<1>6. CASE StartReplyLost
  BY <1>6 DEF StartReplyLost
<1>7. CASE StartRefused
  BY <1>7 DEF StartRefused
<1>8. CASE StartFailed
  BY <1>8 DEF StartFailed
<1> QED BY <1>1, <1>2, <1>3, <1>4, <1>5, <1>6, <1>7, <1>8

\* the steps that apply the proxy or undo a Sidecar flow,
LEMMA ExposureApply ==
  Custody /\ Exposure /\ (Ready \/ Apply \/ Verify \/ RefreshGuard \/ Undo) => Exposure'
<1> SUFFICES ASSUME Custody, Exposure, Ready \/ Apply \/ Verify \/ RefreshGuard \/ Undo
             PROVE Exposure'
    OBVIOUS
<1> USE DEF Exposure, Custody, Fallbacks, IInv, AppliesToACore, Goto, Release, GiveUp, CoreStopped, Free,
            core_vars, sidecar_vars, proxy_vars, history_vars
<1>1. CASE Ready
  BY <1>1 DEF Ready
<1>2. CASE Apply
  BY <1>2 DEF Apply
<1>3. CASE Verify
  BY <1>3 DEF Verify, Validate, ClearProxy
<1>4. CASE RefreshGuard
  BY <1>4 DEF RefreshGuard
<1>5. CASE Undo
  <2>1. step' = Free
    BY <1>5 DEF Undo
  <2>2. CASE mode # "Sidecar"
    <3>1. mode = "NotRunning"
      BY <1>5, <2>2 DEF Undo, Processes
    <3>2. mode' = "NotRunning" /\ UNCHANGED <<osProxy, exposed>>
      BY <1>5, <2>2 DEF Undo, StopGuard
    <3> QED BY <2>1, <3>1, <3>2
  <2>3. CASE mode = "Sidecar" /\ ClearProxy(TRUE) /\ CoreStopped
    BY <2>1, <2>3 DEF ClearProxy
  <2>4. CASE mode = "Sidecar" /\ ClearProxy(FALSE) /\ UNCHANGED <<core_vars, sidecar_vars>>
    BY <2>1, <2>4 DEF ClearProxy
  <2> QED BY <1>5, <2>2, <2>3, <2>4 DEF Undo
<1> QED BY <1>1, <1>2, <1>3, <1>4, <1>5

\* and what happens beside the holder of the lock.
LEMMA ExposureTasks == Custody /\ Exposure /\ (Tasks \/ Faults) => Exposure'
<1> SUFFICES ASSUME Custody, Exposure, Tasks \/ Faults PROVE Exposure'
    OBVIOUS
<1> USE DEF Exposure, Custody, Processes, IInv, LockShape, CoreStopped, Free, core_vars, sidecar_vars,
            lock_vars, proxy_vars, history_vars
<1>1. ASSUME NEW r \in readers, ReaderSeesEnd(r) PROVE Exposure'
  BY <1>1 DEF ReaderSeesEnd
<1>2. ASSUME NEW p \in reaping, ClearTerminatedSidecar(p) PROVE Exposure'
  BY <1>2 DEF ClearTerminatedSidecar
<1>3. ASSUME NEW g \in monitors, MonitorEnds(g) PROVE Exposure'
  BY <1>3 DEF MonitorEnds
<1>4. ASSUME NEW r \in reports, ClaimRecovery(r) PROVE Exposure'
  BY <1>4 DEF ClaimRecovery
<1>5. ASSUME NEW r \in recoveries, Recover(r) PROVE Exposure'
  BY <1>5 DEF Recover, GiveUpService
<1>6. CASE MonitorSeesLoss \/ LogsRefused \/ TransportFails
  BY <1>6 DEF MonitorSeesLoss, LogsRefused, TransportFails
<1>7. CASE SaveReadsMode \/ SaveSettles
  BY <1>7 DEF SaveReadsMode, SaveSettles
<1>8. CASE SidecarDies \/ ServiceLosesCore
  BY <1>8 DEF SidecarDies, ServiceLosesCore
<1> QED
  BY <1>1, <1>2, <1>3, <1>4, <1>5, <1>6, <1>7, <1>8 DEF Tasks, Faults

\* Where the application clears the proxy of its own Core, the proxy outlives the Core only
\* after a loss or a refused write.  On macOS a hand-over to the Service leaves it standing.
THEOREM ProxyGoesWithCore == ASSUME ~IsMacOS PROVE Spec => []ProxyClearedWithCore
<1>1. Init => Exposure
  BY DEF Init, Exposure, Free
<1>2. Custody /\ Exposure /\ [Next]_vars => Exposure'
  <2>1. CASE UNCHANGED vars
    BY <2>1 DEF Exposure, vars, core_vars, sidecar_vars, lock_vars, proxy_vars, history_vars
  <2>2. CASE Next
    BY <2>2, ExposureStarts, ExposureStops, ExposureStartCore, ExposureApply, ExposureTasks
    DEF Next, Holder
  <2> QED BY <2>1, <2>2
<1>3. Exposure => ProxyClearedWithCore
  BY DEF Exposure, ProxyClearedWithCore
<1> QED BY <1>1, <1>2, <1>3, CustodyHolds, PTL DEF Spec

-----------------------------------------------------------------------------
(* PAC.                                                                    *)

\* Without a port save PAC is written with the mode, or closed.
PacDerived == saver = "idle" /\ saves = 0 /\ (pac => mode # "NotRunning")

\* Every step but those of a port save keeps PAC with the mode.
LEMMA PacStep ==
  ASSUME MaxSaves = 0, Custody, PacDerived, Next
  PROVE  PacDerived'
<1> USE DEF PacDerived, Custody, IInv, StartsFromRest, CoreStopped, CoreStarted, core_vars, env_vars
<1>1. CASE Starts
  BY <1>1 DEF Starts, Begin, ContinueWithSidecar, ContinuePreparationFails, TurnProxyOn,
     TurnProxyOff, SaveStarts, Take
<1>2. CASE Stopping \/ StopCore \/ StopAccepted \/ StopFails \/ StopDisplaced
  <2>1. CASE Stopping \/ StopFails
    BY <2>1 DEF Stopping, StopFails
  <2>2. CASE StopCore
    BY <2>2 DEF StopCore
  <2>3. CASE StopAccepted \/ StopDisplaced
    BY <2>3 DEF StopAccepted, StopDisplaced, GiveUpService
  <2> QED BY <1>2, <2>1, <2>2, <2>3
<1>3. CASE OperateSucceeds \/ OperateFails
  BY <1>3 DEF OperateSucceeds, OperateFails
<1>4. CASE BeginStart \/ Spawn \/ Poll
  BY <1>4 DEF BeginStart, Spawn, Poll
<1>5. CASE ServiceStart \/ StartAccepted \/ StartReplyLost \/ StartRefused \/ StartFailed
  BY <1>5 DEF ServiceStart, StartAccepted, StartReplyLost, StartRefused, StartFailed
<1>6. CASE Ready \/ Apply \/ Verify \/ RefreshGuard \/ Undo
  <2>1. CASE Ready \/ Apply
    <3>1. UNCHANGED <<core_vars, saver, saves>>
      BY <2>1 DEF Ready, Apply
    <3> QED BY <3>1
  <2>2. CASE Verify \/ RefreshGuard
    BY <2>2 DEF Verify, RefreshGuard
  <2>3. CASE Undo
    BY <2>3 DEF Undo
  <2> QED BY <1>6, <2>1, <2>2, <2>3
<1>7. CASE Tasks
  BY <1>7 DEF Tasks, ReaderSeesEnd, ClearTerminatedSidecar, MonitorEnds, ClaimRecovery, Recover,
     GiveUpService, MonitorSeesLoss, SaveReadsMode, SaveSettles
<1>8. CASE Faults
  BY <1>8 DEF Faults, SidecarDies, ServiceLosesCore, LogsRefused, TransportFails
<1> QED BY <1>1, <1>2, <1>3, <1>4, <1>5, <1>6, <1>7, <1>8 DEF Next, Holder

\* PAC is served only while a Core runs (runstate's core_started and core_stopped), as long
\* as no port save closes and opens it without the lock.
THEOREM PacIsDerived == ASSUME MaxSaves = 0 PROVE Spec => []PacFollowsMode
<1>1. Init => PacDerived
  BY DEF Init, PacDerived
<1>2. Custody /\ PacDerived /\ [Next]_vars => PacDerived'
  <2>1. CASE UNCHANGED vars
    BY <2>1 DEF PacDerived, vars, core_vars, env_vars
  <2> QED BY <2>1, PacStep
<1>3. PacDerived => PacFollowsMode
  BY DEF PacDerived, PacFollowsMode
<1> QED BY <1>1, <1>2, <1>3, CustodyHolds, PTL DEF Spec
=============================================================================
