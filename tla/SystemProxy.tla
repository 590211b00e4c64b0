---------------------------- MODULE SystemProxy ----------------------------
(***************************************************************************)
(* The system proxy: core/proxy_control.rs over core/sysopt.rs.            *)
(*                                                                         *)
(* One task at a time, the holder of lifecycle_lock, applies and clears    *)
(* the proxy and replaces its guard.  Beside it the reader of a Sidecar    *)
(* that ended stops the guard, a local guard thread (the GuardMonitor of   *)
(* the sysproxy crate) and the guard loops of the Service route write the  *)
(* proxy again at intervals.  The proxy goes to the OS directly, on the    *)
(* local route, or through the Service when that runs the Core on macOS.   *)
(*                                                                         *)
(* The OS keeps two settings, the global proxy and PAC.  Ports, hosts and  *)
(* bypass lists are left out, and so is update_lock: only the holder of    *)
(* lifecycle_lock takes it for longer than a read.  A macOS network        *)
(* service is always there, and a Service session, once lost, is a route   *)
(* that changed.                                                           *)
(***************************************************************************)
EXTENDS Naturals, Sequences

CONSTANTS
  Platforms,     \* some of "windows", "macos" and "linux"
  MaxPlans,      \* bound on what the holder is asked to do
  MaxFaults,     \* bound on the failed writes of the holder
  MaxHangs       \* bound on the drains of the guard that time out

VARIABLES
  platform,      \* one of Platforms, for good
  verge,         \* what the settings ask for: a target and whether to guard it
  saved,         \* the settings as committed
  patch,         \* a patch of the settings is "idle" or "staged"
  os,            \* the two proxy settings of the OS
  route,         \* who writes the proxy: "local" or "service"
  guardType,     \* what the local guard enforces
  guardState,    \* "stopped", "running" or "stopping"
  guardWrite,    \* the write of the local guard in flight
  generation,    \* guard_generation: the Service guard loop that may write
  loops,         \* the Service guard loops, by generation
  filed,         \* a GuardStopped failure is on the table
  guardLock,     \* guard_operation_lock of Sysopt
  opLock,        \* operation_lock of SERVICE_PROXY_OPERATIONS
  pc,            \* where holder and reader are
  plan,          \* the calls the holder still has to make
  call,          \* the locals of its current call
  lastCall,      \* the last call it finished, and the answer
  plans, faults, hangs,   \* what the bounds count
  word           \* history: the target the holder last wrote for sure

settings_vars == <<platform, verge, saved, patch>>
guard_vars == <<guardType, guardState, guardWrite>>
loop_vars == <<generation, loops, filed>>
lock_vars == <<guardLock, opLock>>
task_vars == <<pc, plan, call, lastCall>>
bound_vars == <<plans, faults, hangs>>
proxy_vars == <<settings_vars, os, route, guard_vars, loop_vars, lock_vars, task_vars,
                bound_vars, word>>

Targets == {"off", "global", "pac"}
Settings(target) == [global |-> target = "global", pac |-> target = "pac"]
Enforced(v) == IF v.guard /\ v.target # "off" THEN v.target ELSE "none"
Free == "free"
NoLoop == [state |-> "none", target |-> "off", failures |-> 0]
NoCall == [want |-> [target |-> "off", guard |-> FALSE], wasRunning |-> FALSE,
           drained |-> TRUE, reached |-> FALSE, attempt |-> 1, before |-> Settings("off")]
GuardFailuresBeforeStopping == 3
ClearAttempts == 3
MaxGeneration == 4 * MaxPlans + 1

\* What a patch may ask for: every target guarded, one without its guard.
Choices == [target : Targets, guard : {TRUE}] \cup [target : {"global"}, guard : {FALSE}]

\* Linux setters report success they do not know of.
WritesAreEvidence == platform # "linux"

SystemProxyTypeOK ==
  /\ platform \in Platforms
  /\ verge \in Choices /\ saved \in Choices /\ patch \in {"idle", "staged"}
  /\ os \in [global : BOOLEAN, pac : BOOLEAN] /\ route \in {"local", "service"}
  /\ guardType \in {"none", "global", "pac"}
  /\ guardState \in {"stopped", "running", "stopping"}
  /\ guardWrite \in {"none", "global", "pac"}
  /\ generation \in 0..MaxGeneration /\ filed \in BOOLEAN
  /\ guardLock \in {Free, "holder", "reader"}
  /\ opLock \in {Free, "holder", "reader", "loop"}
  /\ word \in Targets \cup {"none"}

Init ==
  /\ platform \in Platforms
  /\ verge \in [target : {"off", "global"}, guard : {TRUE}]
  /\ saved = verge /\ patch = "idle"
  /\ os = Settings("off")
  /\ route \in IF platform = "macos" THEN {"local", "service"} ELSE {"local"}
  /\ guardType = "none" /\ guardState = "stopped" /\ guardWrite = "none"
  /\ generation = 0 /\ loops = [g \in 1..MaxGeneration |-> NoLoop] /\ filed = FALSE
  /\ guardLock = Free /\ opLock = Free
  /\ pc = [holder |-> "idle", reader |-> "idle"]
  /\ plan = <<>> /\ call = NoCall /\ lastCall = [name |-> "none", answer |-> "ok"]
  /\ plans = 0 /\ faults = 0 /\ hangs = 0
  /\ word = "off"

(***************************************************************************)
(* The local guard, a thread of the sysproxy crate.                        *)
(***************************************************************************)

GuardFires ==
  /\ guardState = "running" /\ guardWrite = "none" /\ guardType # "none"
  /\ guardWrite' = guardType
  /\ UNCHANGED <<settings_vars, os, route, guardType, guardState, loop_vars, lock_vars,
                 task_vars, bound_vars, word>>

GuardWriteLands ==
  /\ guardWrite # "none"
  /\ os' = [os EXCEPT ![guardWrite] = TRUE]
  /\ guardWrite' = "none"
  /\ guardState' = IF guardState = "stopping" THEN "stopped" ELSE guardState
  /\ UNCHANGED <<settings_vars, route, guardType, loop_vars, lock_vars, task_vars, bound_vars,
                 word>>

\* shutdown() asks the thread to end; a write in flight ends first.
ShutdownGuard ==
  guardState' = IF guardState = "stopped" \/ guardWrite = "none" THEN "stopped" ELSE "stopping"

\* wait_timeout: the guard has finished, or its write takes too long.
WaitIdle ==
  \/ guardState = "stopped" /\ UNCHANGED hangs
  \/ guardState # "stopped" /\ hangs < MaxHangs /\ hangs' = hangs + 1

\* start() refuses while an earlier run has not finished.
StartGuard == guardState' = IF guardState = "stopped" THEN "running" ELSE guardState

(***************************************************************************)
(* What the holder goes through.                                           *)
(***************************************************************************)

Goto(t, label) == pc' = [pc EXCEPT ![t] = label]
AtCall(name) == pc.holder = "next" /\ Head(plan) = name

\* A call answers, and ends the plan if it failed.  A clear that failed is
\* still followed by the stop of the guard, and only then reported.
Answer(name, answer) ==
  /\ lastCall' = [name |-> name, answer |-> answer]
  /\ plan' = IF answer = "ok" \/ name = "clear" THEN Tail(plan) ELSE <<>>
  /\ Goto("holder", IF plan' = <<>> THEN "idle" ELSE "next")
  /\ call' = NoCall

\* A write is the last one if the guard had drained before it.
Word(target, lastWrite) == word' = IF lastWrite THEN target ELSE "none"

\* apply_proxy_after_start, whose expectation may turn out stale after either
\* call; a transition that clears; a stop that leaves the OS settings to the
\* Service; a recovery.
Plans ==
  {<<"apply", "refresh">>, <<"apply", "clear", "stop">>,
   <<"apply", "refresh", "clear", "stop">>, <<"clear">>, <<"stop">>, <<"stop", "clear">>}

\* Starts, stops and recoveries of the Core take no configuration lock, so a
\* patch may be staged meanwhile.
BeginPlan ==
  /\ pc.holder = "idle" /\ plans < MaxPlans
  /\ plan' \in Plans
  /\ Goto("holder", "next")
  /\ plans' = plans + 1
  /\ UNCHANGED <<settings_vars, os, route, guard_vars, loop_vars, lock_vars, call, lastCall,
                 faults, hangs, word>>

\* A patch of the settings is staged, and applied by a plan of its own: to
\* turn the proxy on as after a start, or to turn it off.
StagePatch ==
  /\ patch = "idle" /\ plans < MaxPlans
  /\ verge' \in Choices \ {verge}
  /\ patch' = "staged"
  /\ UNCHANGED <<platform, saved, os, route, guard_vars, loop_vars, lock_vars, task_vars,
                 bound_vars, word>>

ApplyPatch ==
  /\ patch = "staged" /\ pc.holder = "idle" /\ plans < MaxPlans
  /\ plan' = <<"apply", "refresh">>
  /\ Goto("holder", "next")
  /\ plans' = plans + 1
  /\ UNCHANGED <<settings_vars, os, route, guard_vars, loop_vars, lock_vars, call, lastCall,
                 faults, hangs, word>>

\* The patch commits or, if any of its effects failed, rolls back.
EndPatch ==
  /\ patch = "staged" /\ pc.holder = "idle"
  /\ patch' = "idle"
  /\ \/ saved' = verge /\ UNCHANGED verge
     \/ verge' = saved /\ UNCHANGED saved
  /\ UNCHANGED <<platform, os, route, guard_vars, loop_vars, lock_vars, task_vars, bound_vars,
                 word>>

\* The Core changes hands, with the guard stopped; the Service turns the
\* proxy of its own Core off when that Core stops.
SwitchRoute ==
  /\ platform = "macos"
  /\ pc.holder = "idle" /\ lastCall.name \in {"stop", "clear"}
  /\ IF route = "local"
     THEN route' = "service" /\ UNCHANGED <<os, word>>
     ELSE route' = "local" /\ os' = Settings("off") /\ Word("off", guardState = "stopped")
  /\ UNCHANGED <<settings_vars, guard_vars, loop_vars, lock_vars, task_vars, bound_vars>>

(***************************************************************************)
(* Sysopt::update_sysproxy: apply on the local route.                      *)
(***************************************************************************)

ApplyLocal ==
  /\ AtCall("apply") /\ route = "local"
  /\ call' = [NoCall EXCEPT !.want = verge]
  /\ word' = "none"
  /\ Goto("holder", "applyLock")
  /\ UNCHANGED <<settings_vars, os, route, guard_vars, loop_vars, lock_vars, plan, lastCall,
                 bound_vars>>

DrainForApply ==
  /\ pc.holder = "applyLock" /\ guardLock = Free
  /\ guardLock' = "holder"
  /\ call' = [call EXCEPT !.wasRunning = guardState # "stopped"]
  /\ ShutdownGuard
  /\ Goto("holder", "applyWait")
  /\ UNCHANGED <<settings_vars, os, route, guardType, guardWrite, loop_vars, opLock, plan,
                 lastCall, bound_vars, word>>

\* On macOS the OS is read to save the write; the read counts for something
\* only if the guard drained.
ApplyAfterDrain ==
  /\ pc.holder = "applyWait" /\ WaitIdle
  /\ IF platform = "macos" /\ guardState = "stopped" /\ os = Settings(call.want.target)
     THEN /\ guardType' = Enforced(call.want)
          /\ guardLock' = Free
          /\ word' = call.want.target
          /\ Answer("apply", "ok")
     ELSE /\ call' = [call EXCEPT !.drained = guardState = "stopped", !.before = os]
          /\ Goto("holder", "firstStep")
          /\ UNCHANGED <<guardType, guardLock, word, plan, lastCall>>
  /\ UNCHANGED <<settings_vars, os, route, guardState, guardWrite, loop_vars, opLock, plans,
                 faults>>

\* PAC goes first for a pure global proxy: turning PAC off clears the WinINET
\* flags of the global proxy too.
ProxyApplySteps(target) == IF target = "global" THEN <<"pac", "global">> ELSE <<"global", "pac">>

\* A setter of the OS.
Set(kind, on) ==
  IF platform = "windows" /\ kind = "pac" /\ ~on THEN Settings("off") ELSE [os EXCEPT ![kind] = on]

\* recover_guard_after_failure when nothing was written: the guard goes on.
RecoverUnchanged ==
  /\ IF call.wasRunning THEN StartGuard ELSE UNCHANGED guardState
  /\ guardLock' = Free
  /\ Answer("apply", "failed")
  /\ UNCHANGED guardType

RecoverUnknownGuarded ==                                    \* a mutation
  /\ StartGuard
  /\ Goto("holder", "compensate")
  /\ UNCHANGED <<guardType, guardLock, call, plan, lastCall>>

\* And when a write reached the OS: the guard has no target any more, and
\* both proxies go off.
RecoverUnknown ==
  /\ guardType' = "none"
  /\ Goto("holder", "compensate")
  /\ UNCHANGED <<guardState, guardLock, call, plan, lastCall>>

StepFailsForgetting(kind) ==                                \* a mutation
  /\ faults < MaxFaults /\ faults' = faults + 1
  /\ \E partly \in BOOLEAN :
       /\ os' = IF partly THEN Set(kind, Settings(call.want.target)[kind]) ELSE os
       /\ IF partly /\ WritesAreEvidence THEN RecoverUnknown ELSE RecoverUnchanged
  /\ UNCHANGED word

\* A step that fails wrote nothing, or wrote in part.  Only a write is
\* evidence that the OS changed.
StepFails(kind) ==
  /\ faults < MaxFaults /\ faults' = faults + 1
  /\ \E partly \in BOOLEAN :
       /\ os' = IF partly THEN Set(kind, Settings(call.want.target)[kind]) ELSE os
       /\ IF (partly \/ call.reached) /\ WritesAreEvidence
          THEN RecoverUnknown
          ELSE RecoverUnchanged
  /\ UNCHANGED word

WriteFirst ==
  /\ pc.holder = "firstStep"
  /\ LET kind == ProxyApplySteps(call.want.target)[1] IN
     \/ /\ os' = Set(kind, Settings(call.want.target)[kind])
        /\ call' = [call EXCEPT !.reached = TRUE]
        /\ Goto("holder", "secondStep")
        /\ UNCHANGED <<guardType, guardState, guardLock, plan, lastCall, faults, word>>
     \/ StepFails(kind)
  /\ UNCHANGED <<settings_vars, route, guardWrite, loop_vars, opLock, plans, hangs>>

\* Never point the guard at a target that failed to reach the OS.
WriteSecond ==
  /\ pc.holder = "secondStep"
  /\ LET kind == ProxyApplySteps(call.want.target)[2] IN
     \/ /\ os' = Set(kind, Settings(call.want.target)[kind])
        /\ guardType' = Enforced(call.want)
        /\ guardLock' = Free
        /\ Word(call.want.target, call.drained)
        /\ Answer("apply", "ok")
        /\ UNCHANGED <<guardState, faults>>
     \/ StepFails(kind)
  /\ UNCHANGED <<settings_vars, route, guardWrite, loop_vars, opLock, plans, hangs>>

\* disable_both tries both settings, whatever the first one did.
DisableAll ==
  \/ os' = Settings("off") /\ UNCHANGED faults
  \/ /\ faults < MaxFaults /\ faults' = faults + 1
     /\ os' \in {os, [os EXCEPT !.global = FALSE], [os EXCEPT !.pac = FALSE]}

\* A failure that left the state unknown says so, turned off or not.
Compensate ==
  /\ pc.holder = "compensate"
  /\ DisableAll
  /\ guardLock' = Free
  /\ Answer("apply", IF faults' = faults THEN "unknown" ELSE "abandoned")
  /\ UNCHANGED <<settings_vars, route, guard_vars, loop_vars, opLock, plans, hangs, word>>

(***************************************************************************)
(* Sysopt::reset_sysproxy: clear on the local route, and its retries.      *)
(***************************************************************************)

ClearLocal ==
  /\ \/ AtCall("clear") /\ route = "local" /\ call' = NoCall
     \/ pc.holder = "retryClear" /\ UNCHANGED call
  /\ guardLock = Free /\ guardLock' = "holder"
  /\ word' = "none"
  /\ ShutdownGuard
  /\ Goto("holder", "clearWait")
  /\ UNCHANGED <<settings_vars, os, route, guardType, guardWrite, loop_vars, opLock, plan,
                 lastCall, bound_vars>>

ClearAfterDrain ==
  /\ pc.holder = "clearWait" /\ WaitIdle
  /\ IF platform = "macos" /\ guardState = "stopped" /\ os = Settings("off")
     THEN /\ guardLock' = Free
          /\ word' = "off"
          /\ Answer("clear", "ok")
     ELSE /\ call' = [call EXCEPT !.drained = guardState = "stopped"]
          /\ Goto("holder", "disable")
          /\ UNCHANGED <<guardLock, word, plan, lastCall>>
  /\ UNCHANGED <<settings_vars, os, route, guard_vars, loop_vars, opLock, plans, faults>>

\* A failed system call of Windows is tried again, with the locks let go; other failures
\* are not.
ClearFails ==
  /\ guardLock' = Free
  /\ UNCHANGED word
  /\ \/ /\ platform = "windows" /\ call.attempt < ClearAttempts
        /\ call' = [call EXCEPT !.attempt = @ + 1]
        /\ Goto("holder", "retryClear")
        /\ UNCHANGED <<plan, lastCall>>
     \/ Answer("clear", "failed")

ClearSucceeds(lastWrite) ==
  /\ guardLock' = Free
  /\ Word("off", lastWrite)
  /\ Answer("clear", "ok")

DisableOnce ==                                              \* a mutation
  /\ pc.holder = "disable"
  /\ DisableAll
  /\ IF faults' # faults THEN ClearFails ELSE ClearSucceeds(TRUE)
  /\ UNCHANGED <<settings_vars, route, guard_vars, loop_vars, opLock, plans, hangs>>

\* disable_until_the_last_write_is_ours: a guard that had not drained is
\* drained again, and the proxies are disabled again after it.
Disable ==
  /\ pc.holder = "disable"
  /\ DisableAll
  /\ IF faults' # faults THEN ClearFails /\ UNCHANGED guardState
     ELSE IF call.drained THEN ClearSucceeds(TRUE) /\ UNCHANGED guardState
     ELSE /\ ShutdownGuard
          /\ Goto("holder", "disableAgain")
          /\ UNCHANGED <<guardLock, word, plan, call, lastCall>>
  /\ UNCHANGED <<settings_vars, route, guardType, guardWrite, loop_vars, opLock, plans, hangs>>

DisableAgain ==
  /\ pc.holder = "disableAgain" /\ WaitIdle
  /\ DisableAll
  /\ IF faults' # faults THEN ClearFails ELSE ClearSucceeds(guardState = "stopped")
  /\ UNCHANGED <<settings_vars, route, guard_vars, loop_vars, opLock, plans>>

(***************************************************************************)
(* proxy_control::stop_guard, by the holder or by the reader of a Sidecar  *)
(* that ended, and the drains that apply and refresh_guard start with.     *)
(* cancel_and_drain first supersedes the Service loops, then stops the     *)
(* local guard under operation_lock.                                       *)
(***************************************************************************)

Supersede == generation' = generation + 1

CancelAndDrain(t) ==
  /\ \/ t = "holder" /\ (AtCall("stop") \/ AtCall("refresh"))
     \/ t = "reader" /\ pc.reader = "idle"
  /\ Supersede
  /\ Goto(t, "cancel")
  /\ UNCHANGED <<settings_vars, os, route, guard_vars, loops, filed, lock_vars, plan, call,
                 lastCall, bound_vars, word>>

LockOperation(t) ==
  /\ pc[t] = "cancel" /\ opLock = Free
  /\ opLock' = t
  /\ Goto(t, "lockGuard")
  /\ UNCHANGED <<settings_vars, os, route, guard_vars, loop_vars, guardLock, plan, call,
                 lastCall, bound_vars, word>>

\* apply_through_service drains the local guard without operation_lock.
ApplyService ==
  /\ AtCall("apply") /\ route = "service"
  /\ call' = [NoCall EXCEPT !.want = verge]
  /\ word' = "none"
  /\ Goto("holder", "lockGuard")
  /\ UNCHANGED <<settings_vars, os, route, guard_vars, loop_vars, lock_vars, plan, lastCall,
                 bound_vars>>

StopLocalGuard(t) ==
  /\ pc[t] = "lockGuard" /\ guardLock = Free
  /\ guardLock' = t
  /\ ShutdownGuard
  /\ Goto(t, "drain")
  /\ UNCHANGED <<settings_vars, os, route, guardType, guardWrite, loop_vars, opLock, plan, call,
                 lastCall, bound_vars, word>>

\* The drain ends or times out; the caller goes on either way.
Drained(t) ==
  /\ pc[t] = "drain" /\ WaitIdle
  /\ guardLock' = Free
  /\ opLock' = IF opLock = t THEN Free ELSE opLock
  /\ IF t = "holder" /\ Head(plan) = "stop"
     THEN Answer("stop", "ok")
     ELSE /\ Goto(t, IF t = "reader" THEN "done"
                     ELSE IF Head(plan) = "refresh" THEN "refresh" ELSE "invalidate")
          /\ UNCHANGED <<plan, call, lastCall>>
  /\ UNCHANGED <<settings_vars, os, route, guard_vars, loop_vars, plans, faults, word>>

(***************************************************************************)
(* proxy_control::refresh_guard, once the earlier guards are cancelled.    *)
(***************************************************************************)

\* Sysopt::refresh_guard stops or starts the guard as the settings ask; the
\* warning of a stopped guard goes once a guard enforces, or none is wanted.
RefreshLocal ==
  /\ pc.holder = "refresh" /\ route = "local" /\ guardLock = Free
  /\ IF Enforced(verge) # "none"
     THEN StartGuard /\ filed' = (filed /\ guardState' = "stopped")
     ELSE ShutdownGuard /\ filed' = FALSE
  /\ Answer("refresh", "ok")
  /\ UNCHANGED <<settings_vars, os, route, guardType, guardWrite, generation, loops, lock_vars,
                 bound_vars, word>>

\* The new loop writes what the settings ask for now, which a patch staged
\* since the apply may have changed.  There is none when these do not resolve, or the session
\* of the Service is gone.
RefreshService ==
  /\ pc.holder = "refresh" /\ route = "service"
  /\ \/ /\ IF Enforced(verge) # "none"
           THEN /\ loops' = [loops EXCEPT ![generation] =
                               [state |-> "asleep", target |-> verge.target, failures |-> 0]]
                /\ Word(word, word = verge.target)
           ELSE UNCHANGED <<loops, word>>
        /\ filed' = FALSE
        /\ Answer("refresh", "ok")
     \/ /\ Enforced(verge) # "none"
        /\ Answer("refresh", "failed")
        /\ UNCHANGED <<loops, word, filed>>
  /\ UNCHANGED <<settings_vars, os, route, guard_vars, generation, lock_vars, bound_vars>>

(***************************************************************************)
(* The Service route: one request at a time, under operation_lock.         *)
(***************************************************************************)

\* run_final_service_operation supersedes the loops, then waits for the
\* request under way.
FinalOperation ==
  /\ \/ pc.holder = "invalidate"
     \/ AtCall("clear") /\ route = "service"
  /\ Supersede
  /\ word' = "none"
  /\ Goto("holder", "final")
  /\ UNCHANGED <<settings_vars, os, route, guard_vars, loops, filed, lock_vars, plan, call,
                 lastCall, bound_vars>>

LockFinal ==
  /\ pc.holder = "final" /\ opLock = Free
  /\ opLock' = "holder"
  /\ Goto("holder", "request")
  /\ UNCHANGED <<settings_vars, os, route, guard_vars, loop_vars, guardLock, plan, call,
                 lastCall, bound_vars, word>>

\* What the Service makes of a request: it applies it, or it falls back to
\* direct, or it fails and leaves anything.
RequestApplied(target) == os' = Settings(target)
RequestFails(target) == os' \in {os, Settings("off"), Settings(target)}

FinalAnswer ==
  /\ pc.holder = "request"
  /\ LET target == IF Head(plan) = "clear" THEN "off" ELSE call.want.target IN
     \/ /\ RequestApplied(target) /\ UNCHANGED faults
        /\ Word(target, guardState = "stopped")
        /\ Answer(Head(plan), "ok")
     \/ /\ faults < MaxFaults /\ faults' = faults + 1
        /\ RequestFails(target) /\ UNCHANGED word
        /\ Answer(Head(plan), "abandoned")
  /\ opLock' = Free
  /\ UNCHANGED <<settings_vars, route, guard_vars, loop_vars, guardLock, plans, hangs>>

(***************************************************************************)
(* A Service guard loop sleeps, asks under operation_lock if it is still   *)
(* the current one, and gives up after three failures in a row.            *)
(***************************************************************************)

LoopIsCurrent(g) == g = generation /\ route = "service"

Loop(g, change) == loops' = [loops EXCEPT ![g] = change]

LoopAsks(g) ==
  /\ loops[g].state = "asleep" /\ opLock = Free
  /\ IF LoopIsCurrent(g)
     THEN Loop(g, [loops[g] EXCEPT !.state = "asking"]) /\ opLock' = "loop"
     ELSE Loop(g, NoLoop) /\ UNCHANGED opLock
  /\ UNCHANGED <<settings_vars, os, route, guard_vars, generation, filed, guardLock, task_vars,
                 bound_vars, word>>

LoopLands(g) ==
  /\ loops[g].state = "asking"
  /\ \/ /\ RequestApplied(loops[g].target)
        /\ Loop(g, [loops[g] EXCEPT !.state = "asleep", !.failures = 0])
        /\ UNCHANGED word
     \/ /\ RequestFails(loops[g].target)
        /\ word' = "none"
        /\ IF loops[g].failures + 1 = GuardFailuresBeforeStopping
           THEN Loop(g, [loops[g] EXCEPT !.state = "reporting"])
           ELSE Loop(g, [loops[g] EXCEPT !.state = "asleep", !.failures = @ + 1])
  /\ opLock' = Free
  /\ UNCHANGED <<settings_vars, route, guard_vars, generation, filed, guardLock, task_vars,
                 bound_vars>>

RecordAnyway(g) == filed' = TRUE                            \* a mutation

\* report_guard_stopped: no late failure of a guard that was replaced.
RecordIfCurrent(g) == filed' = (filed \/ g = generation)

LoopReports(g) ==
  /\ loops[g].state = "reporting" /\ opLock = Free
  /\ RecordIfCurrent(g)
  /\ Loop(g, NoLoop)
  /\ UNCHANGED <<settings_vars, os, route, guard_vars, generation, lock_vars, task_vars,
                 bound_vars, word>>

(***************************************************************************)
(* The specification.                                                      *)
(***************************************************************************)

CallSteps ==
  \/ ApplyLocal \/ DrainForApply \/ ApplyAfterDrain \/ WriteFirst \/ WriteSecond \/ Compensate
  \/ ClearLocal \/ ClearAfterDrain \/ Disable \/ DisableAgain
  \/ ApplyService \/ FinalOperation \/ LockFinal \/ FinalAnswer
  \/ RefreshLocal \/ RefreshService
  \/ CancelAndDrain("holder") \/ LockOperation("holder") \/ StopLocalGuard("holder")
  \/ Drained("holder")

ReaderSteps == LockOperation("reader") \/ StopLocalGuard("reader") \/ Drained("reader")

LoopSteps(g) == LoopAsks(g) \/ LoopLands(g) \/ LoopReports(g)

Next ==
  \/ BeginPlan \/ StagePatch \/ ApplyPatch \/ EndPatch \/ SwitchRoute
  \/ CallSteps
  \/ CancelAndDrain("reader") \/ ReaderSteps
  \/ GuardFires \/ GuardWriteLands
  \/ \E g \in 1..MaxGeneration : LoopSteps(g)

Spec == Init /\ [][Next]_proxy_vars

(***************************************************************************)
(* Properties.                                                             *)
(***************************************************************************)

\* What apply or clear answered for is what the OS has until the next call:
\* no write of an older guard lands after it, on either route, and no guard
\* started since writes anything else.
LastWordStands == word # "none" => os = Settings(word)

\* Between two calls a local guard enforces a proxy that did reach the OS,
\* though an apply before may have failed half way.
GuardEnforcesWhatIsThere ==
  /\ WritesAreEvidence
  /\ pc.holder = "idle" /\ guardState = "running" /\ guardType # "none"
  => os[guardType]

Answers(name, answer) ==
  /\ pc.holder \notin {"idle", "next"} /\ pc'.holder \in {"idle", "next"}
  /\ lastCall' = [name |-> name, answer |-> answer]

\* A local apply that fails without the mark SystemProxyStateUnknown wrote
\* nothing; one that carries it, and could turn both proxies off, left
\* nothing on.  A guard that did not drain in time is excepted.
ApplyIsHonest ==
  WritesAreEvidence /\ call.drained =>
    /\ Answers("apply", "failed") => os' = call.before
    /\ Answers("apply", "unknown") => os' = Settings("off")

\* Between two calls, the warning of a stopped guard is on the table only
\* while the current guard is not at work.
GuardFailureIsCurrent ==
  filed /\ pc.holder = "idle" /\ generation > 0 =>
    loops[generation].state \notin {"asleep", "asking"}
=============================================================================
