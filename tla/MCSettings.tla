------------------------------- MODULE MCSettings -------------------------------
(***************************************************************************)
(* Instances for TLC of the modules about what the user sets, and what the *)
(* system, the Core and the windows then do.  They share no state that is  *)
(* modelled; a behaviour is one of one of them, the state of the others is *)
(* left at 0.                                                              *)
(***************************************************************************)
EXTENDS Naturals, Sequences, FiniteSets, TLC

CONSTANTS
  Platforms, MaxPlans, MaxFaults, MaxHangs,                    \* SystemProxy, PortProbe
  Codes, MaxSettled,                                           \* Failures
  MaxRun,                                                      \* OwnerWatch
  Callers, Sources, None, MaxCalls, MaxFileChanges,            \* DnsOverride
  Names, Providers, Groups,                                    \* Enhance
  Tasks, MaxOperations,                                        \* Windows
  ProbePlatforms, Listeners, Numbers, MaxSockets,              \* PortProbe
  MaxChanges, MaxPatches,                                      \* TunReconcile
  Keys, Functions, MaxHotkeyPatches, MaxEvents,                \* Hotkeys
  Parts             \* the modules a run looks at

VARIABLES
  part,             \* the module this behaviour is one of
  platform, verge, saved, patch, os, route, guardType, guardState, guardWrite,
  generation, loops, filed, guardLock, opLock, pc, plan, call, lastCall, plans, faults,
  hangs, word,
  pending_failures, settled, owed_request,
  unreadable, missing, recovered, lost_run, bad_run, disowned,
  source, settings, staged, dns_lock, updating, generated, runtime, calls, begun,
  file_changes, crossed,
  stage, scope, on, page, config, owned, graph,
  window_mode, window, watched, listening, auto, slot, tasks, operations_begun, recent,
  gone, exiting, quits, windows_crossed,
  probe_platform, enumerated, bind_scope, current_ports, candidate, sockets, todo, held,
  outcome, sockets_moved,
  admin, health, pending, allowed, mode, op, tun, tun_staged, lock, disabling, owed,
  spawned, queued, starting, changes, patches, failed,
  hotkeys, global, draft, registered, current, list_patch, focused, task, to_register,
  list_patches, events, disturbed

Proxy == INSTANCE SystemProxy
Failure == INSTANCE Failures
  WITH pending <- pending_failures, owed <- owed_request
Watch == INSTANCE OwnerWatch
Dns == INSTANCE DnsOverride
  WITH changes <- file_changes, MaxChanges <- MaxFileChanges, lock <- dns_lock
Enhanced == INSTANCE Enhance
Window == INSTANCE Windows
  WITH begun <- operations_begun, crossed <- windows_crossed, mode <- window_mode
Probe == INSTANCE PortProbe
  WITH current <- current_ports, platform <- probe_platform, scope <- bind_scope,
       events <- sockets_moved, Platforms <- ProbePlatforms, MaxEvents <- MaxSockets
Tun == INSTANCE TunReconcile
  WITH staged <- tun_staged
Keyboard == INSTANCE Hotkeys
  WITH patch <- list_patch, patches <- list_patches, list <- to_register,
       MaxPatches <- MaxHotkeyPatches

ASSUME PartsAssumption ==
  /\ Parts \subseteq {"proxy", "failures", "watch", "dns", "enhance", "windows", "probe", "tun",
                     "hotkeys"}
  /\ Platforms \cup ProbePlatforms \subseteq {"windows", "macos", "linux"}
  /\ None \notin Callers \cup Sources \cup Names \cup Providers \cup Tasks \cup Functions \cup Codes

\* None is none of the values it stands beside.
ASSUME NoneAssumption ==
  /\ None \notin Failure!Operations \cup {"SystemProxyGuard"}
  /\ None \notin {"TransportFailure", "Displaced", "SameOwnerFailure"}
  /\ None \notin [on : BOOLEAN, confirmed : Sources \cup {None}]
  /\ None \notin {"app", "blank", "script", "rule", "on", "off", "user", "any", "loopback", "other"}
  /\ None \notin {"available", "conflict"}
  /\ \A S \in SUBSET Probe!AllClaims : None # S
  /\ None \notin Seq(SUBSET Probe!AllClaims)

\* The guard has a code of its own; the runs of samples are counted further than a verdict
\* may take; the bounds of the system proxy are numbers.
ASSUME BoundsAssumption ==
  /\ "guard" \notin Codes
  /\ MaxRun \in Nat /\ MaxRun >= 9
  /\ MaxPlans \in Nat /\ MaxFaults \in Nat /\ MaxHangs \in Nat

proxy_vars == <<platform, verge, saved, patch, os, route, guardType, guardState,
                guardWrite, generation, loops, filed, guardLock, opLock, pc, plan, call,
                lastCall, plans, faults, hangs, word>>
failures_vars == <<pending_failures, settled, owed_request>>
watch_vars == <<unreadable, missing, recovered, lost_run, bad_run, disowned>>
dns_vars == <<source, settings, staged, dns_lock, updating, generated, runtime, calls,
              begun, file_changes, crossed>>
enhance_vars == <<stage, scope, on, page, config, owned, graph>>
windows_vars == <<window_mode, window, watched, listening, auto, slot, tasks,
                  operations_begun, recent, gone, exiting, quits, windows_crossed>>
probe_vars == <<probe_platform, enumerated, bind_scope, current_ports, candidate,
                sockets, todo, held, outcome, sockets_moved>>
tun_vars == <<admin, health, pending, allowed, mode, op, tun, tun_staged, lock,
              disabling, owed, spawned, queued, starting, changes, patches, failed>>
hotkeys_vars == <<hotkeys, global, draft, registered, current, list_patch, focused,
                  task, to_register, list_patches, events, disturbed>>
mcvars == <<part, proxy_vars, failures_vars, watch_vars, dns_vars, enhance_vars, windows_vars,
            probe_vars, tun_vars, hotkeys_vars>>

NoProxy ==
  /\ platform = 0 /\ verge = 0 /\ saved = 0 /\ patch = 0 /\ os = 0 /\ route = 0
  /\ guardType = 0 /\ guardState = 0 /\ guardWrite = 0 /\ generation = 0 /\ loops = 0
  /\ filed = 0 /\ guardLock = 0 /\ opLock = 0 /\ pc = 0 /\ plan = 0 /\ call = 0
  /\ lastCall = 0 /\ plans = 0 /\ faults = 0 /\ hangs = 0 /\ word = 0

NoFailure ==
  /\ pending_failures = 0 /\ settled = 0 /\ owed_request = 0

NoWatch ==
  /\ unreadable = 0 /\ missing = 0 /\ recovered = 0 /\ lost_run = 0 /\ bad_run = 0
  /\ disowned = 0

NoDns ==
  /\ source = 0 /\ settings = 0 /\ staged = 0 /\ dns_lock = 0 /\ updating = 0
  /\ generated = 0 /\ runtime = 0 /\ calls = 0 /\ begun = 0 /\ file_changes = 0
  /\ crossed = 0

NoEnhanced ==
  /\ stage = 0 /\ scope = 0 /\ on = 0 /\ page = 0 /\ config = 0 /\ owned = 0
  /\ graph = 0

NoWindow ==
  /\ window_mode = 0 /\ window = 0 /\ watched = 0 /\ listening = 0 /\ auto = 0
  /\ slot = 0 /\ tasks = 0 /\ operations_begun = 0 /\ recent = 0 /\ gone = 0
  /\ exiting = 0 /\ quits = 0 /\ windows_crossed = 0

NoProbe ==
  /\ probe_platform = 0 /\ enumerated = 0 /\ bind_scope = 0 /\ current_ports = 0
  /\ candidate = 0 /\ sockets = 0 /\ todo = 0 /\ held = 0 /\ outcome = 0
  /\ sockets_moved = 0

NoTun ==
  /\ admin = 0 /\ health = 0 /\ pending = 0 /\ allowed = 0 /\ mode = 0 /\ op = 0
  /\ tun = 0 /\ tun_staged = 0 /\ lock = 0 /\ disabling = 0 /\ owed = 0 /\ spawned = 0
  /\ queued = 0 /\ starting = 0 /\ changes = 0 /\ patches = 0 /\ failed = 0

NoKeyboard ==
  /\ hotkeys = 0 /\ global = 0 /\ draft = 0 /\ registered = 0 /\ current = 0
  /\ list_patch = 0 /\ focused = 0 /\ task = 0 /\ to_register = 0 /\ list_patches = 0
  /\ events = 0 /\ disturbed = 0

Init ==
  /\ part \in Parts
  /\ IF part = "proxy" THEN Proxy!Init ELSE NoProxy
  /\ IF part = "failures" THEN Failure!Init ELSE NoFailure
  /\ IF part = "watch" THEN Watch!Init ELSE NoWatch
  /\ IF part = "dns" THEN Dns!Init ELSE NoDns
  /\ IF part = "enhance" THEN Enhanced!Init ELSE NoEnhanced
  /\ IF part = "windows" THEN Window!Init ELSE NoWindow
  /\ IF part = "probe" THEN Probe!Init ELSE NoProbe
  /\ IF part = "tun" THEN Tun!Init ELSE NoTun
  /\ IF part = "hotkeys" THEN Keyboard!Init ELSE NoKeyboard

Next ==
  \/ /\ part = "proxy" /\ Proxy!Next
     /\ UNCHANGED <<part, failures_vars, watch_vars, dns_vars, enhance_vars, windows_vars,
                      probe_vars, tun_vars, hotkeys_vars>>
  \/ /\ part = "failures" /\ Failure!Next
     /\ UNCHANGED <<part, proxy_vars, watch_vars, dns_vars, enhance_vars, windows_vars,
                      probe_vars, tun_vars, hotkeys_vars>>
  \/ /\ part = "watch" /\ Watch!Next
     /\ UNCHANGED <<part, proxy_vars, failures_vars, dns_vars, enhance_vars, windows_vars,
                      probe_vars, tun_vars, hotkeys_vars>>
  \/ /\ part = "dns" /\ Dns!Next
     /\ UNCHANGED <<part, proxy_vars, failures_vars, watch_vars, enhance_vars, windows_vars,
                      probe_vars, tun_vars, hotkeys_vars>>
  \/ /\ part = "enhance" /\ Enhanced!Next
     /\ UNCHANGED <<part, proxy_vars, failures_vars, watch_vars, dns_vars, windows_vars,
                      probe_vars, tun_vars, hotkeys_vars>>
  \/ /\ part = "windows" /\ Window!Next
     /\ UNCHANGED <<part, proxy_vars, failures_vars, watch_vars, dns_vars, enhance_vars,
                      probe_vars, tun_vars, hotkeys_vars>>
  \/ /\ part = "probe" /\ Probe!Next
     /\ UNCHANGED <<part, proxy_vars, failures_vars, watch_vars, dns_vars, enhance_vars,
                      windows_vars, tun_vars, hotkeys_vars>>
  \/ /\ part = "tun" /\ Tun!Next
     /\ UNCHANGED <<part, proxy_vars, failures_vars, watch_vars, dns_vars, enhance_vars,
                      windows_vars, probe_vars, hotkeys_vars>>
  \/ /\ part = "hotkeys" /\ Keyboard!Next
     /\ UNCHANGED <<part, proxy_vars, failures_vars, watch_vars, dns_vars, enhance_vars,
                      windows_vars, probe_vars, tun_vars>>

Spec == Init /\ [][Next]_mcvars

-----------------------------------------------------------------------------
\* What apply or clear answered for is what the OS has until the next call, and a local
\* guard enforces no more than that (SystemProxy); a request of the user that failed is owed
\* to them until one works (Failures).
ProxyAnswersStand ==
  /\ part = "proxy" =>
       Proxy!LastWordStands /\ Proxy!GuardEnforcesWhatIsThere /\ Proxy!GuardFailureIsCurrent
  /\ part = "failures" => Failure!RequestsStayOwed

\* A failed apply says what it left (SystemProxy).
FailedApplyIsHonest == [][part = "proxy" => Proxy!ApplyIsHonest]_mcvars

\* Whatever merges and scripts do, the Core gets the fields the application owns, and no
\* group that names what is not there (Enhance).
EnhancedIsSound ==
  part = "enhance" => Enhanced!OwnedFieldsStand /\ Enhanced!NothingDangles

\* What a switch says is what is in force once nothing is at work: the DNS page
\* (DnsOverride), TUN, which is off where it cannot work (TunReconcile), and the hotkeys
\* (Hotkeys).
SettingsAreInForce ==
  /\ part = "dns" => Dns!SettingsTellRuntime
  /\ part = "tun" => Tun!UnusableTunIsOff
  /\ part = "hotkeys" => Keyboard!HotkeysWork

\* A window that is closed waits for the timer, and the application quits only when it is
\* asked to (Windows).
WindowsComeBack == part = "windows" => Window!HiddenWindowIsTimed /\ Window!OnlyAskedToQuit

\* What is observed is judged right: a port whose probe finds it free can be bound
\* (PortProbe), and the Service loses our trust when its Core is gone, not for a blip
\* (OwnerWatch).
VerdictsAreRight ==
  /\ part = "probe" => Probe!ProbeTellsTruth
  /\ part = "watch" => Watch!LostCoreIsGivenUp /\ Watch!BlipsAreTolerated
=============================================================================
