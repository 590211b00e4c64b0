# clash-x in TLA+

clash-x is a desktop application (Tauri: a Rust back end, a React/Vue front
end) around the proxy core *mihomo*, here "the Core". The application either
runs the Core itself, as a child process (the *Sidecar*), or has a privileged
*Service* run it. Around that: the OS system proxy is pointed at the Core and
guarded, a PAC file is served, TUN is switched, subscriptions are refreshed by
timers, profiles are switched, and the front end is told what goes on.

This directory models the part of it that tests reach least: the asynchronous
tasks of the back end, interleaved at every `await`, with processes that die,
a Service that loses its Core or does not answer, and operations that fail half
way. Paths below are relative to `src/src-tauri/src` unless they say otherwise.

## 1. Inventory

### Components, their state and operations

| component | state | operations | modules |
|---|---|---|---|
| run state store, `core/runstate/{mod,health,probe,env}.rs`, `core/service/manager.rs` | `StoredService` (health, pending action, Sidecar allowance), the observation counter, the privileged-operation slot, Running Mode, PAC | `observe`, `probe`, `await_ready`, `detect_service_health`, `request_action`, `perform`, `allow_sidecar_for_session`, `withdraw_…`, `require_install_…`, `begin_operation`, `settled`, `announce` | `RunState` |
| owner samples, `core/runstate/owner.rs` | counters of bad samples | `observe` | `OwnerWatch` |
| Core lifecycle, `core/manager/{mod,lifecycle,state}.rs`, `core/service/{owner,ipc}.rs` | Running Mode, readiness (generation, active), the supervised child, the session proof, the owner-monitor generation, `lifecycle_lock` | start, stop, restart, continue with Sidecar, replace the Service configuration, install, reinstall, uninstall; reader of each Sidecar, owner monitors, recovery | `CoreLifecycle`, `CorePromise` |
| drafts, `crates/clash-verge-draft` | committed data, optional draft, claim, modify permit | `edit_draft`, `apply`, `discard`, `with_data_modify`, `DraftTransaction` | `DraftLayer`, `Draft` |
| configuration application, `core/manager/config.rs`, `feat/config.rs`, `config/config.rs` | three layers, two settings files and the runtime file, `config_update_in_progress`, the configuration write lock, what the Core loaded | checked updates, patches of Verge and Clash, `change_core`, start-up, exit | `ConfigUpdate` |
| ports, `feat/listener.rs`, `core/listener.rs`, `config/{port,mixed_port}.rs` | a borrowed port, sockets of the host | save, start-up fallback, probe | `ConfigUpdate`, `PortProbe` |
| system proxy, `core/proxy_control.rs`, `core/sysopt.rs`, `core/network_watch.rs` | OS proxy, local guard, loops of the Service guard, `guard_generation`, `operation_lock` | apply, clear, refresh guard, stop guard | `SystemProxy` |
| notifications, `core/notification.rs` | table of failed operations | file, outrank, retire | `Failures` |
| profile timer, `core/timer.rs` | tasks by profile, the published schedule, a channel | refresh, fire, finish, retire | `ProfileTimer` |
| profiles, `config/{profiles,prfitem}.rs`, `cmd/{profile,save_profile}.rs`, `feat/profile.rs` | profile list, its draft, its file and the files it lists, `PROFILE_WRITE_LOCK`, `CURRENT_SWITCHING_PROFILE` | switch, patch, delete, import, refresh, save an enhancement | `ProfileSwitch`, `ProfileFiles` |
| nodes of a profile, `config/profiles.rs`, `feat/profile.rs` | the nodes recorded, `ACTIVATE_SELECTED_GENERATION` | record, activate, supersede, repair | `SelectedNodes` |
| automatic switching, `module/auto_switch.rs` | a list and its file, one loop per group | edit, schedule, run, decide | `AutoSwitch` |
| TUN, `feat/tun.rs` | a coalescing flag | `reconcile_tun`, patches around it | `TunReconcile` |
| DNS page, `config/dns.rs`, `feat/dns.rs` | switch and confirmed source | `set_dns_override`, `sync_dns_override` | `DnsOverride` |
| enhancement, `enhance/*` | none | a pipeline from profile to Runtime configuration | `Enhance` |
| provider files, `core/service/{providers,shared,paths,platform}.rs`, `core/runtime_bundle.rs` | published copies, requested passes | sync, collect a bundle | `ProviderSync`, `RuntimeBundle` |
| single instance and data root, `core/owner_identity.rs`, `utils/server.rs` | lock, record, token, data directory | start, repair, rebuild | `Startup` |
| relocation, `utils/macos_launch_guard.rs` | bundles at four places | stage, swap in, undo | `Relocation` |
| backups, `core/backup.rs`, `feat/backup.rs`, `module/auto_backup.rs` | archives, the last backup, WebDAV clients | back up, rotate, upload, restore, save credentials | `Backups` |
| Core upgrade, `feat/core_upgrade.rs` | the Core's file, its way back, the Service's copy | replace, stage, restart, roll back | `CoreUpgrade` |
| updater, `core/updater.rs` | a cache of two files, flags | background cycle, installation | `Updater` |
| domain traffic, `module/domain_traffic.rs` | counters by day, a file | poll, save, clear | `DomainTraffic` |
| windows, `utils/window_manager.rs`, `module/lightweight.rs` | the window, a timer, a mode | close, show, enter and leave lightweight mode | `Windows` |
| hotkeys, `core/hotkey.rs` | lists, registrations in the OS | patch, focus, blur | `Hotkeys` |

### How they interact

- The commands (`cmd/*.rs`) call the manager and the run state store; the
  manager asks the store for the status of the Service to decide who runs the
  Core, and reports the mode and PAC to it.
- Starts and stops of the manager hold `lifecycle_lock`, a fair asynchronous
  mutex. Configuration work first claims `config_update_in_progress` (the order
  is fixed, `core/manager/mod.rs:100`).
- The store keeps its own short lock; it is never held across an `await`.
- Three kinds of task run beside the holder of `lifecycle_lock`: the reader
  that drains a Sidecar's output, the owner monitor that samples the Service,
  and log polls. They change readiness and the monitor generation without the
  lock, and take it to give up the Core.
- The system proxy is applied after a start, cleared before a stop, and checked
  again after each write against the readiness generation it was meant for.
- A change of the settings is staged in drafts, generates the Runtime layer, is
  handed to the Core and then committed; switches of profile, the DNS page, TUN
  and the port save all end in that update.
- `save_proxy_ports` closes PAC and derives it again without `lifecycle_lock`.

### What is hard, and what makes each part correct

- *Store*: readings of the health take seconds and come back out of order; an
  operation in flight meets observations, allowances and requests. Correct: an
  overtaken reading is dropped, one operation at a time, a pending action and a
  Sidecar allowance exclude each other, nothing stays pending with nobody
  behind it, and whoever waits for an operation is woken.
- *Lifecycle*: a Core is never forgotten nor doubled, a Service Core is always
  watched, late news about an old Core never ends a new one, guard, proxy and
  PAC follow the Core, lost Cores are noticed, and readiness once lost does not
  return before the owner let go.
- *Drafts*: a layer of configuration has one draft slot, shared by transactions
  over several layers, asynchronous edits of the committed data, and writers that
  claim nothing. Correct: one transaction per claim and no claim left behind, one
  modifier per permit and none asleep beside a free one, an asynchronous edit
  overwrites nothing it has not seen, a transaction is all or nothing.
- *Configuration*: three mechanisms serialize callers, each for some of them
  only. Correct: a save that is rejected leaves nothing behind, the Core runs
  what is committed, the files follow the settings, nobody waits for ever.
- *Proxy and notifications*: guards write on their own, and writes outlast the
  call that stops them. Correct: the last answer stands, a failed call says what
  it left, a failed request stays shown until one works.
- *Profiles, nodes and groups*: several callers read, await and write one list.
  Correct: what the user chose or patched is kept, memory, file and Core agree
  when all is over, every schedule is served, once at a time.
- *Files*: writes, renames, moves and rotations that fail or are the last thing
  a process does. Correct: nothing the user has is lost, a retry finds what is
  left to do, what was cleared or disabled stays so.

`PROJECT.json` lists every hazard at its line, with the properties that cover it.

## 2. Modules

| module | what it is |
|---|---|
| `RunState` | the store, called by any number of tasks |
| `RunStateProofs` | theorems about `RunState` |
| `CorePromise` | what the lifecycle promises to observers of mode and readiness |
| `CoreLifecycle` | the manager, the Sidecar readers, the owner monitors, the Service seen from outside, the proxy; it instantiates `CorePromise` |
| `CoreLifecycleProofs` | theorems about `CoreLifecycle`: guards, monitors, the refinement, whose Core runs, proxy, PAC |
| `DraftLayer` | one layer: the methods of `Draft<T>` under its mutex, as operators |
| `Draft` | layers shared by transactions, modifiers and writers |
| `MCDraft` | its TLC instances: which task names which layers |
| `DraftProofs` | theorems about `Draft` |
| `ConfigUpdate` | changes of the configuration on their way to the Core, on `DraftLayer` |
| `MCConfigUpdate` | its TLC instance: the symmetry of callers |
| `ConfigUpdateProofs` | theorems about `ConfigUpdate` |
| `SystemProxy`, `Failures`, `OwnerWatch`, `DnsOverride`, `Enhance`, `Windows`, `PortProbe`, `TunReconcile`, `Hotkeys` | what the user sets, and what the system does then |
| `MCSettings` | their TLC instances |
| `SettingsProofs` | theorems about all of them |
| `SelectedNodes`, `ProfileTimer`, `ProfileSwitch`, `AutoSwitch` | profiles and the nodes in their groups |
| `MCProfiles` | their TLC instances |
| `ProfilesProofs` | theorems about all four |
| `ProfileFiles`, `ProviderSync`, `RuntimeBundle`, `Backups`, `CoreUpgrade`, `Updater`, `Startup`, `Relocation`, `DomainTraffic` | what is kept in files |
| `MCFiles` | their TLC instances |
| `FilesProofs` | theorems about `ProfileFiles`, `ProviderSync`, `RuntimeBundle` |
| `ApplicationProofs` | theorems about `CoreUpgrade`, `Updater`, `Startup`, `Relocation`, `Backups`, `DomainTraffic` |

The three hosts `MCSettings`, `MCProfiles` and `MCFiles` declare the variables of
all the modules they instantiate. The modules of a host share no state that is
modelled, so a behaviour of a host is one of a single module: `part` names it, the
variables of the others stay at 0. One run then checks them all, each with the
properties that are its own; the state space is the sum of theirs, not the product.

Each operator called a *mutation* in a comment is a plausible bug, defined right
before the definition it would replace. No specification uses them; they show
that a property can fail. `PROJECT.json` pairs each property with one of them.
The modules of the hosts have more mutations than pairs: their properties are
checked as conjunctions, and there is one mutation for each conjunct.

### RunState

`service` is `StoredService`; `observation` is the counter of
`VersionedService`; `operationRunning` is `operation_running`. `pc`, `action`,
`reservation`, `displaced` are the locals of a task. A section run under the
store's lock is one step. What happens outside is a step of its own: I/O between
reserving a reading and committing it, the two reads of a snapshot
(`ReadService`, `ReadOperationFlag`), `Publish`, the drop of the guard
(`Release`, then `NotifyWaiters`), and registering, reading and waiting in
`settled`. `waiters`/`notified` are tokio's `Notify`: `notify_waiters` wakes
those registered and leaves no permit.

A task's life: `idle`, then one call (`RecordReply`, `AllowSidecarForSession`,
`RequireInstall`, `BeginOperation`, `Settled`), then its steps back to `idle`;
`after` says where it goes once it has announced. Before the first call the
Service is detected (`DetectStartupStatus`), except in a development build,
which accepts the Sidecar at once: those are the two initial states.
`overtaken` is a history variable.

### CoreLifecycle and CorePromise

`mode`, `pac`, `readiness` are the manager's; `child` is `child_sidecar`;
`alive` are the processes that really run; `core`, `issued` are the Service's
side, `session` the proof the application holds; `ownerGen` is
`OWNER_MONITOR_GENERATION` and `monitors` the loops still running. `health` and
`verdict` are the part of the store that decides a start (in full in
`RunState`). `op`, `step`, `expectation`, `attempt` are the locals of whoever
holds `lifecycle_lock`; `op = "Free"` when nobody does. A step of the holder
ends where the code awaits.

- `Begin`, `ContinueWithSidecar`, `ContinuePreparationFails`, `TurnProxyOn`,
  `TurnProxyOff` take the lock. `MayBegin` is the exclusion with a port save.
- `Stopping`, `StopCore`, `StopAccepted`/`StopFails`/`StopDisplaced`: the
  controlled stop. `OperateSucceeds`/`OperateFails`: the privileged operation
  between a stop and a start.
- `BeginStart`, `Spawn`, `Poll`; `ServiceStart`, `StartAccepted`,
  `StartReplyLost`, `StartRefused`, `FailAttempt`; `StartFailed`: a start and
  its rollback.
- `Ready`, `Apply`, `Verify`, `RefreshGuard`, `Undo`: the proxy after a start,
  and what happens when the Core changed under it.
- `ReaderSeesEnd`, `ClearTerminatedSidecar`; `MonitorSeesLoss`, `LogsRefused`,
  `TransportFails`, `ClaimRecovery`, `Recover`, `MonitorEnds`; `SaveStarts`,
  `SaveReadsMode`, `SaveSettles`: the tasks beside the holder.
- `SidecarDies`, `ServiceLosesCore` are the environment.

Two history variables serve the properties: `outage` (the Service was out of
reach since it last accepted a call, so that the application cannot know what it
runs) and `exposed` (the proxy would not clear, or the Core was lost, so that the
OS proxy may legitimately outlive the Core). Each is raised by the failure and
by nothing the code does right.

Abstractions: `VersionMismatch` counts as `Unavailable` (the lifecycle treats
them alike); a system proxy write happens or fails (`SystemProxy` has it in
full); the Service's replies are nondeterministic, and on macOS it takes down the
proxy it wrote when it stops the Core. Configuration contents are left out.

`CorePromise` has `owner` and `ready`, mapped to `mode` and `readiness.active`.
One owner at a time, replaced only through `NotRunning`; readiness that was lost
does not come back until the owner has let go.

### DraftLayer and Draft

A layer is what its mutex protects: `committed`, `draft` (`NoDraft` when there is
none), and `identity`, which stands for the address of the committed `Arc` that
`with_data_modify` compares. Its content is the set of edits made to it, each
named by the task that made it, which is what the properties tell apart.

`claimed`, `modifying` are the two atomic flags of each layer, `permit` the
notification tokio's `Notify` stores when nobody waits. Each section under the
mutex and each atomic operation is a step.

- A *transactor* runs a `DraftTransaction`: `Begin`, `TryClaim` layer after
  layer, `ClaimRefused` and `ReleasePartialClaim`; `Stage`; then `Commit`,
  `ApplyNext`, `DropCommitted`, or `Rollback`, `DiscardNext`, `DropUncommitted`.
  `first` and `last` delimit the claims it holds, `at` counts the layers it has
  edited or applied.
- A *modifier* runs `with_data_modify`: `Acquire` (one attempt, a yield, then the
  loop), `Park` (the poll of `notified()`, which a stored permit ends at once),
  `ReadCommitted`, `Store` or `GiveUp`, `Unlock` and `NotifyOne`.
- A *writer* edits and applies or discards with no claim, like `change_core`
  (`core/manager/lifecycle.rs:670`) and `patch_clash` (`feat/config.rs:14`).

A task makes one call: the code keeps nothing between two calls of a caller, so
a caller that comes back is one more task. Of tokio's order of wakeups only
"some waiter" is used.

### ConfigUpdate

`layer` has the layers Clash, Verge and Runtime, `disk` the three files, `core`
what the running Core loaded; each is the set of edits it contains, and the edit
of a caller is the caller. `configLock`, `updating`, `claim` are the three
mechanisms that serialize callers. `kind` names the call each caller makes:

- `savePorts`: `SaveBusy` … `SaveRefuses`, every exit of `save_proxy_ports` with
  the drafts, the files, the Core and the borrowed port it restores;
- `patch`, `patchReload`, `patchRestart`: `PatchStages` … `RestartAnswers`, which
  is `patch_verge` with the flags that follow from the patch;
- `update`: `UpdateBusy` … `UpdateReturns`, shared by all that reload;
- `restart`, `continueSidecar`, `startup` (with the port fallback and its
  retries); `tweak`, an edit that is staged and dropped;
- `patchClash`, `patchController`, `changeCore`, `saveAll`: writers that claim
  nothing. `Unclaimed` names them; properties that one of them breaks say so.

A restart is one step here, its steps are those of `CoreLifecycle`.

### SystemProxy, Failures, OwnerWatch

`SystemProxy`: `os` is what the OS has, `verge` what the settings ask for. A
*holder* makes the calls `apply`, `clear`, `refresh` and `stop` of a `plan`, as
the lifecycle makes them; a *reader* cancels guards when its Sidecar ends. On the
local route `guardState` and `guardWrite` are the guard of the library, whose write
may outlast the drain; on the Service route `generation` and `loops` are
`guard_generation` and the tasks that enforce. `WriteFirst`, `WriteSecond`,
`Compensate` are the two writes of an apply and its recovery. `word`, a history
variable, is the target that was last answered for.

`Failures` is `FailureTable`: `Fails`, `Applies` are the ends of a call that file
and retire, `GuardStops` and `GuardRefreshed` those of a guard. `OwnerWatch` is
`OwnerWatch::observe` on samples of a world (`Worlds`) in which the Core, the
status channel and the controller come and go.

### DnsOverride, TunReconcile, Enhance

`DnsOverride`: `settings` are the switch and the confirmed source, `source` the
file of the profile, which may change at any time, `generated` and `runtime` what
an update made of them; `Set…`, `Update…` and `Sync…` are the three users of
them. `TunReconcile`: `Changes` and `Publish` are transitions of the run state,
`LooksAtFlag`, `Locks`, `SetsFlag`, `Disables`, `Unlocks` a reconciliation,
`Patch…` and `Restores` the writers of the switch; reconciliations are alike and
only counted. `Enhance`: one step per stage of `enhance()` over a few fields,
chosen by `scope`, and a `graph` of proxies, providers and groups.

### Windows, Hotkeys, PortProbe

`Windows`: `Timer…`, `Entry…`, `Exit…` are the tasks of lightweight mode,
`Toggle`, `Dashboard`, `UserCloses`, `Quit` what begins them; statements are steps
because the tasks run on several threads. `Hotkeys`: `PatchList` … `PatchEnds`,
and the task of a focus change, `TaskReads`, `TaskRegisters`, `TaskResets`.
`PortProbe`: `sockets` are those of the host, with what the platform lets overlap
(`Refuses`); a probe binds each claim (`ProbeClaim`) and holds it.

### SelectedNodes, ProfileTimer, ProfileSwitch, AutoSwitch

`SelectedNodes`: `recorded` is the list `selected` of each profile, `proxies` what
the Core reports while providers load; an activation (`worker`) fetches, selects
and repairs, unless `generation` has left it behind. `ProfileTimer`: `settings`,
the published `timer_map`, the channel and `tasks`, in the order they feed each
other. `ProfileSwitch`: `profiles`, their draft, their file and what the Core
`loaded`, under four locks; a call is a switch, a deletion, a patch or an update
of somebody else. `AutoSwitch`: the list and its file under `io`, the scheduler
that follows a watch channel, one loop per group, and `Decision`, the pure choice;
of nodes that are equally fast any may be the `Fastest`, the one whose test ended first.
`sent` is the list in the watch channel, which takes none before the scheduler is its
receiver (`ReplaceInMemory`).

Three history variables bound what is excepted. `misread`: records that a restoration
repaired after both of its looks had been at the groups of another profile, between the
reload and the commit of a switch. `unread`: the list in memory was begun without the
file. `blinked`: the group was switched off and on again between two looks of the
scheduler.

### Modules about files

- `ProfileFiles`: one creation, deletion, refresh and two saves side by side,
  over the files `present` and the list `stored`.
- `ProviderSync`: a cache in two chunks that its Core rewrites in place, passes that read
  it twice (`Fetched`), configurations that change between; `taken_back`, a history
  variable, is set when a change gives the Core the URL of a pass under way.
  `RuntimeBundle`: the pure assignment of destinations, provider after provider.
- `Backups`: a clock in seconds, names that hold the second, and the cached
  WebDAV clients. A move may leave its archive in both directories or in neither
  (`MoveFails`), a clean-up may remove some of its surplus or none; `leftover` are the
  archives that such failures left. `StoreConfig` and `MakeClient` are the two writes of
  a client that is made; `overtaken` says that other credentials got past the last reset.
  `DomainTraffic`: days, the loop's save and the user's clears.
- `CoreUpgrade`, `Updater`, `Relocation`, `Startup`: files that are replaced step
  by step, where each step may fail or be the last of its process. Beside an upgrade the
  Core comes and goes (`CoreMoves`), and `Link` reads the running mode that decides
  whether the Service is handed the file; the Service's copy may be older than the file
  from the beginning. `undeleted`: a cache of the updater could not be removed.

## 3. Runs

| run | configuration | shows |
|---|---|---|
| `RunStateSafety` | 2 tasks, `Uninstall` and `Reinstall` and refresh, 2 calls, fair | `PendingExcludesSidecar`, `OperationExclusive`, `NoOrphanedAction`, `StaleReadingNeverLands`, `SidecarAllowedBetweenOperations`, `SettledReturns` |
| `CoreWindows` | not macOS, 2 start attempts, 3 operations, 1 fault | `NoUnsupervisedCore`, `ServiceCoreIsWatched`, `GuardStopsWithCore`, `ProxyClearedWithCore`, `PacFollowsMode`, `OnlyLostCoresAreGivenUp` |
| `CoreMacOS` | macOS, 3 operations, 1 fault, 1 port save, fair | `KeepsPromise` (the refinement of `CorePromise`), `DeadSidecarIsNoticed`, `LostServiceCoreIsNoticed` |
| `CorePacRace` | 2 operations, 1 save | violates `PacFollowsMode` |
| `Drafts` | 2 layers named in opposite orders by 2 transactors, 2 modifiers of one, a writer of a third, fair | `NoLostWakeup`, `RollbackLeavesNoTrace`, `CommitLandsEverywhere`, `OnlyDraftsOverwrite`, `ModifiersReturn` |
| `DraftUnclaimed` | 1 transactor and a writer of 1 layer | violates `RollbackLeavesNoTrace` |
| `ConfigUpdate` | 2 callers of 13 kinds, 2 failing steps | `RejectedSaveLeavesNothing`, `BorrowedPortIsServed`, `CoreRunsCommittedRuntime`, `DiskFollowsSettings`, no deadlock |
| `ConfigDesiredPort` | start-up beside an update | violates `DesiredPortIsServed` |
| `Settings` | `MCSettings` | `ProxyAnswersStand`, `FailedApplyIsHonest`, `EnhancedIsSound`, `SettingsAreInForce`, `WindowsComeBack`, `VerdictsAreRight` |
| `Profiles` | `MCProfiles` | `ChoiceSurvives`, `ScheduleIsServed`, `ProfilesAreKept`, `GroupsAreServed`; switches of profile do not wait for each other for ever |
| `Files` | `MCFiles` | `ProfileFilesAreKept`, `BackupsAreSound`, `ReleasesAreSound`, `StartsAreSound`, `TrafficIsCounted`, `ProvidersAreExact` |
| `LoadedGroups` | `MCProfiles`, groups only | violates `LoadedGroupsAreServed` |

A property of a host is the conjunction of those of its modules that speak of the
same matter; each module states its own, with the exceptions, at its end.

Bounds, and why they are enough. Bounds count calls that start, failures and
moves of the environment, not steps; each call interleaves fully with everything
else.

- *Store*: two tasks make every pair of sections meet. The second call of one
  task while the other is still inside its first is what an overtaken reading and
  a restored allowance need. `Reinstall` stands for the actions that await the
  Service; `Uninstall` takes a path of its own.
- *Lifecycle*: three operations reach start – fault – stop – start, an operation
  taken over by the next one, and a late task of the first Core beside a third.
  One fault is a failure of a process or of the Service at any point, beside the
  failures every reply may bring (start, stop, clear, apply, operate may each fail
  every time). Two start attempts are the smallest number with a retry.
  `PacFollowsMode` fails beside a port save and `ProxyClearedWithCore` on macOS
  (section 5), so `CoreMacOS` checks neither.
- *Drafts*: two layers and two transactors are what a partial claim and its
  refusal need; two modifiers make a stored permit and a sleeper meet. The writer
  has a layer of its own, because one that shares it breaks the isolation
  (`DraftUnclaimed`).
- *ConfigUpdate*: two callers of any two kinds; two failing steps let a way back
  fail too; one retry at start-up, two borrowed ports.
- *Settings*: two plans of proxy calls with one failing write and one write that
  hangs; six ends of calls about two failure codes; samples are counted to ten, one
  past what the property speaks of; three DNS calls of two callers, two sources
  and two rewrites; three window tasks; two listeners on two numbers and one socket
  that opens or closes while the probe runs, on macOS and Windows (on Linux the OS
  itself refuses every overlap, so nothing can be wrong); two changes of the run
  state and two patches; two hotkeys, two patches and two changes of focus.
- *Profiles*: two profiles, of which the second lacks a node of the first; three
  activations supersede each other beside two switches; one profile on the timer, with two intervals,
  two edits and two updates; three calls on the profiles, of which one may fail;
  one group with three nodes, two of them equally fast and one that is down, and three
  edits of the list.
- *Files*: three calls on two profiles; two URLs, two downloads and one change of
  configuration with a clock of four ticks; three providers over two paths; three
  backup calls of one of three sets of operations (taken together the sets make
  many more states; the automatic backups share the archives with those by hand, which
  the second set has, and nothing with the WebDAV clients); two upgrades, the second of
  which is the retry, and two releases; two processes that start, with one failure and
  one death; two failures of a move; one connection, two days and one clear.

Deadlock is checked in `ConfigUpdate` and, for the calls on profiles, in
`Profiles`: there every behaviour that ends must have answered every call. In the
other runs calls are bounded and every behaviour ends with all tasks idle, which
is where the program waits for its user.

## 4. Fairness

`RunState!FairSpec`: weak fairness of the steps that continue a call, for each
task. The runtime polls every task that can run; probes and privileged commands
end by a timeout or a fixed number of attempts. Starting a call is not fair.

`CoreLifecycle!FairSpec`: weak fairness of `Holder` (each await of the holder
ends by an answer or a timeout) and of `Tasks` (`lifecycle_lock` serves waiters
in order; readers and monitors are polled for ever). Starting operations,
faults, and refusals of log polls are not fair.

`Draft!FairSpec`: weak fairness of the steps of a modifier that has been called.
The runtime polls a task that is ready; the asynchronous edit ends. Transactions
and writers are not fair: they may stop anywhere.

The other specifications state no fairness and no liveness: what must be true in
the end is said as an invariant of the states in which nothing is left to do.

## 5. What the code does and its documentation does not say

Disagreements that a run shows:

1. PAC "can never disagree with the running mode" (test at
   `core/runstate/mod.rs:1059`); a port save settles it outside
   `lifecycle_lock`, with a mode read earlier (`CorePacRace`).
2. A `DraftTransaction` "exclusively claims several draft layers and rolls them
   all back unless committed" (`crates/clash-verge-draft/src/lib.rs:208`);
   `change_core` applies the Verge draft with neither a claim nor the
   configuration write lock, and so commits a patch that is only staged
   (`DraftUnclaimed`).
3. The desired port is staged so that PAC is closed "until the Core catches up"
   (`config/mixed_port.rs:32`); the start-up fallback may take the application's
   own Sidecar for a foreign listener, and no Core ever serves the port it then
   names (`ConfigDesiredPort`).
4. The groups of the automatic switch are "periodically" tested and their
   configuration "is persisted" (`module/auto_switch.rs:1`, `:5`); `init` publishes those
   it loaded before the watch channel has a receiver (line 224, 338 and 354), so the
   scheduler does not see them until one is edited (`LoadedGroups`).

Met while modelling, found by TLC or by reading, and kept out of the properties
as named exceptions:

- *Store.* The two parts of what `settled` returns are read at different times;
  publishers of the run state are not ordered, so the last one sent may be older.
- *Lifecycle.* A restart on macOS from the Sidecar to the Service hands the OS
  proxy over and leaves it on when that start fails (`lifecycle.rs:50`, test at
  `:1241`).
- *Configuration.* `change_core` reaches the end of a restart with an uncommitted
  Runtime draft; the discarding arm of `patch_clash` cannot be reached
  (`feat/config.rs:20`); start-up generates without a claim; a patch that fails
  after its hotkeys were registered rolls back the settings, not the OS
  (`feat/config.rs:310`); a patch with a restart whose proxy cannot be applied
  leaves a Core with a configuration that is not committed.
- *Proxy.* A call knows its result before it files it, so a restore that failed
  earlier may file after a later request worked. A guard write that outlives three
  drains may land beside a disable that fails, and the guard then enforces what is not
  there (`MaxHangs`, section 6).
- *Profiles.* `restore_previous_profile` loses a patch made between its
  `edit_draft` and its `apply`; the import of a URL scheme drops a switch's draft
  (`utils/resolve/scheme.rs:86`); an update may write its copy of the settings
  over an edit made since it began. Provider groups that load more than a second
  after a switch count as failed; a start's activation can be cancelled by an older
  one. Either look of a restoration may fall between the reload and the commit of a
  switch (`config/profiles.rs:921`, `cmd/profile.rs:239` and `:301`), while the profile it
  works for is still the current one; when both do, it prunes the choices of that profile
  by the groups of another (`misread`). One such look prunes nothing.
- *Files of profiles.* A save of the global Merge or Script does not reach the
  Core when the profile has its own; a save that is answered busy restores a file
  the Core may have by then; overlapping saves undo each other, and a refresh;
  a save that races a deletion leaves a file nobody lists; the global rules cannot be saved
  at all (`Rules` "is a global enhancement file", `cmd/save_profile.rs:102`, and nothing
  makes an item of that name, `config/config.rs:128`); a `profiles.yaml` that
  is unreadable once is replaced by an empty list; writes are not atomic.
- *Groups.* Lists are read before `io` is taken, so edits are lost; a threshold of
  0 (`MIN_THRESHOLD_MS`) flaps between equal nodes; groups stored on disk are lost when an
  edit comes before `init`, or when the file cannot be read, which counts as empty (line
  223; `unread`). A group that is switched off and on again between two looks of the
  scheduler keeps a task that may have ended (lines 371-388 and 404-427), and then is not
  tested until it is switched off and on once more (`blinked`).
- *Windows and hotkeys.* Leaving lightweight mode while it is entered can quit the
  application or leave it without a window; so can a show that the rate limit
  refuses; the timer a close spawned may be armed after the window was focused
  again. Global hotkeys switched on while the window loses focus are not registered
  until the next start; tasks of focus and blur are not ordered.
- *TUN and DNS.* A restored backup commits TUN, and when the patch after it fails
  nothing reconciles; two updates back to back leave the DNS switch on while the
  page is not used.
- *Enhancement.* The global Merge and Script are applied twice when the profile has
  none of its own; a control key in another spelling passes; the guard of the mode
  is for one of the two Cores only.
- *Providers.* Between an application and its commit a pass may publish the copy of the
  earlier configuration (`core/service/providers.rs:164` says the lock is held through
  publication); a pass under way does not see that a configuration was replaced when the
  next one goes back to the URL it began with, and publishes what it read in between
  (`taken_back`, section 6); a write that takes as long as the settling time passes for a
  finished one; a local provider after a remote one at the same path shares it silently.
- *Start-up.* Two starts during a rebuild strand entries under `.stale-<pid>`, or
  read a half-moved root as a new one; a token file that was created and not
  written is refused for ever; a start during a quit is answered and lost.
- *Relocation.* When restoring and relaunching both fail, the earlier bundle is
  left under its hidden name; two movers that fail can leave a copy that does not
  start.
- *Backups.* Archives of the same second truncate each other; a failed save leaves
  clients with the earlier credentials, and a client made during a reset keeps
  those it began with; a clock that is set back stops automatic backups; a change
  of the settings begins the scheduler's interval anew; failed uploads leave
  temporary archives. More than `AUTO_BACKUP_KEEP` stay when the directory cannot be
  read, when an archive cannot be removed, or when a move has copied its archive and
  could not remove the original: it then answers an error before the clean-up
  (`module/auto_backup.rs:215` and `:258`, `feat/backup.rs:258`). A restore writes
  `verge.yaml` before it takes the configuration lock (`feat/backup.rs:38`).
- *Core upgrade and updater.* A way back that fails may leave no Core on disk. An
  upgrade that finds the Core down hands the Service nothing (`feat/core_upgrade.rs:82`),
  also when the Service then starts its own copy: the upgrade is reported, or a failed one
  keeps the new file, and a retry finds nothing to do while the Service runs the earlier
  Core. A cache that cannot be removed (`core/updater.rs:83`) is installed at the next
  start though updates are disabled. An
  update at start-up obeys a setting that is only staged; the flag that an update
  is ready may be up with half a cache.
- *Traffic.* The loop's save, taken before `clear_all` and written after it, brings
  the cleared days back with the next start; a failed save is not repeated until
  there is more traffic; a file that is unreadable once is overwritten.

## 6. Proofs

All proofs are checked by TLAPS for every value of the constants, under the
assumptions the modules name, which TLC evaluates on every run:

- what the constants are: `TasksAssumption`, `ActionsAssumption`,
  `MaxCallsAssumption` (`RunState`); `IsMacOSAssumption`, `ElevatedAssumption`,
  `StartAttemptsAssumption`, `BoundsAssumption` (`CoreLifecycle`);
  `RolesAssumption`, `LayersOfAssumption` (`Draft`); `EditsAssumption`,
  `BoundsAssumption` (`ConfigUpdate`); `PartsAssumption` of the three hosts,
  `OfferAssumption` (a profile offers nodes that are nodes) and `ThresholdAssumption` (a
  threshold is a number), both of `MCProfiles`;
- that the values that stand for nothing are not values: `NoDraftAssumption`,
  `CallerAssumption`, `NoneAssumption`, `DraftAssumption`. TLC makes `None` and the
  like model values, of which this is true; the prover has to be told;
- `BoundsAssumption` of `MCSettings`: the bounds of the proxy are numbers, the samples
  of an owner are counted further than a verdict may take (`MaxRun` of 9 or more), and
  the code of the guard is not the code of a request, as in `core/notification.rs`;
- `TrafficAssumption` of `MCFiles`: there are finitely many connections and at least one
  day; `ProvidersAssumption` and `BackupsAssumption`: the settling time is some
  time, the interval and the number of backups are numbers.

So there may be any number of tasks, operations, faults, saves and attempts, layers,
orders in which tasks name layers, profiles, groups, nodes, windows, samples, proxy
calls, starts, movers, backups, downloads, passes, connections and days. Two theorems have
a hypothesis on a bound (`MaxHangs <= 2` and `MaxSaves = 0`, below). Most of the inductive
invariants were first checked by TLC, with the bounds of the runs.

**RunStateProofs.** `TypeCorrect`, `SlotExclusive`, `PendingExclusion`, from
`Invariance`. `OperationExclusive` speaks of tasks inside an operation, and a
step of one task must not touch the others: the lemmas say, for each group of
actions, that it moves only its own task, and either keeps it inside or outside
an operation. Only `BeginOperation` takes a free slot and only `Release` frees
it, by a task that was inside and therefore, by the invariant, alone.
`PendingExcludesSidecar` needs only that each constructor of a stored service
clears one of the two. `NoStaleReading` needs `ReservationsOrdered`: no reading in
flight holds a reservation ahead of `observation`, and one that was overtaken holds
an older one, so that its commit finds them different; every step leaves the
readings alone, overtakes them all, overtakes them all and adds one, or ends one.
`NothingOrphaned` needs `Answered`: while a request other than an install is
pending, a task inside an operation still carries it out, awaits it, or reads the
health with a reservation nothing overtook, so that its commit clears the request.
`AllowedBetweenOperations` is a property of single steps.

**CoreLifecycleProofs.** `GuardStops`, `CoreWatched` from the inductive
invariant `IInv`; `Implements` is the refinement of `CorePromise`. The
properties only speak of `op = Free`, so `IInv` says what holds in between:
`LockShape` (which step belongs to which operation), `StartsFromRest` (a start
proceeds only from `NotRunning`), `AppliesToACore` (an expectation names a mode
that runs), `GuardAway` (in the steps after a stop and before the next apply no
guard runs when nothing does), and `WatchedUnlessStopping` (only the window
between cancelling the monitor and the Service's answer is unwatched). The
preservation proof has a lemma per phase of the holder (`StopStep`,
`StartCoreStep`, `ApplyStep`), one for taking the lock (`StartsStep`) and one
for the other tasks (`TasksStep`). For the refinement, each lemma `Step…` shows
which steps of `CorePromise` the steps of a phase map to; `StartsFromRest` is
what makes a new owner come from `NotRunning`. `TypeCorrect` goes part by part of the
state; the bound on `attempt` needs `LockType` to say that attempts are counted from
0 and that a Service start is only asked for below the limit.

Its second half is about whose Core runs. `Custody` adds three parts to `IInv`, each
preserved phase by phase. `Processes`: outside a start the only Sidecar that runs is the
supervised one, and pids that wait to be reaped name nothing that lives, since pids are
never reused. `Fallbacks`: a flow that settles on the Sidecar (`continue`, `uninstall`)
meets no Core of the Service after its stop, because the verdict or the uninstalled
Service rules that start out; without it `Undo` could forget a Core of the Service.
`Sessions`: a Core of the Service is the one whose proof we hold, or the Service was out
of reach; and a report or recovery of the current generation speaks of a Core that is gone
or out of reach, since each new Core starts a new generation. `CoresAreSupervised` and
`LateNewsIsHarmless` follow on every platform. `ProxyGoesWithCore` assumes that the
platform is not macOS, where a hand-over leaves the proxy standing if the Service then
does not start; its `Exposure` says that from the stop on a proxy still set was exposed by
a failure. `PacIsDerived` assumes `MaxSaves = 0`: beside a port save the property fails
(section 5).

**DraftProofs.** `TypeCorrect` needs `Progress`: what `pc` says about `first`, `last` and
`at` (a transaction that stages holds every claim, one that claims has more to claim).
`ClaimsExact` and `PermitExact` then follow action by action: a claim is taken only of a
free layer, and released only by the one that holds it. `NoWakeupLost` strengthens its
property to `Wakeup`, which adds that a stored permit never waits beside a sleeper; the
hard case is `Park` against `Unlock` and `NotifyOne`, the flag being freed before the
notification. `NothingOverwritten` needs `ReadIsKnown`: as long as the identity a modifier
read is current, so is the data it read. `TransactionsAreIsolated` and `CommitsLand`
assume `WritersApart`: who writes without a claim keeps to layers that no transaction
names. The run `Drafts` has such a writer; in `DraftUnclaimed` the writer goes where a
transaction is, and section 5 says what happens then. `Isolated` says that nothing of a
transaction is committed before it commits (`Unseen`), that it is in a draft only under
its own claim (`StagedUnderClaim`), that a draft contains everything a committed
transaction left in the committed data (`DraftIsCurrent`), and how far a commit has got
(`Landing`).

`TypeCorrect`, `ClaimsExact` and `PermitExact` state invariants that no run checks:
they hold for every value of the constants, and the runs spend their time on others.

**ConfigUpdateProofs.** `Base` is what everything else rests on: `Typed`; `InPlace`,
where a call of each kind may be; and `Held`, that the flag, CONFIG_WRITE_LOCK and
the claims of the layers belong to exactly the calls that are between taking and
releasing them. `Answering` follows a failure that was met to the answer that
reports it. On them, one invariant per property:
- `VergeKept` (`SettingsFileFollows`): verge.yaml holds the committed settings, but
  for a call under the lock between its commit and its save, or its undo.
- `NothingLeft` (`NothingIsLeftBehind`): where the ports of a save may be at each of
  its steps, and that nobody else carries them on: a draft that another call may
  commit, a Runtime generated from it, a file, the Core.
- `RuntimeKept` (`CoreFollowsRuntime`): which of the draft, the committed Runtime and
  the runtime file the Core runs, for each step of the call that holds the flag. The
  property excludes the callers that do not claim what they stage; so does the proof.
- `PortKept` (`NamedPortIsServed`): the borrowed port is in what will reach the Core
  exactly when the session names it, or one save is on its way to make it so.
The proofs go by what a step is to the others: the step of the call that holds the
flag or the lock, and the steps of bystanders, which can touch neither.

**SettingsProofs.** A behaviour of `MCSettings` is one of a single part, so that each
theorem is about one module, or about one that the property names beside it.
- `ClosedWindowsComeBack`, by `WindowInv`: what CANCEL_TX holds is a timer that has yet
  to clear it (`SlotIsTimer`), a close that arms the timer is heard (`WatchedIsHeard`),
  one task at a time leaves lightweight mode and none while it is entered
  (`ModesAreApart`, but for an exit and an entry that crossed), and a window that was
  closed has a timer, or a task that destroys it (`ClosedIsSeenTo`).
- `SwitchesTellTheTruth`, by `TunInv`, `HotkeysInv` and `DnsInv`: a difference between
  the switch and the system is in the hands of a task that has yet to look. As in the
  property, hotkeys are excepted once a registration failed or a focus task met a patch
  (`disturbed`), and the DNS page once settings changed under an update (`crossed`).
- `EnhancedConfigIsSound`, by `EnhanceInv`: the fields the application has set
  until it captures them (`SetSoFar`), keeps while merges and scripts rewrite the rest
  (`CapturedIsWanted`) and puts back afterwards (`EnforcedStands`).
- `RequestsOwed`, by `Filed`: only the guard is filed under its own code. It is the part
  of `ProxyAnswersStand` that speaks of `Failures`.
- `JudgedRight`, by `WatchCounted` and `ProbeInv`. The first relates the counters of the
  code to the runs of samples: until the verdict a Core has been gone for at most
  `3 * missing + unreadable` samples, and at least `missing + unreadable` in a row were
  bad; the nine of the property is that bound at the limit. The second says what the
  sockets that a probe holds show about the claims it has still to try.
- `AnswersStand`, `FailuresAreHonest`, by `ProxyInv`: while a call is on its way to write
  the OS nothing is promised (`Unsaid`); otherwise what the OS has, what the local guard
  writes (`GuardFollows`), and what the loops of the Service ask for (`LoopsFollow`: no
  loop of an earlier generation is at work, and none at all while a call is between the
  cancellation and its request) is what was answered for. `CallKnows` is what a call knows
  of the OS at each of its steps. `GenerationsCounted` bounds the generations by the calls
  that are left, which is what `MaxGeneration` of the model promises.
- `GuardsEnforceWhatIsThere`, and with it `ProxyAnswers`, by `TargetThere`: a guard runs,
  or is about to, only when its proxy reached the OS. A write of the guard that outlives
  the drain (`GUARD_DRAIN_TIMEOUT`, `core/sysopt.rs:39`) breaks this for the moment;
  `LateIsMinded` says that the calls that follow undo it. The theorem assumes
  `MaxHangs <= 2`. The hypothesis is needed: with `MaxHangs = 3`, four plans and two
  faults TLC finds a guard write that outlives three drains in a row, of ten seconds
  each, beside a disable that fails, after which the guard enforces a proxy that is not
  there. The run has one such write.

**ProfilesProofs.** Also one part at a time.
- `ChoicesSurvive`, by `SelectionInv`: whatever activation runs, a choice it would no
  longer record is one its profile does not offer, unless both of its looks at the Core
  were at the groups of another profile, which `elsewhere` remembers (`WorkerIsTrue`); a
  record goes only when both looks agree (`ReconciledBefore`), so that one look at the
  right groups is enough.
- `ScheduleServed`, by `TimerInv`: an update that the timer began is in flight, or its end
  is in the channel, once (`OneUpdateEach`); a task that is there is armed or running
  (`TasksAreWhole`); and the last schedule in the channel is the published one, or, with
  none in it, the tasks serve the published one (`ScheduleReaches`).
- `ProfilesKept`, by `SwitchInv`: the locks belong to the calls in their sections
  (`Held`); the draft is the one of the switch that staged it (`Staged`); a candidate of
  the committed version is the committed list with its owner's change (`Candidates`); the
  file (`FileFollows`) and the Core (`CoreFollows`) differ from the profiles only for the
  call that is about to commit or to restore them; a patch that was answered is there
  (`Patched`). The Core and the patch are excepted once a call read or committed the
  profiles amid the change of another (`crossed`, as in the property; section 5). There is
  one lemma per action and kind of call, on lemmas that say what the step of one call
  leaves of all the others.
- `GroupsServed`, by `GroupsInv`: list and file agree unless an edit, under `io`, is about
  to publish, or the list was begun without the file (`ListIsStored`); nothing is sent
  before the scheduler listens (`NothingSent`), and it holds the tasks of the enabled
  groups of the list that was sent unless it has news to take (`TasksAreHeld`); a group
  found on a node is switched once (`SwitchesAreDue`), since without a tie one node is the
  fastest (`FastestIsOne`). The threshold is any number.

**FilesProofs** and **ApplicationProofs.** One part of `MCFiles` at a time. In `FilesProofs`:

- `FilesAreKept`, by `FilesInv`: what memory and `profiles.yaml` list has its file, and a
  creation, a deletion and a refresh under way list nothing that is not there
  (`MakerFollows`, `DeleterFollows`); an item that has gone comes back to no list
  (`Gone`), which is why a save may leave its file alone; a save knows whether its item
  is of the profile that is current (`SaveFollows`), and an update that another call
  began has the files that were accepted (`CoreFollows`).
- `ProvidersHold`, by `ProviderInv` and `BundleFits`. What a pass has read is of the
  download in the cache as long as the writer is away and the time of the cache is the
  one that was read; if not, the time will be another when the pass looks again, since
  `RUNTIME_PROVIDER_SETTLE` has passed since the time that was read and a write takes
  less (`Holds`, `CacheFollows`). The invariant showed that the property was too strong:
  with two changes of configuration (the run has one) a pass may begin on the copy of a
  configuration that is applied and not yet committed, read it while that one is
  committed, and publish it after the next configuration took the Core back to the URL
  the pass began with, in the same session. `publish_fetched` compares the URL and the
  session, and cannot tell. The model records it as `taken_back`, the property excepts
  it, and TLC agrees with two changes and with one or two downloads.

In `ApplicationProofs`:

- `StartsHold`, by `StartInv`: who has the lock file open has the one of the directory
  (`LockFollows`), so that nobody holds another; while one process rebuilds the directory
  nobody is in it, and the two directories have the data between them
  (`RebuildFollows`); otherwise the directory is as it was found (`DirectoryFollows`).
  The exceptions are those of the properties: a death or a failed undo, a start that
  went into a directory being rebuilt, a token that was created and not written.
- `BackupsHold`, by `BackupInv`: the lock is with the one automatic backup under way
  (`LockIsHeld`), which began long enough after the last (`Spaced`) and is one too many
  until it has cleaned up (`FewKept`, on lemmas about the number of archives that are
  left once those of `leftover` are set aside); clients, and who makes one, have the
  credentials of the settings while none are saved and none got past a reset (`Current`).
- `UpgradesCanBeRetried`, `UpdatesAreSound`, `MovesKeepTheApplication`, together
  `ReleasesHold`: where the files of the Core are at each step of an upgrade
  (`UpgradeFollows`), what its failure leaves (`Retriable`) and what a Service that was
  found running the Core was handed (`Delivered`), however the Core moves; that disabled updates leave a cache only to a cycle at work on it,
  which discards it when it finishes (`UpdaterInv`); that a process which set the
  application aside still has it until it is back (`BackupsHeld`, `DestinationOwed`,
  `EarlierKept`).

- `TrafficHolds`, by `TrafficInv`. The sums of the model are folds of the community modules
  over finite sets, values of a function chosen on the subsets of a set; the lemmas about
  them (`TotalStep`, `TotalGrows`, `TotalAdds`, `TotalAt`) take a smallest subset on which
  they would fail. Each connection has a mark, where the collector counts from: what it
  has seen, or what it is about to see (`Marks`). The days, and each save of them that is
  kept or on its way, *fit*: with what had moved before a starting point they sum up to no
  more than the marks do (`DaysFit`, `FileFits`, `LoopFits`, `ClearFits`). The starting
  points are the beginning and the last clearing that stays, and while a clearing is under
  way also the one it is going to be (`ClearingFits`). A poll moves the marks by what it
  adds to the days (`FitsCounted`); everything else moves them on or drops days.

**Only model-checked**: the liveness properties `SettledReturns`, `ModifiersReturn`,
`DeadSidecarIsNoticed` and `LostServiceCoreIsNoticed`, and the absence of deadlocks.
Liveness under fairness and `ENABLED` are out of the prover's reach, as are the library's
induction theorems, whose parameter is an operator; an induction over subsets or numbers is
done with a smallest counterexample instead. `RECURSIVE` operators are not used. Every
invariant and every action property that a passing run checks is a theorem.

## 7. Not modelled

- Lifecycle: the Windows watcher that hands a Sidecar over to a Service that became
  ready (it only runs when TUN was switched on while a Sidecar was starting);
  clearing of logs; the queue before `config_update_in_progress`; a start reply
  without session data, which is a refused one here; a kill that only warns.
- Configuration: the debounce of unforced updates; the writers of `verge.yaml` beside
  the calls of `ConfigUpdate`: `save_webdav_config`, and a restore, whose patch does not
  save (`not_save_file`, `feat/backup.rs:81`; nobody else passes it) since it wrote the file
  before. Drafts: a `with_data_modify`
  whose future is dropped while it waits.
- Proxy: network services of macOS that come and go, hosts, ports and bypass lists.
- Ports: link-local addresses, a bind scope that changes within one save, answers
  of the probe other than free and taken.
- Profiles: reordering, viewing, importing from the clipboard; delays of nodes;
  the history of automatic switching.
- Enhancement: the other fields, the text of YAML and the run of JavaScript.
- Windows: size and position, the macOS hide of `feat/window.rs`, the dock; the
  functions behind hotkeys, the macOS system hotkeys.
- Files: security descriptors, permissions, chunks and paths of providers, geodata,
  the contents of an archive, the dialogs of a relocation.
- Left out altogether: `core/proxy_view.rs` and `feat/proxy.rs` (a read-only
  projection), `core/tray`, the limiter (one compare-and-swap on a clock, a choice
  in `Windows`), settings types, start-up wiring, OS utilities, the support crates,
  packaging and scripts, and the TypeScript front end, which appears here as the
  caller of the commands and the receiver of the run state.

## 8. Plan

The Windows hand-over watcher in `CoreLifecycle`.
