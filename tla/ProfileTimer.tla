------------------------------ MODULE ProfileTimer ------------------------------
(***************************************************************************)
(* The scheduler of profile updates (core::timer) with what feeds it: the  *)
(* settings of the profiles, which the user edits and which a finished     *)
(* update writes back (feat::profile, config::profiles).  Refreshes of the *)
(* schedule reach the scheduler through a channel; delays are abstract, an *)
(* armed key may expire at any time.                                       *)
(***************************************************************************)
EXTENDS Naturals, Sequences, FiniteSets

CONSTANTS
  Uids, Intervals, None,
  MaxEdits,         \* bound: edits and deletions by the user
  MaxUpdates        \* bound: updates started, by the timer or by hand

VARIABLES
  settings,         \* [Uids -> [allow, interval]], or Gone: the committed profiles
  timer_map,        \* the intervals the last refresh published
  commands,         \* the channel to the scheduler
  tasks,            \* [Uids -> task of the scheduler], or NoTask
  refresh,          \* the holder of refresh_lock: what it has read
  refreshes,        \* calls of refresh not yet begun
  updates,          \* updates in flight
  started,          \* number of updates started
  editor            \* the edit under way, and the number of edits made

scheduler == <<commands, tasks>>
refreshing == <<timer_map, refresh, refreshes>>
tvars == <<settings, timer_map, scheduler, refresh, refreshes, updates, started, editor>>

Gone == [here |-> FALSE, allow |-> FALSE, interval |-> None]
NoTask == [armed |-> FALSE, interval |-> None, running |-> FALSE, retired |-> FALSE]
NoRefresh == [step |-> "none", map |-> <<>>]
NoEdit == [step |-> "none", uid |-> None, to |-> Gone, changes |-> FALSE]

Exists(u) == tasks[u].interval # None
Settings == [here : {TRUE}, allow : BOOLEAN, interval : Intervals \cup {None}]

\* gen_map_from_items; an interval of 0 counts as none
Schedule(items) ==
  [u \in {v \in Uids : items[v].allow /\ items[v].interval # None} |-> items[u].interval]

Init ==
  /\ settings \in [Uids -> Settings]
  /\ timer_map = <<>>
  /\ commands = <<>>
  /\ tasks = [u \in Uids |-> NoTask]
  /\ refresh = NoRefresh
  /\ refreshes = 1
  /\ updates = {}
  /\ started = 0
  /\ editor = [edit |-> NoEdit, made |-> 0]

-----------------------------------------------------------------------------
(* refresh: one at a time, it reads the committed profiles, then publishes *)

RefreshReads ==
  /\ refreshes > 0
  /\ refresh = NoRefresh
  /\ refreshes' = refreshes - 1
  /\ refresh' = [step |-> "read", map |-> Schedule(settings)]
  /\ UNCHANGED <<settings, timer_map, scheduler, updates, started, editor>>

RefreshPublishes ==
  /\ refresh # NoRefresh
  /\ refresh' = NoRefresh
  /\ timer_map' = refresh.map
  /\ commands' = IF refresh.map = timer_map THEN commands
                 ELSE Append(commands, [kind |-> "Apply", map |-> refresh.map])
  /\ UNCHANGED <<settings, tasks, refreshes, updates, started, editor>>

\* Timer::init runs what is overdue, behind the first schedule it has published.
RunOverdue(u) ==
  /\ started = 0 /\ editor.made = 0
  /\ u \in DOMAIN timer_map
  /\ ~\E i \in 1..Len(commands) : commands[i].kind = "RunNow"
  /\ commands' = Append(commands, [kind |-> "RunNow", uid |-> u])
  /\ UNCHANGED <<settings, refreshing, tasks, updates, started, editor>>

-----------------------------------------------------------------------------
(* The scheduler *)

Armed(interval) == [armed |-> TRUE, interval |-> interval, running |-> FALSE, retired |-> FALSE]

\* Mutation of Applied: a task that is no longer wanted goes at once.
AppliedDropsAll(map) ==
  [u \in Uids |->
     IF u \notin DOMAIN map THEN NoTask
     ELSE IF ~Exists(u) THEN Armed(map[u])
     ELSE [tasks[u] EXCEPT !.retired = FALSE, !.interval = map[u]]]

\* Mutation of Applied: a profile enabled again stays retired.
AppliedStaysRetired(map) ==
  [u \in Uids |->
     IF u \notin DOMAIN map
     THEN IF tasks[u].running THEN [tasks[u] EXCEPT !.armed = FALSE, !.retired = TRUE] ELSE NoTask
     ELSE IF ~Exists(u) THEN Armed(map[u])
     ELSE [tasks[u] EXCEPT !.interval = map[u]]]

\* apply_timer_map.  A task that is running is retired, not removed.
Applied(map) ==
  [u \in Uids |->
     IF u \notin DOMAIN map
     THEN IF tasks[u].running THEN [tasks[u] EXCEPT !.armed = FALSE, !.retired = TRUE] ELSE NoTask
     ELSE IF ~Exists(u) THEN Armed(map[u])
     ELSE [tasks[u] EXCEPT !.retired = FALSE, !.interval = map[u],
             !.armed = @ \/ (~tasks[u].running /\ tasks[u].interval # map[u])]]

Spawn(u, by) ==
  /\ started < MaxUpdates
  /\ started' = started + 1
  /\ updates' = updates \cup {[id |-> started, uid |-> u, by |-> by, step |-> "spawned", read |-> Gone]}

TakeCommand(kind) == commands # <<>> /\ Head(commands).kind = kind /\ commands' = Tail(commands)

Apply ==
  /\ TakeCommand("Apply")
  /\ tasks' = Applied(Head(commands).map)
  /\ UNCHANGED <<settings, refreshing, updates, started, editor>>

\* mark_task_running
Run(u) ==
  IF tasks[u].running
  THEN tasks' = [tasks EXCEPT ![u].armed = @] /\ UNCHANGED <<updates, started>>
  ELSE /\ tasks' = [tasks EXCEPT ![u].armed = FALSE, ![u].running = TRUE]
       /\ Spawn(u, "timer")

RunNow ==
  /\ TakeCommand("RunNow")
  /\ LET u == Head(commands).uid
     IN IF Exists(u) THEN Run(u) ELSE UNCHANGED <<tasks, updates, started>>
  /\ UNCHANGED <<settings, refreshing, editor>>

RunExpired(u) ==
  /\ tasks[u].armed
  /\ Run(u)
  /\ UNCHANGED <<settings, refreshing, commands, editor>>

\* A retired task is removed, any other is armed again.
FinishTask ==
  /\ TakeCommand("TaskFinished")
  /\ LET u == Head(commands).uid
     IN tasks' = CASE ~Exists(u) -> tasks
                   [] tasks[u].retired -> [tasks EXCEPT ![u] = NoTask]
                   [] OTHER -> [tasks EXCEPT ![u] = Armed(tasks[u].interval)]
  /\ UNCHANGED <<settings, refreshing, updates, started, editor>>

-----------------------------------------------------------------------------
(* update_profile *)

Replace(x, y) == updates' = (updates \ {x}) \cup {y}

Report(x) ==
  /\ updates' = updates \ {x}
  /\ commands' = IF x.by = "timer" THEN Append(commands, [kind |-> "TaskFinished", uid |-> x.uid])
                 ELSE commands

UpdateByHand(u) ==
  /\ settings[u] # Gone
  /\ Spawn(u, "user")
  /\ UNCHANGED <<settings, refreshing, scheduler, editor>>

\* should_update_profile takes the settings the download will return with.
UpdateStarts(x) ==
  /\ x.step = "spawned"
  /\ IF settings[x.uid] = Gone \/ (x.by = "timer" /\ ~settings[x.uid].allow)
     THEN Report(x)
     ELSE Replace(x, [x EXCEPT !.step = "downloading", !.read = settings[x.uid]]) /\ UNCHANGED commands
  /\ UNCHANGED <<settings, refreshing, tasks, started, editor>>

\* After three attempts the update fails and leaves the profile as it is.
DownloadFails(x) ==
  /\ x.step = "downloading"
  /\ Report(x)
  /\ UNCHANGED <<settings, refreshing, tasks, started, editor>>

\* update_item merges what from_url returns over the settings: the flag always,
\* the interval when there was one or the provider proposes one.
Merged(u, read, proposed) ==
  LET interval == IF read.interval # None THEN read.interval ELSE proposed
  IN [settings[u] EXCEPT !.allow = read.allow,
                         !.interval = IF interval # None THEN interval ELSE @]

UpdateLands(x, proposed) ==
  /\ x.step = "downloading"
  /\ settings' = IF settings[x.uid] = Gone THEN settings
                 ELSE [settings EXCEPT ![x.uid] = Merged(x.uid, x.read, proposed)]
  /\ Report(x)
  /\ UNCHANGED <<refreshing, tasks, started, editor>>

-----------------------------------------------------------------------------
(* The user: patch_profile and delete_profile *)

EditBegins(u, to) ==
  /\ editor.edit = NoEdit
  /\ editor.made < MaxEdits
  /\ settings[u] # Gone
  /\ editor' = [edit |-> [step |-> "compared", uid |-> u, to |-> to, changes |-> settings[u] # to],
                made |-> editor.made + 1]
  /\ UNCHANGED <<settings, refreshing, scheduler, updates, started>>

EditLands ==
  /\ editor.edit.step = "compared"
  /\ LET e == editor.edit
     IN /\ settings' = [settings EXCEPT ![e.uid] = e.to]
        /\ refreshes' = IF e.changes THEN refreshes + 1 ELSE refreshes
  /\ editor' = [editor EXCEPT !.edit = NoEdit]
  /\ UNCHANGED <<timer_map, refresh, scheduler, updates, started>>

-----------------------------------------------------------------------------
Next ==
  \/ RefreshReads \/ RefreshPublishes
  \/ Apply \/ RunNow \/ FinishTask
  \/ \E u \in Uids : RunOverdue(u) \/ RunExpired(u) \/ UpdateByHand(u)
  \/ \E x \in updates : UpdateStarts(x) \/ DownloadFails(x)
  \/ \E x \in updates, i \in Intervals \cup {None} : UpdateLands(x, i)
  \/ \E u \in Uids, to \in Settings \cup {Gone} : EditBegins(u, to)
  \/ EditLands

TimerSpec == Init /\ [][Next]_tvars

-----------------------------------------------------------------------------
\* The timer never has two updates of one profile in flight, however often the
\* profile is disabled, deleted and enabled again meanwhile (TaskState.retired); once
\* the channel is drained it serves exactly the published schedule: each profile of it
\* has a task with that interval, armed or running, and nothing else is armed
\* (apply_timer_map, finish_task).
ScheduleIsServed ==
  /\ \A x, y \in updates : x.by = "timer" /\ y.by = "timer" /\ x.uid = y.uid => x = y
  /\ commands = <<>> =>
       \A u \in Uids :
         IF u \in DOMAIN timer_map
         THEN /\ tasks[u].interval = timer_map[u]
              /\ ~tasks[u].retired
              /\ tasks[u].armed \/ tasks[u].running
         ELSE ~tasks[u].armed
=============================================================================
