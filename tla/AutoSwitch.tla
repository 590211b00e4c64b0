------------------------------ MODULE AutoSwitch ------------------------------
(***************************************************************************)
(* Automatic switching of nodes (module::auto_switch): the list of groups  *)
(* and its file, the scheduler that follows the list, one loop for each    *)
(* enabled group, runs asked for by hand, and the decision a run takes.    *)
(***************************************************************************)
EXTENDS Naturals, FiniteSets

CONSTANTS
  Ids, Editors, Nodes, None,
  Delay,            \* [Nodes -> Nat]: what a test of each node measures
  Timeout,          \* a test that takes as long, or 0, has failed
  Threshold,        \* threshold_ms
  MaxEdits,         \* bound: edits of the list
  MaxPicks          \* bound: nodes the user picks

VARIABLES
  listed,           \* [Ids -> "gone", "off" or "on"]: groups in memory
  stored,           \* the same in auto-switch.yaml
  loadedOnce,       \* loaded
  io,               \* the holder of the io lock
  edits,            \* [Editors -> edit under way]
  edited,           \* number of edits
  unread,           \* the list in memory took no account of the file, kept to state a property
  scheduler,        \* "off", or "on" once ensure_runner has spawned it
  sent,             \* the list in the watch channel
  news,             \* the scheduler has not seen it
  handles,          \* groups the scheduler holds a task for
  loops,            \* [Ids -> what the task of each group does]
  runs,             \* [Ids -> what run_once does]
  running,          \* groups with a run in progress
  blinked,          \* groups that were off between two looks of the scheduler, kept likewise
  seen,             \* the node each run has read, or None: nothing read yet
  node,             \* the node each group is on in the Core
  switched,         \* switches of each group, kept likewise
  picks             \* nodes the user has picked

avars == <<listed, stored, loadedOnce, io, edits, edited, unread, scheduler, sent, news, handles,
           loops, runs, running, blinked, seen, node, switched, picks>>
list == <<listed, stored, loadedOnce, io, edits, edited, unread>>
schedule == <<scheduler, sent, news, handles>>
core == <<seen, node, switched, picks>>

NoEdit == [step |-> "none", next |-> <<>>]

Init ==
  /\ stored \in [Ids -> {"off", "on"}]
  /\ listed = [i \in Ids |-> "gone"]
  /\ loadedOnce = FALSE
  /\ io = None
  /\ edits = [e \in Editors |-> NoEdit]
  /\ edited = 0
  /\ unread = FALSE
  /\ scheduler = "off"
  /\ sent = [i \in Ids |-> "gone"]
  /\ news = FALSE
  /\ handles = {}
  /\ loops = [i \in Ids |-> "none"]
  /\ runs = [i \in Ids |-> "none"]
  /\ running = {}
  /\ blinked = {}
  /\ node \in [Ids -> Nodes]
  /\ switched = [i \in Ids |-> 0]
  /\ seen = [i \in Ids |-> None]
  /\ picks = 0

-----------------------------------------------------------------------------
(* The list: init, replace_all, upsert, patch, delete *)

\* replace_in_memory: a watch channel without a receiver takes no value, and the scheduler
\* is the only one.
ReplaceInMemory(groups) ==
  /\ listed' = groups
  /\ sent' = IF scheduler = "on" THEN groups ELSE sent

\* ensure_runner; the task it spawns looks at the channel before it waits for news.
EnsureRunner == scheduler' = "on" /\ news' = TRUE

\* init comes late in start-up, after the window is open.  A file that cannot be read
\* counts as an empty one.
Start ==
  /\ io = None
  /\ scheduler = "off"
  /\ IF loadedOnce THEN UNCHANGED <<listed, sent, unread>>
     ELSE \/ ReplaceInMemory(stored) /\ UNCHANGED unread
          \/ ReplaceInMemory([i \in Ids |-> "gone"]) /\ unread' = TRUE
  /\ loadedOnce' = TRUE
  /\ EnsureRunner
  /\ UNCHANGED <<stored, io, edits, edited, handles, loops, runs, running, blinked, core>>

\* An edit computes the next list before it asks for the lock.
EditBegins(e, i, to) ==
  /\ edits[e] = NoEdit
  /\ edited < MaxEdits
  /\ edited' = edited + 1
  /\ edits' = [edits EXCEPT ![e] = [step |-> "waiting", next |-> [listed EXCEPT ![i] = to]]]
  /\ UNCHANGED <<listed, stored, loadedOnce, io, unread, schedule, loops, runs, running, blinked, core>>

\* From now on init does not read the file.
EditLocks(e) ==
  /\ edits[e].step = "waiting"
  /\ io = None
  /\ io' = e
  /\ loadedOnce' = TRUE
  /\ unread' = (unread \/ ~loadedOnce)
  /\ edits' = [edits EXCEPT ![e].step = "saving"]
  /\ UNCHANGED <<listed, stored, edited, schedule, loops, runs, running, blinked, core>>

\* Mutation of EditSaves: a list that cannot be saved is published all the same.
EditSavesRegardless(e) ==
  /\ edits[e].step = "saving"
  /\ \/ stored' = edits[e].next
     \/ UNCHANGED stored
  /\ edits' = [edits EXCEPT ![e].step = "publishing"]
  /\ UNCHANGED <<listed, loadedOnce, edited, unread, io, schedule, loops, runs, running, blinked, core>>

EditSaves(e) ==
  /\ edits[e].step = "saving"
  /\ \/ stored' = edits[e].next /\ edits' = [edits EXCEPT ![e].step = "publishing"] /\ UNCHANGED io
     \/ edits' = [edits EXCEPT ![e] = NoEdit] /\ io' = None /\ UNCHANGED stored
  /\ UNCHANGED <<listed, loadedOnce, edited, unread, schedule, loops, runs, running, blinked, core>>

\* A group that is enabled again before the scheduler has seen it disabled keeps its task,
\* which may have ended meanwhile.
EditPublishes(e) ==
  /\ edits[e].step = "publishing"
  /\ ReplaceInMemory(edits[e].next)
  /\ unread' = FALSE
  /\ blinked' = blinked \cup {i \in handles : news /\ listed[i] # "on" /\ listed'[i] = "on"}
  /\ edits' = [edits EXCEPT ![e] = NoEdit]
  /\ io' = None
  /\ EnsureRunner
  /\ UNCHANGED <<stored, loadedOnce, edited, handles, loops, runs, running, core>>

-----------------------------------------------------------------------------
(* run_scheduler *)

Enabled == {i \in Ids : sent[i] = "on"}

\* Mutation of SchedulerLooks: the handle of an aborted task stays in the map.
SchedulerKeepsHandles ==
  /\ scheduler = "on" /\ news
  /\ news' = FALSE
  /\ LET aborted == handles \ Enabled
     IN /\ handles' = handles \cup Enabled
        /\ loops' = [i \in Ids |-> IF i \in aborted THEN "none"
                                   ELSE IF i \in Enabled \ handles THEN "delaying" ELSE loops[i]]
        /\ running' = {i \in running : i \notin aborted \/ loops[i] # "executing"}
        /\ seen' = [i \in Ids |-> IF i \in aborted THEN None ELSE seen[i]]
  /\ UNCHANGED <<list, scheduler, sent, runs, blinked, node, switched, picks>>

\* It sees the last list only: tasks of groups that are not enabled are aborted,
\* which frees the guard of a run in progress, and the others get a task.
SchedulerLooks ==
  /\ scheduler = "on" /\ news
  /\ news' = FALSE
  /\ LET aborted == handles \ Enabled
     IN /\ handles' = Enabled
        /\ loops' = [i \in Ids |-> IF i \in aborted THEN "none"
                                   ELSE IF i \in Enabled \ handles THEN "delaying" ELSE loops[i]]
        /\ LET cut == {i \in aborted : loops[i] = "executing"}
           IN running' = running \ cut /\ seen' = [i \in Ids |-> IF i \in cut THEN None ELSE seen[i]]
        /\ blinked' = blinked \ aborted
  /\ UNCHANGED <<list, scheduler, sent, runs, node, switched, picks>>

-----------------------------------------------------------------------------
(* group_loop and execute_group *)

\* After each delay, and after each run, a group that is no longer enabled ends the
\* task; the scheduler is not told.
LoopLooks(i) ==
  /\ loops[i] \in {"delaying", "checking"}
  /\ loops' = [loops EXCEPT ![i] = IF listed[i] # "on" THEN "ended"
                                    ELSE IF @ = "delaying" THEN "starting" ELSE "delaying"]
  /\ UNCHANGED <<list, schedule, runs, running, blinked, core>>

\* Mutation of LoopRuns: the run does not look whether another is in progress.
LoopRunsRegardless(i) ==
  /\ loops[i] = "starting"
  /\ running' = running \cup {i}
  /\ loops' = [loops EXCEPT ![i] = "executing"]
  /\ UNCHANGED <<list, schedule, runs, blinked, core>>

LoopRuns(i) ==
  /\ loops[i] = "starting"
  /\ running' = running \cup {i}
  /\ loops' = [loops EXCEPT ![i] = IF i \in running THEN "checking" ELSE "executing"]
  /\ UNCHANGED <<list, schedule, runs, blinked, core>>

RunOnce(i) ==
  /\ runs[i] = "none"
  /\ running' = running \cup {i}
  /\ runs' = [runs EXCEPT ![i] = IF i \in running THEN @ ELSE "executing"]
  /\ UNCHANGED <<list, schedule, loops, blinked, core>>

Measured(n) == Delay[n] # 0 /\ Delay[n] < Timeout

\* The nodes that may come first: sorting by delay keeps the order in which the tests of equals
\* ended, and measure_delays tests every node, ten at a time, so that they end in any order.
Fastest == {n \in Nodes : Measured(n) /\ \A m \in Nodes : Measured(m) => Delay[n] <= Delay[m]}

\* Mutation of Decision: the best node wins whatever it gains.
DecisionTakesBest(now, best) == best

\* decide_auto_switch: the node to be on.
Decision(now, best) ==
  IF Measured(now) /\ Delay[now] - Delay[best] < Threshold THEN now ELSE best

Running(i) == "executing" \in {loops[i], runs[i]}

\* execute_group_inner reads the node and the members of the target group first.
Views(i) ==
  /\ Running(i)
  /\ seen[i] = None
  /\ seen' = [seen EXCEPT ![i] = node[i]]
  /\ UNCHANGED <<list, schedule, loops, runs, running, blinked, node, switched, picks>>

\* The run switches, after the tests, by what it has read; without a measurement it is skipped.
Switches(i) ==
  /\ seen[i] # None
  /\ \E to \in IF Fastest = {} THEN {seen[i]} ELSE {Decision(seen[i], n) : n \in Fastest} :
       /\ node' = [node EXCEPT ![i] = IF to = seen[i] THEN @ ELSE to]
       /\ switched' = [switched EXCEPT ![i] = IF node' = node THEN @ ELSE @ + 1]

\* A run may also fail, before or after the Core has switched.
Ends(i) ==
  /\ Switches(i) \/ UNCHANGED <<node, switched>>
  /\ running' = running \ {i}
  /\ seen' = [seen EXCEPT ![i] = None]

LoopEnds(i) ==
  /\ loops[i] = "executing"
  /\ Ends(i)
  /\ loops' = [loops EXCEPT ![i] = "checking"]
  /\ UNCHANGED <<list, schedule, runs, blinked, picks>>

RunOnceEnds(i) ==
  /\ runs[i] = "executing"
  /\ Ends(i)
  /\ runs' = [runs EXCEPT ![i] = "none"]
  /\ UNCHANGED <<list, schedule, loops, blinked, picks>>

\* The user picks a node of the group meanwhile.
Pick(i, n) ==
  /\ picks < MaxPicks
  /\ picks' = picks + 1
  /\ node' = [node EXCEPT ![i] = n]
  /\ UNCHANGED <<list, schedule, loops, runs, running, blinked, seen, switched>>

-----------------------------------------------------------------------------
Next ==
  \/ Start \/ SchedulerLooks
  \/ \E e \in Editors : EditLocks(e) \/ EditSaves(e) \/ EditPublishes(e)
  \/ \E e \in Editors, i \in Ids, to \in {"gone", "off", "on"} : EditBegins(e, i, to)
  \/ \E i \in Ids : LoopLooks(i) \/ LoopRuns(i) \/ LoopEnds(i) \/ RunOnce(i)
                 \/ RunOnceEnds(i) \/ Views(i)
  \/ \E i \in Ids, n \in Nodes : Pick(i, n)

AutoSwitchSpec == Init /\ [][Next]_avars

-----------------------------------------------------------------------------
\* A group has at most one run in progress, by its task or by hand, and the mark
\* that says so outlives no run, aborted ones included (RunningGuard).
RunningIsExact ==
  /\ running = {i \in Ids : loops[i] = "executing" \/ runs[i] = "executing"}
  /\ \A i \in Ids : ~(loops[i] = "executing" /\ runs[i] = "executing")

\* Whenever nobody holds the io lock the file holds the list in memory, edits that
\* failed included, unless the list was begun without the file, because it could not be
\* read or an edit came before init (persist_and_publish).
FileHoldsGroups == io = None /\ loadedOnce /\ ~unread => stored = listed

\* When the scheduler has seen the list in memory, exactly the enabled groups have a task at
\* work, however late the tasks see that they are disabled; a group that was disabled and
\* enabled again between two looks of the scheduler is excepted (run_scheduler).
EnabledGroupIsServed ==
  scheduler = "on" /\ ~news /\ sent = listed =>
    \A i \in Ids \ blinked : (listed[i] = "on") = (loops[i] \notin {"none", "ended"})

\* The groups in memory are "periodically" tested once the scheduler is at rest, those that
\* were loaded at start-up included (init, run_scheduler).
LoadedGroupsAreServed ==
  scheduler = "on" /\ ~news => \A i \in Ids : listed[i] = "on" => i \in handles

\* Without a threshold nodes that are equally fast take turns.
Tied == Threshold = 0 /\ Cardinality(Fastest) > 1

\* While the delays stay what they are a group is switched once, and once more for
\* each node the user picks: the next runs keep the node, in whatever order their
\* tests end and however late they act on what they read; a tie without a threshold is
\* excepted (decide_auto_switch).
SettlesAtOnce == Tied \/ \A i \in Ids : switched[i] <= 1 + picks
=============================================================================
