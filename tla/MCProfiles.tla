------------------------------- MODULE MCProfiles -------------------------------
(***************************************************************************)
(* Instances for TLC of the modules about profiles and the nodes in their  *)
(* groups.  They share no state that is modelled; a behaviour is one of one *)
(* of them, the state of the others is left at 0.                          *)
(***************************************************************************)
EXTENDS Naturals, Sequences, FiniteSets, TLC

CONSTANTS
  Profiles, Nodes, Groups, None, p, q, g, n1, n2,              \* SelectedNodes
  MaxActivations, MaxMoves, MaxSwitches, MaxStarts, MaxRequestFailures,
  Uids, Intervals, MaxEdits, MaxUpdates,                       \* ProfileTimer
  Callers, MaxFailures,                                        \* ProfileSwitch
  Ids, Editors, m1, m2, m3, Timeout, Threshold, MaxListEdits, MaxPicks,    \* AutoSwitch
  Parts             \* the modules a run looks at

VARIABLES
  part,             \* the module this behaviour is one of
  current, recorded, chosen, misread, core_running, proxies, generation, waiting, worker,
  user, profile_switch, spent,
  settings, timer_map, commands, tasks, refresh, refreshes, updates, started, editor,
  profiles, staged, file, loaded, switching, writing, permit, updating, calls, failures,
  crossed,
  listed, stored, loadedOnce, io, edits, edited, unread, scheduler, sent, news, handles,
  loops, runs, runs_marked, blinked, seen, group_node, switched, picks

\* The profile q has only one of the two nodes of p.
Offered == p :> (g :> {n1, n2}) @@ q :> (g :> {n2})

\* Two nodes are as fast, the third does not answer.
Measured == [n \in {m1, m2, m3} |-> IF n = m3 THEN 0 ELSE 10]

Selection == INSTANCE SelectedNodes
  WITH Offer <- Offered, running <- core_running, switch <- profile_switch,
       MaxFailures <- MaxRequestFailures
Timer == INSTANCE ProfileTimer
Switch == INSTANCE ProfileSwitch
Groupwise == INSTANCE AutoSwitch
  WITH running <- runs_marked, node <- group_node, Nodes <- {m1, m2, m3},
       MaxEdits <- MaxListEdits, Delay <- Measured

\* threshold_ms is unsigned.
ASSUME ThresholdAssumption == Threshold \in Nat

ASSUME PartsAssumption ==
  /\ Parts \subseteq {"selection", "timer", "switch", "groups"}
  /\ None \notin Profiles \cup Nodes \cup {m1, m2, m3} \cup Intervals \cup Ids \cup Editors
               \cup Callers

\* A profile offers nodes for each group, and a draft of the profiles is not None.
ASSUME OfferAssumption ==
  \A pr \in Profiles, gr \in Groups : Offered[pr][gr] \subseteq Nodes
ASSUME DraftAssumption ==
  None \notin Seq([current : Profiles \cup {None},
                   items : [Profiles -> {"plain", "patched", "gone"}], version : Nat])

selection_vars == <<current, recorded, chosen, misread, core_running, proxies, generation,
                    waiting, worker, user, profile_switch, spent>>
timer_vars == <<settings, timer_map, commands, tasks, refresh, refreshes, updates,
                started, editor>>
switch_vars == <<profiles, staged, file, loaded, switching, writing, permit, updating,
                 calls, failures, crossed>>
groups_vars == <<listed, stored, loadedOnce, io, edits, edited, unread, scheduler, sent,
                 news, handles, loops, runs, runs_marked, blinked, seen, group_node, switched,
                 picks>>
mcvars == <<part, selection_vars, timer_vars, switch_vars, groups_vars>>

NoSelection ==
  /\ current = 0 /\ recorded = 0 /\ chosen = 0 /\ misread = 0 /\ core_running = 0 /\ proxies = 0
  /\ generation = 0 /\ waiting = 0 /\ worker = 0 /\ user = 0 /\ profile_switch = 0
  /\ spent = 0

NoTimer ==
  /\ settings = 0 /\ timer_map = 0 /\ commands = 0 /\ tasks = 0 /\ refresh = 0
  /\ refreshes = 0 /\ updates = 0 /\ started = 0 /\ editor = 0

NoSwitch ==
  /\ profiles = 0 /\ staged = 0 /\ file = 0 /\ loaded = 0 /\ switching = 0
  /\ writing = 0 /\ permit = 0 /\ updating = 0 /\ calls = 0 /\ failures = 0
  /\ crossed = 0

NoGroupwise ==
  /\ listed = 0 /\ stored = 0 /\ loadedOnce = 0 /\ io = 0 /\ edits = 0 /\ edited = 0
  /\ unread = 0 /\ scheduler = 0 /\ sent = 0 /\ news = 0 /\ handles = 0 /\ loops = 0 /\ runs = 0
  /\ runs_marked = 0 /\ blinked = 0 /\ seen = 0 /\ group_node = 0 /\ switched = 0
  /\ picks = 0

Init ==
  /\ part \in Parts
  /\ IF part = "selection" THEN Selection!Init ELSE NoSelection
  /\ IF part = "timer" THEN Timer!Init ELSE NoTimer
  /\ IF part = "switch" THEN Switch!Init ELSE NoSwitch
  /\ IF part = "groups" THEN Groupwise!Init ELSE NoGroupwise

\* Switches of a profile must not wait for each other for ever; the other modules stop when
\* their bounds are used up.
Next ==
  \/ /\ part = "selection" /\ Selection!Next
     /\ UNCHANGED <<part, timer_vars, switch_vars, groups_vars>>
  \/ /\ part = "timer" /\ Timer!Next
     /\ UNCHANGED <<part, selection_vars, switch_vars, groups_vars>>
  \/ /\ part = "switch" /\ Switch!Next
     /\ UNCHANGED <<part, selection_vars, timer_vars, groups_vars>>
  \/ /\ part = "groups" /\ Groupwise!Next
     /\ UNCHANGED <<part, selection_vars, timer_vars, switch_vars>>
  \/ part # "switch" /\ UNCHANGED mcvars

Spec == Init /\ [][Next]_mcvars

-----------------------------------------------------------------------------
\* A restoration never forgets a node the user chose (SelectedNodes).
ChoiceSurvives == part = "selection" => Selection!ChoiceSurvives

\* The scheduler serves the published schedule, one update at a time (ProfileTimer).
ScheduleIsServed == part = "timer" => Timer!ScheduleIsServed

\* Once every call is over the Core runs the current profile, file and memory hold the same
\* profiles, and a patch that was answered is kept (ProfileSwitch).
ProfilesAreKept ==
  part = "switch" =>
    Switch!CoreRunsCurrentProfile /\ Switch!FileHoldsProfiles /\ Switch!PatchSurvives

\* Exactly the enabled groups of the list that was sent are switched, one run at a time and
\* no more often than it takes, and the file holds the list (AutoSwitch).
GroupsAreServed ==
  part = "groups" =>
    /\ Groupwise!EnabledGroupIsServed /\ Groupwise!RunningIsExact
    /\ Groupwise!SettlesAtOnce /\ Groupwise!FileHoldsGroups

\* What was loaded at start-up is served like what was edited (AutoSwitch).
LoadedGroupsAreServed == part = "groups" => Groupwise!LoadedGroupsAreServed
=============================================================================
