------------------------------ MODULE SelectedNodes ------------------------------
(***************************************************************************)
(* The nodes a profile has recorded for its groups and their restoration   *)
(* in the Core (config::profiles): activations are spawned by a switch of   *)
(* profile and by every start of the Core, each waits for the one before   *)
(* it, and a generation supersedes those that are out of date.  Meanwhile  *)
(* the user picks and forgets nodes, and provider-backed groups load late. *)
(***************************************************************************)
EXTENDS Naturals, Sequences

CONSTANTS
  Profiles, Nodes,
  Groups,           \* the groups one selects a node in; automatic groups are left out
  Offer,            \* the nodes each profile has for each group, {}: no such group
  None,
  MaxActivations,   \* bound: activations spawned
  MaxMoves,         \* bound: picks and forgets of the user
  MaxSwitches,      \* bound: switches of profile
  MaxStarts,        \* bound: starts of the Core
  MaxFailures       \* bound: requests to the Core that fail

VARIABLES
  current,          \* the committed profile
  recorded,         \* [Profiles -> [Groups -> node or None]]
  chosen,           \* the last choice of the user, kept to state the property
  misread,          \* [profile, group] records that were repaired by the groups of another
                    \* profile, kept likewise
  running,          \* the profile the Core has loaded
  proxies,          \* the groups the Core reports: [all, now]
  generation,       \* ACTIVATE_SELECTED_GENERATION
  waiting,          \* activations spawned, each waiting for the previous one
  worker,           \* the activation that runs, or NoWorker
  user,             \* what the user is doing
  switch,           \* the switch or deletion of a profile under way
  spent             \* how much of each bound is used

core == <<running, proxies>>
tasks == <<generation, waiting, worker>>
records == <<recorded, chosen, misread>>
vars == <<current, records, core, tasks, user, switch, spent>>

NoWorker == [step |-> "none"]
Idle == [step |-> "idle", group |-> None, node |-> None]
NoSwitch == [step |-> "none", to |-> None]
NoSnapshot == <<>>

Spend(bound, limit) == spent[bound] < limit /\ spent' = [spent EXCEPT ![bound] = @ + 1]

-----------------------------------------------------------------------------
(* What a snapshot of the groups says *)

Loaded(snapshot, g) == g \in DOMAIN snapshot /\ snapshot[g].all # {}
Available(snapshot, g, n) == g \in DOMAIN snapshot /\ n \in snapshot[g].all
CurrentNode(snapshot, g) ==
  IF snapshot[g].now \in snapshot[g].all THEN snapshot[g].now ELSE None

\* A group that is absent, still loading or without the node is looked at again.
NeedsConfirmation(selected, snapshot) ==
  \E g \in Groups : selected[g] # None /\ ~Available(snapshot, g, selected[g])

\* Mutation of Reconciled: one look is enough.
ReconciledAtOnce(selected, before, snapshot) ==
  [g \in Groups |->
     IF selected[g] = None \/ Available(snapshot, g, selected[g]) THEN selected[g]
     ELSE IF g \in DOMAIN snapshot THEN CurrentNode(snapshot, g) ELSE None]

\* A record goes only when two snapshots agree that the group, or the node in a
\* loaded group, is not there.
Reconciled(selected, before, snapshot) ==
  [g \in Groups |->
     LET n == selected[g] IN
     CASE n = None -> None
       [] g \notin DOMAIN snapshot ->
            IF before # NoSnapshot /\ g \notin DOMAIN before THEN None ELSE n
       [] ~Loaded(snapshot, g) -> n
       [] Available(snapshot, g, n) -> n
       [] OTHER ->
            IF before # NoSnapshot /\ Loaded(before, g) /\ n \notin before[g].all
            THEN CurrentNode(snapshot, g)
            ELSE n]

Activations(selected, snapshot) ==
  {g \in Groups :
     /\ selected[g] # None
     /\ Available(snapshot, g, selected[g])
     /\ snapshot[g].now # selected[g]}

Unsettled(selected, snapshot) ==
  {g \in Groups : selected[g] # None /\ ~(g \in DOMAIN snapshot /\ snapshot[g].now = selected[g])}

-----------------------------------------------------------------------------
\* A Core that loads a profile has its groups, those of a provider still empty.
Loading(p) ==
  {groups \in [{g \in Groups : Offer[p][g] # {}} -> [all : SUBSET Nodes, now : Nodes \cup {None}]] :
     \A g \in DOMAIN groups :
       \/ groups[g] = [all |-> {}, now |-> None]
       \/ groups[g].all = Offer[p][g] /\ groups[g].now \in Offer[p][g]}

Init ==
  /\ current \in Profiles
  /\ running = current
  /\ recorded \in [Profiles -> [Groups -> Nodes \cup {None}]]
  /\ chosen = recorded
  /\ misread = {}
  /\ proxies \in Loading(current)
  /\ generation = 1
  /\ waiting = <<[generation |-> 1, repair |-> "KeepRecords"]>>
  /\ worker = NoWorker
  /\ user = Idle
  /\ switch = NoSwitch
  /\ spent = [activations |-> 1, moves |-> 0, switches |-> 0, starts |-> 0, failures |-> 0]

\* A superseding call raises the generation; it waits for nobody.
Supersede == generation' = generation + 1

\* activate_selected_nodes_with: the new task takes the place of the last one and
\* awaits it.
Activate(repair) ==
  /\ generation' = generation + 1
  /\ waiting' = Append(waiting, [generation |-> generation + 1, repair |-> repair])

IsCurrent == worker.generation = generation

Finish == worker' = NoWorker
Fails == Spend("failures", MaxFailures)
Goto(step) == worker' = [worker EXCEPT !.step = step]

\* The profile is the committed one: a draft may be a switch still under validation.
TaskStarts ==
  /\ worker = NoWorker
  /\ waiting # <<>>
  /\ waiting' = Tail(waiting)
  /\ IF Head(waiting).generation # generation \/ \A g \in Groups : recorded[current][g] = None
     THEN UNCHANGED worker
     ELSE worker' = [step |-> "fetching", generation |-> generation,
                     repair |-> Head(waiting).repair, profile |-> current,
                     selected |-> recorded[current], before |-> NoSnapshot, elsewhere |-> FALSE,
                     kept |-> recorded[current],
                     pass |-> "first", todo |-> {}, done |-> {}, group |-> None]
  /\ UNCHANGED <<current, records, core, generation, user, switch, spent>>

\* The snapshot is of no use to a task that was superseded while it was fetched.
FetchFirst ==
  /\ worker.step = "fetching"
  /\ \/ /\ IF ~IsCurrent THEN Finish
           ELSE worker' = [worker EXCEPT !.step = "activating",
                             !.before = proxies, !.elsewhere = running # worker.profile,
                             !.kept = Reconciled(worker.selected, NoSnapshot, proxies),
                             !.todo = Activations(worker.selected, proxies)]
        /\ UNCHANGED spent
     \/ Fails /\ Finish
  /\ UNCHANGED <<current, records, core, generation, waiting, user, switch>>

\* The generation is checked before each request ...
SendSelect ==
  /\ worker.step = "activating"
  /\ \E g \in worker.todo :
       IF IsCurrent
       THEN worker' = [worker EXCEPT !.step = "selecting", !.group = g, !.todo = @ \ {g}]
       ELSE Finish
  /\ UNCHANGED <<current, records, core, generation, waiting, user, switch, spent>>

Select(g, n) ==
  proxies' = IF Available(proxies, g, n) THEN [proxies EXCEPT ![g].now = n] ELSE proxies

\* ... which the Core may take before it fails, and after it.
SelectLands ==
  /\ worker.step = "selecting"
  /\ LET it == worker.group
         answered == IF IsCurrent
                     THEN [worker EXCEPT !.step = "activating", !.group = None]
                     ELSE NoWorker
     IN \/ /\ Select(it, worker.selected[it])
           /\ worker' = IF IsCurrent THEN [answered EXCEPT !.done = @ \cup {it}] ELSE NoWorker
           /\ UNCHANGED spent
        \/ /\ Fails
           /\ Select(it, worker.selected[it]) \/ UNCHANGED proxies
           /\ worker' = answered
  /\ UNCHANGED <<current, records, running, generation, waiting, user, switch>>

\* The pass is over: look again, go on settling, or repair.
PassEnds ==
  /\ worker.step = "activating"
  /\ worker.todo = {}
  /\ CASE ~IsCurrent -> Finish
       [] worker.pass = "first" /\ NeedsConfirmation(worker.selected, worker.before) ->
            Goto("rechecking")
       [] worker.repair = "KeepRecords" -> Goto("settling")
       [] worker.kept # worker.selected -> Goto("repairing")
       [] OTHER -> Finish
  /\ UNCHANGED <<current, records, core, generation, waiting, user, switch, spent>>

\* The second look comes a second later; like the first it may be at the groups of a profile
\* that a switch has loaded and not committed.  A group that is still empty is not looked
\* at a third time.
FetchSecond ==
  /\ worker.step = "rechecking"
  /\ IF ~IsCurrent THEN Finish /\ UNCHANGED spent
     ELSE \/ /\ worker' = [worker EXCEPT !.step = "activating", !.pass = "second",
                             !.elsewhere = @ /\ running # worker.profile,
                             !.kept = Reconciled(worker.selected, worker.before, proxies),
                             !.todo = Activations(worker.selected, proxies) \ worker.done]
             /\ IF worker.repair = "Prune" /\ \E g \in DOMAIN proxies : ~Loaded(proxies, g)
                THEN Fails ELSE UNCHANGED spent
          \/ Fails /\ Finish
  /\ UNCHANGED <<current, records, core, generation, waiting, user, switch>>

\* settle_pending_selections: until nothing is pending; the deadline is a failure.
Settle ==
  /\ worker.step = "settling"
  /\ \/ /\ IF ~IsCurrent \/ Unsettled(worker.selected, proxies) = {} THEN Finish
           ELSE worker' = [worker EXCEPT !.step = "activating", !.pass = "second",
                             !.todo = Activations(worker.selected, proxies) \ worker.done]
        /\ UNCHANGED spent
     \/ Fails /\ Finish
  /\ UNCHANGED <<current, records, core, generation, waiting, user, switch>>

\* Nothing the Core could report any more will settle what is left.
SettleGivesUp ==
  /\ worker.step = "settling"
  /\ IsCurrent
  /\ \A g \in Unsettled(worker.selected, proxies) :
       IF g \in DOMAIN proxies
       THEN Loaded(proxies, g) /\ ~Available(proxies, g, worker.selected[g])
       ELSE TRUE
  /\ Finish
  /\ UNCHANGED <<current, records, core, generation, waiting, user, switch, spent>>

Repairs(allowed) ==
  /\ worker.step = "repairing"
  /\ Finish
  /\ IF allowed
     THEN /\ recorded' = [recorded EXCEPT ![current] = worker.kept]
          /\ misread' = misread \cup
               {<<current, g>> : g \in {h \in Groups : worker.elsewhere /\ worker.kept[h] # worker.selected[h]}}
     ELSE UNCHANGED <<recorded, misread>>
  /\ UNCHANGED <<current, chosen, core, generation, waiting, user, switch, spent>>

\* Mutation of Repair: the records are not compared with those that were read.
RepairUnchecked == Repairs(IsCurrent /\ current = worker.profile)

\* persist_reconciled_selected
Repair == Repairs(IsCurrent /\ current = worker.profile /\ recorded[current] = worker.selected)

-----------------------------------------------------------------------------
(* The user: switch_proxy_node selects in the Core, then records, then supersedes *)

Pick(g, n) ==
  /\ user = Idle
  /\ Spend("moves", MaxMoves)
  /\ Available(proxies, g, n)
  /\ Select(g, n)
  /\ user' = [step |-> "picked", group |-> g, node |-> n]
  /\ UNCHANGED <<current, records, running, tasks, switch>>

\* A node that is recorded already supersedes nothing.
Record ==
  /\ user.step = "picked"
  /\ recorded' = [recorded EXCEPT ![current][user.group] = user.node]
  /\ chosen' = [chosen EXCEPT ![current][user.group] = user.node]
  /\ misread' = misread \ {<<current, user.group>>}
  /\ user' = IF recorded' = recorded THEN Idle ELSE [user EXCEPT !.step = "recorded"]
  /\ UNCHANGED <<current, core, tasks, switch, spent>>

Forget(g) ==
  /\ user = Idle
  /\ Spend("moves", MaxMoves)
  /\ recorded[current][g] # None
  /\ recorded' = [recorded EXCEPT ![current][g] = None]
  /\ chosen' = [chosen EXCEPT ![current][g] = None]
  /\ misread' = misread \ {<<current, g>>}
  /\ user' = [step |-> "recorded", group |-> g, node |-> None]
  /\ UNCHANGED <<current, core, tasks, switch>>

\* Supersession comes after the records are written.
UserSupersedes ==
  /\ user.step = "recorded"
  /\ Supersede
  /\ user' = Idle
  /\ UNCHANGED <<current, records, core, waiting, worker, switch, spent>>

-----------------------------------------------------------------------------
(* Switches and deletions of a profile, starts of the Core *)

\* A switch reloads the Core while older activations run; a deletion supersedes
\* them first.
SwitchReloads(p) ==
  /\ switch = NoSwitch
  /\ p # current
  /\ Spend("switches", MaxSwitches)
  /\ UNCHANGED generation \/ Supersede
  /\ running' = p
  /\ proxies' \in Loading(p)
  /\ switch' = [step |-> "reloaded", to |-> p]
  /\ UNCHANGED <<current, records, waiting, worker, user>>

SwitchCommits ==
  /\ switch.step = "reloaded"
  /\ current' = switch.to
  /\ switch' = [switch EXCEPT !.step = "committed"]
  /\ UNCHANGED <<records, core, tasks, user, spent>>

SwitchActivates ==
  /\ switch.step = "committed"
  /\ Spend("activations", MaxActivations)
  /\ Activate("Prune")
  /\ switch' = NoSwitch
  /\ UNCHANGED <<current, records, core, worker, user>>

CoreStarts ==
  /\ spent.starts < MaxStarts
  /\ spent.activations + (IF switch = NoSwitch THEN 0 ELSE 1) < MaxActivations
  /\ spent' = [spent EXCEPT !.starts = @ + 1, !.activations = @ + 1]
  /\ proxies' \in Loading(running)
  /\ Activate("KeepRecords")
  /\ UNCHANGED <<current, records, running, worker, user, switch>>

ProviderLoads(g) ==
  /\ g \in DOMAIN proxies
  /\ ~Loaded(proxies, g)
  /\ \E n \in Offer[running][g] : proxies' = [proxies EXCEPT ![g] = [all |-> Offer[running][g], now |-> n]]
  /\ UNCHANGED <<current, records, running, tasks, user, switch, spent>>

-----------------------------------------------------------------------------
WorkerStep ==
  \/ TaskStarts \/ FetchFirst \/ SendSelect \/ SelectLands \/ PassEnds \/ FetchSecond
  \/ Settle \/ SettleGivesUp \/ Repair

UserStep ==
  \/ \E g \in Groups, n \in Nodes : Pick(g, n)
  \/ Record \/ UserSupersedes
  \/ \E g \in Groups : Forget(g)

SwitchStep == (\E p \in Profiles : SwitchReloads(p)) \/ SwitchCommits \/ SwitchActivates

Next ==
  \/ WorkerStep \/ UserStep \/ SwitchStep \/ CoreStarts
  \/ \E g \in Groups : ProviderLoads(g)

SelectionSpec == Init /\ [][Next]_vars

-----------------------------------------------------------------------------
\* A restoration forgets a node only when the profile it is recorded for does not
\* offer it, whatever the Core showed while it reloaded, switched or loaded its
\* providers, and never a choice made meanwhile; excepted are records that were repaired
\* when both looks had been at the groups of another profile, one such look is not enough
\* (reconcile_selected_nodes, persist_reconciled_selected).
ChoiceSurvives ==
  \A p \in Profiles, g \in Groups :
    <<p, g>> \notin misread /\ recorded[p][g] # chosen[p][g] =>
      chosen[p][g] \notin Offer[p][g] \cup {None}
=============================================================================
