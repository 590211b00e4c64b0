----------------------------- MODULE ProfilesProofs -----------------------------
(***************************************************************************)
(* The profiles, for any profiles, nodes, groups, callers and editors and  *)
(* any number of operations: the nodes that are restored (SelectedNodes),  *)
(* the timer (ProfileTimer), the current profile and its file              *)
(* (ProfileSwitch) and the groups that are switched (AutoSwitch).  A       *)
(* behaviour is one of one part, and each part has an inductive invariant  *)
(* of its own, with a lemma for each of its actions.                       *)
(***************************************************************************)
EXTENDS MCProfiles, FiniteSetTheorems, TLAPS

\* No step leaves the part of the model a behaviour is one of.
LEMMA PartStays == [Next]_mcvars => part' = part
BY DEF Next, mcvars

-----------------------------------------------------------------------------
(* The nodes of a profile *)

\* What a profile records, and what the Core may report while it runs a profile: its groups, each
\* with what the profile offers for it or still empty.
Choices == [Groups -> Nodes \cup {None}]
Reported == [all : SUBSET Nodes, now : Nodes \cup {None}]
Snapshots == {Selection!NoSnapshot} \cup UNION {[D -> Reported] : D \in SUBSET Groups}
Reports(snapshot, pr) ==
  /\ snapshot \in [{gr \in Groups : Offered[pr][gr] # {}} -> Reported]
  /\ \A gr \in DOMAIN snapshot : snapshot[gr].all \in {{}, Offered[pr][gr]}

Activation == [generation : Nat, repair : {"KeepRecords", "Prune"}]
WorkerStates ==
  [step : {"fetching", "activating", "selecting", "rechecking", "settling", "repairing"},
   generation : Nat, repair : {"KeepRecords", "Prune"}, profile : Profiles, selected : Choices,
   before : Snapshots, elsewhere : BOOLEAN, kept : Choices, pass : {"first", "second"}, todo : SUBSET Groups,
   done : SUBSET Groups, group : Groups \cup {None}]

\* What the variables of the part hold.
SelectionTyped ==
  /\ current \in Profiles /\ core_running \in Profiles
  /\ recorded \in [Profiles -> Choices] /\ chosen \in [Profiles -> Choices]
  /\ Reports(proxies, core_running)
  /\ generation \in Nat
  /\ waiting \in Seq(Activation)
  /\ worker = Selection!NoWorker \/ worker \in WorkerStates
  /\ worker.step = "selecting" => worker.group \in Groups
  /\ user \in [step : {"idle", "picked", "recorded"}, group : Groups \cup {None},
               node : Nodes \cup {None}]
  /\ user.step = "picked" => user.group \in Groups /\ user.node \in Nodes
  /\ profile_switch \in [step : {"none", "reloaded", "committed"}, to : Profiles \cup {None}]
  /\ profile_switch.step = "reloaded" => profile_switch.to \in Profiles

\* What the activation that runs would no longer record its profile does not offer, unless both
\* of its looks have been at another's groups; it looks a second time once.
WorkerIsTrue ==
  /\ worker.step = "rechecking" => worker.pass = "first"
  /\ worker # Selection!NoWorker /\ ~worker.elsewhere =>
       /\ \A gr \in Groups :
            worker.kept[gr] # worker.selected[gr] =>
              worker.selected[gr] \notin Offered[worker.profile][gr] \cup {None}
       /\ worker.pass = "first" =>
            worker.before = Selection!NoSnapshot \/ Reports(worker.before, worker.profile)

\* The inductive invariant of the nodes.
SelectionInv == SelectionTyped /\ WorkerIsTrue /\ Selection!ChoiceSurvives

\* What a step of the activation that runs leaves of it.
Resumes ==
  \/ worker' = Selection!NoWorker
  \/ /\ worker' \in WorkerStates
     /\ worker'.step = "selecting" => worker'.group \in Groups
     /\ worker'.generation = worker.generation /\ worker'.profile = worker.profile
     /\ worker'.selected = worker.selected /\ worker'.kept = worker.kept
     /\ worker'.before = worker.before /\ worker'.elsewhere = worker.elsewhere
     /\ worker'.pass \in {worker.pass, "second"}
     /\ worker'.step = "rechecking" => worker'.pass = "first"

\* A step of it that records nothing and looks at nothing keeps the invariant.
LEMMA SelectionResumes ==
  ASSUME SelectionInv, worker # Selection!NoWorker, Resumes, Reports(proxies', core_running),
         UNCHANGED <<current, recorded, chosen, misread, core_running, generation, waiting, user,
                     profile_switch>>
  PROVE  SelectionInv'
<1>1. SelectionTyped'
  BY DEF SelectionInv, SelectionTyped, Resumes, Selection!NoWorker
<1>2. Selection!ChoiceSurvives'
  BY DEF SelectionInv, Selection!ChoiceSurvives
<1>3. CASE worker' = Selection!NoWorker
  BY <1>1, <1>2, <1>3 DEF SelectionInv, WorkerIsTrue, Selection!NoWorker
<1>4. CASE worker' # Selection!NoWorker
  <2>1. /\ worker'.profile = worker.profile /\ worker'.before = worker.before
        /\ worker'.selected = worker.selected /\ worker'.kept = worker.kept
        /\ worker'.elsewhere = worker.elsewhere /\ worker'.pass \in {worker.pass, "second"}
        /\ worker'.step = "rechecking" => worker'.pass = "first"
    BY <1>4 DEF Resumes
  <2>2. WorkerIsTrue'
    BY <1>4, <2>1 DEF SelectionInv, WorkerIsTrue
  <2> QED
    BY <1>1, <1>2, <2>2 DEF SelectionInv
<1> QED
  BY <1>3, <1>4

\* A group of the Core that selects another node is one of the same profile.
LEMMA SelectReports ==
  ASSUME NEW snapshot, NEW pr, Reports(snapshot, pr), NEW gr \in Groups,
         NEW n \in Nodes \cup {None}
  PROVE  gr \in DOMAIN snapshot => Reports([snapshot EXCEPT ![gr].now = n], pr)
<1> SUFFICES ASSUME gr \in DOMAIN snapshot
             PROVE  Reports([snapshot EXCEPT ![gr].now = n], pr)
  OBVIOUS
<1> DEFINE moved == [snapshot[gr] EXCEPT !.now = n]
<1>1. snapshot[gr] \in Reported
  BY DEF Reports
<1>2. moved \in Reported /\ moved.all = snapshot[gr].all
  BY <1>1 DEF Reported
<1>3. [snapshot EXCEPT ![gr].now = n] = [snapshot EXCEPT ![gr] = moved]
  OBVIOUS
<1> HIDE DEF moved
<1> QED
  BY <1>2, <1>3 DEF Reports

\* What the Core has loaded it reports.
LEMMA LoadingReports ==
  ASSUME NEW pr, NEW groups \in Selection!Loading(pr)
  PROVE  Reports(groups, pr)
BY DEF Selection!Loading, Reports, Reported

\* The worker is there at every step of it.
LEMMA WorkerIs ==
  ASSUME SelectionInv, worker.step \in {"fetching", "activating", "selecting", "rechecking",
                                        "settling", "repairing"}
  PROVE  worker # Selection!NoWorker /\ worker \in WorkerStates
BY DEF SelectionInv, SelectionTyped, Selection!NoWorker

\* No state of a worker is none.
LEMMA WorkerState == \A w \in WorkerStates : w # Selection!NoWorker
BY DEF WorkerStates, Selection!NoWorker

\* A look of the activation decides what is kept.
LEMMA ReconciledIs ==
  ASSUME NEW selected \in Choices, NEW before, NEW snapshot, NEW pr, Reports(snapshot, pr)
  PROVE  /\ Selection!Reconciled(selected, before, snapshot) \in Choices
         /\ Selection!Reconciled(selected, Selection!NoSnapshot, snapshot) = selected
         /\ \A gr \in Groups :
              Selection!Reconciled(selected, before, snapshot)[gr] # selected[gr] =>
                selected[gr] \notin Offered[pr][gr] \cup {None}
<1> DEFINE kept(b) == Selection!Reconciled(selected, b, snapshot)
<1>1. ASSUME NEW gr \in Groups
      PROVE  /\ kept(before)[gr] \in Nodes \cup {None}
             /\ kept(Selection!NoSnapshot)[gr] = selected[gr]
             /\ kept(before)[gr] # selected[gr] => selected[gr] \notin Offered[pr][gr] \cup {None}
  <2>1. selected[gr] \in Nodes \cup {None}
    BY DEF Choices
  <2>2. CASE selected[gr] = None
    BY <2>2 DEF Selection!Reconciled
  <2>3. CASE selected[gr] # None /\ gr \notin DOMAIN snapshot
    <3>1. Offered[pr][gr] = {}
      BY <2>3 DEF Reports
    <3> QED
      BY <2>1, <2>3, <3>1 DEF Selection!Reconciled
  <2>4. CASE selected[gr] # None /\ gr \in DOMAIN snapshot /\ ~Selection!Loaded(snapshot, gr)
    BY <2>1, <2>4 DEF Selection!Reconciled
  <2>5. CASE /\ selected[gr] # None /\ gr \in DOMAIN snapshot /\ Selection!Loaded(snapshot, gr)
             /\ Selection!Available(snapshot, gr, selected[gr])
    BY <2>1, <2>5 DEF Selection!Reconciled
  <2>6. CASE /\ selected[gr] # None /\ gr \in DOMAIN snapshot /\ Selection!Loaded(snapshot, gr)
             /\ ~Selection!Available(snapshot, gr, selected[gr])
    <3>1. snapshot[gr].all = Offered[pr][gr] /\ snapshot[gr] \in Reported
      BY <2>6 DEF Reports, Selection!Loaded
    <3>2. selected[gr] \notin Offered[pr][gr]
      BY <2>6, <3>1 DEF Selection!Available
    <3>3. Selection!CurrentNode(snapshot, gr) \in Nodes \cup {None}
      BY <3>1 DEF Selection!CurrentNode, Reported
    <3>4. kept(before)[gr] \in {selected[gr], Selection!CurrentNode(snapshot, gr)}
          /\ kept(Selection!NoSnapshot)[gr] = selected[gr]
      BY <2>6 DEF Selection!Reconciled
    <3> QED
      BY <2>1, <2>6, <3>2, <3>3, <3>4
  <2> QED
    BY <2>2, <2>3, <2>4, <2>5, <2>6
<1>2. \A b : /\ DOMAIN kept(b) = Groups
             /\ kept(b) = [gr \in Groups |-> kept(b)[gr]]
  BY DEF Selection!Reconciled
<1> HIDE DEF kept
<1>3. kept(before) \in Choices
  BY <1>1, <1>2 DEF Choices
<1>4. kept(Selection!NoSnapshot) = selected
  <2>1. selected = [gr \in Groups |-> selected[gr]]
    BY DEF Choices
  <2>2. kept(Selection!NoSnapshot) = [gr \in Groups |-> kept(Selection!NoSnapshot)[gr]]
    BY <1>2
  <2> QED
    BY <1>1, <2>1, <2>2
<1> QED
  BY <1>1, <1>3, <1>4 DEF kept

\* A second look at the groups of another profile drops nothing the first has shown.
LEMMA ReconciledBefore ==
  ASSUME NEW selected \in Choices, NEW before, NEW snapshot, NEW pr, Reports(before, pr)
  PROVE  \A gr \in Groups :
           Selection!Reconciled(selected, before, snapshot)[gr] # selected[gr] =>
             selected[gr] \notin Offered[pr][gr] \cup {None}
<1> SUFFICES ASSUME NEW gr \in Groups,
                    Selection!Reconciled(selected, before, snapshot)[gr] # selected[gr]
             PROVE  selected[gr] \notin Offered[pr][gr] \cup {None}
  OBVIOUS
<1>1. /\ selected[gr] # None
      /\ \/ gr \notin DOMAIN before
         \/ Selection!Loaded(before, gr) /\ selected[gr] \notin before[gr].all
  BY DEF Selection!Reconciled
<1>2. CASE gr \notin DOMAIN before
  BY <1>1, <1>2 DEF Reports
<1>3. CASE Selection!Loaded(before, gr) /\ selected[gr] \notin before[gr].all
  BY <1>1, <1>3 DEF Reports, Selection!Loaded
<1> QED
  BY <1>1, <1>2, <1>3

\* An activation reads the committed profile when its task starts
\* (activate_selected_nodes_with).
LEMMA SelTaskStarts ==
  ASSUME SelectionInv, Selection!TaskStarts PROVE SelectionInv'
<1> DEFINE it == [step |-> "fetching", generation |-> generation,
                  repair |-> Head(waiting).repair, profile |-> current,
                  selected |-> recorded[current], before |-> Selection!NoSnapshot,
                  elsewhere |-> FALSE, kept |-> recorded[current],
                  pass |-> "first", todo |-> {}, done |-> {}, group |-> None]
<1>1. /\ waiting # <<>> /\ waiting' = Tail(waiting)
      /\ worker' = worker \/ worker' = it
      /\ UNCHANGED <<current, recorded, chosen, misread, core_running, proxies, generation, user,
                     profile_switch>>
  BY DEF Selection!TaskStarts, Selection!core, Selection!records
<1>2. waiting' \in Seq(Activation) /\ Head(waiting) \in Activation
  BY <1>1 DEF SelectionInv, SelectionTyped
<1>3. it \in WorkerStates /\ it.step = "fetching"
  BY <1>2 DEF SelectionInv, SelectionTyped, WorkerStates, Activation, Snapshots
<1>4. SelectionTyped'
  <2> HIDE DEF it
  <2> QED
    BY <1>1, <1>2, <1>3 DEF SelectionInv, SelectionTyped
<1>5. Selection!ChoiceSurvives'
  BY <1>1 DEF SelectionInv, Selection!ChoiceSurvives
<1>6. WorkerIsTrue'
  <2>1. CASE worker' = worker
    BY <1>1, <2>1 DEF SelectionInv, WorkerIsTrue
  <2>2. CASE worker' = it
    <3>1. it.step = "fetching" /\ it.kept = it.selected /\ it.before = Selection!NoSnapshot
      OBVIOUS
    <3> HIDE DEF it
    <3> QED
      BY <2>2, <3>1 DEF WorkerIsTrue
  <2> QED
    BY <1>1, <2>1, <2>2
<1> QED
  BY <1>4, <1>5, <1>6 DEF SelectionInv

\* The first look keeps every record and plans what to select.
LEMMA SelFetchFirst ==
  ASSUME SelectionInv, Selection!FetchFirst PROVE SelectionInv'
<1>1. worker # Selection!NoWorker /\ worker \in WorkerStates
  BY WorkerIs DEF Selection!FetchFirst
<1>2. /\ UNCHANGED <<current, recorded, chosen, misread, core_running, proxies, generation, waiting, user,
                     profile_switch>>
      /\ proxies' = proxies /\ Reports(proxies, core_running)
  BY DEF Selection!FetchFirst, Selection!core, Selection!records, SelectionInv, SelectionTyped
<1>3. CASE worker' = Selection!NoWorker
  BY <1>1, <1>2, <1>3, SelectionResumes DEF Resumes
<1>4. CASE /\ Selection!IsCurrent
           /\ worker' = [worker EXCEPT !.step = "activating", !.before = proxies,
                !.elsewhere = core_running # worker.profile,
                !.kept = Selection!Reconciled(worker.selected, Selection!NoSnapshot, proxies),
                !.todo = Selection!Activations(worker.selected, proxies)]
  <2>1. worker.selected \in Choices
    BY <1>1 DEF WorkerStates
  <2>2. Selection!Reconciled(worker.selected, Selection!NoSnapshot, proxies) = worker.selected
    BY <1>2, <2>1, ReconciledIs
  <2>3. proxies \in Snapshots
    <3>1. DOMAIN proxies \in SUBSET Groups /\ proxies \in [DOMAIN proxies -> Reported]
      BY <1>2 DEF Reports
    <3> QED
      BY <3>1 DEF Snapshots
  <2>4. Selection!Activations(worker.selected, proxies) \in SUBSET Groups
    BY DEF Selection!Activations
  <2>5. /\ worker' \in WorkerStates
        /\ worker'.generation = worker.generation /\ worker'.profile = worker.profile
        /\ worker'.selected = worker.selected /\ worker'.kept = worker.selected
        /\ worker'.before = proxies /\ worker'.step = "activating"
        /\ worker'.elsewhere = (core_running # worker.profile)
    BY <1>1, <1>4, <2>1, <2>2, <2>3, <2>4 DEF WorkerStates
  <2>6. SelectionTyped'
    BY <1>2, <1>4, <2>5 DEF SelectionInv, SelectionTyped
  <2>7. WorkerIsTrue'
    BY <1>2, <2>5 DEF WorkerIsTrue
  <2>8. Selection!ChoiceSurvives'
    BY <1>2 DEF SelectionInv, Selection!ChoiceSurvives
  <2> QED
    BY <2>6, <2>7, <2>8 DEF SelectionInv
<1> QED
  BY <1>3, <1>4 DEF Selection!FetchFirst, Selection!Finish

\* A request is sent by an activation that nothing has superseded.
LEMMA SelSendSelect ==
  ASSUME SelectionInv, Selection!SendSelect PROVE SelectionInv'
<1>1. worker # Selection!NoWorker /\ worker \in WorkerStates
  BY WorkerIs DEF Selection!SendSelect
<1>2. /\ UNCHANGED <<current, recorded, chosen, misread, core_running, proxies, generation, waiting, user,
                     profile_switch>>
      /\ proxies' = proxies /\ Reports(proxies, core_running)
  BY DEF Selection!SendSelect, Selection!core, Selection!records, SelectionInv, SelectionTyped
<1>3. Resumes
  <2>1. PICK gr \in worker.todo :
          \/ worker' = [worker EXCEPT !.step = "selecting", !.group = gr, !.todo = @ \ {gr}]
          \/ worker' = Selection!NoWorker
    BY DEF Selection!SendSelect, Selection!Finish
  <2>2. gr \in Groups /\ worker.todo \ {gr} \in SUBSET Groups
    BY <1>1, <2>1 DEF WorkerStates
  <2>3. CASE worker' = Selection!NoWorker
    BY <2>3 DEF Resumes
  <2>4. CASE worker' = [worker EXCEPT !.step = "selecting", !.group = gr, !.todo = @ \ {gr}]
    BY <1>1, <2>2, <2>4 DEF Resumes, WorkerStates
  <2> QED
    BY <2>1, <2>3, <2>4
<1> QED
  BY <1>1, <1>2, <1>3, SelectionResumes

\* What the Core selects keeps it reporting the groups of its profile.
LEMMA SelectLandsReports ==
  ASSUME NEW gr, NEW n \in Nodes \cup {None}, Selection!Select(gr, n),
         Reports(proxies, core_running)
  PROVE  Reports(proxies', core_running)
<1>1. CASE Selection!Available(proxies, gr, n)
  <2>1. gr \in DOMAIN proxies /\ gr \in Groups
    BY <1>1 DEF Selection!Available, Reports
  <2> QED
    BY <1>1, <2>1, SelectReports DEF Selection!Select
<1>2. CASE ~Selection!Available(proxies, gr, n)
  BY <1>2 DEF Selection!Select
<1> QED
  BY <1>1, <1>2

\* The Core takes a request, or not, and the pass goes on.
LEMMA SelSelectLands ==
  ASSUME SelectionInv, Selection!SelectLands PROVE SelectionInv'
<1> DEFINE it == worker.group
           answered == IF Selection!IsCurrent
                       THEN [worker EXCEPT !.step = "activating", !.group = None]
                       ELSE Selection!NoWorker
<1>1. worker # Selection!NoWorker /\ worker \in WorkerStates /\ it \in Groups
  BY WorkerIs DEF Selection!SelectLands, Selection!records, SelectionInv, SelectionTyped
<1>2. /\ UNCHANGED <<current, recorded, chosen, misread, core_running, generation, waiting, user,
                     profile_switch>>
      /\ Reports(proxies, core_running)
  BY DEF Selection!SelectLands, Selection!records, SelectionInv, SelectionTyped
<1>3. worker.selected[it] \in Nodes \cup {None}
  BY <1>1 DEF WorkerStates, Choices
<1>4. Selection!Select(it, worker.selected[it]) \/ UNCHANGED proxies
  BY DEF Selection!SelectLands
<1>5. Reports(proxies', core_running)
  BY <1>2, <1>3, <1>4, SelectLandsReports
<1>6. Resumes
  <2>1. \/ worker' = Selection!NoWorker
        \/ worker' = [worker EXCEPT !.step = "activating", !.group = None]
        \/ worker' = [[worker EXCEPT !.step = "activating", !.group = None]
                        EXCEPT !.done = @ \cup {it}]
    BY DEF Selection!SelectLands
  <2> DEFINE back == [worker EXCEPT !.step = "activating", !.group = None]
  <2>2. /\ back \in WorkerStates /\ back.step = "activating"
        /\ back.generation = worker.generation /\ back.profile = worker.profile
        /\ back.selected = worker.selected /\ back.kept = worker.kept
        /\ back.before = worker.before /\ back.elsewhere = worker.elsewhere
        /\ back.pass = worker.pass
    BY <1>1 DEF WorkerStates
  <2>3. worker' \in {Selection!NoWorker, back, [back EXCEPT !.done = @ \cup {it}]}
    BY <2>1
  <2> HIDE DEF back
  <2>4. CASE worker' = back
    BY <2>2, <2>4 DEF Resumes
  <2>5. CASE worker' = [back EXCEPT !.done = @ \cup {it}]
    BY <1>1, <2>2, <2>5 DEF Resumes, WorkerStates
  <2> QED
    BY <2>3, <2>4, <2>5 DEF Resumes
<1> QED
  BY <1>1, <1>2, <1>5, <1>6, SelectionResumes

\* A pass that is over looks again, settles or repairs.
LEMMA SelPassEnds ==
  ASSUME SelectionInv, Selection!PassEnds PROVE SelectionInv'
<1>1. worker # Selection!NoWorker /\ worker \in WorkerStates
  BY WorkerIs DEF Selection!PassEnds
<1>2. /\ UNCHANGED <<current, recorded, chosen, misread, core_running, proxies, generation, waiting, user,
                     profile_switch>>
      /\ proxies' = proxies /\ Reports(proxies, core_running)
  BY DEF Selection!PassEnds, Selection!core, Selection!records, SelectionInv, SelectionTyped
<1>3. Resumes
  <2>1. \/ worker' = Selection!NoWorker
        \/ \E st \in {"rechecking", "settling", "repairing"} :
             /\ worker' = [worker EXCEPT !.step = st]
             /\ st = "rechecking" => worker.pass = "first"
    BY DEF Selection!PassEnds, Selection!Finish, Selection!Goto
  <2> QED
    BY <1>1, <2>1 DEF Resumes, WorkerStates
<1> QED
  BY <1>1, <1>2, <1>3, SelectionResumes

\* The second look may drop what both looks have not shown.
LEMMA SelFetchSecond ==
  ASSUME SelectionInv, Selection!FetchSecond PROVE SelectionInv'
<1>1. worker # Selection!NoWorker /\ worker \in WorkerStates
  BY WorkerIs DEF Selection!FetchSecond
<1>2. /\ UNCHANGED <<current, recorded, chosen, misread, core_running, proxies, generation, waiting, user,
                     profile_switch>>
      /\ proxies' = proxies /\ Reports(proxies, core_running)
  BY DEF Selection!FetchSecond, Selection!core, Selection!records, SelectionInv, SelectionTyped
<1>3. CASE worker' = Selection!NoWorker
  BY <1>1, <1>2, <1>3, SelectionResumes DEF Resumes
<1>4. CASE worker' = [worker EXCEPT !.step = "activating", !.pass = "second",
             !.elsewhere = @ /\ core_running # worker.profile,
             !.kept = Selection!Reconciled(worker.selected, worker.before, proxies),
             !.todo = Selection!Activations(worker.selected, proxies) \ worker.done]
  <2> DEFINE kept == Selection!Reconciled(worker.selected, worker.before, proxies)
             todo == Selection!Activations(worker.selected, proxies) \ worker.done
             elsewhere == worker.elsewhere /\ core_running # worker.profile
  <2>1. worker.selected \in Choices
    BY <1>1 DEF WorkerStates
  <2>2. kept \in Choices
    BY <1>2, <2>1, ReconciledIs
  <2>3. ~elsewhere => \A gr \in Groups :
          kept[gr] # worker.selected[gr] =>
            worker.selected[gr] \notin Offered[worker.profile][gr] \cup {None}
    <3>1. CASE core_running = worker.profile
      BY <1>2, <2>1, <3>1, ReconciledIs
    <3>2. CASE ~worker.elsewhere /\ worker.before = Selection!NoSnapshot
      BY <1>2, <2>1, <3>2, ReconciledIs
    <3>3. CASE ~worker.elsewhere /\ Reports(worker.before, worker.profile)
      BY <2>1, <3>3, ReconciledBefore
    <3>4. ~worker.elsewhere => worker.before = Selection!NoSnapshot
                                 \/ Reports(worker.before, worker.profile)
      BY <1>1 DEF SelectionInv, WorkerIsTrue, Selection!FetchSecond
    <3> QED
      BY <3>1, <3>2, <3>3, <3>4
  <2>4. todo \in SUBSET Groups /\ elsewhere \in BOOLEAN
    BY DEF Selection!Activations
  <2>5. worker' = [worker EXCEPT !.step = "activating", !.pass = "second",
                     !.elsewhere = elsewhere, !.kept = kept, !.todo = todo]
    BY <1>4
  <2> HIDE DEF kept, todo, elsewhere
  <2>6. /\ worker' \in WorkerStates
        /\ worker'.profile = worker.profile /\ worker'.selected = worker.selected
        /\ worker'.kept = kept /\ worker'.elsewhere = elsewhere
        /\ worker'.pass = "second" /\ worker'.step = "activating"
    BY <1>1, <2>2, <2>4, <2>5 DEF WorkerStates
  <2>7. SelectionTyped'
    BY <1>2, <2>6 DEF SelectionInv, SelectionTyped
  <2>8. WorkerIsTrue'
    BY <2>3, <2>6 DEF WorkerIsTrue
  <2>9. Selection!ChoiceSurvives'
    BY <1>2 DEF SelectionInv, Selection!ChoiceSurvives
  <2> QED
    BY <2>7, <2>8, <2>9 DEF SelectionInv
<1> QED
  BY <1>3, <1>4 DEF Selection!FetchSecond, Selection!Finish

\* A task that settles goes on, or gives up.
LEMMA SelSettle ==
  ASSUME SelectionInv, Selection!Settle \/ Selection!SettleGivesUp PROVE SelectionInv'
<1>1. worker # Selection!NoWorker /\ worker \in WorkerStates
  BY WorkerIs DEF Selection!Settle, Selection!SettleGivesUp
<1>2. /\ UNCHANGED <<current, recorded, chosen, misread, core_running, proxies, generation, waiting, user,
                     profile_switch>>
      /\ proxies' = proxies /\ Reports(proxies, core_running)
  BY DEF Selection!Settle, Selection!SettleGivesUp, Selection!core, Selection!records, SelectionInv, SelectionTyped
<1>3. Resumes
  <2>1. \/ worker' = Selection!NoWorker
        \/ worker' = [worker EXCEPT !.step = "activating", !.pass = "second",
                        !.todo = Selection!Activations(worker.selected, proxies) \ worker.done]
    BY DEF Selection!Settle, Selection!SettleGivesUp, Selection!Finish
  <2>2. Selection!Activations(worker.selected, proxies) \ worker.done \in SUBSET Groups
    BY DEF Selection!Activations
  <2>3. CASE worker' = Selection!NoWorker
    BY <2>3 DEF Resumes
  <2> DEFINE todo == Selection!Activations(worker.selected, proxies) \ worker.done
             back == [worker EXCEPT !.step = "activating", !.pass = "second", !.todo = todo]
  <2>4. CASE worker' = back
    <3> HIDE DEF todo
    <3>1. /\ back \in WorkerStates /\ back.step = "activating" /\ back.pass = "second"
          /\ back.generation = worker.generation /\ back.profile = worker.profile
          /\ back.selected = worker.selected /\ back.kept = worker.kept
          /\ back.before = worker.before /\ back.elsewhere = worker.elsewhere
      BY <1>1, <2>2 DEF WorkerStates, todo
    <3> QED
      BY <2>4, <3>1 DEF Resumes
  <2> QED
    BY <2>1, <2>3, <2>4
<1> QED
  BY <1>1, <1>2, <1>3, SelectionResumes

\* A repair drops only what the profile does not offer, and only as it was read
\* (persist_reconciled_selected).
LEMMA SelRepair ==
  ASSUME SelectionInv, Selection!Repair PROVE SelectionInv'
<1>1. worker # Selection!NoWorker /\ worker \in WorkerStates
  BY WorkerIs DEF Selection!Repair, Selection!Repairs
<1>2. /\ UNCHANGED <<current, chosen, core_running, proxies, generation, waiting, user,
                     profile_switch>>
      /\ worker' = Selection!NoWorker
  BY DEF Selection!Repair, Selection!Repairs, Selection!core, Selection!records, Selection!Finish
<1>3. CASE recorded' = recorded /\ misread' = misread
  BY <1>1, <1>2, <1>3, SelectionResumes DEF Resumes, SelectionInv, SelectionTyped
<1>4. CASE /\ current = worker.profile /\ recorded[current] = worker.selected
           /\ recorded' = [recorded EXCEPT ![current] = worker.kept]
           /\ misread' = misread \cup {<<current, gr>> : gr \in
                {h \in Groups : worker.elsewhere /\ worker.kept[h] # worker.selected[h]}}
  <2>1. worker.kept \in Choices /\ current \in Profiles /\ recorded \in [Profiles -> Choices]
    BY <1>1 DEF WorkerStates, SelectionInv, SelectionTyped
  <2>2. SelectionTyped'
    BY <1>2, <1>4, <2>1 DEF SelectionInv, SelectionTyped, Selection!NoWorker
  <2>3. ~worker.elsewhere => \A gr \in Groups :
          worker.kept[gr] # worker.selected[gr] =>
            worker.selected[gr] \notin Offered[current][gr] \cup {None}
    BY <1>1, <1>4 DEF SelectionInv, WorkerIsTrue
  <2>4. Selection!ChoiceSurvives'
    <3> SUFFICES ASSUME NEW pr \in Profiles, NEW gr \in Groups, <<pr, gr>> \notin misread',
                        recorded'[pr][gr] # chosen[pr][gr]
                 PROVE  chosen[pr][gr] \notin Offered[pr][gr] \cup {None}
      BY <1>2 DEF Selection!ChoiceSurvives
    <3>0. recorded[pr][gr] # chosen[pr][gr] => chosen[pr][gr] \notin Offered[pr][gr] \cup {None}
      BY <1>4 DEF SelectionInv, Selection!ChoiceSurvives
    <3>1. CASE pr # current
      BY <1>4, <2>1, <3>0, <3>1
    <3>2. CASE pr = current
      <4>1. recorded'[pr][gr] = worker.kept[gr] /\ recorded[pr][gr] = worker.selected[gr]
        BY <1>4, <2>1, <3>2
      <4>2. worker.kept[gr] # worker.selected[gr] => ~worker.elsewhere
        BY <1>4, <3>2
      <4> QED
        BY <2>3, <3>0, <3>2, <4>1, <4>2
    <3> QED
      BY <3>1, <3>2
  <2>5. WorkerIsTrue'
    BY <1>2 DEF WorkerIsTrue, Selection!NoWorker
  <2> QED
    BY <2>2, <2>4, <2>5 DEF SelectionInv
<1> QED
  BY <1>3, <1>4 DEF Selection!Repair, Selection!Repairs

\* A pick of the user changes the Core alone.
LEMMA SelPick ==
  ASSUME SelectionInv, NEW gr \in Groups, NEW n \in Nodes, Selection!Pick(gr, n)
  PROVE  SelectionInv'
<1>1. /\ UNCHANGED <<current, recorded, chosen, misread, core_running, generation, waiting, worker,
                     profile_switch>>
      /\ Selection!Select(gr, n) /\ user' = [step |-> "picked", group |-> gr, node |-> n]
  BY DEF Selection!Pick, Selection!records, Selection!tasks
<1>2. Reports(proxies, core_running)
  BY DEF SelectionInv, SelectionTyped
<1>3. Reports(proxies', core_running)
  BY <1>1, <1>2, SelectLandsReports
<1>4. SelectionTyped'
  BY <1>1, <1>3 DEF SelectionInv, SelectionTyped
<1> QED
  BY <1>1, <1>4 DEF SelectionInv, WorkerIsTrue, Selection!ChoiceSurvives

\* The user changes the record and his choice alike; whoever is restoring finds the
\* record changed, or keeps what the user has chosen.
LEMMA ChoiceRecorded ==
  ASSUME SelectionInv, NEW gr \in Groups, NEW n \in Nodes \cup {None},
         recorded' = [recorded EXCEPT ![current][gr] = n],
         chosen' = [chosen EXCEPT ![current][gr] = n],
         misread' = misread \ {<<current, gr>>}
  PROVE  /\ recorded' \in [Profiles -> Choices] /\ chosen' \in [Profiles -> Choices]
         /\ Selection!ChoiceSurvives'
<1> DEFINE rec == [recorded[current] EXCEPT ![gr] = n]
           cho == [chosen[current] EXCEPT ![gr] = n]
<1>1. /\ current \in Profiles
      /\ recorded \in [Profiles -> Choices] /\ chosen \in [Profiles -> Choices]
  BY DEF SelectionInv, SelectionTyped
<1>2. rec \in Choices /\ cho \in Choices
  BY <1>1 DEF Choices
<1>3. /\ recorded' = [recorded EXCEPT ![current] = rec]
      /\ chosen' = [chosen EXCEPT ![current] = cho]
  OBVIOUS
<1>4. \A h \in Groups : /\ rec[h] = IF h = gr THEN n ELSE recorded[current][h]
                        /\ cho[h] = IF h = gr THEN n ELSE chosen[current][h]
  BY <1>1 DEF Choices
<1> HIDE DEF rec, cho
<1>5. /\ recorded' \in [Profiles -> Choices] /\ chosen' \in [Profiles -> Choices]
      /\ \A pr \in Profiles : /\ recorded'[pr] = IF pr = current THEN rec ELSE recorded[pr]
                              /\ chosen'[pr] = IF pr = current THEN cho ELSE chosen[pr]
  BY <1>1, <1>2, <1>3
<1>6. ASSUME NEW pr \in Profiles, NEW h \in Groups, <<pr, h>> \notin misread',
             recorded'[pr][h] # chosen'[pr][h]
      PROVE  chosen'[pr][h] \notin Offered[pr][h] \cup {None}
  <2>1. /\ recorded'[pr][h] = recorded[pr][h] /\ chosen'[pr][h] = chosen[pr][h]
        /\ <<pr, h>> \notin misread
    <3>1. CASE pr # current
      BY <1>5, <1>6, <3>1
    <3>2. CASE pr = current
      <4>1. recorded'[pr] = rec /\ chosen'[pr] = cho
        BY <1>5, <3>2
      <4>2. h # gr
        BY <1>4, <1>6, <4>1
      <4> QED
        BY <1>4, <1>6, <3>2, <4>1, <4>2
    <3> QED
      BY <3>1, <3>2
  <2> QED
    BY <1>6, <2>1 DEF SelectionInv, Selection!ChoiceSurvives
<1> QED
  BY <1>5, <1>6 DEF Selection!ChoiceSurvives

\* The user's choice is recorded, for the committed profile.
LEMMA SelRecord ==
  ASSUME SelectionInv, Selection!Record PROVE SelectionInv'
<1>1. /\ UNCHANGED <<current, core_running, proxies, generation, waiting, worker, profile_switch>>
      /\ recorded' = [recorded EXCEPT ![current][user.group] = user.node]
      /\ chosen' = [chosen EXCEPT ![current][user.group] = user.node]
      /\ misread' = misread \ {<<current, user.group>>} /\ user.step = "picked"
      /\ user' = Selection!Idle \/ user' = [user EXCEPT !.step = "recorded"]
  BY DEF Selection!Record, Selection!tasks, Selection!core, Selection!records
<1>2. user.group \in Groups /\ user.node \in Nodes
  BY <1>1 DEF SelectionInv, SelectionTyped
<1>3. /\ recorded' \in [Profiles -> Choices] /\ chosen' \in [Profiles -> Choices]
      /\ Selection!ChoiceSurvives'
  BY <1>1, <1>2, ChoiceRecorded
<1>4. SelectionTyped'
  BY <1>1, <1>2, <1>3 DEF SelectionInv, SelectionTyped, Selection!Idle
<1> QED
  BY <1>1, <1>3, <1>4 DEF SelectionInv, WorkerIsTrue

\* A choice that is withdrawn is no longer owed.
LEMMA SelForget ==
  ASSUME SelectionInv, NEW gr \in Groups, Selection!Forget(gr) PROVE SelectionInv'
<1>1. /\ UNCHANGED <<current, core_running, proxies, generation, waiting, worker, profile_switch>>
      /\ recorded' = [recorded EXCEPT ![current][gr] = None]
      /\ chosen' = [chosen EXCEPT ![current][gr] = None]
      /\ misread' = misread \ {<<current, gr>>}
      /\ user' = [step |-> "recorded", group |-> gr, node |-> None]
  BY DEF Selection!Forget, Selection!tasks, Selection!core, Selection!records
<1>3. /\ recorded' \in [Profiles -> Choices] /\ chosen' \in [Profiles -> Choices]
      /\ Selection!ChoiceSurvives'
  BY <1>1, ChoiceRecorded
<1>4. SelectionTyped'
  BY <1>1, <1>3 DEF SelectionInv, SelectionTyped
<1> QED
  BY <1>1, <1>3, <1>4 DEF SelectionInv, WorkerIsTrue

\* A choice that was recorded supersedes the activations.
LEMMA SelUserSupersedes ==
  ASSUME SelectionInv, Selection!UserSupersedes PROVE SelectionInv'
<1>1. /\ UNCHANGED <<current, recorded, chosen, misread, core_running, proxies, waiting, worker,
                     profile_switch>>
      /\ generation' = generation + 1 /\ user' = Selection!Idle
  BY DEF Selection!UserSupersedes, Selection!core, Selection!records, Selection!Supersede
<1>2. SelectionTyped'
  BY <1>1 DEF SelectionInv, SelectionTyped, Selection!Idle
<1> QED
  BY <1>1, <1>2 DEF SelectionInv, WorkerIsTrue, Selection!ChoiceSurvives

\* A switch reloads the Core; a deletion supersedes the activations first.
LEMMA SelSwitchReloads ==
  ASSUME SelectionInv, NEW pr \in Profiles, Selection!SwitchReloads(pr) PROVE SelectionInv'
<1>1. /\ UNCHANGED <<current, recorded, chosen, misread, waiting, worker, user>>
      /\ generation' = generation \/ generation' = generation + 1
      /\ core_running' = pr /\ proxies' \in Selection!Loading(pr)
      /\ profile_switch' = [step |-> "reloaded", to |-> pr] /\ pr # current
      /\ profile_switch.step = "none"
  BY DEF Selection!SwitchReloads, Selection!records, Selection!Supersede, Selection!NoSwitch
<1>2. Reports(proxies', core_running')
  BY <1>1, LoadingReports
<1>3. SelectionTyped'
  BY <1>1, <1>2 DEF SelectionInv, SelectionTyped
<1> QED
  BY <1>1, <1>3 DEF SelectionInv, WorkerIsTrue, Selection!ChoiceSurvives

\* The switch commits the profile the Core runs by now.
LEMMA SelSwitchCommits ==
  ASSUME SelectionInv, Selection!SwitchCommits PROVE SelectionInv'
<1>1. /\ UNCHANGED <<recorded, chosen, misread, core_running, proxies, generation, waiting, worker, user>>
      /\ profile_switch.step = "reloaded" /\ current' = profile_switch.to
      /\ profile_switch' = [profile_switch EXCEPT !.step = "committed"]
  BY DEF Selection!SwitchCommits, Selection!core, Selection!records, Selection!tasks
<1>2. SelectionTyped'
  BY <1>1 DEF SelectionInv, SelectionTyped
<1> QED
  BY <1>1, <1>2 DEF SelectionInv, WorkerIsTrue, Selection!ChoiceSurvives

\* An activation that is asked for supersedes the others.
LEMMA SelActivate ==
  ASSUME SelectionInv, NEW repair \in {"KeepRecords", "Prune"}, Selection!Activate(repair),
         Reports(proxies', core_running),
         profile_switch' = Selection!NoSwitch \/ profile_switch' = profile_switch,
         UNCHANGED <<current, recorded, chosen, misread, core_running, worker, user>>
  PROVE  SelectionInv'
<1>1. /\ generation' = generation + 1
      /\ waiting' = Append(waiting, [generation |-> generation + 1, repair |-> repair])
  BY DEF Selection!Activate
<1>2. [generation |-> generation + 1, repair |-> repair] \in Activation
  BY DEF Activation, SelectionInv, SelectionTyped
<1>3. waiting' \in Seq(Activation)
  BY <1>1, <1>2 DEF SelectionInv, SelectionTyped
<1>4. SelectionTyped'
  BY <1>1, <1>3 DEF SelectionInv, SelectionTyped, Selection!NoSwitch
<1> QED
  BY <1>1, <1>4 DEF SelectionInv, WorkerIsTrue, Selection!ChoiceSurvives

\* After a switch the nodes of the new profile are activated.
LEMMA SelSwitchActivates ==
  ASSUME SelectionInv, Selection!SwitchActivates PROVE SelectionInv'
BY SelActivate DEF Selection!SwitchActivates, Selection!core, Selection!records, SelectionInv, SelectionTyped

\* So they are when the Core starts.
LEMMA SelCoreStarts ==
  ASSUME SelectionInv, Selection!CoreStarts PROVE SelectionInv'
BY SelActivate, LoadingReports DEF Selection!CoreStarts, Selection!records, SelectionInv, SelectionTyped

\* A provider that loads shows what the profile offers.
LEMMA SelProviderLoads ==
  ASSUME SelectionInv, NEW gr \in Groups, Selection!ProviderLoads(gr) PROVE SelectionInv'
<1>1. PICK n \in Offered[core_running][gr] :
        proxies' = [proxies EXCEPT ![gr] = [all |-> Offered[core_running][gr], now |-> n]]
  BY DEF Selection!ProviderLoads
<1>2. UNCHANGED <<current, recorded, chosen, misread, core_running, generation, waiting, worker, user,
                  profile_switch>>
  BY DEF Selection!ProviderLoads, Selection!records, Selection!tasks
<1>3. core_running \in Profiles /\ Reports(proxies, core_running)
  BY DEF SelectionInv, SelectionTyped
<1>4. [all |-> Offered[core_running][gr], now |-> n] \in Reported
  BY <1>1, <1>3, OfferAssumption DEF Reported
<1>5. Reports(proxies', core_running)
  BY <1>1, <1>3, <1>4 DEF Reports
<1>6. SelectionTyped'
  BY <1>2, <1>5 DEF SelectionInv, SelectionTyped
<1> QED
  BY <1>2, <1>6 DEF SelectionInv, WorkerIsTrue, Selection!ChoiceSurvives

\* Every step of the part keeps its invariant.
LEMMA SelectionStep ==
  ASSUME SelectionInv, Selection!Next PROVE SelectionInv'
BY SelTaskStarts, SelFetchFirst, SelSendSelect, SelSelectLands, SelPassEnds, SelFetchSecond,
   SelSettle, SelRepair, SelPick, SelRecord, SelForget, SelUserSupersedes, SelSwitchReloads,
   SelSwitchCommits, SelSwitchActivates, SelCoreStarts, SelProviderLoads DEF Selection!Next,
   Selection!WorkerStep, Selection!UserStep, Selection!SwitchStep

\* The invariant holds at the start.
LEMMA SelectionStarts ==
  ASSUME Selection!Init PROVE SelectionInv
<1>1. Reports(proxies, core_running)
  BY LoadingReports DEF Selection!Init
<1>2. [generation |-> 1, repair |-> "KeepRecords"] \in Activation
  BY DEF Activation
<1>3. waiting \in Seq(Activation)
  BY <1>2 DEF Selection!Init
<1>4. SelectionTyped
  BY <1>1, <1>3 DEF SelectionTyped, Selection!Init, Selection!NoWorker, Selection!Idle,
     Selection!NoSwitch, Choices
<1> QED
  BY <1>4 DEF SelectionInv, WorkerIsTrue, Selection!ChoiceSurvives,
     Selection!Init, Selection!NoWorker, Selection!NoSwitch

\* A choice the user has made for a profile is what is recorded for it, unless the
\* profile does not offer it: no restoration that looked at the groups of its profile at
\* least once forgets another, whenever it is superseded (reconcile_selected_nodes,
\* persist_reconciled_selected).
THEOREM ChoicesSurvive == Spec => []ChoiceSurvives
<1> DEFINE Inv == part = "selection" => SelectionInv
<1>1. Init => Inv
  BY SelectionStarts DEF Init
<1>2. Inv /\ [Next]_mcvars => Inv'
  <2> SUFFICES ASSUME Inv, [Next]_mcvars, part' = "selection"
               PROVE  SelectionInv'
    OBVIOUS
  <2>1. part = "selection"
    BY PartStays
  <2>2. CASE Selection!Next
    BY <2>1, <2>2, SelectionStep
  <2>3. CASE UNCHANGED selection_vars
    BY <2>1, <2>3 DEF selection_vars, SelectionInv, SelectionTyped, WorkerIsTrue,
       Selection!ChoiceSurvives
  <2> QED
    BY <2>1, <2>2, <2>3 DEF Next, mcvars
<1>3. Inv => ChoiceSurvives
  BY DEF ChoiceSurvives, SelectionInv
<1> QED
  BY <1>1, <1>2, <1>3, PTL DEF Spec

-----------------------------------------------------------------------------
(* The timer *)

\* A schedule, what is sent to the scheduler, and an update in flight.
Maps == UNION {[D -> Intervals] : D \in SUBSET Uids}
Command == [kind : {"Apply"}, map : Maps] \cup [kind : {"RunNow", "TaskFinished"}, uid : Uids]
Update == [id : Nat, uid : Uids, by : {"timer", "user"}, step : {"spawned", "downloading"},
           read : Timer!Settings \cup {Timer!Gone}]

\* What the variables of the part hold.
TimerTyped ==
  /\ settings \in [Uids -> Timer!Settings \cup {Timer!Gone}]
  /\ commands \in Seq(Command)
  /\ tasks \in [Uids -> [armed : BOOLEAN, interval : Intervals \cup {None}, running : BOOLEAN,
                         retired : BOOLEAN]]
  /\ refresh = Timer!NoRefresh \/ refresh \in [step : {"read"}, map : Maps]
  /\ updates \subseteq Update
  /\ started \in Nat
  /\ editor \in [edit : [step : {"none", "compared"}, uid : Uids \cup {None},
                         to : Timer!Settings \cup {Timer!Gone}, changes : BOOLEAN], made : Nat]
  /\ editor.edit.step = "compared" => editor.edit.uid \in Uids

\* The updates are told apart by the number they started with.
UpdatesApart ==
  /\ \A x \in updates : x.id < started
  /\ \A x, y \in updates : x.id = y.id => x = y

\* An update the timer has started is in flight, or its end is in the channel, once; meanwhile
\* its task runs.
Ends(i, u) == commands[i].kind = "TaskFinished" /\ commands[i].uid = u
OneUpdateEach ==
  /\ \A x, y \in updates : x.by = "timer" /\ y.by = "timer" /\ x.uid = y.uid => x = y
  /\ \A i, j \in 1..Len(commands), u \in Uids : Ends(i, u) /\ Ends(j, u) => i = j
  /\ \A x \in updates, i \in 1..Len(commands) : x.by = "timer" => ~Ends(i, x.uid)
  /\ \A x \in updates : x.by = "timer" => tasks[x.uid].running
  /\ \A i \in 1..Len(commands), u \in Uids : Ends(i, u) => tasks[u].running

\* A task that is there is armed or running.
TasksAreWhole ==
  \A u \in Uids :
    /\ tasks[u].running => Timer!Exists(u)
    /\ tasks[u].retired => tasks[u].running
    /\ Timer!Exists(u) => tasks[u].armed \/ tasks[u].running
    /\ tasks[u].armed => Timer!Exists(u)

\* The tasks serve a schedule, those that are no longer wanted are retired.
Serves(map) ==
  \A u \in Uids :
    IF u \in DOMAIN map
    THEN /\ tasks[u].interval = map[u] /\ ~tasks[u].retired
         /\ tasks[u].armed \/ tasks[u].running
    ELSE ~tasks[u].armed /\ (Timer!Exists(u) => tasks[u].retired)

\* The schedule the scheduler will have applied last is the published one.
Applies(i) == commands[i].kind = "Apply"
ScheduleReaches ==
  /\ \A i \in 1..Len(commands) :
       Applies(i) /\ (\A j \in 1..Len(commands) : Applies(j) => j <= i) =>
         commands[i].map = timer_map
  /\ (\A i \in 1..Len(commands) : ~Applies(i)) => Serves(timer_map)

\* The inductive invariant of the timer.
TimerInv ==
  TimerTyped /\ UpdatesApart /\ OneUpdateEach /\ TasksAreWhole /\ ScheduleReaches

\* What a command leaves of the channel when it is sent, and when it is taken.
LEMMA Sending ==
  ASSUME commands \in Seq(Command), NEW c \in Command, commands' = Append(commands, c)
  PROVE  /\ commands' \in Seq(Command) /\ Len(commands') = Len(commands) + 1
         /\ Len(commands) \in Nat
         /\ \A i \in 1..Len(commands) : commands'[i] = commands[i]
         /\ commands'[Len(commands) + 1] = c
OBVIOUS

\* What is taken is the first.
LEMMA Taking ==
  ASSUME commands \in Seq(Command), commands # <<>>, commands' = Tail(commands)
  PROVE  /\ commands' \in Seq(Command) /\ Len(commands') = Len(commands) - 1
         /\ Len(commands) \in Nat /\ Len(commands) >= 1
         /\ \A i \in 1..Len(commands') : commands'[i] = commands[i + 1]
         /\ Head(commands) = commands[1] /\ Head(commands) \in Command
OBVIOUS

\* What is sent that is no schedule, and what is taken that is none, leaves the last schedule
\* of the channel the published one.
LEMMA SentReaches ==
  ASSUME commands \in Seq(Command), NEW c \in Command, commands' = Append(commands, c),
         c.kind # "Apply", ScheduleReaches, UNCHANGED <<timer_map, tasks>>
  PROVE  ScheduleReaches'
<1>1. /\ Len(commands') = Len(commands) + 1 /\ Len(commands) \in Nat
      /\ \A i \in 1..Len(commands) : commands'[i] = commands[i]
      /\ commands'[Len(commands) + 1] = c
  BY Sending
<1>2. \A i \in 1..Len(commands) : Applies(i)' <=> Applies(i)
  BY <1>1 DEF Applies
<1>3. ~(commands'[Len(commands) + 1].kind = "Apply")
  BY <1>1
<1>4. ASSUME NEW i \in 1..Len(commands'), commands'[i].kind = "Apply",
             \A j \in 1..Len(commands') : commands'[j].kind = "Apply" => j <= i
      PROVE  commands'[i].map = timer_map'
  <2>1. i \in 1..Len(commands)
    BY <1>1, <1>3, <1>4
  <2>2. \A j \in 1..Len(commands) : Applies(j) => j <= i
    BY <1>1, <1>4 DEF Applies
  <2> QED
    BY <1>1, <1>4, <2>1, <2>2 DEF ScheduleReaches, Applies
<1>5. ASSUME \A i \in 1..Len(commands') : ~(commands'[i].kind = "Apply")
      PROVE  Serves(timer_map)'
  <2>1. \A i \in 1..Len(commands) : ~Applies(i)
    BY <1>1, <1>5 DEF Applies
  <2> QED
    BY <2>1 DEF ScheduleReaches, Serves, Timer!Exists
<1> QED
  BY <1>4, <1>5 DEF ScheduleReaches, Applies

\* A command that is taken and is no schedule.
LEMMA TakenReaches ==
  ASSUME commands \in Seq(Command), commands # <<>>, commands' = Tail(commands),
         Head(commands).kind # "Apply", ScheduleReaches, timer_map' = timer_map,
         Serves(timer_map) => Serves(timer_map)'
  PROVE  ScheduleReaches'
<1>1. /\ Len(commands') = Len(commands) - 1 /\ Len(commands) \in Nat /\ Len(commands) >= 1
      /\ \A i \in 1..Len(commands') : commands'[i] = commands[i + 1]
      /\ Head(commands) = commands[1]
  BY Taking
<1>2. \A i \in 1..Len(commands) : Applies(i) => i > 1
  BY <1>1 DEF Applies
<1>4. ASSUME NEW i \in 1..Len(commands'), commands'[i].kind = "Apply",
             \A j \in 1..Len(commands') : commands'[j].kind = "Apply" => j <= i
      PROVE  commands'[i].map = timer_map'
  <2>1. i + 1 \in 1..Len(commands) /\ commands'[i] = commands[i + 1]
    BY <1>1
  <2>2. ASSUME NEW j \in 1..Len(commands), Applies(j) PROVE j <= i + 1
    <3>1. j - 1 \in 1..Len(commands') /\ commands'[j - 1] = commands[j]
      BY <1>1, <1>2, <2>2
    <3>2. commands'[j - 1].kind = "Apply"
      BY <2>2, <3>1 DEF Applies
    <3>3. j - 1 <= i
      BY <1>4, <3>1, <3>2
    <3> QED
      BY <3>3
  <2> QED
    BY <1>4, <2>1, <2>2 DEF ScheduleReaches, Applies
<1>5. ASSUME \A i \in 1..Len(commands') : ~(commands'[i].kind = "Apply")
      PROVE  Serves(timer_map)'
  <2>1. ASSUME NEW i \in 1..Len(commands) PROVE ~Applies(i)
    <3>1. CASE i = 1
      BY <1>2, <3>1
    <3>2. CASE i # 1
      <4>1. i - 1 \in 1..Len(commands') /\ commands'[i - 1] = commands[i]
        BY <1>1, <3>2
      <4> QED
        BY <1>5, <4>1 DEF Applies
    <3> QED
      BY <3>1, <3>2
  <2> QED
    BY <2>1 DEF ScheduleReaches
<1> QED
  BY <1>4, <1>5 DEF ScheduleReaches, Applies

\* The schedule of the profiles has an interval for each profile it holds
\* (gen_map_from_items).
LEMMA Scheduled ==
  ASSUME NEW items \in [Uids -> Timer!Settings \cup {Timer!Gone}]
  PROVE  Timer!Schedule(items) \in Maps
<1> DEFINE D == {v \in Uids : items[v].allow /\ items[v].interval # None}
           map == [u \in D |-> items[u].interval]
<1>1. ASSUME NEW u \in D PROVE items[u].interval \in Intervals
  <2>1. items[u] \in Timer!Settings \cup {Timer!Gone} /\ items[u].interval # None
    BY DEF D
  <2>2. items[u] # Timer!Gone
    BY <2>1 DEF Timer!Gone
  <2> QED
    BY <2>1, <2>2 DEF Timer!Settings
<1>2. map \in [D -> Intervals]
  BY <1>1
<1>3. D \in SUBSET Uids
  OBVIOUS
<1>4. map \in Maps
  <2> HIDE DEF D
  <2> QED
    BY <1>2, <1>3 DEF Maps
<1> QED
  BY <1>4 DEF Timer!Schedule

\* A refresh makes its schedule of the profiles (gen_map).
LEMMA TmRefreshReads ==
  ASSUME TimerInv, Timer!RefreshReads PROVE TimerInv'
<1>1. /\ UNCHANGED <<settings, timer_map, commands, tasks, updates, started, editor>>
      /\ refresh' = [step |-> "read", map |-> Timer!Schedule(settings)]
  BY DEF Timer!RefreshReads, Timer!scheduler
<1>2. refresh' \in [step : {"read"}, map : Maps]
  BY <1>1, Scheduled DEF TimerInv, TimerTyped
<1> QED
  BY <1>1, <1>2 DEF TimerInv, TimerTyped, UpdatesApart, OneUpdateEach, TasksAreWhole,
     ScheduleReaches, Ends, Applies, Serves, Timer!Exists

\* It publishes the schedule and sends it.
LEMMA TmRefreshPublishes ==
  ASSUME TimerInv, Timer!RefreshPublishes PROVE TimerInv'
<1>1. /\ UNCHANGED <<settings, tasks, updates, started, editor>>
      /\ refresh' = Timer!NoRefresh /\ timer_map' = refresh.map
      /\ commands' = IF refresh.map = timer_map THEN commands
                     ELSE Append(commands, [kind |-> "Apply", map |-> refresh.map])
      /\ refresh.map \in Maps
  BY DEF Timer!RefreshPublishes, TimerInv, TimerTyped
<1>2. CASE refresh.map = timer_map
  BY <1>1, <1>2 DEF TimerInv, TimerTyped, UpdatesApart, OneUpdateEach, TasksAreWhole,
     ScheduleReaches, Ends, Applies, Serves, Timer!Exists
<1>3. CASE refresh.map # timer_map
  <2> DEFINE c == [kind |-> "Apply", map |-> refresh.map]
  <2>1. c \in Command /\ c.kind = "Apply" /\ c.map = timer_map'
    BY <1>1 DEF Command
  <2>2. commands' = Append(commands, c)
    BY <1>1, <1>3
  <2> HIDE DEF c
  <2>3. /\ commands' \in Seq(Command) /\ Len(commands') = Len(commands) + 1
        /\ Len(commands) \in Nat
        /\ \A i \in 1..Len(commands) : commands'[i] = commands[i]
        /\ commands'[Len(commands) + 1] = c
    BY <2>1, <2>2, Sending DEF TimerInv, TimerTyped
  <2>4. TimerTyped' /\ UpdatesApart' /\ TasksAreWhole'
    BY <1>1, <2>3 DEF TimerInv, TimerTyped, UpdatesApart, TasksAreWhole, Timer!Exists
  <2>5. \A i \in 1..Len(commands'), u \in Uids :
          Ends(i, u)' => i \in 1..Len(commands) /\ Ends(i, u)
    BY <2>1, <2>3 DEF Ends
  <2>6. OneUpdateEach'
    BY <1>1, <2>3, <2>5 DEF TimerInv, OneUpdateEach, TimerTyped, Update
  <2>7. ScheduleReaches'
    BY <2>1, <2>3 DEF ScheduleReaches, Applies
  <2> QED
    BY <2>4, <2>6, <2>7 DEF TimerInv
<1> QED
  BY <1>2, <1>3

\* An update that is overdue at the start is sent behind the first schedule.
LEMMA TmRunOverdue ==
  ASSUME TimerInv, NEW u \in Uids, Timer!RunOverdue(u) PROVE TimerInv'
<1> DEFINE c == [kind |-> "RunNow", uid |-> u]
<1>1. /\ UNCHANGED <<settings, timer_map, refresh, tasks, updates, started, editor>>
      /\ commands' = Append(commands, c)
  BY DEF Timer!RunOverdue, Timer!refreshing
<1>2. c \in Command /\ c.kind = "RunNow"
  BY DEF Command
<1> HIDE DEF c
<1>3. /\ commands' \in Seq(Command) /\ Len(commands') = Len(commands) + 1
      /\ Len(commands) \in Nat
      /\ \A i \in 1..Len(commands) : commands'[i] = commands[i]
      /\ commands'[Len(commands) + 1] = c
  BY <1>1, <1>2, Sending DEF TimerInv, TimerTyped
<1>4. TimerTyped' /\ UpdatesApart' /\ TasksAreWhole'
  BY <1>1, <1>3 DEF TimerInv, TimerTyped, UpdatesApart, TasksAreWhole, Timer!Exists
<1>5. \A i \in 1..Len(commands'), v \in Uids :
        Ends(i, v)' => i \in 1..Len(commands) /\ Ends(i, v)
  BY <1>2, <1>3 DEF Ends
<1>6. OneUpdateEach'
  BY <1>1, <1>3, <1>5 DEF TimerInv, OneUpdateEach, TimerTyped, Update
<1>7. ScheduleReaches'
  BY <1>1, <1>2, SentReaches DEF TimerInv, TimerTyped
<1> QED
  BY <1>4, <1>6, <1>7 DEF TimerInv

\* The scheduler applies a schedule; a task that runs is retired, not removed
\* (apply_timer_map).
LEMMA TmApply ==
  ASSUME TimerInv, Timer!Apply PROVE TimerInv'
<1> DEFINE map == Head(commands).map
<1>1. /\ UNCHANGED <<settings, timer_map, refresh, updates, started, editor>>
      /\ commands # <<>> /\ Head(commands).kind = "Apply" /\ commands' = Tail(commands)
      /\ tasks' = Timer!Applied(map)
  BY DEF Timer!Apply, Timer!TakeCommand, Timer!refreshing
<1>2. /\ commands' \in Seq(Command) /\ Len(commands') = Len(commands) - 1
      /\ Len(commands) \in Nat /\ Len(commands) >= 1
      /\ \A i \in 1..Len(commands') : commands'[i] = commands[i + 1]
      /\ Head(commands) = commands[1] /\ Head(commands) \in Command
  BY <1>1, Taking DEF TimerInv, TimerTyped
<1>3. map \in Maps
  BY <1>1, <1>2 DEF Command
<1>4. \A u \in DOMAIN map : map[u] \in Intervals /\ map[u] # None
  BY <1>3, PartsAssumption DEF Maps
<1> HIDE DEF map
<1> DEFINE Task == [armed : BOOLEAN, interval : Intervals \cup {None}, running : BOOLEAN,
                    retired : BOOLEAN]
<1>5. ASSUME NEW u \in Uids
      PROVE  /\ tasks'[u] \in Task
             /\ tasks[u].running => tasks'[u].running
             /\ tasks'[u].running => tasks'[u].interval # None
             /\ tasks'[u].retired => tasks'[u].running
             /\ tasks'[u].interval # None => tasks'[u].armed \/ tasks'[u].running
             /\ tasks'[u].armed => tasks'[u].interval # None
             /\ IF u \in DOMAIN map
                THEN /\ tasks'[u].interval = map[u] /\ ~tasks'[u].retired
                     /\ tasks'[u].armed \/ tasks'[u].running
                ELSE ~tasks'[u].armed /\ (tasks'[u].interval # None => tasks'[u].retired)
  <2>1. /\ tasks[u] \in Task
        /\ tasks[u].running => Timer!Exists(u)
        /\ Timer!Exists(u) => tasks[u].armed \/ tasks[u].running
    BY DEF TimerInv, TimerTyped, TasksAreWhole
  <2>2. CASE u \notin DOMAIN map /\ tasks[u].running
    <3>1. tasks'[u] = [tasks[u] EXCEPT !.armed = FALSE, !.retired = TRUE]
      BY <1>1, <2>2 DEF Timer!Applied
    <3> QED
      BY <2>1, <2>2, <3>1 DEF Timer!Exists
  <2>3. CASE u \notin DOMAIN map /\ ~tasks[u].running
    <3>1. tasks'[u] = Timer!NoTask
      BY <1>1, <2>3 DEF Timer!Applied
    <3> QED
      BY <2>1, <2>3, <3>1 DEF Timer!NoTask
  <2>4. CASE u \in DOMAIN map /\ ~Timer!Exists(u)
    <3>1. tasks'[u] = Timer!Armed(map[u])
      BY <1>1, <2>4 DEF Timer!Applied
    <3> QED
      BY <1>4, <2>1, <2>4, <3>1 DEF Timer!Armed
  <2>5. CASE u \in DOMAIN map /\ Timer!Exists(u)
    <3>1. tasks'[u] = [tasks[u] EXCEPT !.retired = FALSE, !.interval = map[u],
                         !.armed = @ \/ (~tasks[u].running /\ tasks[u].interval # map[u])]
      BY <1>1, <2>5 DEF Timer!Applied
    <3> QED
      BY <1>4, <2>1, <2>5, <3>1, ZenonT(30)
  <2> QED
    BY <2>2, <2>3, <2>4, <2>5
<1>6. tasks' = [u \in Uids |-> tasks'[u]]
  BY <1>1 DEF Timer!Applied
<1>7. TimerTyped'
  BY <1>1, <1>2, <1>5, <1>6 DEF TimerInv, TimerTyped
<1>8. TasksAreWhole'
  BY <1>5 DEF TasksAreWhole, Timer!Exists
<1>9. \A i \in 1..Len(commands'), u \in Uids :
        Ends(i, u)' => i + 1 \in 1..Len(commands) /\ Ends(i + 1, u)
  BY <1>2 DEF Ends
<1>10. OneUpdateEach'
  <2>1. \A i, j \in 1..Len(commands'), u \in Uids : Ends(i, u)' /\ Ends(j, u)' => i = j
    <3> SUFFICES ASSUME NEW i \in 1..Len(commands'), NEW j \in 1..Len(commands'), NEW u \in Uids,
                        Ends(i, u)', Ends(j, u)'
                 PROVE  i = j
      OBVIOUS
    <3>1. i + 1 = j + 1
      BY <1>9 DEF TimerInv, OneUpdateEach
    <3> QED
      BY <1>2, <3>1
  <2>2. \A x \in updates : x.uid \in Uids
    BY DEF TimerInv, TimerTyped, Update
  <2>3. /\ \A x \in updates, i \in 1..Len(commands') : x.by = "timer" => ~Ends(i, x.uid)'
        /\ \A i \in 1..Len(commands'), u \in Uids : Ends(i, u)' => tasks'[u].running
    BY <1>5, <1>9, <2>2 DEF TimerInv, OneUpdateEach
  <2>4. \A x \in updates : x.by = "timer" => tasks'[x.uid].running
    BY <1>5, <2>2 DEF TimerInv, OneUpdateEach
  <2>5. \A x, y \in updates : x.by = "timer" /\ y.by = "timer" /\ x.uid = y.uid => x = y
    BY DEF TimerInv, OneUpdateEach
  <2> QED
    BY <1>1, <2>1, <2>3, <2>4, <2>5 DEF OneUpdateEach
<1>11. ScheduleReaches'
  <2>1. ASSUME NEW i \in 1..Len(commands'), commands'[i].kind = "Apply",
               \A j \in 1..Len(commands') : commands'[j].kind = "Apply" => j <= i
        PROVE  commands'[i].map = timer_map'
    <3>1. i + 1 \in 1..Len(commands) /\ commands'[i] = commands[i + 1]
      BY <1>2
    <3>2. ASSUME NEW j \in 1..Len(commands), Applies(j) PROVE j <= i + 1
      <4>1. CASE j = 1
        BY <1>2, <4>1
      <4>2. CASE j # 1
        <5>1. j - 1 \in 1..Len(commands') /\ commands'[j - 1] = commands[j]
          BY <1>2, <4>2
        <5> QED
          BY <2>1, <3>2, <5>1 DEF Applies
      <4> QED
        BY <4>1, <4>2
    <3> QED
      BY <1>1, <2>1, <3>1, <3>2 DEF TimerInv, ScheduleReaches, Applies
  <2>2. ASSUME \A i \in 1..Len(commands') : ~(commands'[i].kind = "Apply")
        PROVE  Serves(timer_map)'
    <3>1. ASSUME NEW j \in 1..Len(commands), Applies(j) PROVE j <= 1
      <4>1. CASE j = 1
        BY <1>2, <4>1
      <4>2. CASE j # 1
        <5>1. j - 1 \in 1..Len(commands') /\ commands'[j - 1] = commands[j]
          BY <1>2, <4>2
        <5> QED
          BY <2>2, <3>1, <5>1 DEF Applies
      <4> QED
        BY <4>1, <4>2
    <3>2. 1 \in 1..Len(commands) /\ Applies(1)
      BY <1>1, <1>2 DEF Applies
    <3>3. commands[1].map = timer_map
      BY <3>1, <3>2 DEF TimerInv, ScheduleReaches
    <3>4. map = timer_map
      BY <1>2, <3>3 DEF map
    <3> QED
      BY <1>1, <1>5, <3>4 DEF Serves, Timer!Exists
  <2> QED
    BY <2>1, <2>2 DEF ScheduleReaches, Applies
<1> QED
  BY <1>1, <1>7, <1>8, <1>10, <1>11 DEF TimerInv, UpdatesApart

\* A command that is taken and changes nothing.
LEMMA TakenStays ==
  ASSUME TimerInv, commands # <<>>, commands' = Tail(commands), Head(commands).kind # "Apply",
         UNCHANGED <<settings, timer_map, refresh, editor, tasks, updates, started>>
  PROVE  TimerInv'
<1>1. /\ commands' \in Seq(Command) /\ Len(commands') = Len(commands) - 1
      /\ Len(commands) \in Nat /\ Len(commands) >= 1
      /\ \A i \in 1..Len(commands') : commands'[i] = commands[i + 1]
  BY Taking DEF TimerInv, TimerTyped
<1>2. \A i \in 1..Len(commands'), v \in Uids :
        Ends(i, v)' => i + 1 \in 1..Len(commands) /\ Ends(i + 1, v)
  BY <1>1 DEF Ends
<1>3. OneUpdateEach'
  <2>1. \A i, j \in 1..Len(commands'), v \in Uids : Ends(i, v)' /\ Ends(j, v)' => i = j
    <3> SUFFICES ASSUME NEW i \in 1..Len(commands'), NEW j \in 1..Len(commands'), NEW v \in Uids,
                        Ends(i, v)', Ends(j, v)'
                 PROVE  i = j
      OBVIOUS
    <3>1. i + 1 = j + 1
      BY <1>2 DEF TimerInv, OneUpdateEach
    <3> QED
      BY <1>1, <3>1
  <2>2. \A x \in updates : x.uid \in Uids
    BY DEF TimerInv, TimerTyped, Update
  <2> QED
    BY <1>2, <2>1, <2>2 DEF TimerInv, OneUpdateEach
<1>4. Serves(timer_map) => Serves(timer_map)'
  BY DEF Serves, Timer!Exists
<1>5. ScheduleReaches'
  BY <1>4, TakenReaches DEF TimerInv, TimerTyped
<1> QED
  BY <1>1, <1>3, <1>5 DEF TimerInv, TimerTyped, UpdatesApart, TasksAreWhole, Timer!Exists

\* A task that is run leaves the tasks whole, and no less serves the schedule.
LEMMA Marking ==
  ASSUME TimerInv, NEW u \in Uids, Timer!Exists(u), tasks[u].running = FALSE,
         tasks' = [tasks EXCEPT ![u].armed = FALSE, ![u].running = TRUE]
  PROVE  /\ tasks' \in [Uids -> [armed : BOOLEAN, interval : Intervals \cup {None},
                                 running : BOOLEAN, retired : BOOLEAN]]
         /\ TasksAreWhole'
         /\ \A map : Serves(map) => \A v \in Uids :
              IF v \in DOMAIN map
              THEN /\ tasks'[v].interval = map[v] /\ ~tasks'[v].retired
                   /\ tasks'[v].armed \/ tasks'[v].running
              ELSE ~tasks'[v].armed /\ (tasks'[v].interval # None => tasks'[v].retired)
         /\ \A v \in Uids : tasks[v].running => tasks'[v].running
         /\ tasks'[u].running
<1> DEFINE marked == [[tasks[u] EXCEPT !.armed = FALSE] EXCEPT !.running = TRUE]
           Task == [armed : BOOLEAN, interval : Intervals \cup {None}, running : BOOLEAN,
                    retired : BOOLEAN]
<1>1. tasks \in [Uids -> Task] /\ tasks[u] \in Task
  BY DEF TimerInv, TimerTyped
<1>2. /\ marked \in Task /\ marked.armed = FALSE /\ marked.running = TRUE
      /\ marked.interval = tasks[u].interval /\ marked.retired = tasks[u].retired
  BY <1>1
<1>3. tasks' = [tasks EXCEPT ![u] = marked]
  BY <1>1
<1> HIDE DEF marked
<1>4. tasks' \in [Uids -> Task]
  BY <1>1, <1>2, <1>3
<1>5. \A v \in Uids : tasks'[v] = IF v = u THEN marked ELSE tasks[v]
  BY <1>1, <1>3
<1>6. TasksAreWhole'
  BY <1>2, <1>5, ZenonT(30) DEF TimerInv, TasksAreWhole, Timer!Exists
<1>7. ASSUME NEW map, Serves(map)
      PROVE  \A v \in Uids :
              IF v \in DOMAIN map
              THEN /\ tasks'[v].interval = map[v] /\ ~tasks'[v].retired
                   /\ tasks'[v].armed \/ tasks'[v].running
              ELSE ~tasks'[v].armed /\ (tasks'[v].interval # None => tasks'[v].retired)
  BY <1>2, <1>5, <1>7 DEF Serves, Timer!Exists
<1>8. tasks'[u].running /\ \A v \in Uids : tasks[v].running => tasks'[v].running
  BY <1>2, <1>5
<1> QED
  BY <1>4, <1>6, <1>7, <1>8

\* A task is run.
LEMMA Running ==
  ASSUME TimerInv, NEW u \in Uids, Timer!Exists(u), Timer!Run(u),
         \/ commands' = commands
         \/ commands # <<>> /\ commands' = Tail(commands) /\ Head(commands).kind = "RunNow",
         UNCHANGED <<settings, timer_map, refresh, editor>>
  PROVE  TimerInv'
<1> DEFINE it == [id |-> started, uid |-> u, by |-> "timer", step |-> "spawned",
                  read |-> Timer!Gone]
           Task == [armed : BOOLEAN, interval : Intervals \cup {None}, running : BOOLEAN,
                    retired : BOOLEAN]
<1>1. /\ commands' \in Seq(Command)
      /\ \A i \in 1..Len(commands'), v \in Uids :
           Ends(i, v)' => IF commands' = commands THEN i \in 1..Len(commands) /\ Ends(i, v)
                          ELSE i + 1 \in 1..Len(commands) /\ Ends(i + 1, v)
      /\ \A i \in 1..Len(commands'), j \in 1..Len(commands'), v \in Uids :
           Ends(i, v)' /\ Ends(j, v)' => i = j
  <2>1. CASE commands' = commands
    BY <2>1 DEF TimerInv, TimerTyped, OneUpdateEach, Ends
  <2>2. CASE commands' # commands /\ commands # <<>> /\ commands' = Tail(commands)
    <3>1. /\ commands' \in Seq(Command) /\ Len(commands') = Len(commands) - 1
          /\ Len(commands) \in Nat /\ Len(commands) >= 1
          /\ \A i \in 1..Len(commands') : commands'[i] = commands[i + 1]
      BY <2>2, Taking DEF TimerInv, TimerTyped
    <3>2. \A i \in 1..Len(commands'), v \in Uids :
            Ends(i, v)' => i + 1 \in 1..Len(commands) /\ Ends(i + 1, v)
      BY <3>1 DEF Ends
    <3>3. ASSUME NEW i \in 1..Len(commands'), NEW j \in 1..Len(commands'), NEW v \in Uids,
                 Ends(i, v)', Ends(j, v)'
          PROVE  i = j
      <4>1. i + 1 = j + 1
        BY <3>2, <3>3 DEF TimerInv, OneUpdateEach
      <4> QED
        BY <3>1, <4>1
    <3> QED
      BY <2>2, <3>1, <3>2, <3>3, ZenonT(30)
  <2> QED
    BY <2>1, <2>2
<1>2. \A x \in updates : x.uid \in Uids
  BY DEF TimerInv, TimerTyped, Update
<1>3. CASE tasks[u].running
  <2>1. UNCHANGED <<tasks, updates, started>>
    <3>1. [tasks EXCEPT ![u].armed = @] = tasks
      BY DEF TimerInv, TimerTyped
    <3> QED
      BY <1>3, <3>1 DEF Timer!Run
  <2>2. TimerTyped' /\ UpdatesApart' /\ TasksAreWhole'
    BY <1>1, <2>1 DEF TimerInv, TimerTyped, UpdatesApart, TasksAreWhole, Timer!Exists
  <2>3. OneUpdateEach'
    BY <1>1, <1>2, <2>1 DEF TimerInv, OneUpdateEach
  <2>4. ScheduleReaches'
    <3>1. CASE commands' = commands
      BY <2>1, <3>1 DEF TimerInv, ScheduleReaches, Applies, Serves, Timer!Exists
    <3>2. CASE commands # <<>> /\ commands' = Tail(commands) /\ Head(commands).kind = "RunNow"
      <4>1. Serves(timer_map) => Serves(timer_map)'
        BY <2>1 DEF Serves, Timer!Exists
      <4> QED
        BY <3>2, <4>1, TakenReaches DEF TimerInv, TimerTyped
    <3> QED
      BY <3>1, <3>2
  <2> QED
    BY <2>2, <2>3, <2>4 DEF TimerInv
<1>4. CASE tasks[u].running = FALSE
  <2>1. /\ tasks' = [tasks EXCEPT ![u].armed = FALSE, ![u].running = TRUE]
        /\ started' = started + 1 /\ updates' = updates \cup {it}
    BY <1>4 DEF Timer!Run, Timer!Spawn
  <2>2. /\ tasks' \in [Uids -> Task] /\ TasksAreWhole'
        /\ Serves(timer_map) => Serves(timer_map)'
        /\ \A v \in Uids : tasks[v].running => tasks'[v].running
        /\ tasks'[u].running
    BY <1>4, <2>1, Marking DEF Serves, Timer!Exists
  <2>3. /\ it \in Update /\ it.uid = u /\ it.id = started
    BY DEF Update, TimerInv, TimerTyped
  <2> HIDE DEF it
  <2>4. TimerTyped' /\ UpdatesApart'
    <3>1. started \in Nat /\ updates \subseteq Update /\ \A x \in updates : x.id < started
      BY DEF TimerInv, TimerTyped, UpdatesApart
    <3>2. \A x \in updates : x.id \in Nat
      BY <3>1 DEF Update
    <3>3. UpdatesApart'
      BY <2>1, <2>3, <3>1, <3>2 DEF TimerInv, UpdatesApart
    <3> QED
      BY <1>1, <2>1, <2>2, <2>3, <3>3 DEF TimerInv, TimerTyped
  <2>5. OneUpdateEach'
    <3>1. \A x \in updates : x.by = "timer" => x.uid # u
      BY <1>4 DEF TimerInv, OneUpdateEach
    <3>2. \A i \in 1..Len(commands) : ~Ends(i, u)
      BY <1>4 DEF TimerInv, OneUpdateEach
    <3>3. \A i \in 1..Len(commands') : ~Ends(i, u)'
      BY <1>1, <3>2
    <3>4. \A x \in updates, i \in 1..Len(commands') : x.by = "timer" => ~Ends(i, x.uid)'
      BY <1>1, <1>2 DEF TimerInv, OneUpdateEach
    <3>5. \A i \in 1..Len(commands'), v \in Uids : Ends(i, v)' => tasks'[v].running
      BY <1>1, <2>2 DEF TimerInv, OneUpdateEach
    <3>6. \A x \in updates : x.by = "timer" => tasks'[x.uid].running
      BY <1>2, <2>2 DEF TimerInv, OneUpdateEach
    <3>7. \A x, y \in updates' : x.by = "timer" /\ y.by = "timer" /\ x.uid = y.uid => x = y
      BY <2>1, <2>3, <3>1 DEF TimerInv, OneUpdateEach
    <3> QED
      BY <1>1, <2>1, <2>2, <2>3, <3>3, <3>4, <3>5, <3>6, <3>7 DEF OneUpdateEach
  <2>6. ScheduleReaches'
    <3>1. CASE commands' = commands
      BY <2>2, <3>1 DEF TimerInv, ScheduleReaches, Applies
    <3>2. CASE commands # <<>> /\ commands' = Tail(commands) /\ Head(commands).kind = "RunNow"
      BY <2>2, <3>2, TakenReaches DEF TimerInv, TimerTyped
    <3> QED
      BY <3>1, <3>2
  <2> QED
    BY <2>2, <2>4, <2>5, <2>6 DEF TimerInv
<1> QED
  BY <1>3, <1>4 DEF TimerInv, TimerTyped

\* A task whose time has come starts one update.
LEMMA TmRunExpired ==
  ASSUME TimerInv, NEW u \in Uids, Timer!RunExpired(u) PROVE TimerInv'
BY Running DEF Timer!RunExpired, Timer!refreshing, TimerInv, TasksAreWhole

\* So does a command to run one now.
LEMMA TmRunNow ==
  ASSUME TimerInv, Timer!RunNow PROVE TimerInv'
<1> DEFINE u == Head(commands).uid
<1>1. /\ UNCHANGED <<settings, timer_map, refresh, editor>>
      /\ commands # <<>> /\ Head(commands).kind = "RunNow" /\ commands' = Tail(commands)
      /\ IF Timer!Exists(u) THEN Timer!Run(u) ELSE UNCHANGED <<tasks, updates, started>>
  BY DEF Timer!RunNow, Timer!TakeCommand, Timer!refreshing
<1>2. Head(commands) \in Command
  BY <1>1, Taking DEF TimerInv, TimerTyped
<1>3. u \in Uids
  BY <1>1, <1>2 DEF Command
<1>4. CASE Timer!Exists(u)
  BY <1>1, <1>3, <1>4, Running
<1>5. CASE ~Timer!Exists(u)
  BY <1>1, <1>5, TakenStays
<1> QED
  BY <1>4, <1>5

\* The end of an update arms its task again, or removes it when it was retired.
LEMMA TmFinishTask ==
  ASSUME TimerInv, Timer!FinishTask PROVE TimerInv'
<1> DEFINE u == Head(commands).uid
           Task == [armed : BOOLEAN, interval : Intervals \cup {None}, running : BOOLEAN,
                    retired : BOOLEAN]
<1>1. /\ UNCHANGED <<settings, timer_map, refresh, editor, updates, started>>
      /\ commands # <<>> /\ Head(commands).kind = "TaskFinished" /\ commands' = Tail(commands)
      /\ tasks' = CASE ~Timer!Exists(u) -> tasks
                   [] tasks[u].retired -> [tasks EXCEPT ![u] = Timer!NoTask]
                   [] OTHER -> [tasks EXCEPT ![u] = Timer!Armed(tasks[u].interval)]
  BY DEF Timer!FinishTask, Timer!TakeCommand, Timer!refreshing
<1>2. /\ commands' \in Seq(Command) /\ Len(commands') = Len(commands) - 1
      /\ Len(commands) \in Nat /\ Len(commands) >= 1
      /\ \A i \in 1..Len(commands') : commands'[i] = commands[i + 1]
      /\ Head(commands) = commands[1] /\ Head(commands) \in Command
  BY <1>1, Taking DEF TimerInv, TimerTyped
<1>3. u \in Uids
  BY <1>1, <1>2 DEF Command
<1>4. Ends(1, u) /\ 1 \in 1..Len(commands)
  BY <1>1, <1>2 DEF Ends
<1>5. tasks \in [Uids -> Task]
  BY DEF TimerInv, TimerTyped
<1>6. tasks[u].running /\ Timer!Exists(u)
  BY <1>3, <1>4 DEF TimerInv, OneUpdateEach, TasksAreWhole
<1>7. PICK it \in Task :
        /\ tasks' = [tasks EXCEPT ![u] = it]
        /\ \/ tasks[u].retired /\ it = Timer!NoTask
           \/ ~tasks[u].retired /\ it = Timer!Armed(tasks[u].interval)
  <2>1. Timer!NoTask \in Task /\ Timer!Armed(tasks[u].interval) \in Task
    BY <1>3, <1>5 DEF Timer!NoTask, Timer!Armed
  <2>2. CASE tasks[u].retired
    BY <1>1, <1>6, <2>1, <2>2
  <2>3. CASE ~tasks[u].retired
    BY <1>1, <1>6, <2>1, <2>3
  <2> QED
    BY <2>2, <2>3
<1>8. /\ it.running = FALSE /\ it.retired = FALSE
      /\ IF tasks[u].retired THEN it.interval = None /\ it.armed = FALSE
         ELSE it.interval = tasks[u].interval /\ it.armed = TRUE
  BY <1>7 DEF Timer!NoTask, Timer!Armed
<1> HIDE DEF u
<1>9. /\ tasks' \in [Uids -> Task]
      /\ \A v \in Uids : tasks'[v] = IF v = u THEN it ELSE tasks[v]
  BY <1>3, <1>5, <1>7
<1>10. TasksAreWhole'
  BY <1>6, <1>8, <1>9 DEF TimerInv, TasksAreWhole, Timer!Exists
<1>11. Serves(timer_map) => Serves(timer_map)'
  <2> SUFFICES ASSUME Serves(timer_map), NEW v \in Uids
               PROVE  IF v \in DOMAIN timer_map
                      THEN /\ tasks'[v].interval = timer_map[v] /\ ~tasks'[v].retired
                           /\ tasks'[v].armed \/ tasks'[v].running
                      ELSE ~tasks'[v].armed /\ (tasks'[v].interval # None => tasks'[v].retired)
    BY <1>1 DEF Serves, Timer!Exists
  <2>1. CASE v # u
    BY <1>9, <2>1 DEF Serves, Timer!Exists
  <2>2. CASE v = u
    BY <1>6, <1>8, <1>9, <2>2 DEF Serves, Timer!Exists
  <2> QED
    BY <2>1, <2>2
<1>12. \A i \in 1..Len(commands'), v \in Uids :
         Ends(i, v)' => i + 1 \in 1..Len(commands) /\ Ends(i + 1, v) /\ v # u
  <2> SUFFICES ASSUME NEW i \in 1..Len(commands'), NEW v \in Uids, Ends(i, v)'
               PROVE  i + 1 \in 1..Len(commands) /\ Ends(i + 1, v) /\ v # u
    OBVIOUS
  <2>1. i + 1 \in 1..Len(commands) /\ Ends(i + 1, v)
    BY <1>2 DEF Ends
  <2>2. CASE v = u
    <3>1. i + 1 = 1
      BY <1>3, <1>4, <2>1, <2>2 DEF TimerInv, OneUpdateEach
    <3> QED
      BY <1>2, <3>1
  <2> QED
    BY <2>1, <2>2
<1>13. \A x \in updates : x.uid \in Uids /\ (x.by = "timer" => x.uid # u)
  BY <1>3, <1>4 DEF TimerInv, TimerTyped, Update, OneUpdateEach
<1>14. OneUpdateEach'
  <2>1. \A i, j \in 1..Len(commands'), v \in Uids : Ends(i, v)' /\ Ends(j, v)' => i = j
    <3> SUFFICES ASSUME NEW i \in 1..Len(commands'), NEW j \in 1..Len(commands'), NEW v \in Uids,
                        Ends(i, v)', Ends(j, v)'
                 PROVE  i = j
      OBVIOUS
    <3>1. i + 1 = j + 1
      BY <1>12 DEF TimerInv, OneUpdateEach
    <3> QED
      BY <1>2, <3>1
  <2>2. \A x \in updates, i \in 1..Len(commands') : x.by = "timer" => ~Ends(i, x.uid)'
    BY <1>12, <1>13 DEF TimerInv, OneUpdateEach
  <2>3. \A i \in 1..Len(commands'), v \in Uids : Ends(i, v)' => tasks'[v].running
    BY <1>9, <1>12 DEF TimerInv, OneUpdateEach
  <2>4. \A x \in updates : x.by = "timer" => tasks'[x.uid].running
    BY <1>9, <1>13 DEF TimerInv, OneUpdateEach
  <2>5. \A x, y \in updates : x.by = "timer" /\ y.by = "timer" /\ x.uid = y.uid => x = y
    BY DEF TimerInv, OneUpdateEach
  <2> QED
    BY <1>1, <2>1, <2>2, <2>3, <2>4, <2>5 DEF OneUpdateEach
<1>15. ScheduleReaches'
  BY <1>1, <1>11, TakenReaches DEF TimerInv, TimerTyped
<1> QED
  BY <1>1, <1>2, <1>9, <1>10, <1>14, <1>15 DEF TimerInv, TimerTyped, UpdatesApart

\* An update by hand is nothing to the scheduler.
LEMMA TmUpdateByHand ==
  ASSUME TimerInv, NEW u \in Uids, Timer!UpdateByHand(u) PROVE TimerInv'
<1> DEFINE it == [id |-> started, uid |-> u, by |-> "user", step |-> "spawned",
                  read |-> Timer!Gone]
<1>1. /\ UNCHANGED <<settings, timer_map, refresh, commands, tasks, editor>>
      /\ started' = started + 1 /\ updates' = updates \cup {it}
  BY DEF Timer!UpdateByHand, Timer!Spawn, Timer!refreshing, Timer!scheduler
<1>2. it \in Update /\ it.id = started /\ it.by = "user"
  BY DEF Update, TimerInv, TimerTyped
<1> HIDE DEF it
<1>3. started \in Nat /\ updates \subseteq Update /\ \A x \in updates : x.id < started
  BY DEF TimerInv, TimerTyped, UpdatesApart
<1>4. \A x \in updates : x.id \in Nat
  BY <1>3 DEF Update
<1>5. UpdatesApart'
  BY <1>1, <1>2, <1>3, <1>4 DEF TimerInv, UpdatesApart
<1>6. TimerTyped'
  BY <1>1, <1>2 DEF TimerInv, TimerTyped
<1>7. \A x \in updates' : x.by = "timer" => x \in updates
  BY <1>1, <1>2
<1>8. OneUpdateEach'
  BY <1>1, <1>7 DEF TimerInv, OneUpdateEach, Ends
<1> QED
  BY <1>1, <1>5, <1>6, <1>8 DEF TimerInv, TasksAreWhole, ScheduleReaches, Applies, Serves,
     Timer!Exists

\* An update that is over reports to the scheduler when the timer has started it.
LEMMA Reporting ==
  ASSUME TimerInv, NEW x \in updates, Timer!Report(x),
         settings' \in [Uids -> Timer!Settings \cup {Timer!Gone}],
         UNCHANGED <<timer_map, refresh, tasks, started, editor>>
  PROVE  TimerInv'
<1> DEFINE c == [kind |-> "TaskFinished", uid |-> x.uid]
<1>1. /\ updates' = updates \ {x}
      /\ commands' = IF x.by = "timer" THEN Append(commands, c) ELSE commands
  BY DEF Timer!Report
<1>2. x \in Update /\ x.uid \in Uids
  BY DEF TimerInv, TimerTyped, Update
<1>3. c \in Command /\ c.kind = "TaskFinished" /\ c.uid = x.uid
  BY <1>2 DEF Command
<1> HIDE DEF c
<1>4. UpdatesApart' /\ TasksAreWhole'
  BY <1>1 DEF TimerInv, UpdatesApart, TasksAreWhole, Timer!Exists
<1>5. CASE x.by # "timer"
  BY <1>1, <1>4, <1>5 DEF TimerInv, TimerTyped, OneUpdateEach, Ends, ScheduleReaches, Applies,
     Serves, Timer!Exists
<1>6. CASE x.by = "timer"
  <2>0. commands' = Append(commands, c)
    BY <1>1, <1>6
  <2>1. /\ commands' \in Seq(Command) /\ Len(commands') = Len(commands) + 1
        /\ Len(commands) \in Nat
        /\ \A i \in 1..Len(commands) : commands'[i] = commands[i]
        /\ commands'[Len(commands) + 1] = c
    BY <1>3, <2>0, Sending DEF TimerInv, TimerTyped
  <2>2. \A i \in 1..Len(commands'), u \in Uids :
          Ends(i, u)' => \/ i \in 1..Len(commands) /\ Ends(i, u)
                         \/ i = Len(commands) + 1 /\ u = x.uid
    BY <1>3, <2>1 DEF Ends
  <2>3. \A i \in 1..Len(commands) : ~Ends(i, x.uid)
    BY <1>6 DEF TimerInv, OneUpdateEach
  <2>4. \A y \in updates' : y \in updates /\ y.uid \in Uids /\ (y.by = "timer" => y.uid # x.uid)
    BY <1>1, <1>6 DEF TimerInv, TimerTyped, Update, OneUpdateEach
  <2>5. OneUpdateEach'
    <3>1. \A i, j \in 1..Len(commands'), u \in Uids : Ends(i, u)' /\ Ends(j, u)' => i = j
      BY <2>1, <2>2, <2>3 DEF TimerInv, OneUpdateEach
    <3>2. \A y \in updates', i \in 1..Len(commands') : y.by = "timer" => ~Ends(i, y.uid)'
      BY <2>2, <2>4 DEF TimerInv, OneUpdateEach
    <3>3. \A i \in 1..Len(commands'), u \in Uids : Ends(i, u)' => tasks[u].running
      BY <1>2, <1>6, <2>2 DEF TimerInv, OneUpdateEach
    <3>4. /\ \A y \in updates' : y.by = "timer" => tasks[y.uid].running
          /\ \A y, z \in updates' : y.by = "timer" /\ z.by = "timer" /\ y.uid = z.uid => y = z
      BY <2>4 DEF TimerInv, OneUpdateEach
    <3> QED
      BY <3>1, <3>2, <3>3, <3>4 DEF OneUpdateEach
  <2>6. ScheduleReaches'
    BY <1>3, <2>0, SentReaches DEF TimerInv, TimerTyped
  <2>7. TimerTyped'
    BY <1>1, <2>1 DEF TimerInv, TimerTyped
  <2> QED
    BY <1>4, <2>5, <2>6, <2>7 DEF TimerInv
<1> QED
  BY <1>5, <1>6

\* An update reads the settings it will come back with.
LEMMA TmUpdateStarts ==
  ASSUME TimerInv, NEW x \in updates, Timer!UpdateStarts(x) PROVE TimerInv'
<1>1. UNCHANGED <<settings, timer_map, refresh, tasks, started, editor>>
  BY DEF Timer!UpdateStarts, Timer!refreshing
<1>2. CASE Timer!Report(x)
  BY <1>1, <1>2, Reporting DEF TimerInv, TimerTyped
<1>3. CASE ~Timer!Report(x)
  <2> DEFINE it == [[x EXCEPT !.step = "downloading"] EXCEPT !.read = settings[x.uid]]
  <2>1. x \in Update /\ x.uid \in Uids
    BY DEF TimerInv, TimerTyped, Update
  <2>2. settings[x.uid] \in Timer!Settings \cup {Timer!Gone}
    BY <2>1 DEF TimerInv, TimerTyped
  <2>3. it \in Update /\ it.id = x.id /\ it.uid = x.uid /\ it.by = x.by
    BY <2>1, <2>2 DEF Update
  <2>4. commands' = commands /\ updates' = (updates \ {x}) \cup {it}
    BY <1>3, <2>1 DEF Timer!UpdateStarts, Timer!Replace, Update
  <2> HIDE DEF it
  <2>5. TimerTyped' /\ UpdatesApart'
    BY <1>1, <2>1, <2>3, <2>4 DEF TimerInv, TimerTyped, UpdatesApart
  <2>6. OneUpdateEach'
    BY <1>1, <2>3, <2>4 DEF TimerInv, OneUpdateEach, Ends
  <2> QED
    BY <1>1, <2>4, <2>5, <2>6 DEF TimerInv, TasksAreWhole, ScheduleReaches, Applies, Serves,
       Timer!Exists
<1> QED
  BY <1>2, <1>3

\* A download that failed is over.
LEMMA TmDownloadFails ==
  ASSUME TimerInv, NEW x \in updates, Timer!DownloadFails(x) PROVE TimerInv'
BY Reporting DEF Timer!DownloadFails, Timer!refreshing, TimerInv, TimerTyped

\* An update that lands is over, and asks for a refresh when the schedule may differ.
LEMMA TmUpdateLands ==
  ASSUME TimerInv, NEW x \in updates, NEW proposed \in Intervals \cup {None},
         Timer!UpdateLands(x, proposed) PROVE TimerInv'
<1> DEFINE interval == IF x.read.interval # None THEN x.read.interval ELSE proposed
           old == settings[x.uid]
           merged == [old EXCEPT !.allow = x.read.allow,
                        !.interval = IF interval # None THEN interval ELSE @]
<1>1. /\ UNCHANGED <<timer_map, refresh, tasks, started, editor>> /\ Timer!Report(x)
      /\ settings' = IF old = Timer!Gone THEN settings ELSE [settings EXCEPT ![x.uid] = merged]
  BY DEF Timer!UpdateLands, Timer!refreshing, Timer!Merged
<1>2. x.uid \in Uids /\ x.read \in Timer!Settings \cup {Timer!Gone}
  BY DEF TimerInv, TimerTyped, Update
<1>3. x.read.interval \in Intervals \cup {None} /\ x.read.allow \in BOOLEAN
  <2>1. CASE x.read \in Timer!Settings
    BY <2>1 DEF Timer!Settings
  <2>2. CASE x.read = Timer!Gone
    BY <2>2 DEF Timer!Gone
  <2> QED
    BY <1>2, <2>1, <2>2
<1>4. settings \in [Uids -> Timer!Settings \cup {Timer!Gone}]
  BY DEF TimerInv, TimerTyped
<1>5. old # Timer!Gone => merged \in Timer!Settings
  <2>1. old # Timer!Gone => old \in Timer!Settings
    BY <1>2, <1>4
  <2>2. interval \in Intervals \cup {None}
    BY <1>3
  <2> HIDE DEF interval, old
  <2> QED
    BY <1>3, <2>1, <2>2 DEF Timer!Settings
<1> HIDE DEF merged
<1>6. settings' \in [Uids -> Timer!Settings \cup {Timer!Gone}]
  BY <1>1, <1>2, <1>4, <1>5
<1> QED
  BY <1>1, <1>6, Reporting

\* The user begins an edit of the settings of a profile.
LEMMA TmEditBegins ==
  ASSUME TimerInv, NEW u \in Uids, NEW to \in Timer!Settings \cup {Timer!Gone},
         Timer!EditBegins(u, to) PROVE TimerInv'
<1>1. /\ UNCHANGED <<settings, timer_map, refresh, commands, tasks, updates, started>>
      /\ editor' = [edit |-> [step |-> "compared", uid |-> u, to |-> to,
                              changes |-> settings[u] # to], made |-> editor.made + 1]
  BY DEF Timer!EditBegins, Timer!refreshing, Timer!scheduler
<1>2. /\ editor' \in [edit : [step : {"none", "compared"}, uid : Uids \cup {None},
                              to : Timer!Settings \cup {Timer!Gone}, changes : BOOLEAN],
                      made : Nat]
      /\ editor'.edit.uid \in Uids
  BY <1>1 DEF TimerInv, TimerTyped
<1> QED
  BY <1>1, <1>2 DEF TimerInv, TimerTyped, UpdatesApart, OneUpdateEach, TasksAreWhole,
     ScheduleReaches, Ends, Applies, Serves, Timer!Exists

\* The edit lands, and asks for a refresh.
LEMMA TmEditLands ==
  ASSUME TimerInv, Timer!EditLands PROVE TimerInv'
<1>1. /\ UNCHANGED <<timer_map, refresh, commands, tasks, updates, started>>
      /\ editor.edit.step = "compared"
      /\ settings' = [settings EXCEPT ![editor.edit.uid] = editor.edit.to]
      /\ editor' = [editor EXCEPT !.edit = Timer!NoEdit]
  BY DEF Timer!EditLands, Timer!scheduler
<1>2. editor.edit.uid \in Uids /\ editor.edit.to \in Timer!Settings \cup {Timer!Gone}
  BY <1>1 DEF TimerInv, TimerTyped
<1>3. /\ editor' \in [edit : [step : {"none", "compared"}, uid : Uids \cup {None},
                              to : Timer!Settings \cup {Timer!Gone}, changes : BOOLEAN],
                      made : Nat]
      /\ editor'.edit.step = "none"
  BY <1>1 DEF TimerInv, TimerTyped, Timer!NoEdit
<1> QED
  BY <1>1, <1>2, <1>3 DEF TimerInv, TimerTyped, UpdatesApart, OneUpdateEach, TasksAreWhole,
     ScheduleReaches, Ends, Applies, Serves, Timer!Exists

\* Every step of the part keeps its invariant.
LEMMA TimerStep ==
  ASSUME TimerInv, Timer!Next PROVE TimerInv'
BY TmRefreshReads, TmRefreshPublishes, TmRunOverdue, TmApply, TmRunExpired, TmRunNow,
   TmFinishTask, TmUpdateByHand, TmUpdateStarts, TmDownloadFails, TmUpdateLands, TmEditBegins,
   TmEditLands DEF Timer!Next

\* The invariant holds at the start.
LEMMA TimerStarts ==
  ASSUME Timer!Init PROVE TimerInv
<1>1. commands = <<>> /\ commands \in Seq(Command) /\ Len(commands) = 0
  BY DEF Timer!Init
<1>2. TimerTyped
  BY <1>1 DEF Timer!Init, TimerTyped, Timer!NoTask, Timer!NoEdit, Timer!Gone
<1>3. UpdatesApart /\ OneUpdateEach
  BY <1>1 DEF Timer!Init, UpdatesApart, OneUpdateEach
<1>4. TasksAreWhole /\ Serves(timer_map)
  BY DEF Timer!Init, TasksAreWhole, Serves, Timer!NoTask, Timer!Exists
<1> QED
  BY <1>1, <1>2, <1>3, <1>4 DEF TimerInv, ScheduleReaches

\* The timer has one update of a profile in flight at most, and once the channel is
\* empty its tasks serve exactly the published schedule (apply_timer_map, finish_task,
\* refresh).
THEOREM ScheduleServed == Spec => []ScheduleIsServed
<1> DEFINE Inv == part = "timer" => TimerInv
<1>1. Init => Inv
  BY TimerStarts DEF Init
<1>2. Inv /\ [Next]_mcvars => Inv'
  <2> SUFFICES ASSUME Inv, [Next]_mcvars, part' = "timer"
               PROVE  TimerInv'
    OBVIOUS
  <2>1. part = "timer"
    BY PartStays
  <2>2. CASE Timer!Next
    BY <2>1, <2>2, TimerStep
  <2>3. CASE UNCHANGED timer_vars
    BY <2>1, <2>3 DEF timer_vars, TimerInv, TimerTyped, UpdatesApart, OneUpdateEach,
       TasksAreWhole, ScheduleReaches, Ends, Applies, Serves, Timer!Exists
  <2> QED
    BY <2>1, <2>2, <2>3 DEF Next, mcvars
<1>3. Inv => ScheduleIsServed
  <2> SUFFICES ASSUME TimerInv PROVE Timer!ScheduleIsServed
    BY DEF ScheduleIsServed
  <2>1. commands = <<>> => Len(commands) = 0
    OBVIOUS
  <2> QED
    BY <2>1 DEF TimerInv, OneUpdateEach, ScheduleReaches, Serves, Timer!ScheduleIsServed
<1> QED
  BY <1>1, <1>2, <1>3, PTL DEF Spec

-----------------------------------------------------------------------------
(* The current profile *)

\* A list of profiles, and what a caller is doing.
Lists == [current : Profiles \cup {None}, items : [Profiles -> {"plain", "patched", "gone"}],
          version : Nat]
SwitchSteps == {"idle", "locking", "asking", "generating", "applying", "committing", "modifying",
                "restoring", "applyingPrevious", "saving", "written", "unsaved", "done"}
DeleteSteps == {"idle", "planning", "asking", "generating", "applying", "storing", "deleting",
                "puttingBack", "givingUp", "done"}
PatchSteps == {"idle", "patching", "replacing", "patched", "done"}
UpdateSteps == {"idle", "generating", "applying", "done"}
Call == [kind : {"switch", "delete", "patch", "update"},
         step : SwitchSteps \cup DeleteSteps \cup PatchSteps,
         target : Profiles, previous : Profiles \cup {None}, candidate : Lists \cup {<<>>},
         generated : Profiles \cup {None}]

\* The steps of a call of each kind.
StepsOf(kind) ==
  CASE kind = "switch" -> SwitchSteps [] kind = "delete" -> DeleteSteps
    [] kind = "patch" -> PatchSteps   [] kind = "update" -> UpdateSteps

\* What the variables of the part hold.
SwitchTyped ==
  /\ profiles \in Lists
  /\ staged # None => staged[1] \in Lists
  /\ calls \in [Callers -> Call]
  /\ \A d \in Callers : calls[d].step \in StepsOf(calls[d].kind)

\* What a caller holds at each step: the lock of those who write profiles, the permit of those
\* who modify them, the claim of those who update the Core.
Writes(d) ==
  \/ /\ calls[d].kind = "switch"
     /\ calls[d].step \in {"asking", "generating", "applying", "committing", "modifying",
                           "restoring", "applyingPrevious"}
  \/ /\ calls[d].kind = "delete"
     /\ calls[d].step \in {"planning", "asking", "generating", "applying", "storing", "deleting",
                           "puttingBack", "givingUp"}
Modifies(d) ==
  \/ Switch!At(d, "switch", "written")
  \/ calls[d].kind = "patch" /\ calls[d].step \in {"patching", "replacing"}
  \/ calls[d].kind = "delete" /\ Writes(d) /\ calls[d].step # "planning"
Updates(d) == calls[d].step \in {"generating", "applying", "puttingBack"}

Held ==
  \A d \in Callers :
    /\ Writes(d) => writing = d
    /\ Modifies(d) => permit = d
    /\ Updates(d) => updating = d
    /\ calls[d].kind = "delete" /\ updating = d => Writes(d)
         /\ calls[d].step \notin {"planning", "asking"}

\* The profile a switch is for, as long as it is there.
Wanted(d) == IF calls[d].target \in Switch!In(profiles) THEN calls[d].target ELSE profiles.current

\* The draft is the one of the switch that has staged it.
Staging(d) ==
  /\ calls[d].kind = "switch"
  /\ calls[d].step \in {"asking", "generating", "applying", "committing", "restoring",
                        "applyingPrevious"}
Staged ==
  /\ staged # None => \E d \in Callers : Staging(d)
  /\ \A d \in Callers :
       /\ Staging(d) => staged # None /\ calls[d].previous = profiles.current
       /\ Staging(d) /\ calls[d].step \in {"asking", "generating", "applying"} =>
            staged[1].current = Wanted(d)
       /\ Switch!At(d, "switch", "applying") => calls[d].generated = Wanted(d)
       /\ Switch!At(d, "switch", "applyingPrevious") =>
            /\ staged[1].current = profiles.current
            /\ ~crossed => staged[1].items = profiles.items

\* What a deletion and a patch will replace the profiles with differs from them by the change
\* they make, or is out of date.
Deletes(d) ==
  /\ calls[d].kind = "delete"
  /\ calls[d].step \in {"asking", "generating", "applying", "storing", "deleting", "puttingBack"}
CandidateOf(d) ==
  /\ Deletes(d) =>
       /\ calls[d].candidate \in Lists /\ calls[d].candidate.version = profiles.version
       /\ \A pr \in Profiles : calls[d].candidate.items[pr] \in {profiles.items[pr], "gone"}
       /\ calls[d].step \in {"storing", "deleting"} /\ updating # d =>
            calls[d].candidate.current = profiles.current
  /\ Switch!At(d, "delete", "applying") => calls[d].generated = calls[d].candidate.current
  /\ Switch!At(d, "patch", "patching") =>
       /\ calls[d].candidate \in Lists /\ calls[d].candidate.version <= profiles.version
       /\ calls[d].candidate.version = profiles.version => calls[d].candidate = profiles
  /\ Switch!At(d, "patch", "replacing") =>
       /\ calls[d].candidate \in Lists /\ calls[d].candidate.version <= profiles.version
       /\ calls[d].candidate.items[calls[d].target] = "patched"
       /\ calls[d].candidate.version = profiles.version =>
            /\ calls[d].candidate.current = profiles.current
            /\ \A pr \in Profiles :
                 /\ calls[d].candidate.items[pr] \in {profiles.items[pr], "patched"}
                 /\ calls[d].candidate.items[pr] = "gone" <=> profiles.items[pr] = "gone"
Candidates == \A d \in Callers : CandidateOf(d)

\* The file is the profiles, or those a caller that modifies them is about to commit, unless a
\* switch has still to save.
Pending == \E d \in Callers : calls[d].kind = "switch" /\ calls[d].step \in {"saving", "unsaved"}

\* What the file is while a caller modifies the profiles, and when nobody else does.
HeldFile(d) ==
  /\ Switch!At(d, "switch", "written") => calls[d].candidate = profiles
  /\ Switch!At(d, "patch", "patching") =>
       calls[d].candidate = profiles /\ file = Switch!Content(profiles)
  /\ Switch!At(d, "patch", "replacing") \/ Switch!At(d, "delete", "deleting") =>
       /\ file = Switch!Content(calls[d].candidate)
       /\ calls[d].candidate.version = profiles.version
  /\ calls[d].kind = "delete" /\ Modifies(d) /\ calls[d].step # "deleting" =>
       file = Switch!Content(profiles)
FileFollows ==
  \/ Pending
  \/ /\ (\A d \in Callers : ~Modifies(d)) => file = Switch!Content(profiles)
     /\ \A d \in Callers : HeldFile(d)
FileOf(d) == HeldFile(d) /\ (~Modifies(d) => file = Switch!Content(profiles))

\* The Core runs the current profile, or the one a switch or a deletion that has updated it is
\* about to make current.
Committing(d) == calls[d].kind = "switch" /\ calls[d].step \in {"committing", "modifying"}
Storing(d) ==
  calls[d].kind = "delete" /\ updating = d /\ calls[d].step \in {"storing", "deleting"}
CoreFollows ==
  ~crossed =>
    /\ \A d \in Callers :
         /\ Committing(d) => loaded \in {Wanted(d), Switch!Unknown}
         /\ Storing(d) => loaded \in {calls[d].candidate.current, Switch!Unknown}
         /\ Switch!At(d, "update", "applying") =>
              calls[d].generated = profiles.current /\ \A e \in Callers : ~Committing(e)
    /\ (\A d \in Callers : ~Committing(d) /\ ~Storing(d) /\ calls[d].step # "puttingBack") =>
         loaded \in {profiles.current, Switch!Unknown}

\* A patch that was answered is still there.
Patched ==
  ~crossed =>
    \A d \in Callers : calls[d].step = "patched" => profiles.items[calls[d].target] # "plain"

\* The inductive invariant of the current profile.
SwitchInv ==
  SwitchTyped /\ Held /\ Staged /\ Candidates /\ FileFollows /\ CoreFollows /\ Patched

\* A draft that is staged is one.
LEMMA StagedIsThere ==
  ASSUME NEW l \in Lists
  PROVE  <<l>> # None /\ <<l>>[1] = l
<1>1. <<l>> \in Seq([current : Profiles \cup {None},
                      items : [Profiles -> {"plain", "patched", "gone"}], version : Nat])
  BY DEF Lists
<1> QED
  BY <1>1, DraftAssumption

\* What a deletion, and a patch, make of a list.
LEMMA ItemsReplaced ==
  ASSUME NEW l \in Lists, NEW pr \in Profiles, NEW new \in {"plain", "patched", "gone"}
  PROVE  /\ [l EXCEPT !.items[pr] = new] \in Lists
         /\ [l EXCEPT !.items[pr] = new].version = l.version
         /\ [l EXCEPT !.items[pr] = new].current = l.current
         /\ [l EXCEPT !.items[pr] = new].items[pr] = new
         /\ \A p2 \in Profiles :
              p2 # pr => [l EXCEPT !.items[pr] = new].items[p2] = l.items[p2]
<1> DEFINE items == [l.items EXCEPT ![pr] = new]
<1>1. /\ items \in [Profiles -> {"plain", "patched", "gone"}] /\ items[pr] = new
      /\ \A p2 \in Profiles : p2 # pr => items[p2] = l.items[p2]
  BY DEF Lists
<1>2. [l EXCEPT !.items[pr] = new] = [l EXCEPT !.items = items]
  OBVIOUS
<1> HIDE DEF items
<1> QED
  BY <1>1, <1>2 DEF Lists

\* A list without a profile differs from it by that profile.
LEMMA WithoutIs ==
  ASSUME NEW l \in Lists, NEW pr \in Profiles
  PROVE  /\ Switch!Without(l, pr) \in Lists /\ Switch!Without(l, pr).version = l.version
         /\ Switch!Without(l, pr).current = l.current
         /\ \A p2 \in Profiles : Switch!Without(l, pr).items[p2] \in {l.items[p2], "gone"}
<1>1. Switch!Without(l, pr) = [l EXCEPT !.items[pr] = "gone"]
  BY DEF Switch!Without
<1>2. /\ [l EXCEPT !.items[pr] = "gone"] \in Lists
      /\ [l EXCEPT !.items[pr] = "gone"].version = l.version
      /\ [l EXCEPT !.items[pr] = "gone"].current = l.current
      /\ [l EXCEPT !.items[pr] = "gone"].items[pr] = "gone"
      /\ \A p2 \in Profiles :
           p2 # pr => [l EXCEPT !.items[pr] = "gone"].items[p2] = l.items[p2]
  BY ItemsReplaced
<1>3. ASSUME NEW p2 \in Profiles
      PROVE  Switch!Without(l, pr).items[p2] \in {l.items[p2], "gone"}
  <2>1. CASE p2 = pr
    BY <1>1, <1>2, <2>1
  <2>2. CASE p2 # pr
    BY <1>1, <1>2, <2>2
  <2> QED
    BY <2>1, <2>2
<1> QED
  BY <1>1, <1>2, <1>3

\* A patch of a profile leaves the rest of the list.
LEMMA PatchedIs ==
  ASSUME NEW l \in Lists, NEW pr \in Profiles
  PROVE  /\ [l EXCEPT !.items[pr] = "patched"] \in Lists
         /\ [l EXCEPT !.items[pr] = "patched"].version = l.version
         /\ [l EXCEPT !.items[pr] = "patched"].current = l.current
         /\ [l EXCEPT !.items[pr] = "patched"].items[pr] = "patched"
         /\ \A p2 \in Profiles :
              p2 # pr => [l EXCEPT !.items[pr] = "patched"].items[p2] = l.items[p2]
BY ItemsReplaced

\* A deletion of the current profile plans to go on with another, if there is one.
PlansNext(c, nx) ==
  calls' = [calls EXCEPT ![c].step = "asking",
              ![c].candidate = [Switch!Without(profiles, calls[c].target) EXCEPT !.current = nx]]

\* What a step of one caller has to keep of the types, ...
LEMMA TypedStep ==
  ASSUME SwitchTyped, NEW c \in Callers, NEW it \in Call, it.step \in StepsOf(it.kind),
         calls' = [calls EXCEPT ![c] = it], profiles' = profiles \/ profiles' \in Lists,
         staged' = staged \/ (staged' # None => staged'[1] \in Lists)
  PROVE  SwitchTyped'
<1>1. /\ calls' \in [Callers -> Call]
      /\ \A d \in Callers : calls'[d] = IF d = c THEN it ELSE calls[d]
  BY DEF SwitchTyped
<1>2. \A d \in Callers : calls'[d].step \in StepsOf(calls'[d].kind)
  BY <1>1 DEF SwitchTyped
<1>3. profiles' \in Lists /\ (staged' # None => staged'[1] \in Lists)
  BY DEF SwitchTyped
<1> QED
  BY <1>1, <1>2, <1>3 DEF SwitchTyped

\* ... of the candidates when the list stays what it is, ...
LEMMA CandidateStep ==
  ASSUME SwitchInv, NEW c \in Callers, NEW it, calls' = [calls EXCEPT ![c] = it],
         profiles' = profiles, \A d \in Callers : d # c /\ updating = d => updating' = d,
         CandidateOf(c)'
  PROVE  Candidates'
<1>1. \A d \in Callers : d # c => calls'[d] = calls[d]
  BY DEF SwitchInv, SwitchTyped
<1>2. ASSUME NEW d \in Callers, d # c PROVE CandidateOf(d)'
  <2>1. CandidateOf(d)
    BY DEF SwitchInv, Candidates
  <2>2. Deletes(d)' <=> Deletes(d)
    BY <1>1, <1>2 DEF Deletes
  <2> QED
    BY <1>1, <1>2, <2>1, <2>2 DEF CandidateOf, Switch!At
<1> QED
  BY <1>2 DEF Candidates

\* ... and of the file when nobody else modifies the profiles.
LEMMA FileStep ==
  ASSUME SwitchInv, NEW c \in Callers, NEW it, calls' = [calls EXCEPT ![c] = it],
         ~(calls[c].kind = "switch" /\ calls[c].step \in {"saving", "unsaved"}),
         \A d \in Callers : d # c => ~Modifies(d),
         FileOf(c) => FileOf(c)'
  PROVE  FileFollows'
<1>1. \A d \in Callers : d # c => calls'[d] = calls[d]
  BY DEF SwitchInv, SwitchTyped
<1>2. CASE Pending
  <2>1. PICK d \in Callers : calls[d].kind = "switch" /\ calls[d].step \in {"saving", "unsaved"}
    BY <1>2 DEF Pending
  <2>2. calls'[d] = calls[d]
    BY <1>1, <2>1
  <2>3. Pending'
    BY <2>1, <2>2 DEF Pending
  <2> QED
    BY <2>3 DEF FileFollows
<1>3. CASE ~Pending
  <2>1. FileOf(c)'
    BY <1>3 DEF SwitchInv, FileFollows, FileOf
  <2>2. \A d \in Callers : d # c => ~Modifies(d)'
    BY <1>1 DEF Modifies, Writes, Switch!At
  <2>3. \A d \in Callers : d # c => HeldFile(d)'
    BY <2>2 DEF HeldFile, Modifies, Writes, Switch!At
  <2> QED
    BY <2>1, <2>2, <2>3 DEF FileFollows, FileOf
<1> QED
  BY <1>2, <1>3

\* patch_profiles_config: the first switch goes on to the lock.
LEMMA SwBeginsLocking ==
  ASSUME SwitchInv, NEW c \in Callers, Switch!SwitchBegins(c), switching = None PROVE SwitchInv'
<1> DEFINE it == [calls[c] EXCEPT !.step = "locking"]
<1>1. /\ UNCHANGED <<profiles, staged, file, loaded, writing, permit, updating, crossed>>
      /\ calls' = [calls EXCEPT ![c] = it]
      /\ calls[c].kind = "switch" /\ calls[c].step = "idle"
  BY DEF Switch!SwitchBegins, Switch!At, Switch!To, SwitchInv, SwitchTyped, Call
<1>2. /\ it \in Call /\ it.step = "locking"
      /\ it.kind = calls[c].kind
      /\ it.target = calls[c].target
      /\ it.previous = calls[c].previous
      /\ it.candidate = calls[c].candidate
      /\ it.generated = calls[c].generated
  <2>1. /\ calls[c] \in Call /\ profiles \in Lists
        /\ profiles.current \in Profiles \cup {None}
    BY DEF SwitchInv, SwitchTyped, Lists
  <2> QED
    BY <1>1, <2>1 DEF Call, SwitchSteps, DeleteSteps, PatchSteps
<1> HIDE DEF it
<1>3. \A d \in Callers : calls'[d] = IF d = c THEN it ELSE calls[d]
  BY <1>1 DEF SwitchInv, SwitchTyped
<1>4. it.step \in StepsOf(it.kind)
  BY <1>1, <1>2 DEF StepsOf, SwitchSteps, DeleteSteps, PatchSteps, UpdateSteps
<1>5. SwitchTyped'
  BY <1>1, <1>2, <1>4, TypedStep DEF SwitchInv
<1>6. Held'
  BY <1>1, <1>2, <1>3, PartsAssumption DEF SwitchInv, Held, Writes, Modifies, Updates,
     Switch!At, SwitchTyped, StepsOf, SwitchSteps, DeleteSteps, PatchSteps, UpdateSteps
<1>7. Staged'
  BY <1>1, <1>2, <1>3, PartsAssumption DEF SwitchInv, Staged, Staging, Wanted, Switch!In,
     Switch!At
<1>8. Candidates'
  <2>1. CandidateOf(c)'
    BY <1>1, <1>2, <1>3, PartsAssumption DEF SwitchInv, Candidates, CandidateOf, Deletes,
       Switch!At
  <2> QED
    BY <1>1, <2>1, CandidateStep
<1>9. FileFollows'
  BY <1>1, <1>2, <1>3, PartsAssumption DEF SwitchInv, FileFollows, HeldFile, Pending, Modifies,
     Writes, Switch!At
<1>10. CoreFollows'
  BY <1>1, <1>2, <1>3, PartsAssumption DEF SwitchInv, CoreFollows, Committing, Storing, Wanted,
     Switch!In, Switch!At
<1>11. Patched'
  BY <1>1, <1>2, <1>3, PartsAssumption DEF SwitchInv, Patched
<1> QED
  BY <1>5, <1>6, <1>7, <1>8, <1>9, <1>10, <1>11 DEF SwitchInv

\* A switch that finds another under way is turned away.
LEMMA SwBeginsDone ==
  ASSUME SwitchInv, NEW c \in Callers, Switch!SwitchBegins(c), switching # None PROVE SwitchInv'
<1> DEFINE it == [calls[c] EXCEPT !.step = "done"]
<1>1. /\ UNCHANGED <<profiles, staged, file, loaded, writing, permit, updating, crossed>>
      /\ calls' = [calls EXCEPT ![c] = it]
      /\ calls[c].kind = "switch" /\ calls[c].step = "idle"
  BY DEF Switch!SwitchBegins, Switch!At, Switch!To, SwitchInv, SwitchTyped, Call
<1>2. /\ it \in Call /\ it.step = "done"
      /\ it.kind = calls[c].kind
      /\ it.target = calls[c].target
      /\ it.previous = calls[c].previous
      /\ it.candidate = calls[c].candidate
      /\ it.generated = calls[c].generated
  <2>1. /\ calls[c] \in Call /\ profiles \in Lists
        /\ profiles.current \in Profiles \cup {None}
    BY DEF SwitchInv, SwitchTyped, Lists
  <2> QED
    BY <1>1, <2>1 DEF Call, SwitchSteps, DeleteSteps, PatchSteps
<1> HIDE DEF it
<1>3. \A d \in Callers : calls'[d] = IF d = c THEN it ELSE calls[d]
  BY <1>1 DEF SwitchInv, SwitchTyped
<1>4. it.step \in StepsOf(it.kind)
  BY <1>1, <1>2 DEF StepsOf, SwitchSteps, DeleteSteps, PatchSteps, UpdateSteps
<1>5. SwitchTyped'
  BY <1>1, <1>2, <1>4, TypedStep DEF SwitchInv
<1>6. Held'
  BY <1>1, <1>2, <1>3, PartsAssumption DEF SwitchInv, Held, Writes, Modifies, Updates,
     Switch!At, SwitchTyped, StepsOf, SwitchSteps, DeleteSteps, PatchSteps, UpdateSteps
<1>7. Staged'
  BY <1>1, <1>2, <1>3, PartsAssumption DEF SwitchInv, Staged, Staging, Wanted, Switch!In,
     Switch!At
<1>8. Candidates'
  <2>1. CandidateOf(c)'
    BY <1>1, <1>2, <1>3, PartsAssumption DEF SwitchInv, Candidates, CandidateOf, Deletes,
       Switch!At
  <2> QED
    BY <1>1, <2>1, CandidateStep
<1>9. FileFollows'
  BY <1>1, <1>2, <1>3, PartsAssumption DEF SwitchInv, FileFollows, HeldFile, Pending, Modifies,
     Writes, Switch!At
<1>10. CoreFollows'
  BY <1>1, <1>2, <1>3, PartsAssumption DEF SwitchInv, CoreFollows, Committing, Storing, Wanted,
     Switch!In, Switch!At
<1>11. Patched'
  BY <1>1, <1>2, <1>3, PartsAssumption DEF SwitchInv, Patched
<1> QED
  BY <1>5, <1>6, <1>7, <1>8, <1>9, <1>10, <1>11 DEF SwitchInv

\* With the lock in hand it stages the profile it is for.
LEMMA SwStages ==
  ASSUME SwitchInv, NEW c \in Callers, Switch!SwitchStages(c) PROVE SwitchInv'
<1> DEFINE it == [calls[c] EXCEPT !.step = "asking", !.previous = profiles.current]
<1>1. /\ UNCHANGED <<profiles, file, loaded, permit, updating, crossed>>
      /\ calls' = [calls EXCEPT ![c] = it]
      /\ calls[c].kind = "switch" /\ calls[c].step = "locking"
      /\ writing = None
      /\ writing' = c
      /\ staged' = <<Switch!WithCurrent(Switch!Latest, calls[c].target)>>
  BY DEF Switch!SwitchStages, Switch!At, Switch!To, Switch!locks, SwitchInv, SwitchTyped, Call,
     Switch!Acquire
<1>2. /\ it \in Call /\ it.step = "asking"
      /\ it.kind = calls[c].kind
      /\ it.target = calls[c].target
      /\ it.candidate = calls[c].candidate
      /\ it.generated = calls[c].generated
      /\ it.previous = profiles.current
  <2>1. /\ calls[c] \in Call /\ profiles \in Lists
        /\ profiles.current \in Profiles \cup {None}
    BY DEF SwitchInv, SwitchTyped, Lists
  <2> QED
    BY <1>1, <2>1 DEF Call, SwitchSteps, DeleteSteps, PatchSteps
<1> HIDE DEF it
<1>3. \A d \in Callers : calls'[d] = IF d = c THEN it ELSE calls[d]
  BY <1>1 DEF SwitchInv, SwitchTyped
<1>4. \A d \in Callers : ~Writes(d) /\ ~Staging(d)
  BY <1>1, PartsAssumption DEF SwitchInv, Held, Writes, Staging
<1>5. staged = None
  BY <1>4 DEF SwitchInv, Staged
<1>6. /\ staged' # None /\ staged'[1] \in Lists /\ staged'[1].current = Wanted(c)
  <2>1. staged' = <<Switch!WithCurrent(profiles, calls[c].target)>>
    BY <1>1, <1>5 DEF Switch!Latest
  <2>2. profiles \in Lists /\ calls[c].target \in Profiles
    BY DEF SwitchInv, SwitchTyped, Call
  <2>3. /\ Switch!WithCurrent(profiles, calls[c].target) \in Lists
        /\ Switch!WithCurrent(profiles, calls[c].target).current = Wanted(c)
    BY <2>2 DEF Switch!WithCurrent, Wanted, Switch!In, Lists
  <2> QED
    BY <2>1, <2>3, StagedIsThere
<1>7. it.step \in StepsOf(it.kind)
  BY <1>1, <1>2 DEF StepsOf, SwitchSteps, DeleteSteps, PatchSteps, UpdateSteps
<1>8. SwitchTyped'
  BY <1>1, <1>2, <1>6, <1>7, TypedStep DEF SwitchInv
<1>9. Held'
  BY <1>1, <1>2, <1>3, <1>4, PartsAssumption DEF SwitchInv, Held, Writes, Modifies, Updates,
     Switch!At, SwitchTyped, StepsOf, SwitchSteps, DeleteSteps, PatchSteps, UpdateSteps
<1>10. Staged'
  BY <1>1, <1>2, <1>3, <1>4, <1>6, PartsAssumption DEF SwitchInv, Staged, Staging, Wanted,
     Switch!In, Switch!At
<1>11. Candidates'
  <2>1. CandidateOf(c)'
    BY <1>1, <1>2, <1>3, <1>4, PartsAssumption DEF SwitchInv, Candidates, CandidateOf, Deletes,
       Switch!At, Writes
  <2> QED
    BY <1>1, <2>1, CandidateStep
<1>12. FileFollows'
  BY <1>1, <1>2, <1>3, PartsAssumption DEF SwitchInv, FileFollows, HeldFile, Pending, Modifies,
     Writes, Switch!At
<1>13. CoreFollows'
  BY <1>1, <1>2, <1>3, PartsAssumption DEF SwitchInv, CoreFollows, Committing, Storing, Wanted,
     Switch!In, Switch!At
<1>14. Patched'
  BY <1>1, <1>2, <1>3, PartsAssumption DEF SwitchInv, Patched
<1> QED
  BY <1>8, <1>9, <1>10, <1>11, <1>12, <1>13, <1>14 DEF SwitchInv

\* A valid switch drops its draft (commit_current_profile).
LEMMA SwCommitCurrent ==
  ASSUME SwitchInv, NEW c \in Callers, Switch!CommitCurrent(c) PROVE SwitchInv'
<1> DEFINE it == [calls[c] EXCEPT !.step = "modifying"]
<1>1. /\ UNCHANGED <<profiles, file, loaded, writing, permit, updating, crossed>>
      /\ calls' = [calls EXCEPT ![c] = it]
      /\ calls[c].kind = "switch" /\ calls[c].step = "committing"
      /\ staged' = None
  BY DEF Switch!CommitCurrent, Switch!At, Switch!To, Switch!locks, SwitchInv, SwitchTyped, Call
<1>2. /\ it \in Call /\ it.step = "modifying"
      /\ it.kind = calls[c].kind
      /\ it.target = calls[c].target
      /\ it.previous = calls[c].previous
      /\ it.candidate = calls[c].candidate
      /\ it.generated = calls[c].generated
  <2>1. /\ calls[c] \in Call /\ profiles \in Lists
        /\ profiles.current \in Profiles \cup {None}
    BY DEF SwitchInv, SwitchTyped, Lists
  <2> QED
    BY <1>1, <2>1 DEF Call, SwitchSteps, DeleteSteps, PatchSteps
<1> HIDE DEF it
<1>3. \A d \in Callers : calls'[d] = IF d = c THEN it ELSE calls[d]
  BY <1>1 DEF SwitchInv, SwitchTyped
<1>4. \A d \in Callers : d # c => ~Writes(d)
  BY <1>1 DEF SwitchInv, Held, Writes
<1>5. \A d \in Callers : d # c => ~Staging(d) /\ ~Committing(d) /\ ~Deletes(d)
  BY <1>4 DEF Writes, Staging, Committing, Deletes
<1>6. it.step \in StepsOf(it.kind)
  BY <1>1, <1>2 DEF StepsOf, SwitchSteps, DeleteSteps, PatchSteps, UpdateSteps
<1>7. SwitchTyped'
  BY <1>1, <1>2, <1>6, TypedStep DEF SwitchInv
<1>8. Held'
  BY <1>1, <1>2, <1>3, PartsAssumption DEF SwitchInv, Held, Writes, Modifies, Updates,
     Switch!At, SwitchTyped, StepsOf, SwitchSteps, DeleteSteps, PatchSteps, UpdateSteps
<1>9. Staged'
  BY <1>1, <1>2, <1>3, <1>5, PartsAssumption DEF SwitchInv, Staged, Staging, Wanted, Switch!In,
     Switch!At
<1>10. Candidates'
  <2>1. CandidateOf(c)'
    BY <1>1, <1>2, <1>3, PartsAssumption DEF SwitchInv, Candidates, CandidateOf, Deletes,
       Switch!At
  <2> QED
    BY <1>1, <2>1, CandidateStep
<1>11. FileFollows'
  BY <1>1, <1>2, <1>3, PartsAssumption DEF SwitchInv, FileFollows, HeldFile, Pending, Modifies,
     Writes, Switch!At
<1>12. CoreFollows'
  BY <1>1, <1>2, <1>3, PartsAssumption DEF SwitchInv, CoreFollows, Committing, Storing, Wanted,
     Switch!In, Switch!At
<1>13. Patched'
  BY <1>1, <1>2, <1>3, PartsAssumption DEF SwitchInv, Patched
<1> QED
  BY <1>7, <1>8, <1>9, <1>10, <1>11, <1>12, <1>13 DEF SwitchInv

\* It commits the current profile alone, when nobody modifies the profiles.
LEMMA SwCommits ==
  ASSUME SwitchInv, NEW c \in Callers, Switch!SwitchCommits(c) PROVE SwitchInv'
<1> DEFINE it == [calls[c] EXCEPT !.step = "saving"]
<1>1. /\ UNCHANGED <<staged, file, loaded, writing, permit, updating, crossed>>
      /\ calls' = [calls EXCEPT ![c] = it]
      /\ calls[c].kind = "switch" /\ calls[c].step = "modifying"
      /\ permit = None
      /\ profiles' = Switch!WithCurrent(profiles, calls[c].target)
  BY DEF Switch!SwitchCommits, Switch!At, Switch!To, Switch!locks, SwitchInv, SwitchTyped, Call
<1>2. /\ it \in Call /\ it.step = "saving"
      /\ it.kind = calls[c].kind
      /\ it.target = calls[c].target
      /\ it.previous = calls[c].previous
      /\ it.candidate = calls[c].candidate
      /\ it.generated = calls[c].generated
  <2>1. /\ calls[c] \in Call /\ profiles \in Lists
        /\ profiles.current \in Profiles \cup {None}
    BY DEF SwitchInv, SwitchTyped, Lists
  <2> QED
    BY <1>1, <2>1 DEF Call, SwitchSteps, DeleteSteps, PatchSteps
<1> HIDE DEF it
<1>3. \A d \in Callers : calls'[d] = IF d = c THEN it ELSE calls[d]
  BY <1>1 DEF SwitchInv, SwitchTyped
<1>4. \A d \in Callers : d # c => ~Writes(d)
  BY <1>1 DEF SwitchInv, Held, Writes
<1>5. \A d \in Callers : d # c => ~Staging(d) /\ ~Committing(d) /\ ~Deletes(d)
  BY <1>4 DEF Writes, Staging, Committing, Deletes
<1>6. \A d \in Callers : d # c => ~Modifies(d)
  BY <1>1, PartsAssumption DEF SwitchInv, Held, Modifies
<1>7. /\ profiles' \in Lists /\ profiles'.items = profiles.items
      /\ profiles'.version = profiles.version /\ profiles'.current = Wanted(c)
  BY <1>1 DEF SwitchInv, SwitchTyped, Call, Lists, Switch!WithCurrent, Wanted, Switch!In
<1>8. it.step \in StepsOf(it.kind)
  BY <1>1, <1>2 DEF StepsOf, SwitchSteps, DeleteSteps, PatchSteps, UpdateSteps
<1>9. SwitchTyped'
  BY <1>1, <1>2, <1>7, <1>8, TypedStep DEF SwitchInv
<1>10. Held'
  BY <1>1, <1>2, <1>3, PartsAssumption DEF SwitchInv, Held, Writes, Modifies, Updates,
     Switch!At, SwitchTyped, StepsOf, SwitchSteps, DeleteSteps, PatchSteps, UpdateSteps
<1>11. Staged'
  BY <1>1, <1>2, <1>3, <1>5, <1>7, PartsAssumption DEF SwitchInv, Staged, Staging, Wanted,
     Switch!In, Switch!At
<1>12. Candidates'
  <2>1. ASSUME NEW d \in Callers
        PROVE  /\ ~Deletes(d)' /\ ~Switch!At(d, "delete", "applying")'
               /\ ~Switch!At(d, "patch", "patching")' /\ ~Switch!At(d, "patch", "replacing")'
    <3>1. CASE d = c
      BY <1>1, <1>2, <1>3, <3>1 DEF Deletes, Switch!At
    <3>2. CASE d # c
      BY <1>3, <1>5, <1>6, <3>2 DEF Deletes, Modifies, Switch!At
    <3> QED
      BY <3>1, <3>2
  <2> QED
    BY <2>1 DEF Candidates, CandidateOf
<1>13. FileFollows'
  BY <1>1, <1>2, <1>3, PartsAssumption DEF SwitchInv, FileFollows, HeldFile, Pending, Modifies,
     Writes, Switch!At
<1>14. CoreFollows'
  BY <1>1, <1>2, <1>3, <1>5, <1>7, PartsAssumption DEF SwitchInv, CoreFollows, Committing,
     Storing, Wanted, Switch!In, Switch!At, Deletes
<1>15. Patched'
  BY <1>1, <1>2, <1>3, <1>7, PartsAssumption DEF SwitchInv, Patched
<1> QED
  BY <1>9, <1>10, <1>11, <1>12, <1>13, <1>14, <1>15 DEF SwitchInv

\* The save holds the permit of those who modify, with the profiles as they are.
LEMMA SwSaveBegins ==
  ASSUME SwitchInv, NEW c \in Callers, Switch!SaveBegins(c) PROVE SwitchInv'
<1> DEFINE it == [calls[c] EXCEPT !.step = "written", !.candidate = profiles]
<1>1. /\ UNCHANGED <<profiles, staged, file, loaded, writing, updating, crossed>>
      /\ calls' = [calls EXCEPT ![c] = it]
      /\ calls[c].kind = "switch" /\ calls[c].step = "saving"
      /\ permit = None
      /\ permit' = c
  BY DEF Switch!SaveBegins, Switch!At, SwitchInv, SwitchTyped, Call, Switch!Acquire
<1>2. /\ it \in Call /\ it.step = "written"
      /\ it.kind = calls[c].kind
      /\ it.target = calls[c].target
      /\ it.previous = calls[c].previous
      /\ it.generated = calls[c].generated
      /\ it.candidate = profiles
  <2>1. /\ calls[c] \in Call /\ profiles \in Lists
        /\ profiles.current \in Profiles \cup {None}
    BY DEF SwitchInv, SwitchTyped, Lists
  <2> QED
    BY <1>1, <2>1 DEF Call, SwitchSteps, DeleteSteps, PatchSteps
<1> HIDE DEF it
<1>3. \A d \in Callers : calls'[d] = IF d = c THEN it ELSE calls[d]
  BY <1>1 DEF SwitchInv, SwitchTyped
<1>4. \A d \in Callers : d # c => ~Modifies(d)
  BY <1>1, PartsAssumption DEF SwitchInv, Held, Modifies
<1>5. it.step \in StepsOf(it.kind)
  BY <1>1, <1>2 DEF StepsOf, SwitchSteps, DeleteSteps, PatchSteps, UpdateSteps
<1>6. SwitchTyped'
  BY <1>1, <1>2, <1>5, TypedStep DEF SwitchInv
<1>7. Held'
  BY <1>1, <1>2, <1>3, PartsAssumption DEF SwitchInv, Held, Writes, Modifies, Updates,
     Switch!At, SwitchTyped, StepsOf, SwitchSteps, DeleteSteps, PatchSteps, UpdateSteps
<1>8. Staged'
  BY <1>1, <1>2, <1>3, PartsAssumption DEF SwitchInv, Staged, Staging, Wanted, Switch!In,
     Switch!At
<1>9. Candidates'
  <2>1. CandidateOf(c)'
    BY <1>1, <1>2, <1>3, PartsAssumption DEF SwitchInv, Candidates, CandidateOf, Deletes,
       Switch!At
  <2> QED
    BY <1>1, <2>1, CandidateStep
<1>10. FileFollows'
  BY <1>1, <1>2, <1>3, <1>4, PartsAssumption DEF SwitchInv, FileFollows, HeldFile, Pending,
     Modifies, Writes, Switch!At
<1>11. CoreFollows'
  BY <1>1, <1>2, <1>3, PartsAssumption DEF SwitchInv, CoreFollows, Committing, Storing, Wanted,
     Switch!In, Switch!At
<1>12. Patched'
  BY <1>1, <1>2, <1>3, PartsAssumption DEF SwitchInv, Patched
<1> QED
  BY <1>6, <1>7, <1>8, <1>9, <1>10, <1>11, <1>12 DEF SwitchInv

\* A save that lands makes the file the profiles.
LEMMA SwSaved ==
  ASSUME SwitchInv, NEW c \in Callers, Switch!SaveEnds(c), calls'[c].step = "done"
  PROVE  SwitchInv'
<1> DEFINE it == [calls[c] EXCEPT !.step = "done", !.candidate = <<>>]
<1>1. /\ UNCHANGED <<profiles, staged, loaded, updating, crossed>>
      /\ calls' = [calls EXCEPT ![c] = it]
      /\ calls[c].kind = "switch" /\ calls[c].step = "written"
      /\ permit' = None
      /\ writing' = IF writing = c THEN None ELSE writing
      /\ file' = Switch!Content(calls[c].candidate)
  BY DEF Switch!SaveEnds, Switch!At, Switch!To, Switch!locks, Switch!Release, SwitchInv,
     SwitchTyped, Call
<1>2. /\ it \in Call /\ it.step = "done"
      /\ it.kind = calls[c].kind
      /\ it.target = calls[c].target
      /\ it.previous = calls[c].previous
      /\ it.generated = calls[c].generated
      /\ it.candidate = <<>>
  <2>1. /\ calls[c] \in Call /\ profiles \in Lists
        /\ profiles.current \in Profiles \cup {None}
    BY DEF SwitchInv, SwitchTyped, Lists
  <2> QED
    BY <1>1, <2>1 DEF Call, SwitchSteps, DeleteSteps, PatchSteps
<1> HIDE DEF it
<1>3. \A d \in Callers : calls'[d] = IF d = c THEN it ELSE calls[d]
  BY <1>1 DEF SwitchInv, SwitchTyped
<1>4. /\ permit = c /\ \A d \in Callers : d # c => ~Modifies(d)
  BY <1>1, PartsAssumption DEF SwitchInv, Held, Modifies, Writes, Switch!At
<1>5. it.step \in StepsOf(it.kind)
  BY <1>1, <1>2 DEF StepsOf, SwitchSteps, DeleteSteps, PatchSteps, UpdateSteps
<1>6. SwitchTyped'
  BY <1>1, <1>2, <1>5, TypedStep DEF SwitchInv
<1>7. Held'
  BY <1>1, <1>2, <1>3, <1>4, PartsAssumption DEF SwitchInv, Held, Writes, Modifies, Updates,
     Switch!At, SwitchTyped, StepsOf, SwitchSteps, DeleteSteps, PatchSteps, UpdateSteps,
     Switch!Release
<1>8. Staged'
  BY <1>1, <1>2, <1>3, PartsAssumption DEF SwitchInv, Staged, Staging, Wanted, Switch!In,
     Switch!At
<1>9. Candidates'
  <2>1. CandidateOf(c)'
    BY <1>1, <1>2, <1>3, PartsAssumption DEF SwitchInv, Candidates, CandidateOf, Deletes,
       Switch!At
  <2> QED
    BY <1>1, <2>1, CandidateStep
<1>10. FileFollows'
  <2>1. FileOf(c) => FileOf(c)'
    BY <1>1, <1>2, <1>3, <1>4, PartsAssumption DEF SwitchInv, FileOf, HeldFile, Modifies,
       Writes, Switch!At
  <2> QED
    BY <1>1, <1>4, <2>1, FileStep
<1>11. CoreFollows'
  BY <1>1, <1>2, <1>3, PartsAssumption DEF SwitchInv, CoreFollows, Committing, Storing, Wanted,
     Switch!In, Switch!At
<1>12. Patched'
  BY <1>1, <1>2, <1>3, PartsAssumption DEF SwitchInv, Patched
<1> QED
  BY <1>6, <1>7, <1>8, <1>9, <1>10, <1>11, <1>12 DEF SwitchInv

\* A save that fails is logged, and the switch is over.
LEMMA SwUnsaved ==
  ASSUME SwitchInv, NEW c \in Callers, Switch!SaveEnds(c), calls'[c].step = "unsaved"
  PROVE  SwitchInv'
<1> DEFINE it == [calls[c] EXCEPT !.step = "unsaved", !.candidate = <<>>]
<1>1. /\ UNCHANGED <<profiles, staged, file, loaded, updating, crossed>>
      /\ calls' = [calls EXCEPT ![c] = it]
      /\ calls[c].kind = "switch" /\ calls[c].step = "written"
      /\ permit' = None
      /\ writing' = IF writing = c THEN None ELSE writing
  BY DEF Switch!SaveEnds, Switch!At, Switch!To, Switch!locks, Switch!Release, SwitchInv,
     SwitchTyped, Call
<1>2. /\ it \in Call /\ it.step = "unsaved"
      /\ it.kind = calls[c].kind
      /\ it.target = calls[c].target
      /\ it.previous = calls[c].previous
      /\ it.generated = calls[c].generated
      /\ it.candidate = <<>>
  <2>1. /\ calls[c] \in Call /\ profiles \in Lists
        /\ profiles.current \in Profiles \cup {None}
    BY DEF SwitchInv, SwitchTyped, Lists
  <2> QED
    BY <1>1, <2>1 DEF Call, SwitchSteps, DeleteSteps, PatchSteps
<1> HIDE DEF it
<1>3. \A d \in Callers : calls'[d] = IF d = c THEN it ELSE calls[d]
  BY <1>1 DEF SwitchInv, SwitchTyped
<1>4. /\ permit = c /\ \A d \in Callers : d # c => ~Modifies(d)
  BY <1>1, PartsAssumption DEF SwitchInv, Held, Modifies, Writes, Switch!At
<1>5. it.step \in StepsOf(it.kind)
  BY <1>1, <1>2 DEF StepsOf, SwitchSteps, DeleteSteps, PatchSteps, UpdateSteps
<1>6. SwitchTyped'
  BY <1>1, <1>2, <1>5, TypedStep DEF SwitchInv
<1>7. Held'
  BY <1>1, <1>2, <1>3, <1>4, PartsAssumption DEF SwitchInv, Held, Writes, Modifies, Updates,
     Switch!At, SwitchTyped, StepsOf, SwitchSteps, DeleteSteps, PatchSteps, UpdateSteps
<1>8. Staged'
  BY <1>1, <1>2, <1>3, PartsAssumption DEF SwitchInv, Staged, Staging, Wanted, Switch!In,
     Switch!At
<1>9. Candidates'
  <2>1. CandidateOf(c)'
    BY <1>1, <1>2, <1>3, PartsAssumption DEF SwitchInv, Candidates, CandidateOf, Deletes,
       Switch!At
  <2> QED
    BY <1>1, <2>1, CandidateStep
<1>10. FileFollows'
  BY <1>1, <1>2, <1>3, <1>4, PartsAssumption DEF SwitchInv, FileFollows, HeldFile, Pending,
     Modifies, Writes, Switch!At
<1>11. CoreFollows'
  BY <1>1, <1>2, <1>3, PartsAssumption DEF SwitchInv, CoreFollows, Committing, Storing, Wanted,
     Switch!In, Switch!At
<1>12. Patched'
  BY <1>1, <1>2, <1>3, PartsAssumption DEF SwitchInv, Patched
<1> QED
  BY <1>6, <1>7, <1>8, <1>9, <1>10, <1>11, <1>12 DEF SwitchInv

\* A switch that was refused puts the previous profile back over what is committed by
\* now (discard_and_restore).
LEMMA SwRestore ==
  ASSUME SwitchInv, NEW c \in Callers, Switch!Restore(c) PROVE SwitchInv'
<1> DEFINE it == [calls[c] EXCEPT !.step = "applyingPrevious"]
<1>1. /\ UNCHANGED <<profiles, file, loaded, writing, permit, updating, crossed>>
      /\ calls' = [calls EXCEPT ![c] = it]
      /\ calls[c].kind = "switch" /\ calls[c].step = "restoring"
      /\ staged' = <<Switch!WithCurrent(profiles, calls[c].previous)>>
  BY DEF Switch!Restore, Switch!At, Switch!To, Switch!locks, SwitchInv, SwitchTyped, Call
<1>2. /\ it \in Call /\ it.step = "applyingPrevious"
      /\ it.kind = calls[c].kind
      /\ it.target = calls[c].target
      /\ it.previous = calls[c].previous
      /\ it.candidate = calls[c].candidate
      /\ it.generated = calls[c].generated
  <2>1. /\ calls[c] \in Call /\ profiles \in Lists
        /\ profiles.current \in Profiles \cup {None}
    BY DEF SwitchInv, SwitchTyped, Lists
  <2> QED
    BY <1>1, <2>1 DEF Call, SwitchSteps, DeleteSteps, PatchSteps
<1> HIDE DEF it
<1>3. \A d \in Callers : calls'[d] = IF d = c THEN it ELSE calls[d]
  BY <1>1 DEF SwitchInv, SwitchTyped
<1>4. \A d \in Callers : d # c => ~Writes(d)
  BY <1>1 DEF SwitchInv, Held, Writes
<1>5. \A d \in Callers : d # c => ~Staging(d) /\ ~Committing(d) /\ ~Deletes(d)
  BY <1>4 DEF Writes, Staging, Committing, Deletes
<1>6. /\ staged' # None /\ staged'[1] \in Lists /\ staged'[1].current = profiles.current
      /\ staged'[1].items = profiles.items
  <2>1. calls[c].previous = profiles.current
    BY <1>1 DEF SwitchInv, Staged, Staging
  <2>2. profiles \in Lists /\ Switch!WithCurrent(profiles, calls[c].previous) = profiles
    BY <2>1 DEF SwitchInv, SwitchTyped, Switch!WithCurrent, Lists
  <2> QED
    BY <1>1, <2>2, StagedIsThere
<1>7. it.step \in StepsOf(it.kind)
  BY <1>1, <1>2 DEF StepsOf, SwitchSteps, DeleteSteps, PatchSteps, UpdateSteps
<1>8. SwitchTyped'
  BY <1>1, <1>2, <1>6, <1>7, TypedStep DEF SwitchInv
<1>9. Held'
  BY <1>1, <1>2, <1>3, PartsAssumption DEF SwitchInv, Held, Writes, Modifies, Updates,
     Switch!At, SwitchTyped, StepsOf, SwitchSteps, DeleteSteps, PatchSteps, UpdateSteps
<1>10. Staged'
  BY <1>1, <1>2, <1>3, <1>5, <1>6, PartsAssumption DEF SwitchInv, Staged, Staging, Wanted,
     Switch!In, Switch!At
<1>11. Candidates'
  <2>1. CandidateOf(c)'
    BY <1>1, <1>2, <1>3, PartsAssumption DEF SwitchInv, Candidates, CandidateOf, Deletes,
       Switch!At
  <2> QED
    BY <1>1, <2>1, CandidateStep
<1>12. FileFollows'
  BY <1>1, <1>2, <1>3, PartsAssumption DEF SwitchInv, FileFollows, HeldFile, Pending, Modifies,
     Writes, Switch!At
<1>13. CoreFollows'
  BY <1>1, <1>2, <1>3, PartsAssumption DEF SwitchInv, CoreFollows, Committing, Storing, Wanted,
     Switch!In, Switch!At
<1>14. Patched'
  BY <1>1, <1>2, <1>3, PartsAssumption DEF SwitchInv, Patched
<1> QED
  BY <1>8, <1>9, <1>10, <1>11, <1>12, <1>13, <1>14 DEF SwitchInv

\* The draft it has put back changes nothing that was committed meanwhile, unless an
\* update has crossed.
LEMMA SwApplyPrevious ==
  ASSUME SwitchInv, NEW c \in Callers, Switch!ApplyPrevious(c) PROVE SwitchInv'
<1> DEFINE it == [calls[c] EXCEPT !.step = "saving"]
<1>1. /\ UNCHANGED <<file, loaded, permit, updating, crossed>>
      /\ calls' = [calls EXCEPT ![c] = it]
      /\ calls[c].kind = "switch" /\ calls[c].step = "applyingPrevious"
      /\ staged' = None
      /\ writing' = IF writing = c THEN None ELSE writing
      /\ profiles' = IF staged = None THEN profiles ELSE [staged[1] EXCEPT !.version =
             profiles.version + 1]
  BY DEF Switch!ApplyPrevious, Switch!At, Switch!To, Switch!Release, SwitchInv, SwitchTyped,
     Call
<1>2. /\ it \in Call /\ it.step = "saving"
      /\ it.kind = calls[c].kind
      /\ it.target = calls[c].target
      /\ it.previous = calls[c].previous
      /\ it.candidate = calls[c].candidate
      /\ it.generated = calls[c].generated
  <2>1. /\ calls[c] \in Call /\ profiles \in Lists
        /\ profiles.current \in Profiles \cup {None}
    BY DEF SwitchInv, SwitchTyped, Lists
  <2> QED
    BY <1>1, <2>1 DEF Call, SwitchSteps, DeleteSteps, PatchSteps
<1> HIDE DEF it
<1>3. \A d \in Callers : calls'[d] = IF d = c THEN it ELSE calls[d]
  BY <1>1 DEF SwitchInv, SwitchTyped
<1>4. \A d \in Callers : d # c => ~Writes(d)
  BY <1>1 DEF SwitchInv, Held, Writes
<1>5. \A d \in Callers : d # c => ~Staging(d) /\ ~Committing(d) /\ ~Deletes(d)
  BY <1>4 DEF Writes, Staging, Committing, Deletes
<1>6. /\ staged # None /\ staged[1].current = profiles.current
      /\ ~crossed => staged[1].items = profiles.items
  BY <1>1 DEF SwitchInv, Staged, Staging, Switch!At
<1>7. /\ profiles' \in Lists /\ profiles'.current = profiles.current
      /\ profiles'.version = profiles.version + 1 /\ profiles.version \in Nat
      /\ ~crossed => profiles'.items = profiles.items
  BY <1>1, <1>6 DEF SwitchInv, SwitchTyped, Lists
<1>8. it.step \in StepsOf(it.kind)
  BY <1>1, <1>2 DEF StepsOf, SwitchSteps, DeleteSteps, PatchSteps, UpdateSteps
<1>9. SwitchTyped'
  BY <1>1, <1>2, <1>7, <1>8, TypedStep DEF SwitchInv
<1>10. Held'
  BY <1>1, <1>2, <1>3, <1>4, PartsAssumption DEF SwitchInv, Held, Writes, Modifies, Updates,
     Switch!At, SwitchTyped, StepsOf, SwitchSteps, DeleteSteps, PatchSteps, UpdateSteps
<1>11. Staged'
  BY <1>1, <1>2, <1>3, <1>5, <1>7, PartsAssumption DEF SwitchInv, Staged, Staging, Wanted,
     Switch!In, Switch!At
<1>12. Candidates'
  BY <1>1, <1>2, <1>3, <1>5, <1>7, PartsAssumption DEF SwitchInv, Candidates, CandidateOf,
     Deletes, Switch!At, Lists
<1>13. FileFollows'
  BY <1>1, <1>2, <1>3, PartsAssumption DEF SwitchInv, FileFollows, HeldFile, Pending, Modifies,
     Writes, Switch!At
<1>14. CoreFollows'
  BY <1>1, <1>2, <1>3, <1>5, <1>7, PartsAssumption DEF SwitchInv, CoreFollows, Committing,
     Storing, Wanted, Switch!In, Switch!At, Deletes
<1>15. Patched'
  BY <1>1, <1>2, <1>3, <1>7, PartsAssumption DEF SwitchInv, Patched
<1> QED
  BY <1>9, <1>10, <1>11, <1>12, <1>13, <1>14, <1>15 DEF SwitchInv

\* A switch that finds an update under way restores.
LEMMA SwBusySwitch ==
  ASSUME SwitchInv, NEW c \in Callers, Switch!UpdateBusy(c), calls[c].kind = "switch"
  PROVE  SwitchInv'
<1> DEFINE it == [calls[c] EXCEPT !.step = "restoring"]
<1>1. /\ UNCHANGED <<profiles, staged, file, loaded, writing, permit, updating, crossed>>
      /\ calls' = [calls EXCEPT ![c] = it]
      /\ calls[c].kind = "switch" /\ calls[c].step = "asking"
  BY DEF Switch!UpdateBusy, Switch!At, Switch!To, Switch!locks, SwitchInv, SwitchTyped, Call,
     Switch!AsksForUpdate, Switch!Rejected
<1>2. /\ it \in Call /\ it.step = "restoring"
      /\ it.kind = calls[c].kind
      /\ it.target = calls[c].target
      /\ it.previous = calls[c].previous
      /\ it.candidate = calls[c].candidate
      /\ it.generated = calls[c].generated
  <2>1. /\ calls[c] \in Call /\ profiles \in Lists
        /\ profiles.current \in Profiles \cup {None}
    BY DEF SwitchInv, SwitchTyped, Lists
  <2> QED
    BY <1>1, <2>1 DEF Call, SwitchSteps, DeleteSteps, PatchSteps
<1> HIDE DEF it
<1>3. \A d \in Callers : calls'[d] = IF d = c THEN it ELSE calls[d]
  BY <1>1 DEF SwitchInv, SwitchTyped
<1>4. it.step \in StepsOf(it.kind)
  BY <1>1, <1>2 DEF StepsOf, SwitchSteps, DeleteSteps, PatchSteps, UpdateSteps
<1>5. SwitchTyped'
  BY <1>1, <1>2, <1>4, TypedStep DEF SwitchInv
<1>6. Held'
  BY <1>1, <1>2, <1>3, PartsAssumption DEF SwitchInv, Held, Writes, Modifies, Updates,
     Switch!At, SwitchTyped, StepsOf, SwitchSteps, DeleteSteps, PatchSteps, UpdateSteps
<1>7. Staged'
  BY <1>1, <1>2, <1>3, PartsAssumption DEF SwitchInv, Staged, Staging, Wanted, Switch!In,
     Switch!At
<1>8. Candidates'
  <2>1. CandidateOf(c)'
    BY <1>1, <1>2, <1>3, PartsAssumption DEF SwitchInv, Candidates, CandidateOf, Deletes,
       Switch!At
  <2> QED
    BY <1>1, <2>1, CandidateStep
<1>9. FileFollows'
  BY <1>1, <1>2, <1>3, PartsAssumption DEF SwitchInv, FileFollows, HeldFile, Pending, Modifies,
     Writes, Switch!At
<1>10. CoreFollows'
  BY <1>1, <1>2, <1>3, PartsAssumption DEF SwitchInv, CoreFollows, Committing, Storing, Wanted,
     Switch!In, Switch!At
<1>11. Patched'
  BY <1>1, <1>2, <1>3, PartsAssumption DEF SwitchInv, Patched
<1> QED
  BY <1>5, <1>6, <1>7, <1>8, <1>9, <1>10, <1>11 DEF SwitchInv

\* A switch claims the update of the Core when nobody has (update_config_forced).
LEMMA SwClaimsSwitch ==
  ASSUME SwitchInv, NEW c \in Callers, Switch!UpdateClaims(c), calls[c].kind = "switch"
  PROVE  SwitchInv'
<1> DEFINE it == [calls[c] EXCEPT !.step = "generating"]
<1>1. /\ UNCHANGED <<profiles, staged, file, loaded, writing, permit, crossed>>
      /\ calls' = [calls EXCEPT ![c] = it]
      /\ calls[c].kind = "switch" /\ calls[c].step = "asking"
      /\ updating = None
      /\ updating' = c
  BY DEF Switch!UpdateClaims, Switch!At, Switch!To, SwitchInv, SwitchTyped, Call,
     Switch!AsksForUpdate, Switch!Acquire
<1>2. /\ it \in Call /\ it.step = "generating"
      /\ it.kind = calls[c].kind
      /\ it.target = calls[c].target
      /\ it.previous = calls[c].previous
      /\ it.candidate = calls[c].candidate
      /\ it.generated = calls[c].generated
  <2>1. /\ calls[c] \in Call /\ profiles \in Lists
        /\ profiles.current \in Profiles \cup {None}
    BY DEF SwitchInv, SwitchTyped, Lists
  <2> QED
    BY <1>1, <2>1 DEF Call, SwitchSteps, DeleteSteps, PatchSteps
<1> HIDE DEF it
<1>3. \A d \in Callers : calls'[d] = IF d = c THEN it ELSE calls[d]
  BY <1>1 DEF SwitchInv, SwitchTyped
<1>4. \A d \in Callers : ~Updates(d) /\ ~Storing(d)
  BY <1>1, PartsAssumption DEF SwitchInv, Held, Updates, Storing
<1>5. it.step \in StepsOf(it.kind)
  BY <1>1, <1>2 DEF StepsOf, SwitchSteps, DeleteSteps, PatchSteps, UpdateSteps
<1>6. SwitchTyped'
  BY <1>1, <1>2, <1>5, TypedStep DEF SwitchInv
<1>7. Held'
  BY <1>1, <1>2, <1>3, <1>4, PartsAssumption DEF SwitchInv, Held, Writes, Modifies, Updates,
     Switch!At, SwitchTyped, StepsOf, SwitchSteps, DeleteSteps, PatchSteps, UpdateSteps
<1>8. Staged'
  BY <1>1, <1>2, <1>3, PartsAssumption DEF SwitchInv, Staged, Staging, Wanted, Switch!In,
     Switch!At
<1>9. Candidates'
  <2>1. CandidateOf(c)'
    BY <1>1, <1>2, <1>3, PartsAssumption DEF SwitchInv, Candidates, CandidateOf, Deletes,
       Switch!At
  <2> QED
    BY <1>1, <2>1, CandidateStep, PartsAssumption
<1>10. FileFollows'
  BY <1>1, <1>2, <1>3, PartsAssumption DEF SwitchInv, FileFollows, HeldFile, Pending, Modifies,
     Writes, Switch!At
<1>11. CoreFollows'
  BY <1>1, <1>2, <1>3, <1>4, PartsAssumption DEF SwitchInv, CoreFollows, Committing, Storing,
     Wanted, Switch!In, Switch!At
<1>12. Patched'
  BY <1>1, <1>2, <1>3, PartsAssumption DEF SwitchInv, Patched
<1> QED
  BY <1>6, <1>7, <1>8, <1>9, <1>10, <1>11, <1>12 DEF SwitchInv

\* A deletion that finds an update under way gives up.
LEMMA SwBusyDelete ==
  ASSUME SwitchInv, NEW c \in Callers, Switch!UpdateBusy(c), calls[c].kind = "delete"
  PROVE  SwitchInv'
<1> DEFINE it == [calls[c] EXCEPT !.step = "givingUp"]
<1>1. /\ UNCHANGED <<profiles, staged, file, loaded, writing, permit, updating, crossed>>
      /\ calls' = [calls EXCEPT ![c] = it]
      /\ calls[c].kind = "delete" /\ calls[c].step = "asking"
  BY DEF Switch!UpdateBusy, Switch!At, Switch!To, Switch!locks, SwitchInv, SwitchTyped, Call,
     Switch!AsksForUpdate, Switch!Rejected
<1>2. /\ it \in Call /\ it.step = "givingUp"
      /\ it.kind = calls[c].kind
      /\ it.target = calls[c].target
      /\ it.previous = calls[c].previous
      /\ it.candidate = calls[c].candidate
      /\ it.generated = calls[c].generated
  <2>1. /\ calls[c] \in Call /\ profiles \in Lists
        /\ profiles.current \in Profiles \cup {None}
    BY DEF SwitchInv, SwitchTyped, Lists
  <2> QED
    BY <1>1, <2>1 DEF Call, SwitchSteps, DeleteSteps, PatchSteps
<1> HIDE DEF it
<1>3. \A d \in Callers : calls'[d] = IF d = c THEN it ELSE calls[d]
  BY <1>1 DEF SwitchInv, SwitchTyped
<1>4. it.step \in StepsOf(it.kind)
  BY <1>1, <1>2 DEF StepsOf, SwitchSteps, DeleteSteps, PatchSteps, UpdateSteps
<1>5. SwitchTyped'
  BY <1>1, <1>2, <1>4, TypedStep DEF SwitchInv
<1>6. Held'
  BY <1>1, <1>2, <1>3, PartsAssumption DEF SwitchInv, Held, Writes, Modifies, Updates,
     Switch!At, SwitchTyped, StepsOf, SwitchSteps, DeleteSteps, PatchSteps, UpdateSteps
<1>7. Staged'
  BY <1>1, <1>2, <1>3, PartsAssumption DEF SwitchInv, Staged, Staging, Wanted, Switch!In,
     Switch!At
<1>8. Candidates'
  <2>1. CandidateOf(c)'
    BY <1>1, <1>2, <1>3, PartsAssumption DEF SwitchInv, Candidates, CandidateOf, Deletes,
       Switch!At
  <2> QED
    BY <1>1, <2>1, CandidateStep
<1>9. FileFollows'
  BY <1>1, <1>2, <1>3, PartsAssumption DEF SwitchInv, FileFollows, HeldFile, Pending, Modifies,
     Writes, Switch!At
<1>10. CoreFollows'
  BY <1>1, <1>2, <1>3, PartsAssumption DEF SwitchInv, CoreFollows, Committing, Storing, Wanted,
     Switch!In, Switch!At
<1>11. Patched'
  BY <1>1, <1>2, <1>3, PartsAssumption DEF SwitchInv, Patched
<1> QED
  BY <1>5, <1>6, <1>7, <1>8, <1>9, <1>10, <1>11 DEF SwitchInv

\* A deletion claims the update when nobody has.
LEMMA SwClaimsDelete ==
  ASSUME SwitchInv, NEW c \in Callers, Switch!UpdateClaims(c), calls[c].kind = "delete"
  PROVE  SwitchInv'
<1> DEFINE it == [calls[c] EXCEPT !.step = "generating"]
<1>1. /\ UNCHANGED <<profiles, staged, file, loaded, writing, permit, crossed>>
      /\ calls' = [calls EXCEPT ![c] = it]
      /\ calls[c].kind = "delete" /\ calls[c].step = "asking"
      /\ updating = None
      /\ updating' = c
  BY DEF Switch!UpdateClaims, Switch!At, Switch!To, SwitchInv, SwitchTyped, Call,
     Switch!AsksForUpdate, Switch!Acquire
<1>2. /\ it \in Call /\ it.step = "generating"
      /\ it.kind = calls[c].kind
      /\ it.target = calls[c].target
      /\ it.previous = calls[c].previous
      /\ it.candidate = calls[c].candidate
      /\ it.generated = calls[c].generated
  <2>1. /\ calls[c] \in Call /\ profiles \in Lists
        /\ profiles.current \in Profiles \cup {None}
    BY DEF SwitchInv, SwitchTyped, Lists
  <2> QED
    BY <1>1, <2>1 DEF Call, SwitchSteps, DeleteSteps, PatchSteps
<1> HIDE DEF it
<1>3. \A d \in Callers : calls'[d] = IF d = c THEN it ELSE calls[d]
  BY <1>1 DEF SwitchInv, SwitchTyped
<1>4. \A d \in Callers : ~Updates(d) /\ ~Storing(d)
  BY <1>1, PartsAssumption DEF SwitchInv, Held, Updates, Storing
<1>5. it.step \in StepsOf(it.kind)
  BY <1>1, <1>2 DEF StepsOf, SwitchSteps, DeleteSteps, PatchSteps, UpdateSteps
<1>6. SwitchTyped'
  BY <1>1, <1>2, <1>5, TypedStep DEF SwitchInv
<1>7. Held'
  BY <1>1, <1>2, <1>3, <1>4, PartsAssumption DEF SwitchInv, Held, Writes, Modifies, Updates,
     Switch!At, SwitchTyped, StepsOf, SwitchSteps, DeleteSteps, PatchSteps, UpdateSteps
<1>8. Staged'
  BY <1>1, <1>2, <1>3, PartsAssumption DEF SwitchInv, Staged, Staging, Wanted, Switch!In,
     Switch!At
<1>9. Candidates'
  <2>1. CandidateOf(c)'
    BY <1>1, <1>2, <1>3, PartsAssumption DEF SwitchInv, Candidates, CandidateOf, Deletes,
       Switch!At
  <2> QED
    BY <1>1, <2>1, CandidateStep, PartsAssumption
<1>10. FileFollows'
  BY <1>1, <1>2, <1>3, PartsAssumption DEF SwitchInv, FileFollows, HeldFile, Pending, Modifies,
     Writes, Switch!At
<1>11. CoreFollows'
  BY <1>1, <1>2, <1>3, <1>4, PartsAssumption DEF SwitchInv, CoreFollows, Committing, Storing,
     Wanted, Switch!In, Switch!At
<1>12. Patched'
  BY <1>1, <1>2, <1>3, PartsAssumption DEF SwitchInv, Patched
<1> QED
  BY <1>6, <1>7, <1>8, <1>9, <1>10, <1>11, <1>12 DEF SwitchInv

\* An update that finds another under way is over.
LEMMA SwBusyUpdate ==
  ASSUME SwitchInv, NEW c \in Callers, Switch!UpdateBusy(c), calls[c].kind = "update"
  PROVE  SwitchInv'
<1> DEFINE it == [calls[c] EXCEPT !.step = "done"]
<1>1. /\ UNCHANGED <<profiles, staged, file, loaded, writing, permit, updating, crossed>>
      /\ calls' = [calls EXCEPT ![c] = it]
      /\ calls[c].kind = "update" /\ calls[c].step = "idle"
  BY DEF Switch!UpdateBusy, Switch!At, Switch!To, Switch!locks, SwitchInv, SwitchTyped, StepsOf,
     Call, Switch!AsksForUpdate, Switch!Rejected, UpdateSteps
<1>2. /\ it \in Call /\ it.step = "done"
      /\ it.kind = calls[c].kind
      /\ it.target = calls[c].target
      /\ it.previous = calls[c].previous
      /\ it.candidate = calls[c].candidate
      /\ it.generated = calls[c].generated
  <2>1. /\ calls[c] \in Call /\ profiles \in Lists
        /\ profiles.current \in Profiles \cup {None}
    BY DEF SwitchInv, SwitchTyped, Lists
  <2> QED
    BY <1>1, <2>1 DEF Call, SwitchSteps, DeleteSteps, PatchSteps
<1> HIDE DEF it
<1>3. \A d \in Callers : calls'[d] = IF d = c THEN it ELSE calls[d]
  BY <1>1 DEF SwitchInv, SwitchTyped
<1>4. it.step \in StepsOf(it.kind)
  BY <1>1, <1>2 DEF StepsOf, SwitchSteps, DeleteSteps, PatchSteps, UpdateSteps
<1>5. SwitchTyped'
  BY <1>1, <1>2, <1>4, TypedStep DEF SwitchInv
<1>6. Held'
  BY <1>1, <1>2, <1>3, PartsAssumption DEF SwitchInv, Held, Writes, Modifies, Updates,
     Switch!At, SwitchTyped, StepsOf, SwitchSteps, DeleteSteps, PatchSteps, UpdateSteps
<1>7. Staged'
  BY <1>1, <1>2, <1>3, PartsAssumption DEF SwitchInv, Staged, Staging, Wanted, Switch!In,
     Switch!At
<1>8. Candidates'
  <2>1. CandidateOf(c)'
    BY <1>1, <1>2, <1>3, PartsAssumption DEF SwitchInv, Candidates, CandidateOf, Deletes,
       Switch!At
  <2> QED
    BY <1>1, <2>1, CandidateStep
<1>9. FileFollows'
  BY <1>1, <1>2, <1>3, PartsAssumption DEF SwitchInv, FileFollows, HeldFile, Pending, Modifies,
     Writes, Switch!At
<1>10. CoreFollows'
  BY <1>1, <1>2, <1>3, PartsAssumption DEF SwitchInv, CoreFollows, Committing, Storing, Wanted,
     Switch!In, Switch!At
<1>11. Patched'
  BY <1>1, <1>2, <1>3, PartsAssumption DEF SwitchInv, Patched
<1> QED
  BY <1>5, <1>6, <1>7, <1>8, <1>9, <1>10, <1>11 DEF SwitchInv

\* An update claims it when nobody has.
LEMMA SwClaimsUpdate ==
  ASSUME SwitchInv, NEW c \in Callers, Switch!UpdateClaims(c), calls[c].kind = "update"
  PROVE  SwitchInv'
<1> DEFINE it == [calls[c] EXCEPT !.step = "generating"]
<1>1. /\ UNCHANGED <<profiles, staged, file, loaded, writing, permit, crossed>>
      /\ calls' = [calls EXCEPT ![c] = it]
      /\ calls[c].kind = "update" /\ calls[c].step = "idle"
      /\ updating = None
      /\ updating' = c
  BY DEF Switch!UpdateClaims, Switch!At, Switch!To, SwitchInv, SwitchTyped, StepsOf, Call,
     Switch!AsksForUpdate, Switch!Acquire, UpdateSteps
<1>2. /\ it \in Call /\ it.step = "generating"
      /\ it.kind = calls[c].kind
      /\ it.target = calls[c].target
      /\ it.previous = calls[c].previous
      /\ it.candidate = calls[c].candidate
      /\ it.generated = calls[c].generated
  <2>1. /\ calls[c] \in Call /\ profiles \in Lists
        /\ profiles.current \in Profiles \cup {None}
    BY DEF SwitchInv, SwitchTyped, Lists
  <2> QED
    BY <1>1, <2>1 DEF Call, SwitchSteps, DeleteSteps, PatchSteps
<1> HIDE DEF it
<1>3. \A d \in Callers : calls'[d] = IF d = c THEN it ELSE calls[d]
  BY <1>1 DEF SwitchInv, SwitchTyped
<1>4. \A d \in Callers : ~Updates(d) /\ ~Storing(d)
  BY <1>1, PartsAssumption DEF SwitchInv, Held, Updates, Storing
<1>5. it.step \in StepsOf(it.kind)
  BY <1>1, <1>2 DEF StepsOf, SwitchSteps, DeleteSteps, PatchSteps, UpdateSteps
<1>6. SwitchTyped'
  BY <1>1, <1>2, <1>5, TypedStep DEF SwitchInv
<1>7. Held'
  BY <1>1, <1>2, <1>3, <1>4, PartsAssumption DEF SwitchInv, Held, Writes, Modifies, Updates,
     Switch!At, SwitchTyped, StepsOf, SwitchSteps, DeleteSteps, PatchSteps, UpdateSteps
<1>8. Staged'
  BY <1>1, <1>2, <1>3, PartsAssumption DEF SwitchInv, Staged, Staging, Wanted, Switch!In,
     Switch!At
<1>9. Candidates'
  <2>1. CandidateOf(c)'
    BY <1>1, <1>2, <1>3, PartsAssumption DEF SwitchInv, Candidates, CandidateOf, Deletes,
       Switch!At
  <2> QED
    BY <1>1, <2>1, CandidateStep, PartsAssumption
<1>10. FileFollows'
  BY <1>1, <1>2, <1>3, PartsAssumption DEF SwitchInv, FileFollows, HeldFile, Pending, Modifies,
     Writes, Switch!At
<1>11. CoreFollows'
  BY <1>1, <1>2, <1>3, <1>4, PartsAssumption DEF SwitchInv, CoreFollows, Committing, Storing,
     Wanted, Switch!In, Switch!At
<1>12. Patched'
  BY <1>1, <1>2, <1>3, PartsAssumption DEF SwitchInv, Patched
<1> QED
  BY <1>6, <1>7, <1>8, <1>9, <1>10, <1>11, <1>12 DEF SwitchInv

\* A switch generates the profile it has staged.
LEMMA SwGenerateSwitch ==
  ASSUME SwitchInv, NEW c \in Callers, Switch!Generate(c), calls[c].kind = "switch"
  PROVE  SwitchInv'
<1> DEFINE it == [calls[c] EXCEPT !.step = "applying", !.generated = Switch!Latest.current]
<1>1. /\ UNCHANGED <<profiles, staged, file, loaded, writing, permit, updating>>
      /\ calls' = [calls EXCEPT ![c] = it]
      /\ calls[c].kind = "switch" /\ calls[c].step = "generating"
      /\ crossed => crossed'
  BY DEF Switch!Generate, Switch!locks, SwitchInv, SwitchTyped, Call
<1>2. /\ it \in Call /\ it.step = "applying"
      /\ it.kind = calls[c].kind
      /\ it.target = calls[c].target
      /\ it.previous = calls[c].previous
      /\ it.candidate = calls[c].candidate
      /\ it.generated = Switch!Latest.current
  <2>1. /\ calls[c] \in Call /\ profiles \in Lists
        /\ profiles.current \in Profiles \cup {None}
    BY DEF SwitchInv, SwitchTyped, Lists
  <2>2. Switch!Latest.current \in Profiles \cup {None}
    BY DEF Switch!Latest, SwitchInv, SwitchTyped, Lists
  <2> QED
    BY <1>1, <2>1, <2>2 DEF Call, SwitchSteps, DeleteSteps, PatchSteps
<1> HIDE DEF it
<1>3. \A d \in Callers : calls'[d] = IF d = c THEN it ELSE calls[d]
  BY <1>1 DEF SwitchInv, SwitchTyped
<1>4. Switch!Latest.current = Wanted(c)
  BY <1>1 DEF SwitchInv, Staged, Staging, Switch!Latest
<1>5. it.step \in StepsOf(it.kind)
  BY <1>1, <1>2 DEF StepsOf, SwitchSteps, DeleteSteps, PatchSteps, UpdateSteps
<1>6. SwitchTyped'
  BY <1>1, <1>2, <1>5, TypedStep DEF SwitchInv
<1>7. Held'
  BY <1>1, <1>2, <1>3, PartsAssumption DEF SwitchInv, Held, Writes, Modifies, Updates,
     Switch!At, SwitchTyped, StepsOf, SwitchSteps, DeleteSteps, PatchSteps, UpdateSteps
<1>8. Staged'
  BY <1>1, <1>2, <1>3, <1>4, PartsAssumption DEF SwitchInv, Staged, Staging, Wanted, Switch!In,
     Switch!At
<1>9. Candidates'
  <2>1. CandidateOf(c)'
    BY <1>1, <1>2, <1>3, PartsAssumption DEF SwitchInv, Candidates, CandidateOf, Deletes,
       Switch!At
  <2> QED
    BY <1>1, <2>1, CandidateStep
<1>10. FileFollows'
  BY <1>1, <1>2, <1>3, PartsAssumption DEF SwitchInv, FileFollows, HeldFile, Pending, Modifies,
     Writes, Switch!At
<1>11. CoreFollows'
  BY <1>1, <1>2, <1>3, PartsAssumption DEF SwitchInv, CoreFollows, Committing, Storing, Wanted,
     Switch!In, Switch!At
<1>12. Patched'
  BY <1>1, <1>2, <1>3, PartsAssumption DEF SwitchInv, Patched
<1> QED
  BY <1>6, <1>7, <1>8, <1>9, <1>10, <1>11, <1>12 DEF SwitchInv

\* A deletion generates its candidate.
LEMMA SwGenerateDelete ==
  ASSUME SwitchInv, NEW c \in Callers, Switch!Generate(c), calls[c].kind = "delete"
  PROVE  SwitchInv'
<1> DEFINE it == [calls[c] EXCEPT !.step = "applying", !.generated = calls[c].candidate.current]
<1>1. /\ UNCHANGED <<profiles, staged, file, loaded, writing, permit, updating>>
      /\ calls' = [calls EXCEPT ![c] = it]
      /\ calls[c].kind = "delete" /\ calls[c].step = "generating"
      /\ crossed => crossed'
  BY DEF Switch!Generate, Switch!locks, SwitchInv, SwitchTyped, Call
<1>2. /\ it \in Call /\ it.step = "applying"
      /\ it.kind = calls[c].kind
      /\ it.target = calls[c].target
      /\ it.previous = calls[c].previous
      /\ it.candidate = calls[c].candidate
      /\ it.generated = calls[c].candidate.current
  <2>1. /\ calls[c] \in Call /\ profiles \in Lists
        /\ profiles.current \in Profiles \cup {None}
    BY DEF SwitchInv, SwitchTyped, Lists
  <2>2. calls[c].candidate.current \in Profiles \cup {None}
    BY <1>1 DEF SwitchInv, Candidates, CandidateOf, Deletes, Lists
  <2> QED
    BY <1>1, <2>1, <2>2 DEF Call, SwitchSteps, DeleteSteps, PatchSteps
<1> HIDE DEF it
<1>3. \A d \in Callers : calls'[d] = IF d = c THEN it ELSE calls[d]
  BY <1>1 DEF SwitchInv, SwitchTyped
<1>4. it.step \in StepsOf(it.kind)
  BY <1>1, <1>2 DEF StepsOf, SwitchSteps, DeleteSteps, PatchSteps, UpdateSteps
<1>5. SwitchTyped'
  BY <1>1, <1>2, <1>4, TypedStep DEF SwitchInv
<1>6. Held'
  BY <1>1, <1>2, <1>3, PartsAssumption DEF SwitchInv, Held, Writes, Modifies, Updates,
     Switch!At, SwitchTyped, StepsOf, SwitchSteps, DeleteSteps, PatchSteps, UpdateSteps
<1>7. Staged'
  BY <1>1, <1>2, <1>3, PartsAssumption DEF SwitchInv, Staged, Staging, Wanted, Switch!In,
     Switch!At
<1>8. Candidates'
  <2>1. CandidateOf(c)'
    BY <1>1, <1>2, <1>3, PartsAssumption DEF SwitchInv, Candidates, CandidateOf, Deletes,
       Switch!At
  <2> QED
    BY <1>1, <2>1, CandidateStep
<1>9. FileFollows'
  BY <1>1, <1>2, <1>3, PartsAssumption DEF SwitchInv, FileFollows, HeldFile, Pending, Modifies,
     Writes, Switch!At
<1>10. CoreFollows'
  BY <1>1, <1>2, <1>3, PartsAssumption DEF SwitchInv, CoreFollows, Committing, Storing, Wanted,
     Switch!In, Switch!At
<1>11. Patched'
  BY <1>1, <1>2, <1>3, PartsAssumption DEF SwitchInv, Patched
<1> QED
  BY <1>5, <1>6, <1>7, <1>8, <1>9, <1>10, <1>11 DEF SwitchInv

\* An update generates whatever is staged by then, and has crossed if a switch is about
\* to commit.
LEMMA SwGenerateUpdate ==
  ASSUME SwitchInv, NEW c \in Callers, Switch!Generate(c), calls[c].kind = "update"
  PROVE  SwitchInv'
<1> DEFINE it == [calls[c] EXCEPT !.step = "applying", !.generated = Switch!Latest.current]
<1>1. /\ UNCHANGED <<profiles, staged, file, loaded, writing, permit, updating>>
      /\ calls' = [calls EXCEPT ![c] = it]
      /\ calls[c].kind = "update" /\ calls[c].step = "generating"
      /\ (crossed => crossed') /\ (~crossed' => ~Switch!Amid(c))
  BY DEF Switch!Generate, Switch!locks, SwitchInv, SwitchTyped, StepsOf, Call, UpdateSteps
<1>2. /\ it \in Call /\ it.step = "applying"
      /\ it.kind = calls[c].kind
      /\ it.target = calls[c].target
      /\ it.previous = calls[c].previous
      /\ it.candidate = calls[c].candidate
      /\ it.generated = Switch!Latest.current
  <2>1. /\ calls[c] \in Call /\ profiles \in Lists
        /\ profiles.current \in Profiles \cup {None}
    BY DEF SwitchInv, SwitchTyped, Lists
  <2>2. Switch!Latest.current \in Profiles \cup {None}
    BY DEF Switch!Latest, SwitchInv, SwitchTyped, Lists
  <2> QED
    BY <1>1, <2>1, <2>2 DEF Call, SwitchSteps, DeleteSteps, PatchSteps
<1> HIDE DEF it
<1>3. \A d \in Callers : calls'[d] = IF d = c THEN it ELSE calls[d]
  BY <1>1 DEF SwitchInv, SwitchTyped
<1>4. ASSUME ~Switch!Amid(c)
      PROVE  Switch!Latest.current = profiles.current /\ \A e \in Callers : ~Committing(e)
  <2>1. \A e \in Callers : e # c /\ calls[e].kind = "switch" =>
          calls[e].step \notin {"asking", "generating", "applying", "restoring", "committing",
                                "modifying"}
    BY <1>4 DEF Switch!Amid
  <2>2. \A e \in Callers : ~Committing(e)
    BY <1>1, <2>1 DEF Committing
  <2>3. staged # None => staged[1].current = profiles.current
    BY <1>1, <2>1 DEF SwitchInv, Staged, Staging, Switch!At
  <2> QED
    BY <2>2, <2>3 DEF Switch!Latest
<1>5. it.step \in StepsOf(it.kind)
  BY <1>1, <1>2 DEF StepsOf, SwitchSteps, DeleteSteps, PatchSteps, UpdateSteps
<1>6. SwitchTyped'
  BY <1>1, <1>2, <1>5, TypedStep DEF SwitchInv
<1>7. Held'
  BY <1>1, <1>2, <1>3, PartsAssumption DEF SwitchInv, Held, Writes, Modifies, Updates,
     Switch!At, SwitchTyped, StepsOf, SwitchSteps, DeleteSteps, PatchSteps, UpdateSteps
<1>8. Staged'
  BY <1>1, <1>2, <1>3, PartsAssumption DEF SwitchInv, Staged, Staging, Wanted, Switch!In,
     Switch!At
<1>9. Candidates'
  <2>1. CandidateOf(c)'
    BY <1>1, <1>2, <1>3, PartsAssumption DEF SwitchInv, Candidates, CandidateOf, Deletes,
       Switch!At
  <2> QED
    BY <1>1, <2>1, CandidateStep
<1>10. FileFollows'
  BY <1>1, <1>2, <1>3, PartsAssumption DEF SwitchInv, FileFollows, HeldFile, Pending, Modifies,
     Writes, Switch!At
<1>11. CoreFollows'
  BY <1>1, <1>2, <1>3, <1>4, PartsAssumption DEF SwitchInv, CoreFollows, Committing, Storing,
     Wanted, Switch!In, Switch!At
<1>12. Patched'
  BY <1>1, <1>2, <1>3, PartsAssumption DEF SwitchInv, Patched
<1> QED
  BY <1>6, <1>7, <1>8, <1>9, <1>10, <1>11, <1>12 DEF SwitchInv

\* A valid update leaves the Core with the profile the switch is for.
LEMMA SwAppliesSwitch ==
  ASSUME SwitchInv, NEW c \in Callers, Switch!UpdateApplies(c), calls[c].kind = "switch"
  PROVE  SwitchInv'
<1> DEFINE it == [calls[c] EXCEPT !.step = "committing"]
<1>1. /\ UNCHANGED <<profiles, staged, file, writing, permit, crossed>>
      /\ calls' = [calls EXCEPT ![c] = it]
      /\ calls[c].kind = "switch" /\ calls[c].step = "applying"
      /\ loaded' = calls[c].generated
      /\ updating' = None
  BY DEF Switch!UpdateApplies, Switch!To, SwitchInv, SwitchTyped, Call
<1>2. /\ it \in Call /\ it.step = "committing"
      /\ it.kind = calls[c].kind
      /\ it.target = calls[c].target
      /\ it.previous = calls[c].previous
      /\ it.candidate = calls[c].candidate
      /\ it.generated = calls[c].generated
  <2>1. /\ calls[c] \in Call /\ profiles \in Lists
        /\ profiles.current \in Profiles \cup {None}
    BY DEF SwitchInv, SwitchTyped, Lists
  <2> QED
    BY <1>1, <2>1 DEF Call, SwitchSteps, DeleteSteps, PatchSteps
<1> HIDE DEF it
<1>3. \A d \in Callers : calls'[d] = IF d = c THEN it ELSE calls[d]
  BY <1>1 DEF SwitchInv, SwitchTyped
<1>4. \A d \in Callers : d # c => ~Writes(d)
  BY <1>1 DEF SwitchInv, Held, Writes
<1>5. \A d \in Callers : d # c => ~Staging(d) /\ ~Committing(d) /\ ~Deletes(d)
  BY <1>4 DEF Writes, Staging, Committing, Deletes
<1>6. updating = c /\ \A d \in Callers : d # c => ~Updates(d) /\ ~Storing(d)
  BY <1>1, PartsAssumption DEF SwitchInv, Held, Updates, Storing
<1>7. it.step \in StepsOf(it.kind)
  BY <1>1, <1>2 DEF StepsOf, SwitchSteps, DeleteSteps, PatchSteps, UpdateSteps
<1>8. SwitchTyped'
  BY <1>1, <1>2, <1>7, TypedStep DEF SwitchInv
<1>9. Held'
  BY <1>1, <1>2, <1>3, <1>6, PartsAssumption DEF SwitchInv, Held, Writes, Modifies, Updates,
     Switch!At, SwitchTyped, StepsOf, SwitchSteps, DeleteSteps, PatchSteps, UpdateSteps
<1>10. Staged'
  BY <1>1, <1>2, <1>3, PartsAssumption DEF SwitchInv, Staged, Staging, Wanted, Switch!In,
     Switch!At
<1>11. Candidates'
  <2>1. CandidateOf(c)'
    BY <1>1, <1>2, <1>3, <1>6, PartsAssumption DEF SwitchInv, Candidates, CandidateOf, Deletes,
       Switch!At
  <2> QED
    BY <1>1, <1>6, <2>1, CandidateStep, PartsAssumption
<1>12. FileFollows'
  BY <1>1, <1>2, <1>3, PartsAssumption DEF SwitchInv, FileFollows, HeldFile, Pending, Modifies,
     Writes, Switch!At
<1>13. CoreFollows'
  BY <1>1, <1>2, <1>3, <1>5, <1>6, PartsAssumption DEF SwitchInv, CoreFollows, Committing,
     Storing, Wanted, Switch!In, Switch!At, Staged, Deletes, Updates
<1>14. Patched'
  BY <1>1, <1>2, <1>3, PartsAssumption DEF SwitchInv, Patched
<1> QED
  BY <1>8, <1>9, <1>10, <1>11, <1>12, <1>13, <1>14 DEF SwitchInv

\* A configuration that validation refuses leaves the Core what it has.
LEMMA SwInvalidSwitch ==
  ASSUME SwitchInv, NEW c \in Callers, Switch!UpdateInvalid(c), calls[c].kind = "switch"
  PROVE  SwitchInv'
<1> DEFINE it == [calls[c] EXCEPT !.step = "restoring"]
<1>1. /\ UNCHANGED <<profiles, staged, file, loaded, writing, permit, crossed>>
      /\ calls' = [calls EXCEPT ![c] = it]
      /\ calls[c].kind = "switch" /\ calls[c].step = "applying"
      /\ updating' = None
  BY DEF Switch!UpdateInvalid, Switch!To, SwitchInv, SwitchTyped, Call, Switch!Rejected
<1>2. /\ it \in Call /\ it.step = "restoring"
      /\ it.kind = calls[c].kind
      /\ it.target = calls[c].target
      /\ it.previous = calls[c].previous
      /\ it.candidate = calls[c].candidate
      /\ it.generated = calls[c].generated
  <2>1. /\ calls[c] \in Call /\ profiles \in Lists
        /\ profiles.current \in Profiles \cup {None}
    BY DEF SwitchInv, SwitchTyped, Lists
  <2> QED
    BY <1>1, <2>1 DEF Call, SwitchSteps, DeleteSteps, PatchSteps
<1> HIDE DEF it
<1>3. \A d \in Callers : calls'[d] = IF d = c THEN it ELSE calls[d]
  BY <1>1 DEF SwitchInv, SwitchTyped
<1>4. updating = c /\ \A d \in Callers : d # c => ~Updates(d) /\ ~Storing(d)
  BY <1>1, PartsAssumption DEF SwitchInv, Held, Updates, Storing
<1>5. it.step \in StepsOf(it.kind)
  BY <1>1, <1>2 DEF StepsOf, SwitchSteps, DeleteSteps, PatchSteps, UpdateSteps
<1>6. SwitchTyped'
  BY <1>1, <1>2, <1>5, TypedStep DEF SwitchInv
<1>7. Held'
  BY <1>1, <1>2, <1>3, <1>4, PartsAssumption DEF SwitchInv, Held, Writes, Modifies, Updates,
     Switch!At, SwitchTyped, StepsOf, SwitchSteps, DeleteSteps, PatchSteps, UpdateSteps
<1>8. Staged'
  BY <1>1, <1>2, <1>3, PartsAssumption DEF SwitchInv, Staged, Staging, Wanted, Switch!In,
     Switch!At
<1>9. Candidates'
  <2>1. CandidateOf(c)'
    BY <1>1, <1>2, <1>3, <1>4, PartsAssumption DEF SwitchInv, Candidates, CandidateOf, Deletes,
       Switch!At
  <2> QED
    BY <1>1, <1>4, <2>1, CandidateStep, PartsAssumption
<1>10. FileFollows'
  BY <1>1, <1>2, <1>3, PartsAssumption DEF SwitchInv, FileFollows, HeldFile, Pending, Modifies,
     Writes, Switch!At
<1>11. CoreFollows'
  BY <1>1, <1>2, <1>3, <1>4, PartsAssumption DEF SwitchInv, CoreFollows, Committing, Storing,
     Wanted, Switch!In, Switch!At, Updates
<1>12. Patched'
  BY <1>1, <1>2, <1>3, PartsAssumption DEF SwitchInv, Patched
<1> QED
  BY <1>6, <1>7, <1>8, <1>9, <1>10, <1>11, <1>12 DEF SwitchInv

\* An error leaves a Core one knows nothing of.
LEMMA SwErrorsSwitch ==
  ASSUME SwitchInv, NEW c \in Callers, Switch!UpdateErrors(c), calls[c].kind = "switch"
  PROVE  SwitchInv'
<1> DEFINE it == [calls[c] EXCEPT !.step = "restoring"]
<1>1. /\ UNCHANGED <<profiles, staged, file, writing, permit, crossed>>
      /\ calls' = [calls EXCEPT ![c] = it]
      /\ calls[c].kind = "switch" /\ calls[c].step = "applying"
      /\ loaded' = Switch!Unknown
      /\ updating' = None
  BY DEF Switch!UpdateErrors, Switch!To, SwitchInv, SwitchTyped, Call, Switch!Rejected
<1>2. /\ it \in Call /\ it.step = "restoring"
      /\ it.kind = calls[c].kind
      /\ it.target = calls[c].target
      /\ it.previous = calls[c].previous
      /\ it.candidate = calls[c].candidate
      /\ it.generated = calls[c].generated
  <2>1. /\ calls[c] \in Call /\ profiles \in Lists
        /\ profiles.current \in Profiles \cup {None}
    BY DEF SwitchInv, SwitchTyped, Lists
  <2> QED
    BY <1>1, <2>1 DEF Call, SwitchSteps, DeleteSteps, PatchSteps
<1> HIDE DEF it
<1>3. \A d \in Callers : calls'[d] = IF d = c THEN it ELSE calls[d]
  BY <1>1 DEF SwitchInv, SwitchTyped
<1>4. updating = c /\ \A d \in Callers : d # c => ~Updates(d) /\ ~Storing(d)
  BY <1>1, PartsAssumption DEF SwitchInv, Held, Updates, Storing
<1>5. it.step \in StepsOf(it.kind)
  BY <1>1, <1>2 DEF StepsOf, SwitchSteps, DeleteSteps, PatchSteps, UpdateSteps
<1>6. SwitchTyped'
  BY <1>1, <1>2, <1>5, TypedStep DEF SwitchInv
<1>7. Held'
  BY <1>1, <1>2, <1>3, <1>4, PartsAssumption DEF SwitchInv, Held, Writes, Modifies, Updates,
     Switch!At, SwitchTyped, StepsOf, SwitchSteps, DeleteSteps, PatchSteps, UpdateSteps
<1>8. Staged'
  BY <1>1, <1>2, <1>3, PartsAssumption DEF SwitchInv, Staged, Staging, Wanted, Switch!In,
     Switch!At
<1>9. Candidates'
  <2>1. CandidateOf(c)'
    BY <1>1, <1>2, <1>3, <1>4, PartsAssumption DEF SwitchInv, Candidates, CandidateOf, Deletes,
       Switch!At
  <2> QED
    BY <1>1, <1>4, <2>1, CandidateStep, PartsAssumption
<1>10. FileFollows'
  BY <1>1, <1>2, <1>3, PartsAssumption DEF SwitchInv, FileFollows, HeldFile, Pending, Modifies,
     Writes, Switch!At
<1>11. CoreFollows'
  BY <1>1, <1>2, <1>3, <1>4, PartsAssumption DEF SwitchInv, CoreFollows, Committing, Storing,
     Wanted, Switch!In, Switch!At, Updates
<1>12. Patched'
  BY <1>1, <1>2, <1>3, PartsAssumption DEF SwitchInv, Patched
<1> QED
  BY <1>6, <1>7, <1>8, <1>9, <1>10, <1>11, <1>12 DEF SwitchInv

\* A deletion that is valid keeps the claim: it has a file to save.
LEMMA SwAppliesDelete ==
  ASSUME SwitchInv, NEW c \in Callers, Switch!UpdateApplies(c), calls[c].kind = "delete"
  PROVE  SwitchInv'
<1> DEFINE it == [calls[c] EXCEPT !.step = "storing"]
<1>1. /\ UNCHANGED <<profiles, staged, file, writing, permit, updating, crossed>>
      /\ calls' = [calls EXCEPT ![c] = it]
      /\ calls[c].kind = "delete" /\ calls[c].step = "applying"
      /\ loaded' = calls[c].generated
  BY DEF Switch!UpdateApplies, Switch!To, SwitchInv, SwitchTyped, Call
<1>2. /\ it \in Call /\ it.step = "storing"
      /\ it.kind = calls[c].kind
      /\ it.target = calls[c].target
      /\ it.previous = calls[c].previous
      /\ it.candidate = calls[c].candidate
      /\ it.generated = calls[c].generated
  <2>1. /\ calls[c] \in Call /\ profiles \in Lists
        /\ profiles.current \in Profiles \cup {None}
    BY DEF SwitchInv, SwitchTyped, Lists
  <2> QED
    BY <1>1, <2>1 DEF Call, SwitchSteps, DeleteSteps, PatchSteps
<1> HIDE DEF it
<1>3. \A d \in Callers : calls'[d] = IF d = c THEN it ELSE calls[d]
  BY <1>1 DEF SwitchInv, SwitchTyped
<1>4. \A d \in Callers : d # c => ~Writes(d)
  BY <1>1 DEF SwitchInv, Held, Writes
<1>5. \A d \in Callers : d # c => ~Staging(d) /\ ~Committing(d) /\ ~Deletes(d)
  BY <1>4 DEF Writes, Staging, Committing, Deletes
<1>6. updating = c /\ \A d \in Callers : d # c => ~Updates(d) /\ ~Storing(d)
  BY <1>1, PartsAssumption DEF SwitchInv, Held, Updates, Storing
<1>7. it.step \in StepsOf(it.kind)
  BY <1>1, <1>2 DEF StepsOf, SwitchSteps, DeleteSteps, PatchSteps, UpdateSteps
<1>8. SwitchTyped'
  BY <1>1, <1>2, <1>7, TypedStep DEF SwitchInv
<1>9. Held'
  BY <1>1, <1>2, <1>3, <1>6, PartsAssumption DEF SwitchInv, Held, Writes, Modifies, Updates,
     Switch!At, SwitchTyped, StepsOf, SwitchSteps, DeleteSteps, PatchSteps, UpdateSteps
<1>10. Staged'
  BY <1>1, <1>2, <1>3, PartsAssumption DEF SwitchInv, Staged, Staging, Wanted, Switch!In,
     Switch!At
<1>11. Candidates'
  <2>1. CandidateOf(c)'
    BY <1>1, <1>2, <1>3, <1>6, PartsAssumption DEF SwitchInv, Candidates, CandidateOf, Deletes,
       Switch!At
  <2> QED
    BY <1>1, <2>1, CandidateStep
<1>12. FileFollows'
  BY <1>1, <1>2, <1>3, PartsAssumption DEF SwitchInv, FileFollows, HeldFile, Pending, Modifies,
     Writes, Switch!At
<1>13. CoreFollows'
  BY <1>1, <1>2, <1>3, <1>5, <1>6, PartsAssumption DEF SwitchInv, CoreFollows, Committing,
     Storing, Wanted, Switch!In, Switch!At, Candidates, CandidateOf, Deletes, Updates
<1>14. Patched'
  BY <1>1, <1>2, <1>3, PartsAssumption DEF SwitchInv, Patched
<1> QED
  BY <1>8, <1>9, <1>10, <1>11, <1>12, <1>13, <1>14 DEF SwitchInv

\* A deletion that validation refuses gives up.
LEMMA SwInvalidDelete ==
  ASSUME SwitchInv, NEW c \in Callers, Switch!UpdateInvalid(c), calls[c].kind = "delete"
  PROVE  SwitchInv'
<1> DEFINE it == [calls[c] EXCEPT !.step = "givingUp"]
<1>1. /\ UNCHANGED <<profiles, staged, file, loaded, writing, permit, crossed>>
      /\ calls' = [calls EXCEPT ![c] = it]
      /\ calls[c].kind = "delete" /\ calls[c].step = "applying"
      /\ updating' = None
  BY DEF Switch!UpdateInvalid, Switch!To, SwitchInv, SwitchTyped, Call, Switch!Rejected
<1>2. /\ it \in Call /\ it.step = "givingUp"
      /\ it.kind = calls[c].kind
      /\ it.target = calls[c].target
      /\ it.previous = calls[c].previous
      /\ it.candidate = calls[c].candidate
      /\ it.generated = calls[c].generated
  <2>1. /\ calls[c] \in Call /\ profiles \in Lists
        /\ profiles.current \in Profiles \cup {None}
    BY DEF SwitchInv, SwitchTyped, Lists
  <2> QED
    BY <1>1, <2>1 DEF Call, SwitchSteps, DeleteSteps, PatchSteps
<1> HIDE DEF it
<1>3. \A d \in Callers : calls'[d] = IF d = c THEN it ELSE calls[d]
  BY <1>1 DEF SwitchInv, SwitchTyped
<1>4. updating = c /\ \A d \in Callers : d # c => ~Updates(d) /\ ~Storing(d)
  BY <1>1, PartsAssumption DEF SwitchInv, Held, Updates, Storing
<1>5. it.step \in StepsOf(it.kind)
  BY <1>1, <1>2 DEF StepsOf, SwitchSteps, DeleteSteps, PatchSteps, UpdateSteps
<1>6. SwitchTyped'
  BY <1>1, <1>2, <1>5, TypedStep DEF SwitchInv
<1>7. Held'
  BY <1>1, <1>2, <1>3, <1>4, PartsAssumption DEF SwitchInv, Held, Writes, Modifies, Updates,
     Switch!At, SwitchTyped, StepsOf, SwitchSteps, DeleteSteps, PatchSteps, UpdateSteps
<1>8. Staged'
  BY <1>1, <1>2, <1>3, PartsAssumption DEF SwitchInv, Staged, Staging, Wanted, Switch!In,
     Switch!At
<1>9. Candidates'
  <2>1. CandidateOf(c)'
    BY <1>1, <1>2, <1>3, <1>4, PartsAssumption DEF SwitchInv, Candidates, CandidateOf, Deletes,
       Switch!At
  <2> QED
    BY <1>1, <1>4, <2>1, CandidateStep, PartsAssumption
<1>10. FileFollows'
  BY <1>1, <1>2, <1>3, PartsAssumption DEF SwitchInv, FileFollows, HeldFile, Pending, Modifies,
     Writes, Switch!At
<1>11. CoreFollows'
  BY <1>1, <1>2, <1>3, <1>4, PartsAssumption DEF SwitchInv, CoreFollows, Committing, Storing,
     Wanted, Switch!In, Switch!At, Updates
<1>12. Patched'
  BY <1>1, <1>2, <1>3, PartsAssumption DEF SwitchInv, Patched
<1> QED
  BY <1>6, <1>7, <1>8, <1>9, <1>10, <1>11, <1>12 DEF SwitchInv

\* A deletion whose update errs puts the old configuration back.
LEMMA SwErrorsDelete ==
  ASSUME SwitchInv, NEW c \in Callers, Switch!UpdateErrors(c), calls[c].kind = "delete"
  PROVE  SwitchInv'
<1> DEFINE it == [calls[c] EXCEPT !.step = "puttingBack"]
<1>1. /\ UNCHANGED <<profiles, staged, file, writing, permit, updating, crossed>>
      /\ calls' = [calls EXCEPT ![c] = it]
      /\ calls[c].kind = "delete" /\ calls[c].step = "applying"
      /\ loaded' = Switch!Unknown
  BY DEF Switch!UpdateErrors, Switch!To, SwitchInv, SwitchTyped, Call, Switch!Rejected
<1>2. /\ it \in Call /\ it.step = "puttingBack"
      /\ it.kind = calls[c].kind
      /\ it.target = calls[c].target
      /\ it.previous = calls[c].previous
      /\ it.candidate = calls[c].candidate
      /\ it.generated = calls[c].generated
  <2>1. /\ calls[c] \in Call /\ profiles \in Lists
        /\ profiles.current \in Profiles \cup {None}
    BY DEF SwitchInv, SwitchTyped, Lists
  <2> QED
    BY <1>1, <2>1 DEF Call, SwitchSteps, DeleteSteps, PatchSteps
<1> HIDE DEF it
<1>3. \A d \in Callers : calls'[d] = IF d = c THEN it ELSE calls[d]
  BY <1>1 DEF SwitchInv, SwitchTyped
<1>4. updating = c /\ \A d \in Callers : d # c => ~Updates(d) /\ ~Storing(d)
  BY <1>1, PartsAssumption DEF SwitchInv, Held, Updates, Storing
<1>5. it.step \in StepsOf(it.kind)
  BY <1>1, <1>2 DEF StepsOf, SwitchSteps, DeleteSteps, PatchSteps, UpdateSteps
<1>6. SwitchTyped'
  BY <1>1, <1>2, <1>5, TypedStep DEF SwitchInv
<1>7. Held'
  BY <1>1, <1>2, <1>3, <1>4, PartsAssumption DEF SwitchInv, Held, Writes, Modifies, Updates,
     Switch!At, SwitchTyped, StepsOf, SwitchSteps, DeleteSteps, PatchSteps, UpdateSteps
<1>8. Staged'
  BY <1>1, <1>2, <1>3, PartsAssumption DEF SwitchInv, Staged, Staging, Wanted, Switch!In,
     Switch!At
<1>9. Candidates'
  <2>1. CandidateOf(c)'
    BY <1>1, <1>2, <1>3, <1>4, PartsAssumption DEF SwitchInv, Candidates, CandidateOf, Deletes,
       Switch!At
  <2> QED
    BY <1>1, <2>1, CandidateStep
<1>10. FileFollows'
  BY <1>1, <1>2, <1>3, PartsAssumption DEF SwitchInv, FileFollows, HeldFile, Pending, Modifies,
     Writes, Switch!At
<1>11. CoreFollows'
  BY <1>1, <1>2, <1>3, <1>4, PartsAssumption DEF SwitchInv, CoreFollows, Committing, Storing,
     Wanted, Switch!In, Switch!At, Updates
<1>12. Patched'
  BY <1>1, <1>2, <1>3, PartsAssumption DEF SwitchInv, Patched
<1> QED
  BY <1>6, <1>7, <1>8, <1>9, <1>10, <1>11, <1>12 DEF SwitchInv

\* An update applies what it has generated.
LEMMA SwAppliesUpdate ==
  ASSUME SwitchInv, NEW c \in Callers, Switch!UpdateApplies(c), calls[c].kind = "update"
  PROVE  SwitchInv'
<1> DEFINE it == [calls[c] EXCEPT !.step = "done"]
<1>1. /\ UNCHANGED <<profiles, staged, file, writing, permit, crossed>>
      /\ calls' = [calls EXCEPT ![c] = it]
      /\ calls[c].kind = "update" /\ calls[c].step = "applying"
      /\ loaded' = calls[c].generated
      /\ updating' = None
  BY DEF Switch!UpdateApplies, Switch!To, SwitchInv, SwitchTyped, StepsOf, Call, UpdateSteps
<1>2. /\ it \in Call /\ it.step = "done"
      /\ it.kind = calls[c].kind
      /\ it.target = calls[c].target
      /\ it.previous = calls[c].previous
      /\ it.candidate = calls[c].candidate
      /\ it.generated = calls[c].generated
  <2>1. /\ calls[c] \in Call /\ profiles \in Lists
        /\ profiles.current \in Profiles \cup {None}
    BY DEF SwitchInv, SwitchTyped, Lists
  <2> QED
    BY <1>1, <2>1 DEF Call, SwitchSteps, DeleteSteps, PatchSteps
<1> HIDE DEF it
<1>3. \A d \in Callers : calls'[d] = IF d = c THEN it ELSE calls[d]
  BY <1>1 DEF SwitchInv, SwitchTyped
<1>4. updating = c /\ \A d \in Callers : d # c => ~Updates(d) /\ ~Storing(d)
  BY <1>1, PartsAssumption DEF SwitchInv, Held, Updates, Storing
<1>5. it.step \in StepsOf(it.kind)
  BY <1>1, <1>2 DEF StepsOf, SwitchSteps, DeleteSteps, PatchSteps, UpdateSteps
<1>6. SwitchTyped'
  BY <1>1, <1>2, <1>5, TypedStep DEF SwitchInv
<1>7. Held'
  BY <1>1, <1>2, <1>3, <1>4, PartsAssumption DEF SwitchInv, Held, Writes, Modifies, Updates,
     Switch!At, SwitchTyped, StepsOf, SwitchSteps, DeleteSteps, PatchSteps, UpdateSteps
<1>8. Staged'
  BY <1>1, <1>2, <1>3, PartsAssumption DEF SwitchInv, Staged, Staging, Wanted, Switch!In,
     Switch!At
<1>9. Candidates'
  <2>1. CandidateOf(c)'
    BY <1>1, <1>2, <1>3, <1>4, PartsAssumption DEF SwitchInv, Candidates, CandidateOf, Deletes,
       Switch!At
  <2> QED
    BY <1>1, <1>4, <2>1, CandidateStep, PartsAssumption
<1>10. FileFollows'
  BY <1>1, <1>2, <1>3, PartsAssumption DEF SwitchInv, FileFollows, HeldFile, Pending, Modifies,
     Writes, Switch!At
<1>11. CoreFollows'
  <2> SUFFICES ASSUME ~crossed PROVE CoreFollows'
    BY <1>1 DEF CoreFollows
  <2>1. /\ calls[c].generated = profiles.current /\ \A e \in Callers : ~Committing(e)
    BY <1>1 DEF SwitchInv, CoreFollows, Switch!At
  <2>2. \A e \in Callers : ~Committing(e)' /\ ~Storing(e)'
    BY <1>1, <1>2, <1>3, <1>4, <2>1, PartsAssumption DEF Committing, Storing
  <2>3. \A e \in Callers : ~Switch!At(e, "update", "applying")'
    BY <1>1, <1>2, <1>3, <1>4, PartsAssumption DEF Switch!At, Updates
  <2> QED
    BY <1>1, <2>1, <2>2, <2>3 DEF CoreFollows
<1>12. Patched'
  BY <1>1, <1>2, <1>3, PartsAssumption DEF SwitchInv, Patched
<1> QED
  BY <1>6, <1>7, <1>8, <1>9, <1>10, <1>11, <1>12 DEF SwitchInv

\* An update that validation refuses is over.
LEMMA SwInvalidUpdate ==
  ASSUME SwitchInv, NEW c \in Callers, Switch!UpdateInvalid(c), calls[c].kind = "update"
  PROVE  SwitchInv'
<1> DEFINE it == [calls[c] EXCEPT !.step = "done"]
<1>1. /\ UNCHANGED <<profiles, staged, file, loaded, writing, permit, crossed>>
      /\ calls' = [calls EXCEPT ![c] = it]
      /\ calls[c].kind = "update" /\ calls[c].step = "applying"
      /\ updating' = None
  BY DEF Switch!UpdateInvalid, Switch!To, SwitchInv, SwitchTyped, StepsOf, Call,
     Switch!Rejected, UpdateSteps
<1>2. /\ it \in Call /\ it.step = "done"
      /\ it.kind = calls[c].kind
      /\ it.target = calls[c].target
      /\ it.previous = calls[c].previous
      /\ it.candidate = calls[c].candidate
      /\ it.generated = calls[c].generated
  <2>1. /\ calls[c] \in Call /\ profiles \in Lists
        /\ profiles.current \in Profiles \cup {None}
    BY DEF SwitchInv, SwitchTyped, Lists
  <2> QED
    BY <1>1, <2>1 DEF Call, SwitchSteps, DeleteSteps, PatchSteps
<1> HIDE DEF it
<1>3. \A d \in Callers : calls'[d] = IF d = c THEN it ELSE calls[d]
  BY <1>1 DEF SwitchInv, SwitchTyped
<1>4. updating = c /\ \A d \in Callers : d # c => ~Updates(d) /\ ~Storing(d)
  BY <1>1, PartsAssumption DEF SwitchInv, Held, Updates, Storing
<1>5. it.step \in StepsOf(it.kind)
  BY <1>1, <1>2 DEF StepsOf, SwitchSteps, DeleteSteps, PatchSteps, UpdateSteps
<1>6. SwitchTyped'
  BY <1>1, <1>2, <1>5, TypedStep DEF SwitchInv
<1>7. Held'
  BY <1>1, <1>2, <1>3, <1>4, PartsAssumption DEF SwitchInv, Held, Writes, Modifies, Updates,
     Switch!At, SwitchTyped, StepsOf, SwitchSteps, DeleteSteps, PatchSteps, UpdateSteps
<1>8. Staged'
  BY <1>1, <1>2, <1>3, PartsAssumption DEF SwitchInv, Staged, Staging, Wanted, Switch!In,
     Switch!At
<1>9. Candidates'
  <2>1. CandidateOf(c)'
    BY <1>1, <1>2, <1>3, <1>4, PartsAssumption DEF SwitchInv, Candidates, CandidateOf, Deletes,
       Switch!At
  <2> QED
    BY <1>1, <1>4, <2>1, CandidateStep, PartsAssumption
<1>10. FileFollows'
  BY <1>1, <1>2, <1>3, PartsAssumption DEF SwitchInv, FileFollows, HeldFile, Pending, Modifies,
     Writes, Switch!At
<1>11. CoreFollows'
  BY <1>1, <1>2, <1>3, <1>4, PartsAssumption DEF SwitchInv, CoreFollows, Committing, Storing,
     Wanted, Switch!In, Switch!At, Updates
<1>12. Patched'
  BY <1>1, <1>2, <1>3, PartsAssumption DEF SwitchInv, Patched
<1> QED
  BY <1>6, <1>7, <1>8, <1>9, <1>10, <1>11, <1>12 DEF SwitchInv

\* So is one that errs.
LEMMA SwErrorsUpdate ==
  ASSUME SwitchInv, NEW c \in Callers, Switch!UpdateErrors(c), calls[c].kind = "update"
  PROVE  SwitchInv'
<1> DEFINE it == [calls[c] EXCEPT !.step = "done"]
<1>1. /\ UNCHANGED <<profiles, staged, file, writing, permit, crossed>>
      /\ calls' = [calls EXCEPT ![c] = it]
      /\ calls[c].kind = "update" /\ calls[c].step = "applying"
      /\ loaded' = Switch!Unknown
      /\ updating' = None
  BY DEF Switch!UpdateErrors, Switch!To, SwitchInv, SwitchTyped, StepsOf, Call, Switch!Rejected,
     UpdateSteps
<1>2. /\ it \in Call /\ it.step = "done"
      /\ it.kind = calls[c].kind
      /\ it.target = calls[c].target
      /\ it.previous = calls[c].previous
      /\ it.candidate = calls[c].candidate
      /\ it.generated = calls[c].generated
  <2>1. /\ calls[c] \in Call /\ profiles \in Lists
        /\ profiles.current \in Profiles \cup {None}
    BY DEF SwitchInv, SwitchTyped, Lists
  <2> QED
    BY <1>1, <2>1 DEF Call, SwitchSteps, DeleteSteps, PatchSteps
<1> HIDE DEF it
<1>3. \A d \in Callers : calls'[d] = IF d = c THEN it ELSE calls[d]
  BY <1>1 DEF SwitchInv, SwitchTyped
<1>4. updating = c /\ \A d \in Callers : d # c => ~Updates(d) /\ ~Storing(d)
  BY <1>1, PartsAssumption DEF SwitchInv, Held, Updates, Storing
<1>5. it.step \in StepsOf(it.kind)
  BY <1>1, <1>2 DEF StepsOf, SwitchSteps, DeleteSteps, PatchSteps, UpdateSteps
<1>6. SwitchTyped'
  BY <1>1, <1>2, <1>5, TypedStep DEF SwitchInv
<1>7. Held'
  BY <1>1, <1>2, <1>3, <1>4, PartsAssumption DEF SwitchInv, Held, Writes, Modifies, Updates,
     Switch!At, SwitchTyped, StepsOf, SwitchSteps, DeleteSteps, PatchSteps, UpdateSteps
<1>8. Staged'
  BY <1>1, <1>2, <1>3, PartsAssumption DEF SwitchInv, Staged, Staging, Wanted, Switch!In,
     Switch!At
<1>9. Candidates'
  <2>1. CandidateOf(c)'
    BY <1>1, <1>2, <1>3, <1>4, PartsAssumption DEF SwitchInv, Candidates, CandidateOf, Deletes,
       Switch!At
  <2> QED
    BY <1>1, <1>4, <2>1, CandidateStep, PartsAssumption
<1>10. FileFollows'
  BY <1>1, <1>2, <1>3, PartsAssumption DEF SwitchInv, FileFollows, HeldFile, Pending, Modifies,
     Writes, Switch!At
<1>11. CoreFollows'
  BY <1>1, <1>2, <1>3, <1>4, PartsAssumption DEF SwitchInv, CoreFollows, Committing, Storing,
     Wanted, Switch!In, Switch!At, Updates
<1>12. Patched'
  BY <1>1, <1>2, <1>3, PartsAssumption DEF SwitchInv, Patched
<1> QED
  BY <1>6, <1>7, <1>8, <1>9, <1>10, <1>11, <1>12 DEF SwitchInv

\* delete_profile holds the permit and the lock through the update.
LEMMA SwDeleteLocks ==
  ASSUME SwitchInv, NEW c \in Callers, Switch!DeleteLocks(c) PROVE SwitchInv'
<1> DEFINE it == [calls[c] EXCEPT !.step = "planning"]
<1>1. /\ UNCHANGED <<profiles, staged, file, loaded, permit, updating, crossed>>
      /\ calls' = [calls EXCEPT ![c] = it]
      /\ calls[c].kind = "delete" /\ calls[c].step = "idle"
      /\ writing = None
      /\ writing' = c
  BY DEF Switch!DeleteLocks, Switch!At, Switch!To, SwitchInv, SwitchTyped, Call, Switch!Acquire
<1>2. /\ it \in Call /\ it.step = "planning"
      /\ it.kind = calls[c].kind
      /\ it.target = calls[c].target
      /\ it.previous = calls[c].previous
      /\ it.candidate = calls[c].candidate
      /\ it.generated = calls[c].generated
  <2>1. /\ calls[c] \in Call /\ profiles \in Lists
        /\ profiles.current \in Profiles \cup {None}
    BY DEF SwitchInv, SwitchTyped, Lists
  <2> QED
    BY <1>1, <2>1 DEF Call, SwitchSteps, DeleteSteps, PatchSteps
<1> HIDE DEF it
<1>3. \A d \in Callers : calls'[d] = IF d = c THEN it ELSE calls[d]
  BY <1>1 DEF SwitchInv, SwitchTyped
<1>4. \A d \in Callers : ~Writes(d) /\ ~Staging(d)
  BY <1>1, PartsAssumption DEF SwitchInv, Held, Writes, Staging
<1>5. it.step \in StepsOf(it.kind)
  BY <1>1, <1>2 DEF StepsOf, SwitchSteps, DeleteSteps, PatchSteps, UpdateSteps
<1>6. SwitchTyped'
  BY <1>1, <1>2, <1>5, TypedStep DEF SwitchInv
<1>7. Held'
  BY <1>1, <1>2, <1>3, <1>4, PartsAssumption DEF SwitchInv, Held, Writes, Modifies, Updates,
     Switch!At, SwitchTyped, StepsOf, SwitchSteps, DeleteSteps, PatchSteps, UpdateSteps
<1>8. Staged'
  BY <1>1, <1>2, <1>3, PartsAssumption DEF SwitchInv, Staged, Staging, Wanted, Switch!In,
     Switch!At
<1>9. Candidates'
  <2>1. CandidateOf(c)'
    BY <1>1, <1>2, <1>3, PartsAssumption DEF SwitchInv, Candidates, CandidateOf, Deletes,
       Switch!At
  <2> QED
    BY <1>1, <2>1, CandidateStep
<1>10. FileFollows'
  BY <1>1, <1>2, <1>3, PartsAssumption DEF SwitchInv, FileFollows, HeldFile, Pending, Modifies,
     Writes, Switch!At
<1>11. CoreFollows'
  BY <1>1, <1>2, <1>3, PartsAssumption DEF SwitchInv, CoreFollows, Committing, Storing, Wanted,
     Switch!In, Switch!At
<1>12. Patched'
  BY <1>1, <1>2, <1>3, PartsAssumption DEF SwitchInv, Patched
<1> QED
  BY <1>6, <1>7, <1>8, <1>9, <1>10, <1>11, <1>12 DEF SwitchInv

\* A deletion of a profile that is gone has nothing to do.
LEMMA SwPlansNothing ==
  ASSUME SwitchInv, NEW c \in Callers, Switch!DeletePlans(c), calls'[c].step = "givingUp"
  PROVE  SwitchInv'
<1> DEFINE it == [calls[c] EXCEPT !.step = "givingUp"]
<1>1. /\ UNCHANGED <<profiles, staged, file, loaded, writing, updating, crossed>>
      /\ calls' = [calls EXCEPT ![c] = it]
      /\ calls[c].kind = "delete" /\ calls[c].step = "planning"
      /\ permit = None
      /\ permit' = c
  BY DEF Switch!DeletePlans, Switch!At, Switch!To, Switch!locks, SwitchInv, SwitchTyped, Call,
     Switch!Acquire
<1>2. /\ it \in Call /\ it.step = "givingUp"
      /\ it.kind = calls[c].kind
      /\ it.target = calls[c].target
      /\ it.previous = calls[c].previous
      /\ it.candidate = calls[c].candidate
      /\ it.generated = calls[c].generated
  <2>1. /\ calls[c] \in Call /\ profiles \in Lists
        /\ profiles.current \in Profiles \cup {None}
    BY DEF SwitchInv, SwitchTyped, Lists
  <2> QED
    BY <1>1, <2>1 DEF Call, SwitchSteps, DeleteSteps, PatchSteps
<1> HIDE DEF it
<1>3. \A d \in Callers : calls'[d] = IF d = c THEN it ELSE calls[d]
  BY <1>1 DEF SwitchInv, SwitchTyped
<1>4. \A d \in Callers : d # c => ~Writes(d)
  BY <1>1 DEF SwitchInv, Held, Writes
<1>5. \A d \in Callers : ~Modifies(d)
  BY <1>1, PartsAssumption DEF SwitchInv, Held, Modifies
<1>6. it.step \in StepsOf(it.kind)
  BY <1>1, <1>2 DEF StepsOf, SwitchSteps, DeleteSteps, PatchSteps, UpdateSteps
<1>7. SwitchTyped'
  BY <1>1, <1>2, <1>6, TypedStep DEF SwitchInv
<1>8. Held'
  BY <1>1, <1>2, <1>3, <1>5, PartsAssumption DEF SwitchInv, Held, Writes, Modifies, Updates,
     Switch!At, SwitchTyped, StepsOf, SwitchSteps, DeleteSteps, PatchSteps, UpdateSteps
<1>9. Staged'
  BY <1>1, <1>2, <1>3, PartsAssumption DEF SwitchInv, Staged, Staging, Wanted, Switch!In,
     Switch!At
<1>10. Candidates'
  <2>1. CandidateOf(c)'
    BY <1>1, <1>2, <1>3, PartsAssumption DEF SwitchInv, Candidates, CandidateOf, Deletes,
       Switch!At
  <2> QED
    BY <1>1, <2>1, CandidateStep
<1>11. FileFollows'
  <2>1. FileOf(c) => FileOf(c)'
    BY <1>1, <1>2, <1>3, <1>5, PartsAssumption DEF SwitchInv, FileOf, HeldFile, Modifies,
       Writes, Switch!At
  <2> QED
    BY <1>1, <1>5, <2>1, FileStep
<1>12. CoreFollows'
  BY <1>1, <1>2, <1>3, PartsAssumption DEF SwitchInv, CoreFollows, Committing, Storing, Wanted,
     Switch!In, Switch!At
<1>13. Patched'
  BY <1>1, <1>2, <1>3, PartsAssumption DEF SwitchInv, Patched
<1> QED
  BY <1>7, <1>8, <1>9, <1>10, <1>11, <1>12, <1>13 DEF SwitchInv

\* A deletion of another profile than the current one leaves the Core alone.
LEMMA SwPlans ==
  ASSUME SwitchInv, NEW c \in Callers, Switch!DeletePlans(c),
             calls[c].target \in Switch!In(profiles), profiles.current # calls[c].target
  PROVE  SwitchInv'
<1> DEFINE it == [calls[c] EXCEPT !.step = "storing", !.candidate = Switch!Without(profiles,
               calls[c].target)]
<1>1. /\ UNCHANGED <<profiles, staged, file, loaded, writing, updating, crossed>>
      /\ calls' = [calls EXCEPT ![c] = it]
      /\ calls[c].kind = "delete" /\ calls[c].step = "planning"
      /\ permit = None
      /\ updating # c
      /\ permit' = c
  BY DEF Switch!DeletePlans, Switch!At, Switch!To, Switch!locks, Held, SwitchInv, SwitchTyped,
     Call, Switch!Acquire
<1>2. /\ it \in Call /\ it.step = "storing"
      /\ it.kind = calls[c].kind
      /\ it.target = calls[c].target
      /\ it.previous = calls[c].previous
      /\ it.generated = calls[c].generated
      /\ it.candidate = Switch!Without(profiles, calls[c].target)
  <2>1. /\ calls[c] \in Call /\ profiles \in Lists
        /\ profiles.current \in Profiles \cup {None}
    BY DEF SwitchInv, SwitchTyped, Lists
  <2>2. Switch!Without(profiles, calls[c].target) \in Lists
    BY <2>1, WithoutIs DEF Call
  <2> QED
    BY <1>1, <2>1, <2>2 DEF Call, SwitchSteps, DeleteSteps, PatchSteps
<1> HIDE DEF it
<1>3. \A d \in Callers : calls'[d] = IF d = c THEN it ELSE calls[d]
  BY <1>1 DEF SwitchInv, SwitchTyped
<1>4. \A d \in Callers : d # c => ~Writes(d)
  BY <1>1 DEF SwitchInv, Held, Writes
<1>5. \A d \in Callers : ~Modifies(d)
  BY <1>1, PartsAssumption DEF SwitchInv, Held, Modifies
<1>6. /\ Switch!Without(profiles, calls[c].target) \in Lists
      /\ Switch!Without(profiles, calls[c].target).version = profiles.version
      /\ Switch!Without(profiles, calls[c].target).current = profiles.current
      /\ \A pr \in Profiles : Switch!Without(profiles, calls[c].target).items[pr]
                                  \in {profiles.items[pr], "gone"}
  BY WithoutIs DEF SwitchInv, SwitchTyped, Call
<1>7. it.step \in StepsOf(it.kind)
  BY <1>1, <1>2 DEF StepsOf, SwitchSteps, DeleteSteps, PatchSteps, UpdateSteps
<1>8. SwitchTyped'
  BY <1>1, <1>2, <1>7, TypedStep DEF SwitchInv
<1>9. Held'
  BY <1>1, <1>2, <1>3, <1>5, PartsAssumption DEF SwitchInv, Held, Writes, Modifies, Updates,
     Switch!At, SwitchTyped, StepsOf, SwitchSteps, DeleteSteps, PatchSteps, UpdateSteps
<1>10. Staged'
  BY <1>1, <1>2, <1>3, PartsAssumption DEF SwitchInv, Staged, Staging, Wanted, Switch!In,
     Switch!At
<1>11. Candidates'
  <2>1. CandidateOf(c)'
    BY <1>1, <1>2, <1>3, <1>6, PartsAssumption DEF SwitchInv, Candidates, CandidateOf, Deletes,
       Switch!At
  <2> QED
    BY <1>1, <2>1, CandidateStep
<1>12. FileFollows'
  <2>1. FileOf(c) => FileOf(c)'
    BY <1>1, <1>2, <1>3, <1>5, PartsAssumption DEF SwitchInv, FileOf, HeldFile, Modifies,
       Writes, Switch!At
  <2> QED
    BY <1>1, <1>5, <2>1, FileStep
<1>13. CoreFollows'
  BY <1>1, <1>2, <1>3, PartsAssumption DEF SwitchInv, CoreFollows, Committing, Storing, Wanted,
     Switch!In, Switch!At
<1>14. Patched'
  BY <1>1, <1>2, <1>3, PartsAssumption DEF SwitchInv, Patched
<1> QED
  BY <1>8, <1>9, <1>10, <1>11, <1>12, <1>13, <1>14 DEF SwitchInv

\* A deletion of the current profile updates the Core first (plan_delete_item).
LEMMA SwPlansNext ==
  ASSUME SwitchInv, NEW c \in Callers, Switch!DeletePlans(c), NEW nx \in Profiles \cup {None},
             PlansNext(c, nx)
  PROVE  SwitchInv'
<1> DEFINE cand == [Switch!Without(profiles, calls[c].target) EXCEPT !.current = nx]
<1> DEFINE it == [calls[c] EXCEPT !.step = "asking", !.candidate = cand]
<1>1. /\ UNCHANGED <<profiles, staged, file, loaded, writing, updating, crossed>>
      /\ calls' = [calls EXCEPT ![c] = it]
      /\ calls[c].kind = "delete" /\ calls[c].step = "planning"
      /\ permit = None
      /\ updating # c
      /\ permit' = c
  BY DEF Switch!DeletePlans, Switch!At, Switch!To, Switch!locks, Held, PlansNext, SwitchInv,
     SwitchTyped, Call, Switch!Acquire
<1>2. /\ it \in Call /\ it.step = "asking"
      /\ it.kind = calls[c].kind
      /\ it.target = calls[c].target
      /\ it.previous = calls[c].previous
      /\ it.generated = calls[c].generated
      /\ it.candidate = cand
  <2>1. /\ calls[c] \in Call /\ profiles \in Lists
        /\ profiles.current \in Profiles \cup {None}
    BY DEF SwitchInv, SwitchTyped, Lists
  <2>2. Switch!Without(profiles, calls[c].target) \in Lists
    BY <2>1, WithoutIs DEF Call
  <2>3. cand \in Lists
    BY <2>2 DEF Lists
  <2> HIDE DEF cand
  <2> QED
    BY <1>1, <2>1, <2>3 DEF Call, SwitchSteps, DeleteSteps, PatchSteps
<1>3. /\ Switch!Without(profiles, calls[c].target) \in Lists
      /\ Switch!Without(profiles, calls[c].target).version = profiles.version
      /\ Switch!Without(profiles, calls[c].target).current = profiles.current
      /\ \A pr \in Profiles : Switch!Without(profiles, calls[c].target).items[pr]
                                  \in {profiles.items[pr], "gone"}
  BY WithoutIs DEF SwitchInv, SwitchTyped, Call
<1>4. /\ cand \in Lists /\ cand.version = profiles.version
      /\ \A pr \in Profiles : cand.items[pr] \in {profiles.items[pr], "gone"}
  BY <1>3 DEF Lists
<1> HIDE DEF it, cand
<1>5. \A d \in Callers : calls'[d] = IF d = c THEN it ELSE calls[d]
  BY <1>1 DEF SwitchInv, SwitchTyped
<1>6. \A d \in Callers : d # c => ~Writes(d)
  BY <1>1 DEF SwitchInv, Held, Writes
<1>7. \A d \in Callers : ~Modifies(d)
  BY <1>1, PartsAssumption DEF SwitchInv, Held, Modifies
<1>8. it.step \in StepsOf(it.kind)
  BY <1>1, <1>2 DEF StepsOf, SwitchSteps, DeleteSteps, PatchSteps, UpdateSteps
<1>9. SwitchTyped'
  BY <1>1, <1>2, <1>8, TypedStep DEF SwitchInv
<1>10. Held'
  BY <1>1, <1>2, <1>5, <1>7, PartsAssumption DEF SwitchInv, Held, Writes, Modifies, Updates,
     Switch!At, SwitchTyped, StepsOf, SwitchSteps, DeleteSteps, PatchSteps, UpdateSteps
<1>11. Staged'
  BY <1>1, <1>2, <1>5, PartsAssumption DEF SwitchInv, Staged, Staging, Wanted, Switch!In,
     Switch!At
<1>12. Candidates'
  <2>1. CandidateOf(c)'
    BY <1>1, <1>2, <1>5, <1>4, PartsAssumption DEF SwitchInv, Candidates, CandidateOf, Deletes,
       Switch!At
  <2> QED
    BY <1>1, <2>1, CandidateStep
<1>13. FileFollows'
  <2>1. FileOf(c) => FileOf(c)'
    BY <1>1, <1>2, <1>5, <1>7, PartsAssumption DEF SwitchInv, FileOf, HeldFile, Modifies,
       Writes, Switch!At
  <2> QED
    BY <1>1, <1>7, <2>1, FileStep
<1>14. CoreFollows'
  BY <1>1, <1>2, <1>5, PartsAssumption DEF SwitchInv, CoreFollows, Committing, Storing, Wanted,
     Switch!In, Switch!At
<1>15. Patched'
  BY <1>1, <1>2, <1>5, PartsAssumption DEF SwitchInv, Patched
<1> QED
  BY <1>9, <1>10, <1>11, <1>12, <1>13, <1>14, <1>15 DEF SwitchInv

\* The file is saved before the profiles are replaced.
LEMMA SwStores ==
  ASSUME SwitchInv, NEW c \in Callers, Switch!DeleteStores(c), calls'[c].step = "deleting"
  PROVE  SwitchInv'
<1> DEFINE it == [calls[c] EXCEPT !.step = "deleting"]
<1>1. /\ UNCHANGED <<profiles, staged, loaded, writing, permit, updating, crossed>>
      /\ calls' = [calls EXCEPT ![c] = it]
      /\ calls[c].kind = "delete" /\ calls[c].step = "storing"
      /\ file' = Switch!Content(calls[c].candidate)
  BY DEF Switch!DeleteStores, Switch!At, Switch!To, Switch!locks, SwitchInv, SwitchTyped, Call
<1>2. /\ it \in Call /\ it.step = "deleting"
      /\ it.kind = calls[c].kind
      /\ it.target = calls[c].target
      /\ it.previous = calls[c].previous
      /\ it.candidate = calls[c].candidate
      /\ it.generated = calls[c].generated
  <2>1. /\ calls[c] \in Call /\ profiles \in Lists
        /\ profiles.current \in Profiles \cup {None}
    BY DEF SwitchInv, SwitchTyped, Lists
  <2> QED
    BY <1>1, <2>1 DEF Call, SwitchSteps, DeleteSteps, PatchSteps
<1> HIDE DEF it
<1>3. \A d \in Callers : calls'[d] = IF d = c THEN it ELSE calls[d]
  BY <1>1 DEF SwitchInv, SwitchTyped
<1>4. /\ permit = c /\ \A d \in Callers : d # c => ~Modifies(d)
  BY <1>1, PartsAssumption DEF SwitchInv, Held, Modifies, Writes, Switch!At
<1>5. it.step \in StepsOf(it.kind)
  BY <1>1, <1>2 DEF StepsOf, SwitchSteps, DeleteSteps, PatchSteps, UpdateSteps
<1>6. SwitchTyped'
  BY <1>1, <1>2, <1>5, TypedStep DEF SwitchInv
<1>7. Held'
  BY <1>1, <1>2, <1>3, PartsAssumption DEF SwitchInv, Held, Writes, Modifies, Updates,
     Switch!At, SwitchTyped, StepsOf, SwitchSteps, DeleteSteps, PatchSteps, UpdateSteps
<1>8. Staged'
  BY <1>1, <1>2, <1>3, PartsAssumption DEF SwitchInv, Staged, Staging, Wanted, Switch!In,
     Switch!At
<1>9. Candidates'
  <2>1. CandidateOf(c)'
    BY <1>1, <1>2, <1>3, PartsAssumption DEF SwitchInv, Candidates, CandidateOf, Deletes,
       Switch!At
  <2> QED
    BY <1>1, <2>1, CandidateStep
<1>10. FileFollows'
  <2>1. FileOf(c) => FileOf(c)'
    BY <1>1, <1>2, <1>3, <1>4, PartsAssumption DEF SwitchInv, FileOf, HeldFile, Modifies,
       Writes, Switch!At, Candidates, CandidateOf, Deletes
  <2> QED
    BY <1>1, <1>4, <2>1, FileStep
<1>11. CoreFollows'
  BY <1>1, <1>2, <1>3, PartsAssumption DEF SwitchInv, CoreFollows, Committing, Storing, Wanted,
     Switch!In, Switch!At
<1>12. Patched'
  BY <1>1, <1>2, <1>3, PartsAssumption DEF SwitchInv, Patched
<1> QED
  BY <1>6, <1>7, <1>8, <1>9, <1>10, <1>11, <1>12 DEF SwitchInv

\* A file that cannot be saved after an update puts the old configuration back.
LEMMA SwStoresBack ==
  ASSUME SwitchInv, NEW c \in Callers, Switch!DeleteStores(c), calls'[c].step = "puttingBack"
  PROVE  SwitchInv'
<1> DEFINE it == [calls[c] EXCEPT !.step = "puttingBack"]
<1>1. /\ UNCHANGED <<profiles, staged, file, loaded, writing, permit, updating, crossed>>
      /\ calls' = [calls EXCEPT ![c] = it]
      /\ calls[c].kind = "delete" /\ calls[c].step = "storing"
      /\ updating = c
  BY DEF Switch!DeleteStores, Switch!At, Switch!To, Switch!locks, SwitchInv, SwitchTyped, Call
<1>2. /\ it \in Call /\ it.step = "puttingBack"
      /\ it.kind = calls[c].kind
      /\ it.target = calls[c].target
      /\ it.previous = calls[c].previous
      /\ it.candidate = calls[c].candidate
      /\ it.generated = calls[c].generated
  <2>1. /\ calls[c] \in Call /\ profiles \in Lists
        /\ profiles.current \in Profiles \cup {None}
    BY DEF SwitchInv, SwitchTyped, Lists
  <2> QED
    BY <1>1, <2>1 DEF Call, SwitchSteps, DeleteSteps, PatchSteps
<1> HIDE DEF it
<1>3. \A d \in Callers : calls'[d] = IF d = c THEN it ELSE calls[d]
  BY <1>1 DEF SwitchInv, SwitchTyped
<1>4. /\ permit = c /\ \A d \in Callers : d # c => ~Modifies(d)
  BY <1>1, PartsAssumption DEF SwitchInv, Held, Modifies, Writes, Switch!At
<1>5. it.step \in StepsOf(it.kind)
  BY <1>1, <1>2 DEF StepsOf, SwitchSteps, DeleteSteps, PatchSteps, UpdateSteps
<1>6. SwitchTyped'
  BY <1>1, <1>2, <1>5, TypedStep DEF SwitchInv
<1>7. Held'
  BY <1>1, <1>2, <1>3, PartsAssumption DEF SwitchInv, Held, Writes, Modifies, Updates,
     Switch!At, SwitchTyped, StepsOf, SwitchSteps, DeleteSteps, PatchSteps, UpdateSteps
<1>8. Staged'
  BY <1>1, <1>2, <1>3, PartsAssumption DEF SwitchInv, Staged, Staging, Wanted, Switch!In,
     Switch!At
<1>9. Candidates'
  <2>1. CandidateOf(c)'
    BY <1>1, <1>2, <1>3, PartsAssumption DEF SwitchInv, Candidates, CandidateOf, Deletes,
       Switch!At
  <2> QED
    BY <1>1, <2>1, CandidateStep
<1>10. FileFollows'
  <2>1. FileOf(c) => FileOf(c)'
    BY <1>1, <1>2, <1>3, <1>4, PartsAssumption DEF SwitchInv, FileOf, HeldFile, Modifies,
       Writes, Switch!At
  <2> QED
    BY <1>1, <1>4, <2>1, FileStep
<1>11. CoreFollows'
  BY <1>1, <1>2, <1>3, PartsAssumption DEF SwitchInv, CoreFollows, Committing, Storing, Wanted,
     Switch!In, Switch!At
<1>12. Patched'
  BY <1>1, <1>2, <1>3, PartsAssumption DEF SwitchInv, Patched
<1> QED
  BY <1>6, <1>7, <1>8, <1>9, <1>10, <1>11, <1>12 DEF SwitchInv

\* Without an update the deletion gives up.
LEMMA SwStoresFails ==
  ASSUME SwitchInv, NEW c \in Callers, Switch!DeleteStores(c), calls'[c].step = "givingUp"
  PROVE  SwitchInv'
<1> DEFINE it == [calls[c] EXCEPT !.step = "givingUp"]
<1>1. /\ UNCHANGED <<profiles, staged, file, loaded, writing, permit, updating, crossed>>
      /\ calls' = [calls EXCEPT ![c] = it]
      /\ calls[c].kind = "delete" /\ calls[c].step = "storing"
      /\ updating # c
  BY DEF Switch!DeleteStores, Switch!At, Switch!To, Switch!locks, SwitchInv, SwitchTyped, Call
<1>2. /\ it \in Call /\ it.step = "givingUp"
      /\ it.kind = calls[c].kind
      /\ it.target = calls[c].target
      /\ it.previous = calls[c].previous
      /\ it.candidate = calls[c].candidate
      /\ it.generated = calls[c].generated
  <2>1. /\ calls[c] \in Call /\ profiles \in Lists
        /\ profiles.current \in Profiles \cup {None}
    BY DEF SwitchInv, SwitchTyped, Lists
  <2> QED
    BY <1>1, <2>1 DEF Call, SwitchSteps, DeleteSteps, PatchSteps
<1> HIDE DEF it
<1>3. \A d \in Callers : calls'[d] = IF d = c THEN it ELSE calls[d]
  BY <1>1 DEF SwitchInv, SwitchTyped
<1>4. /\ permit = c /\ \A d \in Callers : d # c => ~Modifies(d)
  BY <1>1, PartsAssumption DEF SwitchInv, Held, Modifies, Writes, Switch!At
<1>5. it.step \in StepsOf(it.kind)
  BY <1>1, <1>2 DEF StepsOf, SwitchSteps, DeleteSteps, PatchSteps, UpdateSteps
<1>6. SwitchTyped'
  BY <1>1, <1>2, <1>5, TypedStep DEF SwitchInv
<1>7. Held'
  BY <1>1, <1>2, <1>3, PartsAssumption DEF SwitchInv, Held, Writes, Modifies, Updates,
     Switch!At, SwitchTyped, StepsOf, SwitchSteps, DeleteSteps, PatchSteps, UpdateSteps
<1>8. Staged'
  BY <1>1, <1>2, <1>3, PartsAssumption DEF SwitchInv, Staged, Staging, Wanted, Switch!In,
     Switch!At
<1>9. Candidates'
  <2>1. CandidateOf(c)'
    BY <1>1, <1>2, <1>3, PartsAssumption DEF SwitchInv, Candidates, CandidateOf, Deletes,
       Switch!At
  <2> QED
    BY <1>1, <2>1, CandidateStep
<1>10. FileFollows'
  <2>1. FileOf(c) => FileOf(c)'
    BY <1>1, <1>2, <1>3, <1>4, PartsAssumption DEF SwitchInv, FileOf, HeldFile, Modifies,
       Writes, Switch!At
  <2> QED
    BY <1>1, <1>4, <2>1, FileStep
<1>11. CoreFollows'
  BY <1>1, <1>2, <1>3, PartsAssumption DEF SwitchInv, CoreFollows, Committing, Storing, Wanted,
     Switch!In, Switch!At
<1>12. Patched'
  BY <1>1, <1>2, <1>3, PartsAssumption DEF SwitchInv, Patched
<1> QED
  BY <1>6, <1>7, <1>8, <1>9, <1>10, <1>11, <1>12 DEF SwitchInv

\* The Core has the current profile again, or is in doubt (restore_profile_config).
LEMMA SwPutBack ==
  ASSUME SwitchInv, NEW c \in Callers, Switch!PutBack(c) PROVE SwitchInv'
<1> DEFINE it == [calls[c] EXCEPT !.step = "givingUp"]
<1>1. /\ UNCHANGED <<profiles, staged, file, writing, permit, updating, crossed>>
      /\ calls' = [calls EXCEPT ![c] = it]
      /\ calls[c].kind = "delete" /\ calls[c].step = "puttingBack"
      /\ loaded' \in {profiles.current, Switch!Unknown}
  BY DEF Switch!PutBack, Switch!At, Switch!To, Switch!locks, SwitchInv, SwitchTyped, Call
<1>2. /\ it \in Call /\ it.step = "givingUp"
      /\ it.kind = calls[c].kind
      /\ it.target = calls[c].target
      /\ it.previous = calls[c].previous
      /\ it.candidate = calls[c].candidate
      /\ it.generated = calls[c].generated
  <2>1. /\ calls[c] \in Call /\ profiles \in Lists
        /\ profiles.current \in Profiles \cup {None}
    BY DEF SwitchInv, SwitchTyped, Lists
  <2> QED
    BY <1>1, <2>1 DEF Call, SwitchSteps, DeleteSteps, PatchSteps
<1> HIDE DEF it
<1>3. \A d \in Callers : calls'[d] = IF d = c THEN it ELSE calls[d]
  BY <1>1 DEF SwitchInv, SwitchTyped
<1>4. \A d \in Callers : d # c => ~Writes(d)
  BY <1>1 DEF SwitchInv, Held, Writes
<1>5. \A d \in Callers : d # c => ~Staging(d) /\ ~Committing(d) /\ ~Deletes(d)
  BY <1>4 DEF Writes, Staging, Committing, Deletes
<1>6. updating = c /\ \A d \in Callers : d # c => ~Updates(d) /\ ~Storing(d)
  BY <1>1, PartsAssumption DEF SwitchInv, Held, Updates, Storing
<1>7. it.step \in StepsOf(it.kind)
  BY <1>1, <1>2 DEF StepsOf, SwitchSteps, DeleteSteps, PatchSteps, UpdateSteps
<1>8. SwitchTyped'
  BY <1>1, <1>2, <1>7, TypedStep DEF SwitchInv
<1>9. Held'
  BY <1>1, <1>2, <1>3, PartsAssumption DEF SwitchInv, Held, Writes, Modifies, Updates,
     Switch!At, SwitchTyped, StepsOf, SwitchSteps, DeleteSteps, PatchSteps, UpdateSteps
<1>10. Staged'
  BY <1>1, <1>2, <1>3, PartsAssumption DEF SwitchInv, Staged, Staging, Wanted, Switch!In,
     Switch!At
<1>11. Candidates'
  <2>1. CandidateOf(c)'
    BY <1>1, <1>2, <1>3, PartsAssumption DEF SwitchInv, Candidates, CandidateOf, Deletes,
       Switch!At
  <2> QED
    BY <1>1, <2>1, CandidateStep
<1>12. FileFollows'
  BY <1>1, <1>2, <1>3, PartsAssumption DEF SwitchInv, FileFollows, HeldFile, Pending, Modifies,
     Writes, Switch!At
<1>13. CoreFollows'
  BY <1>1, <1>2, <1>3, <1>5, <1>6, PartsAssumption DEF SwitchInv, CoreFollows, Committing,
     Storing, Wanted, Switch!In, Switch!At, Updates
<1>14. Patched'
  BY <1>1, <1>2, <1>3, PartsAssumption DEF SwitchInv, Patched
<1> QED
  BY <1>8, <1>9, <1>10, <1>11, <1>12, <1>13, <1>14 DEF SwitchInv

\* The profiles become what the file holds.
LEMMA SwDeletes ==
  ASSUME SwitchInv, NEW c \in Callers, Switch!Delete(c) PROVE SwitchInv'
<1> DEFINE it == [calls[c] EXCEPT !.step = "givingUp"]
<1>1. /\ UNCHANGED <<staged, file, loaded, writing, permit, updating>>
      /\ calls' = [calls EXCEPT ![c] = it]
      /\ calls[c].kind = "delete" /\ calls[c].step = "deleting"
      /\ profiles' = IF calls[c].candidate.version = profiles.version THEN calls[c].candidate
             ELSE profiles
      /\ crossed => crossed'
  BY DEF Switch!Delete, Switch!At, Switch!To, Switch!locks, SwitchInv, SwitchTyped, Call
<1>2. /\ it \in Call /\ it.step = "givingUp"
      /\ it.kind = calls[c].kind
      /\ it.target = calls[c].target
      /\ it.previous = calls[c].previous
      /\ it.candidate = calls[c].candidate
      /\ it.generated = calls[c].generated
  <2>1. /\ calls[c] \in Call /\ profiles \in Lists
        /\ profiles.current \in Profiles \cup {None}
    BY DEF SwitchInv, SwitchTyped, Lists
  <2> QED
    BY <1>1, <2>1 DEF Call, SwitchSteps, DeleteSteps, PatchSteps
<1> HIDE DEF it
<1>3. \A d \in Callers : calls'[d] = IF d = c THEN it ELSE calls[d]
  BY <1>1 DEF SwitchInv, SwitchTyped
<1>4. \A d \in Callers : d # c => ~Writes(d)
  BY <1>1 DEF SwitchInv, Held, Writes
<1>5. \A d \in Callers : d # c => ~Staging(d) /\ ~Committing(d) /\ ~Deletes(d)
  BY <1>4 DEF Writes, Staging, Committing, Deletes
<1>6. /\ permit = c /\ \A d \in Callers : d # c => ~Modifies(d)
  BY <1>1, PartsAssumption DEF SwitchInv, Held, Modifies, Writes, Switch!At
<1>7. /\ profiles' = calls[c].candidate /\ profiles' \in Lists
      /\ profiles'.version = profiles.version
      /\ \A pr \in Profiles : profiles'.items[pr] \in {profiles.items[pr], "gone"}
      /\ updating # c => profiles'.current = profiles.current
  BY <1>1 DEF SwitchInv, Candidates, CandidateOf, Deletes
<1>8. \A d \in Callers : ~Committing(d) /\ ~Staging(d)
  BY <1>1, <1>5 DEF Committing, Staging
<1>9. \A d \in Callers : d # c => ~Switch!At(d, "patch", "patching")
        /\ ~Switch!At(d, "patch", "replacing")
  BY <1>6 DEF Modifies, Switch!At
<1>10. it.step \in StepsOf(it.kind)
  BY <1>1, <1>2 DEF StepsOf, SwitchSteps, DeleteSteps, PatchSteps, UpdateSteps
<1>11. SwitchTyped'
  BY <1>1, <1>2, <1>7, <1>10, TypedStep DEF SwitchInv
<1>12. Held'
  BY <1>1, <1>2, <1>3, PartsAssumption DEF SwitchInv, Held, Writes, Modifies, Updates,
     Switch!At, SwitchTyped, StepsOf, SwitchSteps, DeleteSteps, PatchSteps, UpdateSteps
<1>13. Staged'
  BY <1>1, <1>2, <1>3, <1>7, <1>8, PartsAssumption DEF SwitchInv, Staged, Staging, Wanted,
     Switch!In, Switch!At
<1>14. Candidates'
  BY <1>1, <1>2, <1>3, <1>5, <1>7, <1>9, PartsAssumption DEF SwitchInv, Candidates, CandidateOf,
     Deletes, Switch!At
<1>15. FileFollows'
  <2>1. FileOf(c) => FileOf(c)'
    BY <1>1, <1>2, <1>3, <1>6, <1>7, PartsAssumption DEF SwitchInv, FileOf, HeldFile, Modifies,
       Writes, Switch!At
  <2> QED
    BY <1>1, <1>6, <2>1, FileStep
<1>16. CoreFollows'
  BY <1>1, <1>2, <1>3, <1>5, <1>7, <1>8, PartsAssumption DEF SwitchInv, CoreFollows, Committing,
     Storing, Wanted, Switch!In, Switch!At, Updates, Held, Deletes
<1>17. Patched'
  BY <1>1, <1>2, <1>3, <1>7, PartsAssumption DEF SwitchInv, Patched, SwitchTyped, Call
<1> QED
  BY <1>11, <1>12, <1>13, <1>14, <1>15, <1>16, <1>17 DEF SwitchInv

\* A deletion lets go of what it holds.
LEMMA SwDeleteEnds ==
  ASSUME SwitchInv, NEW c \in Callers, Switch!DeleteEnds(c) PROVE SwitchInv'
<1> DEFINE it == [calls[c] EXCEPT !.step = "done", !.candidate = <<>>]
<1>1. /\ UNCHANGED <<profiles, staged, file, loaded, crossed>>
      /\ calls' = [calls EXCEPT ![c] = it]
      /\ calls[c].kind = "delete" /\ calls[c].step = "givingUp"
      /\ permit' = None
      /\ writing' = None
      /\ updating' = IF updating = c THEN None ELSE updating
  BY DEF Switch!DeleteEnds, Switch!At, Switch!Release, SwitchInv, SwitchTyped, Call
<1>2. /\ it \in Call /\ it.step = "done"
      /\ it.kind = calls[c].kind
      /\ it.target = calls[c].target
      /\ it.previous = calls[c].previous
      /\ it.generated = calls[c].generated
      /\ it.candidate = <<>>
  <2>1. /\ calls[c] \in Call /\ profiles \in Lists
        /\ profiles.current \in Profiles \cup {None}
    BY DEF SwitchInv, SwitchTyped, Lists
  <2> QED
    BY <1>1, <2>1 DEF Call, SwitchSteps, DeleteSteps, PatchSteps
<1> HIDE DEF it
<1>3. \A d \in Callers : calls'[d] = IF d = c THEN it ELSE calls[d]
  BY <1>1 DEF SwitchInv, SwitchTyped
<1>4. \A d \in Callers : d # c => ~Writes(d)
  BY <1>1 DEF SwitchInv, Held, Writes
<1>5. /\ permit = c /\ \A d \in Callers : d # c => ~Modifies(d)
  BY <1>1, PartsAssumption DEF SwitchInv, Held, Modifies, Writes, Switch!At
<1>6. \A d \in Callers : d # c => ~Staging(d) /\ ~Committing(d) /\ ~Deletes(d)
  BY <1>4 DEF Writes, Staging, Committing, Deletes
<1>7. it.step \in StepsOf(it.kind)
  BY <1>1, <1>2 DEF StepsOf, SwitchSteps, DeleteSteps, PatchSteps, UpdateSteps
<1>8. SwitchTyped'
  BY <1>1, <1>2, <1>7, TypedStep DEF SwitchInv
<1>9. Held'
  BY <1>1, <1>2, <1>3, <1>4, <1>5, PartsAssumption DEF SwitchInv, Held, Writes, Modifies,
     Updates, Switch!At, SwitchTyped, StepsOf, SwitchSteps, DeleteSteps, PatchSteps, UpdateSteps
<1>10. Staged'
  BY <1>1, <1>2, <1>3, PartsAssumption DEF SwitchInv, Staged, Staging, Wanted, Switch!In,
     Switch!At
<1>11. Candidates'
  <2>1. CandidateOf(c)'
    BY <1>1, <1>2, <1>3, <1>6, <1>5, PartsAssumption DEF SwitchInv, Candidates, CandidateOf,
       Deletes, Switch!At
  <2> QED
    BY <1>1, <2>1, CandidateStep, PartsAssumption
<1>12. FileFollows'
  <2>1. FileOf(c) => FileOf(c)'
    BY <1>1, <1>2, <1>3, <1>5, PartsAssumption DEF SwitchInv, FileOf, HeldFile, Modifies,
       Writes, Switch!At
  <2> QED
    BY <1>1, <1>5, <2>1, FileStep
<1>13. CoreFollows'
  BY <1>1, <1>2, <1>3, <1>6, PartsAssumption DEF SwitchInv, CoreFollows, Committing, Storing,
     Wanted, Switch!In, Switch!At
<1>14. Patched'
  BY <1>1, <1>2, <1>3, PartsAssumption DEF SwitchInv, Patched
<1> QED
  BY <1>8, <1>9, <1>10, <1>11, <1>12, <1>13, <1>14 DEF SwitchInv

\* profiles_patch_item_safe reads the profiles with the permit in hand.
LEMMA SwPatchBegins ==
  ASSUME SwitchInv, NEW c \in Callers, Switch!PatchBegins(c) PROVE SwitchInv'
<1> DEFINE it == [calls[c] EXCEPT !.step = "patching", !.candidate = profiles]
<1>1. /\ UNCHANGED <<profiles, staged, file, loaded, writing, updating, crossed>>
      /\ calls' = [calls EXCEPT ![c] = it]
      /\ calls[c].kind = "patch" /\ calls[c].step = "idle"
      /\ permit = None
      /\ permit' = c
  BY DEF Switch!PatchBegins, Switch!At, SwitchInv, SwitchTyped, Call, Switch!Acquire
<1>2. /\ it \in Call /\ it.step = "patching"
      /\ it.kind = calls[c].kind
      /\ it.target = calls[c].target
      /\ it.previous = calls[c].previous
      /\ it.generated = calls[c].generated
      /\ it.candidate = profiles
  <2>1. /\ calls[c] \in Call /\ profiles \in Lists
        /\ profiles.current \in Profiles \cup {None}
    BY DEF SwitchInv, SwitchTyped, Lists
  <2> QED
    BY <1>1, <2>1 DEF Call, SwitchSteps, DeleteSteps, PatchSteps
<1> HIDE DEF it
<1>3. \A d \in Callers : calls'[d] = IF d = c THEN it ELSE calls[d]
  BY <1>1 DEF SwitchInv, SwitchTyped
<1>4. \A d \in Callers : ~Modifies(d)
  BY <1>1, PartsAssumption DEF SwitchInv, Held, Modifies
<1>5. profiles \in Lists /\ profiles.version <= profiles.version
  BY DEF SwitchInv, SwitchTyped, Lists
<1>6. it.step \in StepsOf(it.kind)
  BY <1>1, <1>2 DEF StepsOf, SwitchSteps, DeleteSteps, PatchSteps, UpdateSteps
<1>7. SwitchTyped'
  BY <1>1, <1>2, <1>6, TypedStep DEF SwitchInv
<1>8. Held'
  BY <1>1, <1>2, <1>3, <1>4, PartsAssumption DEF SwitchInv, Held, Writes, Modifies, Updates,
     Switch!At, SwitchTyped, StepsOf, SwitchSteps, DeleteSteps, PatchSteps, UpdateSteps
<1>9. Staged'
  BY <1>1, <1>2, <1>3, PartsAssumption DEF SwitchInv, Staged, Staging, Wanted, Switch!In,
     Switch!At
<1>10. Candidates'
  <2>1. CandidateOf(c)'
    BY <1>1, <1>2, <1>3, <1>5, PartsAssumption DEF SwitchInv, Candidates, CandidateOf, Deletes,
       Switch!At
  <2> QED
    BY <1>1, <2>1, CandidateStep
<1>11. FileFollows'
  <2>1. FileOf(c) => FileOf(c)'
    BY <1>1, <1>2, <1>3, <1>4, PartsAssumption DEF SwitchInv, FileOf, HeldFile, Modifies,
       Writes, Switch!At
  <2> QED
    BY <1>1, <1>4, <2>1, FileStep
<1>12. CoreFollows'
  BY <1>1, <1>2, <1>3, PartsAssumption DEF SwitchInv, CoreFollows, Committing, Storing, Wanted,
     Switch!In, Switch!At
<1>13. Patched'
  BY <1>1, <1>2, <1>3, PartsAssumption DEF SwitchInv, Patched
<1> QED
  BY <1>7, <1>8, <1>9, <1>10, <1>11, <1>12, <1>13 DEF SwitchInv

\* A patch saves the file before it replaces the profiles.
LEMMA SwPatchSaves ==
  ASSUME SwitchInv, NEW c \in Callers, Switch!PatchSaves(c), calls'[c].step = "replacing"
  PROVE  SwitchInv'
<1> DEFINE cand == [calls[c].candidate EXCEPT !.items[calls[c].target] = "patched"]
<1> DEFINE it == [calls[c] EXCEPT !.step = "replacing", !.candidate = cand]
<1>1. /\ UNCHANGED <<profiles, staged, loaded, writing, permit, updating, crossed>>
      /\ calls' = [calls EXCEPT ![c] = it]
      /\ calls[c].kind = "patch" /\ calls[c].step = "patching"
      /\ calls[c].target \in Switch!In(calls[c].candidate)
      /\ file' = Switch!Content(cand)
  BY DEF Switch!PatchSaves, Switch!At, SwitchInv, SwitchTyped, Call
<1>2. /\ it \in Call /\ it.step = "replacing"
      /\ it.kind = calls[c].kind
      /\ it.target = calls[c].target
      /\ it.previous = calls[c].previous
      /\ it.generated = calls[c].generated
      /\ it.candidate = cand
  <2>1. /\ calls[c] \in Call /\ profiles \in Lists
        /\ profiles.current \in Profiles \cup {None}
    BY DEF SwitchInv, SwitchTyped, Lists
  <2>2. calls[c].candidate \in Lists
    BY <1>1 DEF SwitchInv, Candidates, CandidateOf, Switch!At
  <2>3. cand \in Lists
    BY <2>1, <2>2, PatchedIs DEF Call
  <2> HIDE DEF cand
  <2> QED
    BY <1>1, <2>1, <2>3 DEF Call, SwitchSteps, DeleteSteps, PatchSteps
<1>3. /\ calls[c].candidate \in Lists /\ calls[c].candidate.version <= profiles.version
      /\ calls[c].candidate.version = profiles.version => calls[c].candidate = profiles
      /\ calls[c].target \in Profiles /\ calls[c].candidate.items[calls[c].target] # "gone"
  BY <1>1 DEF SwitchInv, SwitchTyped, Call, Candidates, CandidateOf, Switch!At, Switch!In
<1>4. /\ cand \in Lists /\ cand.version = calls[c].candidate.version
      /\ cand.current = calls[c].candidate.current
      /\ cand.items[calls[c].target] = "patched"
      /\ \A pr \in Profiles :
           pr # calls[c].target => cand.items[pr] = calls[c].candidate.items[pr]
  BY <1>3, PatchedIs
<1> HIDE DEF it, cand
<1>5. \A d \in Callers : calls'[d] = IF d = c THEN it ELSE calls[d]
  BY <1>1 DEF SwitchInv, SwitchTyped
<1>6. /\ permit = c /\ \A d \in Callers : d # c => ~Modifies(d)
  BY <1>1, PartsAssumption DEF SwitchInv, Held, Modifies, Writes, Switch!At
<1>7. it.step \in StepsOf(it.kind)
  BY <1>1, <1>2 DEF StepsOf, SwitchSteps, DeleteSteps, PatchSteps, UpdateSteps
<1>8. SwitchTyped'
  BY <1>1, <1>2, <1>7, TypedStep DEF SwitchInv
<1>9. Held'
  BY <1>1, <1>2, <1>5, PartsAssumption DEF SwitchInv, Held, Writes, Modifies, Updates,
     Switch!At, SwitchTyped, StepsOf, SwitchSteps, DeleteSteps, PatchSteps, UpdateSteps
<1>10. Staged'
  BY <1>1, <1>2, <1>5, PartsAssumption DEF SwitchInv, Staged, Staging, Wanted, Switch!In,
     Switch!At
<1>11. Candidates'
  <2>1. CandidateOf(c)'
    BY <1>1, <1>2, <1>5, <1>3, <1>4, PartsAssumption DEF SwitchInv, Candidates, CandidateOf,
       Deletes, Switch!At
  <2> QED
    BY <1>1, <2>1, CandidateStep
<1>12. FileFollows'
  <2>1. FileOf(c) => FileOf(c)'
    BY <1>1, <1>2, <1>5, <1>6, <1>3, <1>4, PartsAssumption DEF SwitchInv, FileOf, HeldFile,
       Modifies, Writes, Switch!At
  <2> QED
    BY <1>1, <1>6, <2>1, FileStep
<1>13. CoreFollows'
  BY <1>1, <1>2, <1>5, PartsAssumption DEF SwitchInv, CoreFollows, Committing, Storing, Wanted,
     Switch!In, Switch!At
<1>14. Patched'
  BY <1>1, <1>2, <1>5, PartsAssumption DEF SwitchInv, Patched
<1> QED
  BY <1>8, <1>9, <1>10, <1>11, <1>12, <1>13, <1>14 DEF SwitchInv

\* A patch that cannot be saved fails.
LEMMA SwPatchFails ==
  ASSUME SwitchInv, NEW c \in Callers, Switch!PatchSaves(c), calls'[c].step = "done"
  PROVE  SwitchInv'
<1> DEFINE it == [calls[c] EXCEPT !.step = "done", !.candidate = <<>>]
<1>1. /\ UNCHANGED <<profiles, staged, file, loaded, writing, updating, crossed>>
      /\ calls' = [calls EXCEPT ![c] = it]
      /\ calls[c].kind = "patch" /\ calls[c].step = "patching"
      /\ permit' = None
  BY DEF Switch!PatchSaves, Switch!At, SwitchInv, SwitchTyped, Call
<1>2. /\ it \in Call /\ it.step = "done"
      /\ it.kind = calls[c].kind
      /\ it.target = calls[c].target
      /\ it.previous = calls[c].previous
      /\ it.generated = calls[c].generated
      /\ it.candidate = <<>>
  <2>1. /\ calls[c] \in Call /\ profiles \in Lists
        /\ profiles.current \in Profiles \cup {None}
    BY DEF SwitchInv, SwitchTyped, Lists
  <2> QED
    BY <1>1, <2>1 DEF Call, SwitchSteps, DeleteSteps, PatchSteps
<1> HIDE DEF it
<1>3. \A d \in Callers : calls'[d] = IF d = c THEN it ELSE calls[d]
  BY <1>1 DEF SwitchInv, SwitchTyped
<1>4. /\ permit = c /\ \A d \in Callers : d # c => ~Modifies(d)
  BY <1>1, PartsAssumption DEF SwitchInv, Held, Modifies, Writes, Switch!At
<1>5. it.step \in StepsOf(it.kind)
  BY <1>1, <1>2 DEF StepsOf, SwitchSteps, DeleteSteps, PatchSteps, UpdateSteps
<1>6. SwitchTyped'
  BY <1>1, <1>2, <1>5, TypedStep DEF SwitchInv
<1>7. Held'
  BY <1>1, <1>2, <1>3, <1>4, PartsAssumption DEF SwitchInv, Held, Writes, Modifies, Updates,
     Switch!At, SwitchTyped, StepsOf, SwitchSteps, DeleteSteps, PatchSteps, UpdateSteps
<1>8. Staged'
  BY <1>1, <1>2, <1>3, PartsAssumption DEF SwitchInv, Staged, Staging, Wanted, Switch!In,
     Switch!At
<1>9. Candidates'
  <2>1. CandidateOf(c)'
    BY <1>1, <1>2, <1>3, PartsAssumption DEF SwitchInv, Candidates, CandidateOf, Deletes,
       Switch!At
  <2> QED
    BY <1>1, <2>1, CandidateStep
<1>10. FileFollows'
  <2>1. FileOf(c) => FileOf(c)'
    BY <1>1, <1>2, <1>3, <1>4, PartsAssumption DEF SwitchInv, FileOf, HeldFile, Modifies,
       Writes, Switch!At
  <2> QED
    BY <1>1, <1>4, <2>1, FileStep
<1>11. CoreFollows'
  BY <1>1, <1>2, <1>3, PartsAssumption DEF SwitchInv, CoreFollows, Committing, Storing, Wanted,
     Switch!In, Switch!At
<1>12. Patched'
  BY <1>1, <1>2, <1>3, PartsAssumption DEF SwitchInv, Patched
<1> QED
  BY <1>6, <1>7, <1>8, <1>9, <1>10, <1>11, <1>12 DEF SwitchInv

\* The profiles are replaced only while they are those the patch has read
\* (with_data_modify).
LEMMA SwPatchLands ==
  ASSUME SwitchInv, NEW c \in Callers, Switch!PatchLands(c), calls[c].candidate.version =
             profiles.version
  PROVE  SwitchInv'
<1> DEFINE it == [calls[c] EXCEPT !.step = "patched", !.candidate = <<>>]
<1>1. /\ UNCHANGED <<staged, file, loaded, writing, updating>>
      /\ calls' = [calls EXCEPT ![c] = it]
      /\ calls[c].kind = "patch" /\ calls[c].step = "replacing"
      /\ calls[c].candidate.version = profiles.version
      /\ permit' = None
      /\ profiles' = calls[c].candidate
      /\ (crossed => crossed') /\ (~crossed' => ~Switch!Restoring)
  BY DEF Switch!PatchLands, Switch!At, SwitchInv, SwitchTyped, Call
<1>2. /\ it \in Call /\ it.step = "patched"
      /\ it.kind = calls[c].kind
      /\ it.target = calls[c].target
      /\ it.previous = calls[c].previous
      /\ it.generated = calls[c].generated
      /\ it.candidate = <<>>
  <2>1. /\ calls[c] \in Call /\ profiles \in Lists
        /\ profiles.current \in Profiles \cup {None}
    BY DEF SwitchInv, SwitchTyped, Lists
  <2> QED
    BY <1>1, <2>1 DEF Call, SwitchSteps, DeleteSteps, PatchSteps
<1> HIDE DEF it
<1>3. \A d \in Callers : calls'[d] = IF d = c THEN it ELSE calls[d]
  BY <1>1 DEF SwitchInv, SwitchTyped
<1>4. /\ permit = c /\ \A d \in Callers : d # c => ~Modifies(d)
  BY <1>1, PartsAssumption DEF SwitchInv, Held, Modifies, Writes, Switch!At
<1>5. /\ calls[c].candidate \in Lists
      /\ calls[c].candidate.items[calls[c].target] = "patched"
      /\ calls[c].candidate.current = profiles.current
      /\ \A pr \in Profiles :
           /\ calls[c].candidate.items[pr] \in {profiles.items[pr], "patched"}
           /\ calls[c].candidate.items[pr] = "gone" <=> profiles.items[pr] = "gone"
  BY <1>1 DEF SwitchInv, Candidates, CandidateOf, Switch!At
<1>6. Switch!In(profiles') = Switch!In(profiles)
  BY <1>1, <1>5 DEF Switch!In
<1>7. \A d \in Callers :
        ~Deletes(d) /\ (d # c => ~Switch!At(d, "patch", "patching")
          /\ ~Switch!At(d, "patch", "replacing"))
  BY <1>1, <1>4 DEF Modifies, Writes, Switch!At, Deletes
<1>8. it.step \in StepsOf(it.kind)
  BY <1>1, <1>2 DEF StepsOf, SwitchSteps, DeleteSteps, PatchSteps, UpdateSteps
<1>9. SwitchTyped'
  BY <1>1, <1>2, <1>5, <1>8, TypedStep DEF SwitchInv
<1>10. Held'
  BY <1>1, <1>2, <1>3, <1>4, PartsAssumption DEF SwitchInv, Held, Writes, Modifies, Updates,
     Switch!At, SwitchTyped, StepsOf, SwitchSteps, DeleteSteps, PatchSteps, UpdateSteps
<1>11. Staged'
  BY <1>1, <1>2, <1>3, <1>5, <1>6, PartsAssumption DEF SwitchInv, Staged, Staging, Wanted,
     Switch!In, Switch!At, Switch!Restoring
<1>12. Candidates'
  BY <1>1, <1>2, <1>3, <1>7, PartsAssumption DEF SwitchInv, Candidates, CandidateOf, Deletes,
     Switch!At
<1>13. FileFollows'
  <2>1. FileOf(c) => FileOf(c)'
    BY <1>1, <1>2, <1>3, <1>4, <1>5, PartsAssumption DEF SwitchInv, FileOf, HeldFile, Modifies,
       Writes, Switch!At
  <2> QED
    BY <1>1, <1>4, <2>1, FileStep
<1>14. CoreFollows'
  BY <1>1, <1>2, <1>3, <1>5, <1>6, <1>7, PartsAssumption DEF SwitchInv, CoreFollows, Committing,
     Storing, Wanted, Switch!In, Switch!At
<1>15. Patched'
  BY <1>1, <1>2, <1>3, <1>5, PartsAssumption DEF SwitchInv, Patched, SwitchTyped, Call
<1> QED
  BY <1>9, <1>10, <1>11, <1>12, <1>13, <1>14, <1>15 DEF SwitchInv

\* Otherwise the patch is lost, and says so.
LEMMA SwPatchLost ==
  ASSUME SwitchInv, NEW c \in Callers, Switch!PatchLands(c),
             calls[c].candidate.version # profiles.version
  PROVE  SwitchInv'
<1> DEFINE it == [calls[c] EXCEPT !.step = "done", !.candidate = <<>>]
<1>1. /\ UNCHANGED <<profiles, staged, file, loaded, writing, updating>>
      /\ calls' = [calls EXCEPT ![c] = it]
      /\ calls[c].kind = "patch" /\ calls[c].step = "replacing"
      /\ calls[c].candidate.version # profiles.version
      /\ permit' = None
      /\ crossed => crossed'
  BY DEF Switch!PatchLands, Switch!At, SwitchInv, SwitchTyped, Call
<1>2. /\ it \in Call /\ it.step = "done"
      /\ it.kind = calls[c].kind
      /\ it.target = calls[c].target
      /\ it.previous = calls[c].previous
      /\ it.generated = calls[c].generated
      /\ it.candidate = <<>>
  <2>1. /\ calls[c] \in Call /\ profiles \in Lists
        /\ profiles.current \in Profiles \cup {None}
    BY DEF SwitchInv, SwitchTyped, Lists
  <2> QED
    BY <1>1, <2>1 DEF Call, SwitchSteps, DeleteSteps, PatchSteps
<1> HIDE DEF it
<1>3. \A d \in Callers : calls'[d] = IF d = c THEN it ELSE calls[d]
  BY <1>1 DEF SwitchInv, SwitchTyped
<1>4. /\ permit = c /\ \A d \in Callers : d # c => ~Modifies(d)
  BY <1>1, PartsAssumption DEF SwitchInv, Held, Modifies, Writes, Switch!At
<1>5. it.step \in StepsOf(it.kind)
  BY <1>1, <1>2 DEF StepsOf, SwitchSteps, DeleteSteps, PatchSteps, UpdateSteps
<1>6. SwitchTyped'
  BY <1>1, <1>2, <1>5, TypedStep DEF SwitchInv
<1>7. Held'
  BY <1>1, <1>2, <1>3, <1>4, PartsAssumption DEF SwitchInv, Held, Writes, Modifies, Updates,
     Switch!At, SwitchTyped, StepsOf, SwitchSteps, DeleteSteps, PatchSteps, UpdateSteps
<1>8. Staged'
  BY <1>1, <1>2, <1>3, PartsAssumption DEF SwitchInv, Staged, Staging, Wanted, Switch!In,
     Switch!At
<1>9. Candidates'
  <2>1. CandidateOf(c)'
    BY <1>1, <1>2, <1>3, PartsAssumption DEF SwitchInv, Candidates, CandidateOf, Deletes,
       Switch!At
  <2> QED
    BY <1>1, <2>1, CandidateStep
<1>10. FileFollows'
  <2>1. FileOf(c) => FileOf(c)'
    BY <1>1, <1>2, <1>3, <1>4, PartsAssumption DEF SwitchInv, FileOf, HeldFile, Modifies,
       Writes, Switch!At
  <2> QED
    BY <1>1, <1>4, <2>1, FileStep
<1>11. CoreFollows'
  BY <1>1, <1>2, <1>3, PartsAssumption DEF SwitchInv, CoreFollows, Committing, Storing, Wanted,
     Switch!In, Switch!At
<1>12. Patched'
  BY <1>1, <1>2, <1>3, PartsAssumption DEF SwitchInv, Patched
<1> QED
  BY <1>6, <1>7, <1>8, <1>9, <1>10, <1>11, <1>12 DEF SwitchInv

\* So does a step that changes nothing.
LEMMA SwitchStutters ==
  ASSUME SwitchInv, UNCHANGED switch_vars PROVE SwitchInv'
<1>1. SwitchTyped' /\ Patched'
  BY DEF switch_vars, SwitchInv, SwitchTyped, Patched
<1>2. Held'
  BY DEF switch_vars, SwitchInv, Held, Writes, Modifies, Updates, Switch!At
<1>3. Staged'
  BY DEF switch_vars, SwitchInv, Staged, Staging, Wanted, Switch!In, Switch!At
<1>4. Candidates'
  BY DEF switch_vars, SwitchInv, Candidates, CandidateOf, Deletes, Switch!At
<1>5. FileFollows'
  BY DEF switch_vars, SwitchInv, FileFollows, HeldFile, Pending, Modifies, Writes, Switch!At
<1>6. CoreFollows'
  BY DEF switch_vars, SwitchInv, CoreFollows, Committing, Storing, Wanted, Switch!In, Switch!At
<1> QED
  BY <1>1, <1>2, <1>3, <1>4, <1>5, <1>6 DEF SwitchInv

\* Those who update the Core.
LEMMA UpdaterKinds ==
  ASSUME SwitchInv, NEW c \in Callers,
         Switch!AsksForUpdate(c) \/ calls[c].step \in {"generating", "applying"}
  PROVE  calls[c].kind \in {"switch", "delete", "update"}
BY DEF SwitchInv, SwitchTyped, StepsOf, Call, SwitchSteps, PatchSteps, Switch!AsksForUpdate,
   Switch!At

\* Each step of an update keeps the invariant, whoever makes it.
LEMMA SwUpdateStep ==
  ASSUME SwitchInv, NEW c \in Callers,
         \/ Switch!UpdateBusy(c) \/ Switch!UpdateClaims(c) \/ Switch!Generate(c)
         \/ Switch!UpdateApplies(c) \/ Switch!UpdateInvalid(c) \/ Switch!UpdateErrors(c)
  PROVE  SwitchInv'
<1>1. calls[c].kind \in {"switch", "delete", "update"}
  BY UpdaterKinds DEF Switch!UpdateBusy, Switch!UpdateClaims, Switch!Generate,
     Switch!UpdateApplies, Switch!UpdateInvalid, Switch!UpdateErrors
<1>2. CASE calls[c].kind = "switch"
  BY <1>2, SwBusySwitch, SwClaimsSwitch, SwGenerateSwitch, SwAppliesSwitch, SwInvalidSwitch,
     SwErrorsSwitch
<1>3. CASE calls[c].kind = "delete"
  BY <1>3, SwBusyDelete, SwClaimsDelete, SwGenerateDelete, SwAppliesDelete, SwInvalidDelete,
     SwErrorsDelete
<1>4. CASE calls[c].kind = "update"
  BY <1>4, SwBusyUpdate, SwClaimsUpdate, SwGenerateUpdate, SwAppliesUpdate, SwInvalidUpdate,
     SwErrorsUpdate
<1> QED
  BY <1>1, <1>2, <1>3, <1>4

\* What a step of the caller it is of says.
LEMMA CallIs ==
  ASSUME SwitchInv, NEW c \in Callers, NEW step, calls' = [calls EXCEPT ![c].step = step]
  PROVE  calls'[c].step = step
BY DEF SwitchInv, SwitchTyped, Call

\* How a save of a switch, and one of a patch, may end.
LEMMA CallEndsIs ==
  ASSUME SwitchInv, NEW c \in Callers, NEW step, NEW l,
         calls' = [calls EXCEPT ![c].step = step, ![c].candidate = l]
  PROVE  calls'[c].step = step
BY DEF SwitchInv, SwitchTyped, Call

\* However a save of a switch ends.
LEMMA SwSaveEndsStep ==
  ASSUME SwitchInv, NEW c \in Callers, Switch!SaveEnds(c) PROVE SwitchInv'
<1>1. calls'[c].step = "done" \/ calls'[c].step = "unsaved"
  BY CallEndsIs DEF Switch!SaveEnds
<1> QED
  BY <1>1, SwSaved, SwUnsaved

\* Whatever a deletion plans.
LEMMA SwPlansStep ==
  ASSUME SwitchInv, NEW c \in Callers, Switch!DeletePlans(c) PROVE SwitchInv'
<1>1. CASE calls[c].target \notin Switch!In(profiles)
  <2>1. calls'[c].step = "givingUp"
    BY <1>1, CallIs DEF Switch!DeletePlans, Switch!To
  <2> QED
    BY <2>1, SwPlansNothing
<1>2. CASE calls[c].target \in Switch!In(profiles) /\ profiles.current # calls[c].target
  BY <1>2, SwPlans
<1>3. CASE calls[c].target \in Switch!In(profiles) /\ profiles.current = calls[c].target
  <2>1. PICK nx \in (IF Switch!In(Switch!Without(profiles, calls[c].target)) = {} THEN {None}
                     ELSE Switch!In(Switch!Without(profiles, calls[c].target))) :
          PlansNext(c, nx)
    BY <1>3 DEF Switch!DeletePlans, PlansNext
  <2>2. nx \in Profiles \cup {None}
    BY <2>1 DEF Switch!In
  <2> QED
    BY <2>1, <2>2, SwPlansNext
<1> QED
  BY <1>1, <1>2, <1>3

\* However the save of a deletion ends.
LEMMA SwStoresStep ==
  ASSUME SwitchInv, NEW c \in Callers, Switch!DeleteStores(c) PROVE SwitchInv'
<1>1. calls'[c].step \in {"deleting", "puttingBack", "givingUp"}
  BY CallIs DEF Switch!DeleteStores, Switch!To
<1> QED
  BY <1>1, SwStores, SwStoresBack, SwStoresFails

\* However the save of a patch ends.
LEMMA SwPatchSavesStep ==
  ASSUME SwitchInv, NEW c \in Callers, Switch!PatchSaves(c) PROVE SwitchInv'
<1>1. calls'[c].step \in {"replacing", "done"}
  BY CallEndsIs DEF Switch!PatchSaves
<1> QED
  BY <1>1, SwPatchSaves, SwPatchFails

\* Every step of the part keeps its invariant.
LEMMA SwitchStep ==
  ASSUME SwitchInv, Switch!Next PROVE SwitchInv'
<1>1. ASSUME NEW c \in Callers, Switch!Step(c) PROVE SwitchInv'
  BY <1>1, SwBeginsLocking, SwBeginsDone, SwStages, SwCommitCurrent, SwCommits, SwSaveBegins,
     SwSaveEndsStep, SwRestore, SwApplyPrevious, SwUpdateStep, SwDeleteLocks, SwPlansStep,
     SwStoresStep, SwPutBack, SwDeletes, SwDeleteEnds, SwPatchBegins, SwPatchSavesStep,
     SwPatchLands, SwPatchLost DEF Switch!Step
<1>2. CASE UNCHANGED switch_vars
  BY <1>2, SwitchStutters
<1> QED
  BY <1>1, <1>2 DEF Switch!Next, Switch!pvars, switch_vars

\* The invariant holds at the start.
LEMMA SwitchStarts ==
  ASSUME Switch!Init PROVE SwitchInv
<1>1. PICK pr \in Profiles :
        profiles = [current |-> pr, items |-> [p2 \in Profiles |-> "plain"], version |-> 0]
  BY DEF Switch!Init
<1>2. /\ profiles \in Lists /\ staged = None /\ file = Switch!Content(profiles)
      /\ loaded = profiles.current /\ writing = None /\ permit = None /\ updating = None
  BY <1>1 DEF Switch!Init, Lists
<1>3. calls \in [Callers -> Call] /\ \A d \in Callers : calls[d].step = "idle"
  BY DEF Switch!Init, Switch!Idle, Switch!Kinds, Call, SwitchSteps
<1>4. SwitchTyped
  BY <1>2, <1>3 DEF SwitchTyped, StepsOf, SwitchSteps, DeleteSteps, PatchSteps, UpdateSteps,
     Call
<1>5. Held
  BY <1>2, <1>3, PartsAssumption DEF Held, Writes, Modifies, Updates, Switch!At
<1>6. Staged /\ Candidates
  BY <1>2, <1>3 DEF Staged, Staging, Candidates, CandidateOf, Deletes, Switch!At
<1>7. FileFollows /\ CoreFollows /\ Patched
  BY <1>2, <1>3 DEF FileFollows, HeldFile, CoreFollows, Patched, Modifies, Writes, Committing,
     Storing, Switch!At
<1> QED
  BY <1>4, <1>5, <1>6, <1>7 DEF SwitchInv

\* When every call is over the Core runs the current profile and the file holds the
\* profiles, and a patch that was answered is still there, for any callers that switch,
\* delete, patch and update (patch_profiles_config, delete_profile, patch_item,
\* update_config_forced).
THEOREM ProfilesKept == Spec => []ProfilesAreKept
<1> DEFINE Inv == part = "switch" => SwitchInv
<1>1. Init => Inv
  BY SwitchStarts DEF Init
<1>2. Inv /\ [Next]_mcvars => Inv'
  <2> SUFFICES ASSUME Inv, [Next]_mcvars, part' = "switch"
               PROVE  SwitchInv'
    OBVIOUS
  <2>1. part = "switch"
    BY PartStays
  <2>2. CASE Switch!Next
    BY <2>1, <2>2, SwitchStep
  <2>3. CASE UNCHANGED switch_vars
    BY <2>1, <2>3, SwitchStutters
  <2> QED
    BY <2>1, <2>2, <2>3 DEF Next, mcvars
<1>3. Inv => ProfilesAreKept
  <2> SUFFICES ASSUME SwitchInv
               PROVE  /\ Switch!CoreRunsCurrentProfile /\ Switch!FileHoldsProfiles
                      /\ Switch!PatchSurvives
    BY DEF ProfilesAreKept
  <2>1. ASSUME Switch!AllOver
        PROVE  \A d \in Callers :
                 /\ ~Modifies(d) /\ ~Committing(d) /\ ~Storing(d) /\ calls[d].step # "puttingBack"
                 /\ calls[d].step # "saving"
    BY <2>1 DEF Switch!AllOver, Modifies, Writes, Committing, Storing, Switch!At
  <2>2. Switch!CoreRunsCurrentProfile
    BY <2>1 DEF SwitchInv, CoreFollows, Switch!CoreRunsCurrentProfile
  <2>3. Switch!FileHoldsProfiles
    BY <2>1 DEF SwitchInv, FileFollows, Pending, Switch!FileHoldsProfiles
  <2>4. Switch!PatchSurvives
    BY DEF SwitchInv, Patched, Switch!PatchSurvives
  <2> QED
    BY <2>2, <2>3, <2>4
<1> QED
  BY <1>1, <1>2, <1>3, PTL DEF Spec

-----------------------------------------------------------------------------
(* The groups that are switched *)

\* What the list says of each group, and an edit of it.
Listing == [Ids -> {"gone", "off", "on"}]
Edits == {Groupwise!NoEdit} \cup [step : {"waiting", "saving", "publishing"}, next : Listing]

\* What the variables of the part hold.
GroupsTyped ==
  /\ listed \in Listing /\ stored \in Listing /\ edits \in [Editors -> Edits]
  /\ loops \in [Ids -> {"none", "delaying", "starting", "executing", "checking", "ended"}]
  /\ runs \in [Ids -> {"none", "executing"}]
  /\ handles \subseteq Ids /\ sent \in Listing /\ scheduler \in {"off", "on"}
  /\ seen \in [Ids -> {m1, m2, m3} \cup {None}] /\ group_node \in [Ids -> {m1, m2, m3}]
  /\ switched \in [Ids -> Nat] /\ picks \in Nat

\* The list in memory is the one of the file, or an edit that is about to be published is; a
\* list that was begun without the file is excepted until then.
ListIsStored ==
  /\ \A e \in Editors :
       /\ edits[e].step \in {"saving", "publishing"} => io = e /\ loadedOnce
       /\ edits[e].step = "publishing" => stored = edits[e].next
  /\ loadedOnce /\ ~unread /\ (\A e \in Editors : edits[e].step # "publishing") => stored = listed

\* Until a list has been sent the channel has none, and there are no tasks.
NothingSent == handles = {} /\ \A i \in Ids : sent[i] = "gone"

\* The scheduler holds the tasks there are, of the groups that were enabled when it last looked;
\* a task that has ended is one of a group that is not enabled, or was not.
TasksAreHeld ==
  /\ \A i \in Ids : /\ loops[i] # "none" <=> i \in handles
                    /\ loops[i] = "ended" => listed[i] # "on" \/ i \in blinked
  /\ scheduler = "off" => NothingSent
  /\ sent = listed \/ NothingSent
  /\ scheduler = "on" /\ ~news => handles = Groupwise!Enabled

\* A node that no run moves a group from.
Settled(n) == \A best \in Groupwise!Fastest : Groupwise!Decision(n, best) = n

\* A group is switched once for each node it was found on, or will be: those that are unsettled
\* still count.
Unsettled(i) == ~Settled(group_node[i]) \/ (seen[i] # None /\ ~Settled(seen[i]))
SwitchesAreDue ==
  Groupwise!Tied \/ \A i \in Ids : /\ switched[i] <= 1 + picks
                                   /\ Unsettled(i) => switched[i] <= picks

\* The inductive invariant of the groups.
GroupsInv ==
  GroupsTyped /\ Groupwise!RunningIsExact /\ ListIsStored /\ TasksAreHeld /\ SwitchesAreDue

\* What a test of a node measures.
LEMMA MeasuredIs == \A n \in {m1, m2, m3} : Measured[n] \in Nat
BY DEF Measured

\* Without a tie there is one fastest node, or a threshold.
LEMMA FastestIsOne ==
  ASSUME Threshold = 0, ~Groupwise!Tied, NEW n \in Groupwise!Fastest, NEW best \in Groupwise!Fastest
  PROVE  n = best
<1> SUFFICES ASSUME n # best PROVE FALSE
  OBVIOUS
<1>1. Groupwise!Fastest \subseteq {m1, m2, m3}
  BY DEF Groupwise!Fastest
<1>2. IsFiniteSet({m1, m2, m3})
  <2>1. IsFiniteSet({m1})
    BY FS_Singleton
  <2>2. IsFiniteSet({m1} \cup {m2})
    BY <2>1, FS_AddElement
  <2>3. IsFiniteSet(({m1} \cup {m2}) \cup {m3})
    BY <2>2, FS_AddElement
  <2>4. ({m1} \cup {m2}) \cup {m3} = {m1, m2, m3}
    OBVIOUS
  <2> QED
    BY <2>3, <2>4
<1>3. IsFiniteSet(Groupwise!Fastest) /\ Cardinality(Groupwise!Fastest) \in Nat
  BY <1>1, <1>2, FS_Subset, FS_CardinalityType
<1>4. Cardinality(Groupwise!Fastest) <= 1
  <2>1. \A S : Groupwise!Cardinality(S) = Cardinality(S)
    BY DEF Groupwise!Cardinality, Cardinality
  <2>2. ~(Cardinality(Groupwise!Fastest) > 1)
    BY <2>1 DEF Groupwise!Tied
  <2> QED
    BY <1>3, <2>2
<1>5. Cardinality({n} \cup {best}) = 2
  <2>1. IsFiniteSet({n}) /\ Cardinality({n}) = 1
    BY FS_Singleton
  <2> QED
    BY <2>1, FS_AddElement
<1>6. Cardinality({n} \cup {best}) <= Cardinality(Groupwise!Fastest)
  BY <1>3, FS_Subset
<1> QED
  BY <1>3, <1>4, <1>5, <1>6

\* One of the fastest nodes is settled: the others gain nothing.
LEMMA FastestIsSettled ==
  ASSUME ~Groupwise!Tied, NEW n \in Groupwise!Fastest
  PROVE  n \in {m1, m2, m3} /\ Settled(n)
<1>1. n \in {m1, m2, m3} /\ Groupwise!Measured(n)
  BY DEF Groupwise!Fastest
<1>2. ASSUME NEW best \in Groupwise!Fastest
      PROVE  Groupwise!Decision(n, best) = n
  <2>1. CASE Threshold = 0
    <3>1. n = best
      BY <2>1, FastestIsOne
    <3> QED
      BY <3>1 DEF Groupwise!Decision
  <2>2. CASE Threshold # 0
    <3>1. Measured[n] \in Nat /\ Measured[best] \in Nat
      BY <1>1, MeasuredIs DEF Groupwise!Fastest
    <3>2. Measured[n] <= Measured[best] /\ Measured[best] <= Measured[n]
      BY DEF Groupwise!Fastest
    <3>3. Measured[n] - Measured[best] = 0
      BY <3>1, <3>2
    <3>4. Measured[n] - Measured[best] < Threshold
      BY <2>2, <3>3, ThresholdAssumption
    <3> QED
      BY <1>1, <3>4 DEF Groupwise!Decision
  <2> QED
    BY <2>1, <2>2
<1> QED
  BY <1>1, <1>2 DEF Settled

\* The steps that change the list alone.
LEMMA GroupsListStep ==
  ASSUME GroupsTyped', ListIsStored', TasksAreHeld', Groupwise!RunningIsExact, SwitchesAreDue,
         UNCHANGED <<loops, runs, runs_marked, seen, group_node, switched, picks>>
  PROVE  GroupsInv'
BY DEF GroupsInv, Groupwise!RunningIsExact, SwitchesAreDue, Unsettled

\* At start-up the file is loaded and the scheduler looks.
LEMMA GrStart ==
  ASSUME GroupsInv, Groupwise!Start PROVE GroupsInv'
<1>1. /\ UNCHANGED <<stored, io, edits, edited, handles, loops, runs, runs_marked, blinked, sent,
                     seen, group_node, switched, picks>>
      /\ io = None /\ scheduler = "off" /\ scheduler' = "on" /\ loadedOnce' = TRUE /\ news' = TRUE
      /\ \/ loadedOnce /\ listed' = listed /\ unread' = unread
         \/ listed' = stored /\ unread' = unread
         \/ listed' = [i \in Ids |-> "gone"] /\ unread'
  BY DEF Groupwise!Start, Groupwise!ReplaceInMemory, Groupwise!EnsureRunner, Groupwise!core
<1>2. GroupsTyped'
  BY <1>1 DEF GroupsInv, GroupsTyped, Listing
<1>3. ListIsStored'
  BY <1>1, PartsAssumption DEF GroupsInv, ListIsStored
<1>4. NothingSent
  BY <1>1 DEF GroupsInv, TasksAreHeld
<1>5. TasksAreHeld'
  BY <1>1, <1>4 DEF GroupsInv, TasksAreHeld, NothingSent
<1> QED
  BY <1>1, <1>2, <1>3, <1>5, GroupsListStep DEF GroupsInv

\* An edit computes the next list before it asks for the lock.
LEMMA GrEditBegins ==
  ASSUME GroupsInv, NEW e \in Editors, NEW i \in Ids, NEW to \in {"gone", "off", "on"},
         Groupwise!EditBegins(e, i, to)
  PROVE  GroupsInv'
<1> DEFINE edit == [step |-> "waiting", next |-> [listed EXCEPT ![i] = to]]
<1>1. /\ UNCHANGED <<listed, stored, loadedOnce, io, unread, scheduler, sent, news, handles, loops,
                     runs, runs_marked, blinked, seen, group_node, switched, picks>>
      /\ edits' = [edits EXCEPT ![e] = edit]
  BY DEF Groupwise!EditBegins, Groupwise!schedule, Groupwise!core
<1>2. edit \in Edits /\ edit.step = "waiting"
  BY DEF GroupsInv, GroupsTyped, Edits, Listing
<1> HIDE DEF edit
<1>3. \A d \in Editors : edits'[d] = IF d = e THEN edit ELSE edits[d]
  BY <1>1 DEF GroupsInv, GroupsTyped
<1>4. GroupsTyped'
  BY <1>1, <1>2 DEF GroupsInv, GroupsTyped
<1>5. edits[e].step # "publishing"
  BY DEF Groupwise!EditBegins, Groupwise!NoEdit
<1>6. ListIsStored'
  BY <1>1, <1>2, <1>3, <1>5 DEF GroupsInv, ListIsStored
<1>7. TasksAreHeld'
  BY <1>1 DEF GroupsInv, TasksAreHeld, NothingSent, Groupwise!Enabled
<1> QED
  BY <1>1, <1>4, <1>6, <1>7, GroupsListStep DEF GroupsInv

\* It waits for the io lock.
LEMMA GrEditLocks ==
  ASSUME GroupsInv, NEW e \in Editors, Groupwise!EditLocks(e) PROVE GroupsInv'
<1> DEFINE edit == [edits[e] EXCEPT !.step = "saving"]
<1>1. /\ UNCHANGED <<listed, stored, scheduler, sent, news, handles, loops, runs,
                     runs_marked, blinked, seen, group_node, switched, picks>>
      /\ edits[e].step = "waiting" /\ io = None /\ io' = e /\ loadedOnce' = TRUE
      /\ unread' = (unread \/ ~loadedOnce)
      /\ edits' = [edits EXCEPT ![e] = edit]
  BY DEF Groupwise!EditLocks, Groupwise!schedule, Groupwise!core
<1>2. edits[e] \in [step : {"waiting", "saving", "publishing"}, next : Listing]
  BY <1>1 DEF GroupsInv, GroupsTyped, Edits, Groupwise!NoEdit
<1>3. edit \in Edits /\ edit.step = "saving" /\ edits[e] # Groupwise!NoEdit
  BY <1>1, <1>2 DEF Edits, Groupwise!NoEdit
<1> HIDE DEF edit
<1>4. \A d \in Editors : edits'[d] = IF d = e THEN edit ELSE edits[d]
  BY <1>1 DEF GroupsInv, GroupsTyped
<1>5. GroupsTyped'
  BY <1>1, <1>3 DEF GroupsInv, GroupsTyped
<1>6. \A d \in Editors : edits[d].step \notin {"saving", "publishing"}
  BY <1>1, PartsAssumption DEF GroupsInv, ListIsStored
<1>7. ListIsStored'
  BY <1>1, <1>3, <1>4, <1>6 DEF GroupsInv, ListIsStored
<1>8. TasksAreHeld'
  BY <1>1 DEF GroupsInv, TasksAreHeld, NothingSent, Groupwise!Enabled
<1> QED
  BY <1>1, <1>5, <1>7, <1>8, GroupsListStep DEF GroupsInv

\* The file is saved before the list is published (persist_and_publish).
LEMMA GrEditSaves ==
  ASSUME GroupsInv, NEW e \in Editors, Groupwise!EditSaves(e) PROVE GroupsInv'
<1> DEFINE edit == [edits[e] EXCEPT !.step = "publishing"]
<1>1. /\ UNCHANGED <<listed, loadedOnce, unread, scheduler, sent, news, handles, loops, runs,
                     runs_marked, blinked, seen, group_node, switched, picks>>
      /\ edits[e].step = "saving"
      /\ \/ /\ stored' = edits[e].next /\ edits' = [edits EXCEPT ![e] = edit] /\ io' = io
         \/ /\ edits' = [edits EXCEPT ![e] = Groupwise!NoEdit] /\ io' = None /\ stored' = stored
  BY DEF Groupwise!EditSaves, Groupwise!schedule, Groupwise!core
<1>2. edits[e] \in [step : {"waiting", "saving", "publishing"}, next : Listing]
  BY <1>1 DEF GroupsInv, GroupsTyped, Edits, Groupwise!NoEdit
<1>3. edit \in Edits /\ edit.step = "publishing" /\ edit.next = edits[e].next
      /\ edits[e].next \in Listing /\ edits[e] # Groupwise!NoEdit
  BY <1>1, <1>2 DEF Edits, Groupwise!NoEdit
<1> HIDE DEF edit
<1>4. io = e /\ \A d \in Editors : d # e => edits[d].step \notin {"saving", "publishing"}
  BY <1>1 DEF GroupsInv, ListIsStored
<1>5. TasksAreHeld'
  BY <1>1 DEF GroupsInv, TasksAreHeld, NothingSent, Groupwise!Enabled
<1>6. CASE stored' = edits[e].next /\ edits' = [edits EXCEPT ![e] = edit] /\ io' = io
  <2>1. \A d \in Editors : edits'[d] = IF d = e THEN edit ELSE edits[d]
    BY <1>6 DEF GroupsInv, GroupsTyped
  <2>2. GroupsTyped'
    BY <1>1, <1>3, <1>6 DEF GroupsInv, GroupsTyped
  <2>3. ListIsStored'
    BY <1>1, <1>3, <1>4, <1>6, <2>1 DEF GroupsInv, ListIsStored
  <2> QED
    BY <1>1, <1>5, <2>2, <2>3, GroupsListStep DEF GroupsInv
<1>7. CASE edits' = [edits EXCEPT ![e] = Groupwise!NoEdit] /\ io' = None /\ stored' = stored
  <2>1. \A d \in Editors : edits'[d] = IF d = e THEN Groupwise!NoEdit ELSE edits[d]
    BY <1>7 DEF GroupsInv, GroupsTyped
  <2>2. GroupsTyped'
    BY <1>1, <1>7 DEF GroupsInv, GroupsTyped, Edits
  <2>3. ListIsStored'
    BY <1>1, <1>4, <1>7, <2>1 DEF GroupsInv, ListIsStored, Groupwise!NoEdit
  <2> QED
    BY <1>1, <1>5, <2>2, <2>3, GroupsListStep DEF GroupsInv
<1> QED
  BY <1>1, <1>6, <1>7

\* The list that is published is the one that was saved.
LEMMA GrEditPublishes ==
  ASSUME GroupsInv, NEW e \in Editors, Groupwise!EditPublishes(e) PROVE GroupsInv'
<1>1. /\ UNCHANGED <<stored, loadedOnce, handles, loops, runs, runs_marked, seen,
                     group_node, switched, picks>>
      /\ edits[e].step = "publishing" /\ listed' = edits[e].next
      /\ sent' = IF scheduler = "on" THEN listed' ELSE sent
      /\ blinked' = blinked \cup {i \in handles : news /\ listed[i] # "on" /\ listed'[i] = "on"}
      /\ edits' = [edits EXCEPT ![e] = Groupwise!NoEdit] /\ io' = None
      /\ news' = TRUE /\ scheduler' = "on"
  BY DEF Groupwise!EditPublishes, Groupwise!ReplaceInMemory, Groupwise!EnsureRunner,
     Groupwise!core
<1>2. edits[e] \in [step : {"waiting", "saving", "publishing"}, next : Listing]
  BY <1>1 DEF GroupsInv, GroupsTyped, Edits, Groupwise!NoEdit
<1>3. edits[e].next \in Listing
  BY <1>2
<1>4. io = e /\ \A d \in Editors : d # e => edits[d].step \notin {"saving", "publishing"}
  BY <1>1 DEF GroupsInv, ListIsStored
<1>5. \A d \in Editors : edits'[d] = IF d = e THEN Groupwise!NoEdit ELSE edits[d]
  BY <1>1 DEF GroupsInv, GroupsTyped
<1>6. GroupsTyped'
  BY <1>1, <1>3 DEF GroupsInv, GroupsTyped, Edits
<1>7. ListIsStored'
  BY <1>1, <1>4, <1>5 DEF GroupsInv, ListIsStored, Groupwise!NoEdit
<1>8. TasksAreHeld'
  <2>1. CASE scheduler = "on"
    <3>1. ASSUME NEW i \in Ids, loops[i] = "ended", listed'[i] = "on"
          PROVE  i \in blinked'
      <4>1. i \in handles /\ (listed[i] # "on" \/ i \in blinked)
        BY <3>1 DEF GroupsInv, TasksAreHeld
      <4>2. CASE news
        BY <1>1, <3>1, <4>1, <4>2
      <4>3. CASE ~news
        <5>1. sent = listed /\ sent[i] = "on"
          BY <2>1, <4>1, <4>3 DEF GroupsInv, TasksAreHeld, NothingSent, Groupwise!Enabled
        <5> QED
          BY <1>1, <4>1, <5>1
      <4> QED
        BY <4>2, <4>3
    <3>2. \A i \in Ids : loops'[i] # "none" <=> i \in handles'
      BY <1>1 DEF GroupsInv, TasksAreHeld
    <3> QED
      BY <1>1, <2>1, <3>1, <3>2 DEF TasksAreHeld
  <2>2. CASE scheduler # "on"
    <3>1. NothingSent
      BY <2>2 DEF GroupsInv, GroupsTyped, TasksAreHeld
    <3> QED
      BY <1>1, <2>2, <3>1 DEF GroupsInv, TasksAreHeld, NothingSent
  <2> QED
    BY <2>1, <2>2
<1> QED
  BY <1>1, <1>6, <1>7, <1>8, GroupsListStep DEF GroupsInv

\* The steps of the tasks and of the runs leave the list.
LEMMA GroupsTaskStep ==
  ASSUME GroupsInv, GroupsTyped', Groupwise!RunningIsExact', TasksAreHeld', SwitchesAreDue',
         UNCHANGED <<listed, stored, loadedOnce, io, edits, unread>>
  PROVE  GroupsInv'
BY DEF GroupsInv, ListIsStored

\* The scheduler aborts the tasks of groups that are not enabled, and starts the others
\* (run_scheduler).
LEMMA GrSchedulerLooks ==
  ASSUME GroupsInv, Groupwise!SchedulerLooks PROVE GroupsInv'
<1> DEFINE aborted == handles \ Groupwise!Enabled
           cut == {i \in aborted : loops[i] = "executing"}
<1>1. /\ UNCHANGED <<listed, stored, loadedOnce, io, edits, unread, runs, scheduler, sent, group_node, switched,
                     picks>>
      /\ handles' = Groupwise!Enabled
      /\ loops' = [i \in Ids |-> IF i \in aborted THEN "none"
                                 ELSE IF i \in Groupwise!Enabled \ handles THEN "delaying"
                                 ELSE loops[i]]
      /\ runs_marked' = runs_marked \ cut
      /\ seen' = [i \in Ids |-> IF i \in cut THEN None ELSE seen[i]]
      /\ blinked' = blinked \ aborted /\ news' = FALSE /\ scheduler = "on"
  BY DEF Groupwise!SchedulerLooks, Groupwise!list
<1>2. /\ Groupwise!Enabled \subseteq Ids /\ Groupwise!Enabled' = Groupwise!Enabled
      /\ handles \subseteq Ids
  BY <1>1 DEF Groupwise!Enabled, GroupsInv, GroupsTyped
<1>3. \A i \in Ids : loops'[i] = IF i \in aborted THEN "none"
                                 ELSE IF i \in Groupwise!Enabled \ handles THEN "delaying"
                                 ELSE loops[i]
  BY <1>1
<1>4. \A i \in Ids : loops[i] # "none" <=> i \in handles
  BY DEF GroupsInv, TasksAreHeld
<1>5. GroupsTyped'
  BY <1>1, <1>2 DEF GroupsInv, GroupsTyped
<1>6. TasksAreHeld'
  <2>1. \A i \in Ids : /\ loops'[i] # "none" <=> i \in handles'
                       /\ loops'[i] = "ended" => listed'[i] # "on" \/ i \in blinked'
    BY <1>1, <1>2, <1>3, <1>4 DEF GroupsInv, TasksAreHeld
  <2>2. sent' = listed' \/ NothingSent'
    BY <1>1 DEF GroupsInv, TasksAreHeld, NothingSent, Groupwise!Enabled
  <2> QED
    BY <1>1, <1>2, <2>1, <2>2 DEF TasksAreHeld
<1>7. Groupwise!RunningIsExact'
  <2>1. /\ runs_marked = {i \in Ids : loops[i] = "executing" \/ runs[i] = "executing"}
        /\ \A i \in Ids : ~(loops[i] = "executing" /\ runs[i] = "executing")
    BY DEF GroupsInv, Groupwise!RunningIsExact
  <2>2. \A i \in Ids : loops'[i] = "executing" <=> loops[i] = "executing" /\ i \notin cut
    BY <1>3, <1>4
  <2>3. \A i \in cut : loops[i] = "executing" /\ i \in Ids
    BY <1>2
  <2> HIDE DEF cut
  <2>4. \A i \in Ids : ~(loops'[i] = "executing" /\ runs'[i] = "executing")
    BY <1>1, <2>1, <2>2
  <2>5. runs_marked' = {i \in Ids : loops'[i] = "executing" \/ runs'[i] = "executing"}
    BY <1>1, <2>1, <2>2, <2>3
  <2> QED
    BY <2>4, <2>5 DEF Groupwise!RunningIsExact
<1>8. SwitchesAreDue'
  BY <1>1 DEF GroupsInv, GroupsTyped, SwitchesAreDue, Unsettled
<1> QED
  BY <1>1, <1>5, <1>6, <1>7, <1>8, GroupsTaskStep

\* A task that finds its group disabled ends.
LEMMA GrLoopLooks ==
  ASSUME GroupsInv, NEW i \in Ids, Groupwise!LoopLooks(i) PROVE GroupsInv'
<1>1. PICK step \in {"ended", "starting", "delaying"} :
        /\ loops' = [loops EXCEPT ![i] = step]
        /\ step = "ended" => listed[i] # "on"
  BY DEF Groupwise!LoopLooks, GroupsInv, GroupsTyped
<1>2. /\ UNCHANGED <<listed, stored, loadedOnce, io, edits, unread, scheduler, sent, news, handles, runs,
                     runs_marked, blinked, seen, group_node, switched, picks>>
      /\ loops[i] \in {"delaying", "checking"}
  BY DEF Groupwise!LoopLooks, Groupwise!list, Groupwise!schedule, Groupwise!core
<1>3. \A j \in Ids : loops'[j] = IF j = i THEN step ELSE loops[j]
  BY <1>1 DEF GroupsInv, GroupsTyped
<1>4. GroupsTyped'
  BY <1>1, <1>2 DEF GroupsInv, GroupsTyped
<1>5. TasksAreHeld'
  BY <1>1, <1>2, <1>3 DEF GroupsInv, TasksAreHeld, NothingSent, Groupwise!Enabled
<1>6. Groupwise!RunningIsExact' /\ SwitchesAreDue'
  BY <1>2, <1>3 DEF GroupsInv, Groupwise!RunningIsExact, SwitchesAreDue, Unsettled
<1> QED
  BY <1>2, <1>4, <1>5, <1>6, GroupsTaskStep

\* A task runs only while no other run of the group is in progress (RunningGuard).
LEMMA GrLoopRuns ==
  ASSUME GroupsInv, NEW i \in Ids, Groupwise!LoopRuns(i) PROVE GroupsInv'
<1> DEFINE step == IF i \in runs_marked THEN "checking" ELSE "executing"
<1>1. /\ UNCHANGED <<listed, stored, loadedOnce, io, edits, unread, scheduler, sent, news, handles, runs,
                     blinked, seen, group_node, switched, picks>>
      /\ loops[i] = "starting" /\ runs_marked' = runs_marked \cup {i}
      /\ loops' = [loops EXCEPT ![i] = step]
  BY DEF Groupwise!LoopRuns, Groupwise!list, Groupwise!schedule, Groupwise!core
<1>2. \A j \in Ids : loops'[j] = IF j = i THEN step ELSE loops[j]
  BY <1>1 DEF GroupsInv, GroupsTyped
<1>3. GroupsTyped'
  BY <1>1 DEF GroupsInv, GroupsTyped
<1>4. TasksAreHeld'
  BY <1>1, <1>2 DEF GroupsInv, TasksAreHeld, NothingSent, Groupwise!Enabled
<1>5. Groupwise!RunningIsExact'
  BY <1>1, <1>2 DEF GroupsInv, Groupwise!RunningIsExact
<1>6. SwitchesAreDue'
  BY <1>1 DEF GroupsInv, SwitchesAreDue, Unsettled
<1> QED
  BY <1>1, <1>3, <1>4, <1>5, <1>6, GroupsTaskStep

\* So does a run by hand.
LEMMA GrRunOnce ==
  ASSUME GroupsInv, NEW i \in Ids, Groupwise!RunOnce(i) PROVE GroupsInv'
<1> DEFINE step == IF i \in runs_marked THEN "none" ELSE "executing"
<1>1. /\ UNCHANGED <<listed, stored, loadedOnce, io, edits, unread, scheduler, sent, news, handles,
                     loops, blinked, seen, group_node, switched, picks>>
      /\ runs[i] = "none" /\ runs_marked' = runs_marked \cup {i}
      /\ runs' = [runs EXCEPT ![i] = step]
  BY DEF Groupwise!RunOnce, Groupwise!list, Groupwise!schedule, Groupwise!core
<1>2. \A j \in Ids : runs'[j] = IF j = i THEN step ELSE runs[j]
  BY <1>1 DEF GroupsInv, GroupsTyped
<1>3. GroupsTyped'
  BY <1>1 DEF GroupsInv, GroupsTyped
<1>4. TasksAreHeld'
  BY <1>1 DEF GroupsInv, TasksAreHeld, NothingSent, Groupwise!Enabled
<1>5. Groupwise!RunningIsExact'
  BY <1>1, <1>2 DEF GroupsInv, Groupwise!RunningIsExact
<1>6. SwitchesAreDue'
  BY <1>1 DEF GroupsInv, SwitchesAreDue, Unsettled
<1> QED
  BY <1>1, <1>3, <1>4, <1>5, <1>6, GroupsTaskStep

\* A run reads the node the group is on.
LEMMA GrViews ==
  ASSUME GroupsInv, NEW i \in Ids, Groupwise!Views(i) PROVE GroupsInv'
<1>1. /\ UNCHANGED <<listed, stored, loadedOnce, io, edits, unread, scheduler, sent, news, handles,
                     loops, runs, runs_marked, blinked, group_node, switched, picks>>
      /\ seen' = [seen EXCEPT ![i] = group_node[i]]
  BY DEF Groupwise!Views, Groupwise!list, Groupwise!schedule
<1>2. \A j \in Ids : seen'[j] = IF j = i THEN group_node[i] ELSE seen[j]
  BY <1>1 DEF GroupsInv, GroupsTyped
<1>3. GroupsTyped'
  BY <1>1 DEF GroupsInv, GroupsTyped
<1>4. TasksAreHeld' /\ Groupwise!RunningIsExact'
  BY <1>1 DEF GroupsInv, TasksAreHeld, NothingSent, Groupwise!Enabled, Groupwise!RunningIsExact
<1>5. SwitchesAreDue'
  BY <1>1, <1>2 DEF GroupsInv, SwitchesAreDue, Unsettled
<1> QED
  BY <1>1, <1>3, <1>4, <1>5, GroupsTaskStep

\* The user picks a node, after which one more switch is due.
LEMMA GrPick ==
  ASSUME GroupsInv, NEW i \in Ids, NEW n \in {m1, m2, m3}, Groupwise!Pick(i, n) PROVE GroupsInv'
<1>1. /\ UNCHANGED <<listed, stored, loadedOnce, io, edits, unread, scheduler, sent, news, handles,
                     loops, runs, runs_marked, blinked, seen, switched>>
      /\ group_node' = [group_node EXCEPT ![i] = n] /\ picks' = picks + 1
  BY DEF Groupwise!Pick, Groupwise!list, Groupwise!schedule
<1>3. GroupsTyped'
  BY <1>1 DEF GroupsInv, GroupsTyped
<1>4. TasksAreHeld' /\ Groupwise!RunningIsExact'
  BY <1>1 DEF GroupsInv, TasksAreHeld, NothingSent, Groupwise!Enabled, Groupwise!RunningIsExact
<1>5. SwitchesAreDue'
  BY <1>1 DEF GroupsInv, GroupsTyped, SwitchesAreDue
<1> QED
  BY <1>1, <1>3, <1>4, <1>5, GroupsTaskStep

\* A run that ends has switched from an unsettled node to a settled one, if at all.
LEMMA EndingSettles ==
  ASSUME GroupsInv, NEW i \in Ids, Groupwise!Ends(i), picks' = picks
  PROVE  /\ SwitchesAreDue' /\ runs_marked' = runs_marked \ {i}
         /\ group_node' \in [Ids -> {m1, m2, m3}] /\ switched' \in [Ids -> Nat]
         /\ seen' \in [Ids -> {m1, m2, m3} \cup {None}]
<1>1. /\ runs_marked' = runs_marked \ {i} /\ seen' = [seen EXCEPT ![i] = None]
      /\ Groupwise!Switches(i) \/ UNCHANGED <<group_node, switched>>
  BY DEF Groupwise!Ends
<1>2. /\ seen \in [Ids -> {m1, m2, m3} \cup {None}] /\ group_node \in [Ids -> {m1, m2, m3}]
      /\ switched \in [Ids -> Nat] /\ picks \in Nat
  BY DEF GroupsInv, GroupsTyped
<1>3. seen'[i] = None /\ \A j \in Ids : j # i => seen'[j] = seen[j]
  BY <1>1, <1>2
<1>4. CASE UNCHANGED <<group_node, switched>>
  BY <1>1, <1>2, <1>3, <1>4 DEF GroupsInv, SwitchesAreDue, Unsettled
<1>5. CASE Groupwise!Switches(i)
  <2>1. PICK to \in (IF Groupwise!Fastest = {} THEN {seen[i]}
                     ELSE {Groupwise!Decision(seen[i], n) : n \in Groupwise!Fastest}) :
          /\ group_node' = [group_node EXCEPT ![i] = IF to = seen[i] THEN @ ELSE to]
          /\ switched' = [switched EXCEPT ![i] = IF group_node' = group_node THEN @ ELSE @ + 1]
          /\ seen[i] # None
    BY <1>5 DEF Groupwise!Switches
  <2>2. CASE to = seen[i]
    <3>1. group_node' = group_node
      BY <1>2, <2>1, <2>2
    <3>2. switched' = switched
      BY <1>2, <2>1, <3>1
    <3> QED
      BY <1>4, <3>1, <3>2
  <2>3. CASE to # seen[i]
    <3>1. PICK n \in Groupwise!Fastest : to = Groupwise!Decision(seen[i], n)
      BY <2>1, <2>3
    <3>2. to = n /\ ~Settled(seen[i])
      BY <2>3, <3>1 DEF Groupwise!Decision, Settled
    <3>3. n \in {m1, m2, m3} /\ (~Groupwise!Tied => Settled(n))
      BY FastestIsSettled DEF Groupwise!Fastest
    <3>4. ~Groupwise!Tied => switched[i] <= picks
      BY <2>1, <3>2 DEF GroupsInv, SwitchesAreDue, Unsettled
    <3>5. /\ group_node' \in [Ids -> {m1, m2, m3}] /\ group_node'[i] = n
          /\ \A j \in Ids : j # i => group_node'[j] = group_node[j]
      BY <1>2, <2>1, <2>3, <3>2, <3>3
    <3>6. /\ switched' \in [Ids -> Nat] /\ switched'[i] \in {switched[i], switched[i] + 1}
          /\ \A j \in Ids : j # i => switched'[j] = switched[j]
      BY <1>2, <2>1
    <3>7. seen' \in [Ids -> {m1, m2, m3} \cup {None}]
      BY <1>1, <1>2
    <3>8. SwitchesAreDue'
      <4> SUFFICES ASSUME ~Groupwise!Tied, NEW j \in Ids
                   PROVE  /\ switched'[j] <= 1 + picks
                          /\ ~Settled(group_node'[j]) \/ (seen'[j] # None /\ ~Settled(seen'[j])) =>
                               switched'[j] <= picks
        BY DEF SwitchesAreDue, Unsettled, Settled, Groupwise!Fastest, Groupwise!Decision,
           Groupwise!Measured, Groupwise!Tied, Groupwise!Cardinality
      <4>1. CASE j = i
        BY <1>2, <1>3, <3>3, <3>4, <3>5, <3>6, <4>1
      <4>2. CASE j # i
        BY <1>3, <3>5, <3>6, <4>2 DEF GroupsInv, SwitchesAreDue, Unsettled
      <4> QED
        BY <4>1, <4>2
    <3> QED
      BY <1>1, <3>5, <3>6, <3>7, <3>8
  <2> QED
    BY <2>2, <2>3
<1> QED
  BY <1>1, <1>4, <1>5

\* The run of a task ends.
LEMMA GrLoopEnds ==
  ASSUME GroupsInv, NEW i \in Ids, Groupwise!LoopEnds(i)
  PROVE  GroupsInv'
<1>1. /\ UNCHANGED <<listed, stored, loadedOnce, io, edits, unread, scheduler, sent, news, handles,
                     runs, blinked, picks>>
      /\ loops[i] = "executing" /\ Groupwise!Ends(i)
      /\ loops' = [loops EXCEPT ![i] = "checking"]
  BY DEF Groupwise!LoopEnds, Groupwise!list, Groupwise!schedule
<1>2. \A j \in Ids : loops'[j] = IF j = i THEN "checking" ELSE loops[j]
  BY <1>1 DEF GroupsInv, GroupsTyped
<1>3. /\ SwitchesAreDue' /\ runs_marked' = runs_marked \ {i}
      /\ group_node' \in [Ids -> {m1, m2, m3}] /\ switched' \in [Ids -> Nat]
      /\ seen' \in [Ids -> {m1, m2, m3} \cup {None}]
  BY <1>1, EndingSettles
<1>4. GroupsTyped'
  BY <1>1, <1>3 DEF GroupsInv, GroupsTyped
<1>5. TasksAreHeld'
  BY <1>1, <1>2 DEF GroupsInv, TasksAreHeld, NothingSent, Groupwise!Enabled
<1>6. Groupwise!RunningIsExact'
  BY <1>1, <1>2, <1>3 DEF GroupsInv, Groupwise!RunningIsExact
<1> QED
  BY <1>1, <1>3, <1>4, <1>5, <1>6, GroupsTaskStep

\* The run by hand ends.
LEMMA GrRunOnceEnds ==
  ASSUME GroupsInv, NEW i \in Ids, Groupwise!RunOnceEnds(i)
  PROVE  GroupsInv'
<1>1. /\ UNCHANGED <<listed, stored, loadedOnce, io, edits, unread, scheduler, sent, news, handles,
                     loops, blinked, picks>>
      /\ runs[i] = "executing" /\ Groupwise!Ends(i)
      /\ runs' = [runs EXCEPT ![i] = "none"]
  BY DEF Groupwise!RunOnceEnds, Groupwise!list, Groupwise!schedule
<1>2. \A j \in Ids : runs'[j] = IF j = i THEN "none" ELSE runs[j]
  BY <1>1 DEF GroupsInv, GroupsTyped
<1>3. /\ SwitchesAreDue' /\ runs_marked' = runs_marked \ {i}
      /\ group_node' \in [Ids -> {m1, m2, m3}] /\ switched' \in [Ids -> Nat]
      /\ seen' \in [Ids -> {m1, m2, m3} \cup {None}]
  BY <1>1, EndingSettles
<1>4. GroupsTyped'
  BY <1>1, <1>3 DEF GroupsInv, GroupsTyped
<1>5. TasksAreHeld'
  BY <1>1 DEF GroupsInv, TasksAreHeld, NothingSent, Groupwise!Enabled
<1>6. Groupwise!RunningIsExact'
  BY <1>1, <1>2, <1>3 DEF GroupsInv, Groupwise!RunningIsExact
<1> QED
  BY <1>1, <1>3, <1>4, <1>5, <1>6, GroupsTaskStep

\* Every step of the part keeps its invariant.
LEMMA GroupsStep ==
  ASSUME GroupsInv, Groupwise!Next PROVE GroupsInv'
BY GrStart, GrSchedulerLooks, GrEditLocks, GrEditSaves, GrEditPublishes, GrEditBegins,
   GrLoopLooks, GrLoopRuns, GrLoopEnds, GrRunOnce, GrRunOnceEnds, GrViews, GrPick
   DEF Groupwise!Next

\* The invariant holds at the start.
LEMMA GroupsStart ==
  ASSUME Groupwise!Init PROVE GroupsInv
<1>1. GroupsTyped
  BY DEF Groupwise!Init, GroupsTyped, Listing, Edits
<1>2. ListIsStored /\ TasksAreHeld
  BY DEF Groupwise!Init, ListIsStored, TasksAreHeld, NothingSent, Groupwise!NoEdit
<1>3. Groupwise!RunningIsExact /\ SwitchesAreDue
  BY DEF Groupwise!Init, Groupwise!RunningIsExact, SwitchesAreDue
<1> QED
  BY <1>1, <1>2, <1>3 DEF GroupsInv

\* One run of a group at a time, a list in memory that is the one of the file, a task for every
\* enabled group of a list that was sent, and one switch to the fastest node.  Excepted are lists
\* begun without the file, groups off between two looks of the scheduler, and ties without a
\* threshold (AutoSwitch).
THEOREM GroupsServed == Spec => []GroupsAreServed
<1> DEFINE Inv == part = "groups" => GroupsInv
<1>1. Init => Inv
  BY GroupsStart DEF Init
<1>2. Inv /\ [Next]_mcvars => Inv'
  <2> SUFFICES ASSUME Inv, [Next]_mcvars, part' = "groups"
               PROVE  GroupsInv'
    OBVIOUS
  <2>1. part = "groups"
    BY PartStays
  <2>2. CASE Groupwise!Next
    BY <2>1, <2>2, GroupsStep
  <2>3. CASE UNCHANGED groups_vars
    BY <2>1, <2>3 DEF groups_vars, GroupsInv, GroupsTyped, Groupwise!RunningIsExact,
       ListIsStored, TasksAreHeld, NothingSent, SwitchesAreDue, Unsettled, Groupwise!Enabled
  <2> QED
    BY <2>1, <2>2, <2>3 DEF Next, mcvars
<1>3. Inv => GroupsAreServed
  <2> SUFFICES ASSUME GroupsInv
               PROVE  /\ Groupwise!EnabledGroupIsServed /\ Groupwise!RunningIsExact
                      /\ Groupwise!SettlesAtOnce /\ Groupwise!FileHoldsGroups
    BY DEF GroupsAreServed
  <2>1. Groupwise!EnabledGroupIsServed
    BY DEF GroupsInv, TasksAreHeld, NothingSent, Groupwise!EnabledGroupIsServed, Groupwise!Enabled
  <2>2. Groupwise!SettlesAtOnce
    BY DEF GroupsInv, SwitchesAreDue, Groupwise!SettlesAtOnce
  <2>3. Groupwise!FileHoldsGroups
    BY PartsAssumption DEF GroupsInv, ListIsStored, Groupwise!FileHoldsGroups
  <2> QED
    BY <2>1, <2>2, <2>3 DEF GroupsInv
<1> QED
  BY <1>1, <1>2, <1>3, PTL DEF Spec

=============================================================================
