------------------------------- MODULE Relocation -------------------------------
(***************************************************************************)
(* Moving the application to the Applications folder when it is started    *)
(* elsewhere on macOS (utils::macos_launch_guard): a staged copy is        *)
(* swapped in, started, and swapped out again when it does not start.      *)
(* Processes may do it side by side; every command and file operation may  *)
(* fail and a process may die between two.  "old" is what an earlier       *)
(* installation left, "part" an incomplete copy.                           *)
(***************************************************************************)
EXTENDS Naturals, FiniteSets

CONSTANTS
  Starts, None,
  MaxFailures,      \* bound: operations that fail
  MaxDeaths         \* bound: processes that die

VARIABLES
  place,            \* evaluate_install_location of what is started
  before,           \* what is in the destination before anybody starts
  bundle,           \* what is started: "new", or None once removed
  destination,
  staging, backup,  \* [Starts -> what is at each process's swap paths]
  step,             \* [Starts -> next step]
  had,              \* processes that set a destination aside
  failures, deaths,
  moved,            \* a copy was started where it belongs, kept to state a property
  stranded          \* putting something back failed or a process died before it could,
                    \* kept likewise

movevars == <<place, before, bundle, destination, staging, backup, step, had, failures, deaths,
              moved, stranded>>

Init ==
  /\ place \in {"allowed", "movable", "translocated", "rejected"}
  /\ before \in {None, "old"}
  /\ bundle = "new"
  /\ destination = before
  /\ staging = [p \in Starts |-> None]
  /\ backup = [p \in Starts |-> None]
  /\ step = [p \in Starts |-> "start"]
  /\ had = {}
  /\ failures = 0 /\ deaths = 0
  /\ moved = FALSE /\ stranded = FALSE

Goes(p, from, to) == step[p] = from /\ step' = [step EXCEPT ![p] = to]
Works == UNCHANGED failures
Fails == failures < MaxFailures /\ failures' = failures + 1

\* enforce_before_initialization; the user may say no.
Evaluate(p) ==
  /\ bundle # None
  /\ \/ place = "allowed" /\ Goes(p, "start", "runs")
     \/ place = "movable" /\ Goes(p, "start", "copy")
     \/ Goes(p, "start", "exited")
  /\ UNCHANGED <<place, before, bundle, destination, staging, backup, had, failures, deaths,
                 moved, stranded>>

\* A copy that fails is removed again, if that can be done.
Copy(p) ==
  /\ \/ /\ bundle # None /\ Goes(p, "copy", "aside") /\ Works
        /\ staging' = [staging EXCEPT ![p] = "new"]
     \/ /\ IF bundle = None THEN Works ELSE Fails
        /\ Goes(p, "copy", "exited")
        /\ \E left \in {None, "part"} : staging' = [staging EXCEPT ![p] = left]
  /\ UNCHANGED <<place, before, bundle, destination, backup, had, deaths, moved, stranded>>

\* activate_staged_bundle
SetAside(p) ==
  /\ \/ /\ destination = None /\ Goes(p, "aside", "swap") /\ Works
        /\ UNCHANGED <<destination, staging, backup, had>>
     \/ /\ destination # None /\ Goes(p, "aside", "swap") /\ Works
        /\ backup' = [backup EXCEPT ![p] = destination]
        /\ destination' = None
        /\ had' = had \cup {p}
        /\ UNCHANGED staging
     \/ /\ destination # None /\ Goes(p, "aside", "exited") /\ Fails
        /\ staging' = [staging EXCEPT ![p] = None]
        /\ UNCHANGED <<destination, backup, had>>
  /\ UNCHANGED <<place, before, bundle, deaths, moved, stranded>>

\* A bundle is a directory: one that has come to the destination refuses the rename.
SwapIn(p) ==
  /\ \/ /\ destination = None /\ Goes(p, "swap", "open") /\ Works
        /\ destination' = staging[p]
        /\ staging' = [staging EXCEPT ![p] = None]
     \/ /\ Goes(p, "swap", IF p \in had THEN "undo" ELSE "exited")
        /\ IF destination = None THEN Fails ELSE Works
        /\ staging' = [staging EXCEPT ![p] = None]
        /\ UNCHANGED destination
  /\ UNCHANGED <<place, before, bundle, backup, had, deaths, moved, stranded>>

PutBack(p, from) ==
  \/ /\ destination = None /\ Goes(p, from, "exited") /\ Works
     /\ destination' = backup[p]
     /\ backup' = [backup EXCEPT ![p] = None]
     /\ UNCHANGED stranded
  \/ /\ Goes(p, from, "exited")
     /\ IF destination = None THEN Fails ELSE Works
     /\ stranded' = TRUE
     /\ UNCHANGED <<destination, backup>>

Undo(p) ==
  /\ PutBack(p, "undo")
  /\ UNCHANGED <<place, before, bundle, staging, had, deaths, moved>>

NotStartedKeepsNew(p) == "exited"

NotStarted(p) == IF p \in had THEN "take-back" ELSE "exited"

Open(p) ==
  /\ \/ destination = "new" /\ Goes(p, "open", "clean") /\ Works /\ moved' = TRUE
     \/ /\ Goes(p, "open", NotStarted(p)) /\ UNCHANGED moved
        /\ IF destination = "new" THEN Fails ELSE Works
  /\ UNCHANGED <<place, before, bundle, destination, staging, backup, had, deaths, stranded>>

\* move_and_relaunch: the copy that did not start makes room for what was there.
TakeBack(p) ==
  /\ \/ /\ destination # None /\ Goes(p, "take-back", "restore") /\ Works
        /\ staging' = [staging EXCEPT ![p] = destination]
        /\ destination' = None
        /\ UNCHANGED stranded
     \/ /\ Goes(p, "take-back", "exited")
        /\ IF destination = None THEN Works ELSE Fails
        /\ stranded' = TRUE
        /\ UNCHANGED <<staging, destination>>
  /\ UNCHANGED <<place, before, bundle, backup, had, deaths, moved>>

\* The copy goes whether or not the rename has put the earlier one back.
RestoreOld(p) ==
  /\ PutBack(p, "restore")
  /\ staging' = [staging EXCEPT ![p] = None]
  /\ UNCHANGED <<place, before, bundle, had, deaths, moved>>

\* What is left over is removed if it can be, what was started likewise.
Clean(p) ==
  /\ Goes(p, "clean", "exited")
  /\ \E left \in {None, backup[p]} : backup' = [backup EXCEPT ![p] = left]
  /\ \E left \in {None, bundle} : bundle' = left
  /\ UNCHANGED <<place, before, destination, staging, had, failures, deaths, moved, stranded>>

Dies(p) ==
  /\ step[p] \notin {"start", "runs", "exited"} /\ step' = [step EXCEPT ![p] = "exited"]
  /\ deaths < MaxDeaths /\ deaths' = deaths + 1
  /\ stranded' = (stranded \/ p \in had)
  /\ UNCHANGED <<place, before, bundle, destination, staging, backup, had, failures,
                 moved>>

Next ==
  \E p \in Starts :
    \/ Evaluate(p) \/ Copy(p) \/ SetAside(p) \/ SwapIn(p) \/ Undo(p) \/ Open(p) \/ TakeBack(p)
    \/ RestoreOld(p) \/ Clean(p) \/ Dies(p)

RelocationSpec == Init /\ [][Next]_movevars

-----------------------------------------------------------------------------
\* When all are through, whatever has failed and whoever has died, an application is
\* where it was started or where it belongs, and the earlier one, if any, is back unless a
\* copy was started or two processes have set one aside.  Excepted is what could not be
\* put back (move_and_relaunch, activate_staged_bundle).
ApplicationIsKept ==
  (\A p \in Starts : step[p] \in {"start", "runs", "exited"}) /\ ~stranded =>
    /\ bundle # None \/ destination # None
    /\ before # None => destination # None
    /\ before # None /\ ~moved /\ Cardinality(had) <= 1 => destination = before
=============================================================================
