----------------------------- MODULE SettingsProofs -----------------------------
(***************************************************************************)
(* What the user sets and what is then in force, for any callers, tasks,   *)
(* keys, ports and profiles and any number of operations: windows that     *)
(* come back (Windows), TUN (TunReconcile), hotkeys (Hotkeys), the DNS     *)
(* page (DnsOverride), the fields the application owns (Enhance), the      *)
(* failures that are shown (Failures), the verdicts of the owner monitor   *)
(* (OwnerWatch) and of the port probe (PortProbe), and what the system     *)
(* proxy answers for (SystemProxy).  Each part has an inductive invariant  *)
(* of its own; a behaviour is one of one part, so that each theorem        *)
(* follows from the steps of its part.                                     *)
(***************************************************************************)
EXTENDS MCSettings, TLAPS

\* No step leaves the part of the model a behaviour is one of.
LEMMA PartStays == [Next]_mcvars => part' = part
BY DEF Next, mcvars

-----------------------------------------------------------------------------
(* The window and lightweight mode *)

\* The modes of lightweight mode, and the tasks that enter and leave it.
Modes == {"Normal", "In", "Exiting"}
WindowSteps == [op : {"none", "timer", "entry", "exit", "show", "dashboard"},
                step : {"none", "setup", "sleeping", "expired", "begin", "record", "destroy",
                        "cancel", "show", "listen", "normal", "toggle"}]

\* What the variables of the part hold.
WindowTyped ==
  /\ window_mode \in Modes
  /\ window \in {"none", "loading", "shown", "hidden"}
  /\ watched \in BOOLEAN /\ listening \in BOOLEAN /\ auto \in BOOLEAN
  /\ gone \in BOOLEAN /\ exiting \in BOOLEAN /\ windows_crossed \in BOOLEAN
  /\ slot \in Tasks \cup {None}
  /\ tasks \in [Tasks -> WindowSteps]

\* CANCEL_TX holds a timer that sleeps, or one that has expired and has yet to clear it.
SlotIsTimer ==
  slot # None => tasks[slot].op = "timer" /\ tasks[slot].step \in {"sleeping", "expired"}

\* A close that arms the timer is heard.
WatchedIsHeard == watched => listening

\* A task that leaves lightweight mode, and one that enters it.
Leaving(t) == tasks[t].op = "exit" /\ tasks[t].step # "begin"
Entered(t) == tasks[t].op = "entry" /\ tasks[t].step # "begin"

\* Nobody leaves lightweight mode while it is entered, and one task at a time leaves it.
ModesAreApart ==
  ~windows_crossed =>
    /\ Window!Entering => window_mode = "In"
    /\ \A t \in Tasks : Leaving(t) => window_mode = "Exiting"
    /\ \A t, s \in Tasks : Leaving(t) /\ Leaving(s) => t = s

\* Who will see to a window that was closed with the listener: in normal mode a timer or the
\* task it became, in lightweight mode the task that is about to destroy it.
ClosedIsSeenTo ==
  ~windows_crossed /\ window = "hidden" /\ watched =>
    \/ window_mode = "Normal" /\ \E t \in Tasks : tasks[t].op \in {"timer", "entry"}
    \/ window_mode = "In" /\ \E t \in Tasks : tasks[t].op = "entry"
         /\ tasks[t].step \in {"record", "destroy"}

\* The inductive invariant of the windows.
WindowInv ==
  /\ WindowTyped /\ SlotIsTimer /\ WatchedIsHeard /\ ModesAreApart /\ ClosedIsSeenTo
  /\ Window!OnlyAskedToQuit

\* Each step of a task keeps the invariant.
LEMMA ArmTimerStep ==
  ASSUME None \notin Tasks, WindowInv, NEW t \in Tasks, Window!ArmTimer(t)
  PROVE  WindowInv'
<1> USE DEF Window!ArmTimer, Window!At, Window!Goes, Window!Ends, Window!Free, Window!win,
        Window!app
<1>1. WindowTyped'
  BY DEF WindowInv, WindowTyped, WindowSteps, Modes
<1>2. SlotIsTimer'
  BY DEF WindowInv, WindowTyped, WindowSteps, SlotIsTimer
<1>3. WatchedIsHeard'
  BY DEF WindowInv, WindowTyped, WatchedIsHeard
<1>4. ModesAreApart'
  BY DEF WindowInv, WindowTyped, WindowSteps, Modes, SlotIsTimer, ModesAreApart, Leaving,
     Window!Entering
<1>5. ClosedIsSeenTo'
  BY DEF WindowInv, WindowTyped, WindowSteps, Modes, SlotIsTimer, ModesAreApart, ClosedIsSeenTo,
     WatchedIsHeard, Leaving, Window!Entering
<1>6. Window!OnlyAskedToQuit'
  BY DEF WindowInv, WindowTyped, ModesAreApart, Window!OnlyAskedToQuit, Window!Entering
<1> QED
  BY <1>1, <1>2, <1>3, <1>4, <1>5, <1>6 DEF WindowInv

LEMMA TimerExpiresStep ==
  ASSUME None \notin Tasks, WindowInv, NEW t \in Tasks, Window!TimerExpires(t)
  PROVE  WindowInv'
<1> USE DEF Window!TimerExpires, Window!At, Window!Goes, Window!Ends, Window!Free, Window!win,
        Window!app
<1>1. WindowTyped'
  BY DEF WindowInv, WindowTyped, WindowSteps, Modes
<1>2. SlotIsTimer'
  BY DEF WindowInv, WindowTyped, WindowSteps, SlotIsTimer
<1>3. WatchedIsHeard'
  BY DEF WindowInv, WindowTyped, WatchedIsHeard
<1>4. ModesAreApart'
  BY DEF WindowInv, WindowTyped, WindowSteps, Modes, SlotIsTimer, ModesAreApart, Leaving,
     Window!Entering
<1>5. ClosedIsSeenTo'
  BY DEF WindowInv, WindowTyped, WindowSteps, Modes, SlotIsTimer, ModesAreApart, ClosedIsSeenTo,
     WatchedIsHeard, Leaving, Window!Entering
<1>6. Window!OnlyAskedToQuit'
  BY DEF WindowInv, WindowTyped, ModesAreApart, Window!OnlyAskedToQuit, Window!Entering
<1> QED
  BY <1>1, <1>2, <1>3, <1>4, <1>5, <1>6 DEF WindowInv

LEMMA TimerClearsStep ==
  ASSUME None \notin Tasks, WindowInv, NEW t \in Tasks, Window!TimerClears(t)
  PROVE  WindowInv'
<1> USE DEF Window!TimerClears, Window!Free, Window!At, Window!Goes, Window!Ends, Window!win,
        Window!app
<1>1. WindowTyped'
  BY DEF WindowInv, WindowTyped, WindowSteps, Modes
<1>2. SlotIsTimer'
  BY DEF WindowInv, WindowTyped, WindowSteps, SlotIsTimer
<1>3. WatchedIsHeard'
  BY DEF WindowInv, WindowTyped, WatchedIsHeard
<1>4. ModesAreApart'
  BY DEF WindowInv, WindowTyped, WindowSteps, Modes, SlotIsTimer, ModesAreApart, Leaving,
     Window!Entering
<1>5. ClosedIsSeenTo'
  BY DEF WindowInv, WindowTyped, WindowSteps, Modes, SlotIsTimer, ModesAreApart, ClosedIsSeenTo,
     WatchedIsHeard, Leaving, Window!Entering
<1>6. Window!OnlyAskedToQuit'
  BY DEF WindowInv, WindowTyped, ModesAreApart, Window!OnlyAskedToQuit, Window!Entering
<1> QED
  BY <1>1, <1>2, <1>3, <1>4, <1>5, <1>6 DEF WindowInv

LEMMA EntryBeginsStep ==
  ASSUME None \notin Tasks, WindowInv, NEW t \in Tasks, Window!EntryBegins(t)
  PROVE  WindowInv'
<1> USE DEF Window!EntryBegins, Window!At, Window!Goes, Window!Ends, Window!Free, Window!win,
        Window!app
<1>1. WindowTyped'
  BY DEF WindowInv, WindowTyped, WindowSteps, Modes
<1>2. SlotIsTimer'
  BY DEF WindowInv, WindowTyped, WindowSteps, SlotIsTimer
<1>3. WatchedIsHeard'
  BY DEF WindowInv, WindowTyped, WatchedIsHeard
<1>4. ModesAreApart'
  BY DEF WindowInv, WindowTyped, WindowSteps, Modes, SlotIsTimer, ModesAreApart, Leaving,
     Window!Entering
<1>5. ClosedIsSeenTo'
  BY DEF WindowInv, WindowTyped, WindowSteps, Modes, SlotIsTimer, ModesAreApart, ClosedIsSeenTo,
     WatchedIsHeard, Leaving, Window!Entering
<1>6. Window!OnlyAskedToQuit'
  BY DEF WindowInv, WindowTyped, ModesAreApart, Window!OnlyAskedToQuit, Window!Entering
<1> QED
  BY <1>1, <1>2, <1>3, <1>4, <1>5, <1>6 DEF WindowInv

LEMMA EntryRecordsStep ==
  ASSUME None \notin Tasks, WindowInv, NEW t \in Tasks, Window!EntryRecords(t)
  PROVE  WindowInv'
<1> USE DEF Window!EntryRecords, Window!At, Window!Goes, Window!Ends, Window!Free, Window!win,
        Window!app
<1>1. WindowTyped'
  BY DEF WindowInv, WindowTyped, WindowSteps, Modes
<1>2. SlotIsTimer'
  BY DEF WindowInv, WindowTyped, WindowSteps, SlotIsTimer
<1>3. WatchedIsHeard'
  BY DEF WindowInv, WindowTyped, WatchedIsHeard
<1>4. ModesAreApart'
  BY DEF WindowInv, WindowTyped, WindowSteps, Modes, SlotIsTimer, ModesAreApart, Leaving,
     Window!Entering
<1>5. ClosedIsSeenTo'
  BY DEF WindowInv, WindowTyped, WindowSteps, Modes, SlotIsTimer, ModesAreApart, ClosedIsSeenTo,
     WatchedIsHeard, Leaving, Window!Entering
<1>6. Window!OnlyAskedToQuit'
  BY DEF WindowInv, WindowTyped, ModesAreApart, Window!OnlyAskedToQuit, Window!Entering
<1> QED
  BY <1>1, <1>2, <1>3, <1>4, <1>5, <1>6 DEF WindowInv

LEMMA EntryDestroysStep ==
  ASSUME None \notin Tasks, WindowInv, NEW t \in Tasks, Window!EntryDestroys(t)
  PROVE  WindowInv'
<1> USE DEF Window!EntryDestroys, Window!At, Window!Goes, Window!Ends, Window!Free, Window!win,
        Window!app
<1>1. WindowTyped'
  BY DEF WindowInv, WindowTyped, WindowSteps, Modes
<1>2. SlotIsTimer'
  BY DEF WindowInv, WindowTyped, WindowSteps, SlotIsTimer
<1>3. WatchedIsHeard'
  BY DEF WindowInv, WindowTyped, WatchedIsHeard
<1>4. ModesAreApart'
  BY DEF WindowInv, WindowTyped, WindowSteps, Modes, SlotIsTimer, ModesAreApart, Leaving,
     Window!Entering
<1>5. ClosedIsSeenTo'
  BY DEF WindowInv, WindowTyped, WindowSteps, Modes, SlotIsTimer, ModesAreApart, ClosedIsSeenTo,
     WatchedIsHeard, Leaving, Window!Entering
<1>6. Window!OnlyAskedToQuit'
  BY DEF WindowInv, WindowTyped, ModesAreApart, Window!OnlyAskedToQuit, Window!Entering
<1> QED
  BY <1>1, <1>2, <1>3, <1>4, <1>5, <1>6 DEF WindowInv

LEMMA EntryCancelsStep ==
  ASSUME None \notin Tasks, WindowInv, NEW t \in Tasks, Window!EntryCancels(t)
  PROVE  WindowInv'
<1> USE DEF Window!EntryCancels, Window!Cancel, Window!Cancelled, Window!Free, Window!At,
        Window!Goes, Window!Ends, Window!win, Window!app
<1>1. WindowTyped'
  BY DEF WindowInv, WindowTyped, WindowSteps, Modes
<1>2. SlotIsTimer'
  BY DEF WindowInv, WindowTyped, WindowSteps, SlotIsTimer
<1>3. WatchedIsHeard'
  BY DEF WindowInv, WindowTyped, WatchedIsHeard
<1>4. ModesAreApart'
  BY DEF WindowInv, WindowTyped, WindowSteps, Modes, SlotIsTimer, ModesAreApart, Leaving,
     Window!Entering
<1>5. ClosedIsSeenTo'
  BY DEF WindowInv, WindowTyped, WindowSteps, Modes, SlotIsTimer, ModesAreApart, ClosedIsSeenTo,
     WatchedIsHeard, Leaving, Window!Entering
<1>6. Window!OnlyAskedToQuit'
  BY DEF WindowInv, WindowTyped, ModesAreApart, Window!OnlyAskedToQuit, Window!Entering
<1> QED
  BY <1>1, <1>2, <1>3, <1>4, <1>5, <1>6 DEF WindowInv

LEMMA ExitBeginsStep ==
  ASSUME None \notin Tasks, WindowInv, NEW t \in Tasks, Window!ExitBegins(t)
  PROVE  WindowInv'
<1> USE DEF Window!ExitBegins, Window!At, Window!Goes, Window!Ends, Window!Free, Window!win,
        Window!app
<1>a. ~windows_crossed' => ~windows_crossed /\ ~(window_mode = "In" /\ Window!Entering)
  OBVIOUS
<1>1. WindowTyped'
  BY DEF WindowInv, WindowTyped, WindowSteps, Modes
<1>2. SlotIsTimer'
  BY DEF WindowInv, WindowTyped, WindowSteps, SlotIsTimer
<1>3. WatchedIsHeard'
  BY DEF WindowInv, WindowTyped, WatchedIsHeard
<1>4. ModesAreApart'
  BY <1>a DEF WindowInv, WindowTyped, WindowSteps, Modes, SlotIsTimer, ModesAreApart, Leaving,
     Window!Entering
<1>5. ClosedIsSeenTo'
  BY <1>a DEF WindowInv, WindowTyped, WindowSteps, Modes, SlotIsTimer, ModesAreApart,
     ClosedIsSeenTo, WatchedIsHeard, Leaving, Window!Entering
<1>6. Window!OnlyAskedToQuit'
  BY DEF WindowInv, WindowTyped, ModesAreApart, Window!OnlyAskedToQuit, Window!Entering
<1> QED
  BY <1>1, <1>2, <1>3, <1>4, <1>5, <1>6 DEF WindowInv

LEMMA ExitRecordsStep ==
  ASSUME None \notin Tasks, WindowInv, NEW t \in Tasks, Window!ExitRecords(t)
  PROVE  WindowInv'
<1> USE DEF Window!ExitRecords, Window!At, Window!Goes, Window!Ends, Window!Free, Window!win,
        Window!app
<1>1. WindowTyped'
  BY DEF WindowInv, WindowTyped, WindowSteps, Modes
<1>2. SlotIsTimer'
  BY DEF WindowInv, WindowTyped, WindowSteps, SlotIsTimer
<1>3. WatchedIsHeard'
  BY DEF WindowInv, WindowTyped, WatchedIsHeard
<1>4. ModesAreApart'
  BY DEF WindowInv, WindowTyped, WindowSteps, Modes, SlotIsTimer, ModesAreApart, Leaving,
     Window!Entering
<1>5. ClosedIsSeenTo'
  BY DEF WindowInv, WindowTyped, WindowSteps, Modes, SlotIsTimer, ModesAreApart, ClosedIsSeenTo,
     WatchedIsHeard, Leaving, Window!Entering
<1>6. Window!OnlyAskedToQuit'
  BY DEF WindowInv, WindowTyped, ModesAreApart, Window!OnlyAskedToQuit, Window!Entering
<1> QED
  BY <1>1, <1>2, <1>3, <1>4, <1>5, <1>6 DEF WindowInv

\* To show a window or to put up with what there is leaves every closed window to whoever
\* sees to it (show_main_window, Limiter::check, the listener of the focus).
Displays(ts) ==
  \/ Window!TooSoon /\ tasks' = ts /\ UNCHANGED <<window, watched, listening, slot>>
  \/ Window!LetThrough /\ window = "shown" /\ tasks' = ts
       /\ UNCHANGED <<window, watched, listening, slot>>
  \/ Window!LetThrough /\ Window!Create /\ tasks' = ts /\ UNCHANGED slot
  \/ Window!LetThrough /\ Window!Activate(ts)

\* What showing the window does: it is shown, or shown anew, with its old listener or a
\* new one.
LEMMA DisplayOps ==
  ASSUME None \notin Tasks, WindowInv, NEW ts \in [Tasks -> WindowSteps], Displays(ts)
  PROVE  /\ window' \in {"none", "loading", "shown", "hidden"}
         /\ watched' \in BOOLEAN /\ listening' \in BOOLEAN
         /\ watched' => listening'
         /\ window' = "hidden" /\ watched' =>
              window = "hidden" /\ watched /\ tasks' = ts /\ slot' = slot
         /\ \/ tasks' = ts /\ slot' = slot
            \/ /\ slot' = None
               /\ tasks' \in [Tasks -> WindowSteps]
               /\ \A s \in Tasks : tasks'[s] = ts[s] \/ tasks'[s] = Window!Free
<1>1. CASE Window!TooSoon /\ tasks' = ts /\ UNCHANGED <<window, watched, listening, slot>>
  BY <1>1 DEF WindowInv, WindowTyped, WatchedIsHeard
<1>2. CASE Window!LetThrough /\ window = "shown" /\ tasks' = ts
           /\ UNCHANGED <<window, watched, listening, slot>>
  BY <1>2 DEF WindowInv, WindowTyped, WatchedIsHeard
<1>3. CASE Window!LetThrough /\ Window!Create /\ tasks' = ts /\ UNCHANGED slot
  BY <1>3 DEF WindowInv, WindowTyped, WatchedIsHeard, Window!Create
<1>4. CASE Window!LetThrough /\ Window!Activate(ts)
  <2>1. window' = "shown" /\ watched' = watched /\ listening' = listening
    BY <1>4 DEF Window!Activate
  <2>2. \/ tasks' = ts /\ slot' = slot
        \/ slot' = None /\ tasks' = ts
        \/ slot' = None /\ tasks' = [ts EXCEPT ![slot] = Window!Free]
    BY <1>4 DEF Window!Activate, Window!Focus, Window!Cancel, Window!Cancelled
  <2>3. Window!Free \in WindowSteps
    BY DEF Window!Free, WindowSteps
  <2> QED
    BY <2>1, <2>2, <2>3 DEF WindowInv, WindowTyped, WatchedIsHeard
<1> QED
  BY <1>1, <1>2, <1>3, <1>4 DEF Displays

LEMMA ExitShowsStep ==
  ASSUME None \notin Tasks, WindowInv, NEW t \in Tasks, Window!ExitShows(t)
  PROVE  WindowInv'
<1> DEFINE ts == [tasks EXCEPT ![t] = [op |-> "exit", step |-> "listen"]]
<1>1. tasks[t].op = "exit" /\ (tasks[t].op = "exit" => tasks[t].step # "begin")
  BY DEF Window!ExitShows, Window!At
<1>2. /\ ts \in [Tasks -> WindowSteps] /\ ts[t] = [op |-> "exit", step |-> "listen"]
      /\ \A s \in Tasks \ {t} : ts[s] = tasks[s]
  BY DEF WindowInv, WindowTyped, WindowSteps, Window!Free
<1>3. UNCHANGED <<window_mode, auto, gone, exiting, quits, windows_crossed>>
  BY DEF Window!ExitShows, Window!app
<1>4. Displays(ts)
  BY DEF Window!ExitShows, Window!Show, Displays, Window!win
<1> HIDE DEF ts
<1>5. /\ window' \in {"none", "loading", "shown", "hidden"}
      /\ watched' \in BOOLEAN /\ listening' \in BOOLEAN
      /\ watched' => listening'
      /\ window' = "hidden" /\ watched' =>
           window = "hidden" /\ watched /\ tasks' = ts /\ slot' = slot
  BY <1>2, <1>4, DisplayOps
<1>6. /\ slot' \in {slot, None}
      /\ slot' # None => tasks' = ts
      /\ tasks' \in [Tasks -> WindowSteps]
      /\ \A s \in Tasks : tasks'[s] = ts[s] \/ tasks'[s] = Window!Free
  BY <1>2, <1>4, DisplayOps
<1>7. WindowTyped'
  BY <1>3, <1>5, <1>6 DEF WindowInv, WindowTyped
<1>8. SlotIsTimer'
  BY <1>1, <1>2, <1>6 DEF WindowInv, WindowTyped, SlotIsTimer
<1>9. WatchedIsHeard'
  BY <1>5 DEF WatchedIsHeard
<1>10. \A s \in Tasks : (Leaving(s)' => Leaving(s)) /\ (Entered(s)' => Entered(s))
  BY <1>1, <1>2, <1>6 DEF Leaving, Entered, Window!Free
<1>11. ModesAreApart'
  BY <1>3, <1>10 DEF WindowInv, ModesAreApart, Window!Entering, Entered
<1>12. ClosedIsSeenTo'
  BY <1>1, <1>2, <1>3, <1>5 DEF WindowInv, ClosedIsSeenTo
<1>13. Window!OnlyAskedToQuit'
  BY <1>3 DEF WindowInv, Window!OnlyAskedToQuit
<1> QED
  BY <1>7, <1>8, <1>9, <1>11, <1>12, <1>13 DEF WindowInv

LEMMA ExitListensStep ==
  ASSUME None \notin Tasks, WindowInv, NEW t \in Tasks, Window!ExitListens(t)
  PROVE  WindowInv'
<1> USE DEF Window!ExitListens, Window!Listen, Window!At, Window!Goes, Window!Ends, Window!Free,
        Window!win, Window!app
<1>a. /\ watched' \in BOOLEAN /\ listening' \in BOOLEAN
      /\ watched' => listening'
      /\ window' = "hidden" /\ watched' => watched
  <2>1. CASE auto
    BY <2>1 DEF WindowInv, WindowTyped
  <2>2. CASE ~auto
    BY <2>2 DEF WindowInv, WindowTyped, WatchedIsHeard
  <2> QED
    BY <2>1, <2>2
<1>1. WindowTyped'
  BY <1>a DEF WindowInv, WindowTyped, WindowSteps, Modes
<1>2. SlotIsTimer'
  BY DEF WindowInv, WindowTyped, WindowSteps, SlotIsTimer
<1>3. WatchedIsHeard'
  BY <1>a DEF WindowInv, WindowTyped, WatchedIsHeard
<1>4. ModesAreApart'
  BY DEF WindowInv, WindowTyped, WindowSteps, Modes, SlotIsTimer, ModesAreApart, Leaving,
     Window!Entering
<1>5. ClosedIsSeenTo'
  BY <1>a DEF WindowInv, WindowTyped, WindowSteps, Modes, SlotIsTimer, ModesAreApart,
     ClosedIsSeenTo, WatchedIsHeard, Leaving, Window!Entering
<1>6. Window!OnlyAskedToQuit'
  BY DEF WindowInv, WindowTyped, ModesAreApart, Window!OnlyAskedToQuit, Window!Entering
<1> QED
  BY <1>1, <1>2, <1>3, <1>4, <1>5, <1>6 DEF WindowInv

LEMMA ExitCancelsStep ==
  ASSUME None \notin Tasks, WindowInv, NEW t \in Tasks, Window!ExitCancels(t)
  PROVE  WindowInv'
<1> USE DEF Window!ExitCancels, Window!Cancel, Window!Cancelled, Window!At, Window!Goes,
        Window!Ends, Window!Free, Window!win, Window!app
<1>1. WindowTyped'
  BY DEF WindowInv, WindowTyped, WindowSteps, Modes
<1>2. SlotIsTimer'
  BY DEF WindowInv, WindowTyped, WindowSteps, SlotIsTimer
<1>3. WatchedIsHeard'
  BY DEF WindowInv, WindowTyped, WatchedIsHeard
<1>4. ModesAreApart'
  BY DEF WindowInv, WindowTyped, WindowSteps, Modes, SlotIsTimer, ModesAreApart, Leaving,
     Window!Entering
<1>5. ClosedIsSeenTo'
  BY DEF WindowInv, WindowTyped, WindowSteps, Modes, SlotIsTimer, ModesAreApart, ClosedIsSeenTo,
     WatchedIsHeard, Leaving, Window!Entering
<1>6. Window!OnlyAskedToQuit'
  BY DEF WindowInv, WindowTyped, ModesAreApart, Window!OnlyAskedToQuit, Window!Entering
<1> QED
  BY <1>1, <1>2, <1>3, <1>4, <1>5, <1>6 DEF WindowInv

LEMMA ExitEndsStep ==
  ASSUME None \notin Tasks, WindowInv, NEW t \in Tasks, Window!ExitEnds(t)
  PROVE  WindowInv'
<1> USE DEF Window!ExitEnds, Window!At, Window!Goes, Window!Ends, Window!Free, Window!win,
        Window!app
<1>1. WindowTyped'
  BY DEF WindowInv, WindowTyped, WindowSteps, Modes
<1>2. SlotIsTimer'
  BY DEF WindowInv, WindowTyped, WindowSteps, SlotIsTimer
<1>3. WatchedIsHeard'
  BY DEF WindowInv, WindowTyped, WatchedIsHeard
<1>4. ModesAreApart'
  BY DEF WindowInv, WindowTyped, WindowSteps, Modes, SlotIsTimer, ModesAreApart, Leaving,
     Window!Entering
<1>5. ClosedIsSeenTo'
  BY DEF WindowInv, WindowTyped, WindowSteps, Modes, SlotIsTimer, ModesAreApart, ClosedIsSeenTo,
     WatchedIsHeard, Leaving, Window!Entering
<1>6. Window!OnlyAskedToQuit'
  BY DEF WindowInv, WindowTyped, ModesAreApart, Window!OnlyAskedToQuit, Window!Entering
<1> QED
  BY <1>1, <1>2, <1>3, <1>4, <1>5, <1>6 DEF WindowInv

LEMMA ShowsOnlyStep ==
  ASSUME None \notin Tasks, WindowInv, NEW t \in Tasks, Window!ShowsOnly(t)
  PROVE  WindowInv'
<1> DEFINE ts == [tasks EXCEPT ![t] = Window!Free]
<1>1. tasks[t].op = "show" /\ (tasks[t].op = "exit" => tasks[t].step # "begin")
  BY DEF Window!ShowsOnly, Window!At
<1>2. /\ ts \in [Tasks -> WindowSteps] /\ ts[t] = Window!Free
      /\ \A s \in Tasks \ {t} : ts[s] = tasks[s]
  BY DEF WindowInv, WindowTyped, WindowSteps, Window!Free
<1>3. UNCHANGED <<window_mode, auto, gone, exiting, quits, windows_crossed>>
  BY DEF Window!ShowsOnly, Window!app
<1>4. Displays(ts)
  BY DEF Window!ShowsOnly, Window!Show, Displays, Window!win
<1> HIDE DEF ts
<1>5. /\ window' \in {"none", "loading", "shown", "hidden"}
      /\ watched' \in BOOLEAN /\ listening' \in BOOLEAN
      /\ watched' => listening'
      /\ window' = "hidden" /\ watched' =>
           window = "hidden" /\ watched /\ tasks' = ts /\ slot' = slot
  BY <1>2, <1>4, DisplayOps
<1>6. /\ slot' \in {slot, None}
      /\ slot' # None => tasks' = ts
      /\ tasks' \in [Tasks -> WindowSteps]
      /\ \A s \in Tasks : tasks'[s] = ts[s] \/ tasks'[s] = Window!Free
  BY <1>2, <1>4, DisplayOps
<1>7. WindowTyped'
  BY <1>3, <1>5, <1>6 DEF WindowInv, WindowTyped
<1>8. SlotIsTimer'
  BY <1>1, <1>2, <1>6 DEF WindowInv, WindowTyped, SlotIsTimer
<1>9. WatchedIsHeard'
  BY <1>5 DEF WatchedIsHeard
<1>10. \A s \in Tasks : (Leaving(s)' => Leaving(s)) /\ (Entered(s)' => Entered(s))
  BY <1>1, <1>2, <1>6 DEF Leaving, Entered, Window!Free
<1>11. ModesAreApart'
  BY <1>3, <1>10 DEF WindowInv, ModesAreApart, Window!Entering, Entered
<1>12. ClosedIsSeenTo'
  BY <1>1, <1>2, <1>3, <1>5 DEF WindowInv, ClosedIsSeenTo
<1>13. Window!OnlyAskedToQuit'
  BY <1>3 DEF WindowInv, Window!OnlyAskedToQuit
<1> QED
  BY <1>7, <1>8, <1>9, <1>11, <1>12, <1>13 DEF WindowInv

LEMMA DashboardStep ==
  ASSUME None \notin Tasks, WindowInv, NEW t \in Tasks, Window!Dashboard(t)
  PROVE  WindowInv'
<1> USE DEF Window!Dashboard, Window!At, Window!Goes, Window!Ends, Window!Free, Window!win,
        Window!app
<1>1. WindowTyped'
  BY DEF WindowInv, WindowTyped, WindowSteps, Modes
<1>2. SlotIsTimer'
  BY DEF WindowInv, WindowTyped, WindowSteps, SlotIsTimer
<1>3. WatchedIsHeard'
  BY DEF WindowInv, WindowTyped, WatchedIsHeard
<1>4. ModesAreApart'
  BY DEF WindowInv, WindowTyped, WindowSteps, Modes, SlotIsTimer, ModesAreApart, Leaving,
     Window!Entering
<1>5. ClosedIsSeenTo'
  BY DEF WindowInv, WindowTyped, WindowSteps, Modes, SlotIsTimer, ModesAreApart, ClosedIsSeenTo,
     WatchedIsHeard, Leaving, Window!Entering
<1>6. Window!OnlyAskedToQuit'
  BY DEF WindowInv, WindowTyped, ModesAreApart, Window!OnlyAskedToQuit, Window!Entering
<1> QED
  BY <1>1, <1>2, <1>3, <1>4, <1>5, <1>6 DEF WindowInv

LEMMA ToggleShownStep ==
  ASSUME None \notin Tasks, WindowInv, NEW t \in Tasks, Window!ToggleShown(t)
  PROVE  WindowInv'
<1> USE DEF Window!ToggleShown, Window!LetThrough, Window!Closed, Window!At, Window!Goes,
        Window!Ends, Window!Free, Window!win, Window!app
<1>1. WindowTyped'
  BY DEF WindowInv, WindowTyped, WindowSteps, Modes
<1>2. SlotIsTimer'
  BY DEF WindowInv, WindowTyped, WindowSteps, SlotIsTimer
<1>3. WatchedIsHeard'
  BY DEF WindowInv, WindowTyped, WatchedIsHeard
<1>4. ModesAreApart'
  BY DEF WindowInv, WindowTyped, WindowSteps, Modes, SlotIsTimer, ModesAreApart, Leaving,
     Window!Entering
<1>5. ClosedIsSeenTo'
  BY DEF WindowInv, WindowTyped, WindowSteps, Modes, SlotIsTimer, ModesAreApart, ClosedIsSeenTo,
     WatchedIsHeard, Leaving, Window!Entering
<1>6. Window!OnlyAskedToQuit'
  BY DEF WindowInv, WindowTyped, ModesAreApart, Window!OnlyAskedToQuit, Window!Entering
<1> QED
  BY <1>1, <1>2, <1>3, <1>4, <1>5, <1>6 DEF WindowInv

LEMMA ToggleStep ==
  ASSUME None \notin Tasks, WindowInv, NEW t \in Tasks, Window!Toggle(t)
  PROVE  WindowInv'
<1> DEFINE ts == [tasks EXCEPT ![t] = Window!Free]
<1>1. tasks[t].op = "dashboard" /\ (tasks[t].op = "exit" => tasks[t].step # "begin")
  BY DEF Window!Toggle, Window!At
<1>2. /\ ts \in [Tasks -> WindowSteps] /\ ts[t] = Window!Free
      /\ \A s \in Tasks \ {t} : ts[s] = tasks[s]
  BY DEF WindowInv, WindowTyped, WindowSteps, Window!Free
<1>3. UNCHANGED <<window_mode, auto, gone, exiting, quits, windows_crossed>>
  BY DEF Window!Toggle, Window!app
<1>4. Displays(ts)
  BY DEF Window!Toggle, Displays, Window!win
<1> HIDE DEF ts
<1>5. /\ window' \in {"none", "loading", "shown", "hidden"}
      /\ watched' \in BOOLEAN /\ listening' \in BOOLEAN
      /\ watched' => listening'
      /\ window' = "hidden" /\ watched' =>
           window = "hidden" /\ watched /\ tasks' = ts /\ slot' = slot
  BY <1>2, <1>4, DisplayOps
<1>6. /\ slot' \in {slot, None}
      /\ slot' # None => tasks' = ts
      /\ tasks' \in [Tasks -> WindowSteps]
      /\ \A s \in Tasks : tasks'[s] = ts[s] \/ tasks'[s] = Window!Free
  BY <1>2, <1>4, DisplayOps
<1>7. WindowTyped'
  BY <1>3, <1>5, <1>6 DEF WindowInv, WindowTyped
<1>8. SlotIsTimer'
  BY <1>1, <1>2, <1>6 DEF WindowInv, WindowTyped, SlotIsTimer
<1>9. WatchedIsHeard'
  BY <1>5 DEF WatchedIsHeard
<1>10. \A s \in Tasks : (Leaving(s)' => Leaving(s)) /\ (Entered(s)' => Entered(s))
  BY <1>1, <1>2, <1>6 DEF Leaving, Entered, Window!Free
<1>11. ModesAreApart'
  BY <1>3, <1>10 DEF WindowInv, ModesAreApart, Window!Entering, Entered
<1>12. ClosedIsSeenTo'
  BY <1>1, <1>2, <1>3, <1>5 DEF WindowInv, ClosedIsSeenTo
<1>13. Window!OnlyAskedToQuit'
  BY <1>3 DEF WindowInv, Window!OnlyAskedToQuit
<1> QED
  BY <1>7, <1>8, <1>9, <1>11, <1>12, <1>13 DEF WindowInv

\* So does each step of the page, the user, the clock and the application.
LEMMA PageLoadsStep ==
  ASSUME None \notin Tasks, WindowInv, Window!PageLoads
  PROVE  WindowInv'
<1> USE DEF Window!PageLoads, Window!Focus, Window!Cancel, Window!Cancelled, Window!At,
        Window!Goes, Window!Ends, Window!Free, Window!win, Window!app
<1>1. WindowTyped'
  BY DEF WindowInv, WindowTyped, WindowSteps, Modes
<1>2. SlotIsTimer'
  BY DEF WindowInv, WindowTyped, WindowSteps, SlotIsTimer
<1>3. WatchedIsHeard'
  BY DEF WindowInv, WindowTyped, WatchedIsHeard
<1>4. ModesAreApart'
  BY DEF WindowInv, WindowTyped, WindowSteps, Modes, SlotIsTimer, ModesAreApart, Leaving,
     Window!Entering
<1>5. ClosedIsSeenTo'
  BY DEF WindowInv, WindowTyped, WindowSteps, Modes, SlotIsTimer, ModesAreApart, ClosedIsSeenTo,
     WatchedIsHeard, Leaving, Window!Entering
<1>6. Window!OnlyAskedToQuit'
  BY DEF WindowInv, WindowTyped, ModesAreApart, Window!OnlyAskedToQuit, Window!Entering
<1> QED
  BY <1>1, <1>2, <1>3, <1>4, <1>5, <1>6 DEF WindowInv

LEMMA UserClosesStep ==
  ASSUME None \notin Tasks, WindowInv, Window!UserCloses
  PROVE  WindowInv'
<1> USE DEF Window!UserCloses, Window!Closed, Window!Begin, Window!At, Window!Goes, Window!Ends,
        Window!Free, Window!win, Window!app
<1>1. WindowTyped'
  BY DEF WindowInv, WindowTyped, WindowSteps, Modes
<1>2. SlotIsTimer'
  BY DEF WindowInv, WindowTyped, WindowSteps, SlotIsTimer
<1>3. WatchedIsHeard'
  BY DEF WindowInv, WindowTyped, WatchedIsHeard
<1>4. ModesAreApart'
  BY DEF WindowInv, WindowTyped, WindowSteps, Modes, SlotIsTimer, ModesAreApart, Leaving,
     Window!Entering
<1>5. ClosedIsSeenTo'
  BY DEF WindowInv, WindowTyped, WindowSteps, Modes, SlotIsTimer, ModesAreApart, ClosedIsSeenTo,
     WatchedIsHeard, Leaving, Window!Entering
<1>6. Window!OnlyAskedToQuit'
  BY DEF WindowInv, WindowTyped, ModesAreApart, Window!OnlyAskedToQuit, Window!Entering
<1> QED
  BY <1>1, <1>2, <1>3, <1>4, <1>5, <1>6 DEF WindowInv

LEMMA TimePassesStep ==
  ASSUME None \notin Tasks, WindowInv, Window!TimePasses
  PROVE  WindowInv'
<1> USE DEF Window!TimePasses, Window!At, Window!Goes, Window!Ends, Window!Free, Window!win,
        Window!app
<1>1. WindowTyped'
  BY DEF WindowInv, WindowTyped, WindowSteps, Modes
<1>2. SlotIsTimer'
  BY DEF WindowInv, WindowTyped, WindowSteps, SlotIsTimer
<1>3. WatchedIsHeard'
  BY DEF WindowInv, WindowTyped, WatchedIsHeard
<1>4. ModesAreApart'
  BY DEF WindowInv, WindowTyped, WindowSteps, Modes, SlotIsTimer, ModesAreApart, Leaving,
     Window!Entering
<1>5. ClosedIsSeenTo'
  BY DEF WindowInv, WindowTyped, WindowSteps, Modes, SlotIsTimer, ModesAreApart, ClosedIsSeenTo,
     WatchedIsHeard, Leaving, Window!Entering
<1>6. Window!OnlyAskedToQuit'
  BY DEF WindowInv, WindowTyped, ModesAreApart, Window!OnlyAskedToQuit, Window!Entering
<1> QED
  BY <1>1, <1>2, <1>3, <1>4, <1>5, <1>6 DEF WindowInv

LEMMA UserActsStep ==
  ASSUME None \notin Tasks, WindowInv, Window!UserActs
  PROVE  WindowInv'
<1> USE DEF Window!UserActs, Window!Begin, Window!At, Window!Goes, Window!Ends, Window!Free,
        Window!win, Window!app
<1>1. WindowTyped'
  BY DEF WindowInv, WindowTyped, WindowSteps, Modes
<1>2. SlotIsTimer'
  BY DEF WindowInv, WindowTyped, WindowSteps, SlotIsTimer
<1>3. WatchedIsHeard'
  BY DEF WindowInv, WindowTyped, WatchedIsHeard
<1>4. ModesAreApart'
  BY DEF WindowInv, WindowTyped, WindowSteps, Modes, SlotIsTimer, ModesAreApart, Leaving,
     Window!Entering
<1>5. ClosedIsSeenTo'
  BY DEF WindowInv, WindowTyped, WindowSteps, Modes, SlotIsTimer, ModesAreApart, ClosedIsSeenTo,
     WatchedIsHeard, Leaving, Window!Entering
<1>6. Window!OnlyAskedToQuit'
  BY DEF WindowInv, WindowTyped, ModesAreApart, Window!OnlyAskedToQuit, Window!Entering
<1> QED
  BY <1>1, <1>2, <1>3, <1>4, <1>5, <1>6 DEF WindowInv

LEMMA EnableAutoStep ==
  ASSUME None \notin Tasks, WindowInv, Window!EnableAuto
  PROVE  WindowInv'
<1> USE DEF Window!EnableAuto, Window!Listen, Window!At, Window!Goes, Window!Ends, Window!Free,
        Window!win, Window!app
<1>1. WindowTyped'
  BY DEF WindowInv, WindowTyped, WindowSteps, Modes
<1>2. SlotIsTimer'
  BY DEF WindowInv, WindowTyped, WindowSteps, SlotIsTimer
<1>3. WatchedIsHeard'
  BY DEF WindowInv, WindowTyped, WatchedIsHeard
<1>4. ModesAreApart'
  BY DEF WindowInv, WindowTyped, WindowSteps, Modes, SlotIsTimer, ModesAreApart, Leaving,
     Window!Entering
<1>5. ClosedIsSeenTo'
  BY DEF WindowInv, WindowTyped, WindowSteps, Modes, SlotIsTimer, ModesAreApart, ClosedIsSeenTo,
     WatchedIsHeard, Leaving, Window!Entering
<1>6. Window!OnlyAskedToQuit'
  BY DEF WindowInv, WindowTyped, ModesAreApart, Window!OnlyAskedToQuit, Window!Entering
<1> QED
  BY <1>1, <1>2, <1>3, <1>4, <1>5, <1>6 DEF WindowInv

LEMMA DisableAutoStep ==
  ASSUME None \notin Tasks, WindowInv, Window!DisableAuto
  PROVE  WindowInv'
<1> USE DEF Window!DisableAuto, Window!Cancel, Window!Cancelled, Window!At, Window!Goes,
        Window!Ends, Window!Free, Window!win, Window!app
<1>1. WindowTyped'
  BY DEF WindowInv, WindowTyped, WindowSteps, Modes
<1>2. SlotIsTimer'
  BY DEF WindowInv, WindowTyped, WindowSteps, SlotIsTimer
<1>3. WatchedIsHeard'
  BY DEF WindowInv, WindowTyped, WatchedIsHeard
<1>4. ModesAreApart'
  BY DEF WindowInv, WindowTyped, WindowSteps, Modes, SlotIsTimer, ModesAreApart, Leaving,
     Window!Entering
<1>5. ClosedIsSeenTo'
  BY DEF WindowInv, WindowTyped, WindowSteps, Modes, SlotIsTimer, ModesAreApart, ClosedIsSeenTo,
     WatchedIsHeard, Leaving, Window!Entering
<1>6. Window!OnlyAskedToQuit'
  BY DEF WindowInv, WindowTyped, ModesAreApart, Window!OnlyAskedToQuit, Window!Entering
<1> QED
  BY <1>1, <1>2, <1>3, <1>4, <1>5, <1>6 DEF WindowInv

LEMMA ExitRequestedStep ==
  ASSUME None \notin Tasks, WindowInv, Window!ExitRequested
  PROVE  WindowInv'
<1> USE DEF Window!ExitRequested, Window!At, Window!Goes, Window!Ends, Window!Free, Window!win,
        Window!app
<1>1. WindowTyped'
  BY ZenonT(40) DEF WindowInv, WindowTyped, WindowSteps, Modes
<1>2. SlotIsTimer'
  BY DEF WindowInv, WindowTyped, WindowSteps, SlotIsTimer
<1>3. WatchedIsHeard'
  BY DEF WindowInv, WindowTyped, WatchedIsHeard
<1>4. ModesAreApart'
  BY DEF WindowInv, WindowTyped, WindowSteps, Modes, SlotIsTimer, ModesAreApart, Leaving,
     Window!Entering
<1>5. ClosedIsSeenTo'
  BY DEF WindowInv, WindowTyped, WindowSteps, Modes, SlotIsTimer, ModesAreApart, ClosedIsSeenTo,
     WatchedIsHeard, Leaving, Window!Entering
<1>6. Window!OnlyAskedToQuit'
  BY DEF WindowInv, WindowTyped, ModesAreApart, Window!OnlyAskedToQuit, Window!Entering
<1> QED
  BY <1>1, <1>2, <1>3, <1>4, <1>5, <1>6 DEF WindowInv

LEMMA QuitStep ==
  ASSUME None \notin Tasks, WindowInv, Window!Quit
  PROVE  WindowInv'
<1> USE DEF Window!Quit, Window!At, Window!Goes, Window!Ends, Window!Free, Window!win,
        Window!app
<1>1. WindowTyped'
  BY DEF WindowInv, WindowTyped, WindowSteps, Modes
<1>2. SlotIsTimer'
  BY DEF WindowInv, WindowTyped, WindowSteps, SlotIsTimer
<1>3. WatchedIsHeard'
  BY DEF WindowInv, WindowTyped, WatchedIsHeard
<1>4. ModesAreApart'
  BY DEF WindowInv, WindowTyped, WindowSteps, Modes, SlotIsTimer, ModesAreApart, Leaving,
     Window!Entering
<1>5. ClosedIsSeenTo'
  BY DEF WindowInv, WindowTyped, WindowSteps, Modes, SlotIsTimer, ModesAreApart, ClosedIsSeenTo,
     WatchedIsHeard, Leaving, Window!Entering
<1>6. Window!OnlyAskedToQuit'
  BY DEF WindowInv, WindowTyped, ModesAreApart, Window!OnlyAskedToQuit, Window!Entering
<1> QED
  BY <1>1, <1>2, <1>3, <1>4, <1>5, <1>6 DEF WindowInv

LEMMA QuitFailsStep ==
  ASSUME None \notin Tasks, WindowInv, Window!QuitFails
  PROVE  WindowInv'
<1> USE DEF Window!QuitFails, Window!At, Window!Goes, Window!Ends, Window!Free, Window!win,
        Window!app
<1>1. WindowTyped'
  BY ZenonT(40) DEF WindowInv, WindowTyped, WindowSteps, Modes
<1>2. SlotIsTimer'
  BY DEF WindowInv, WindowTyped, WindowSteps, SlotIsTimer
<1>3. WatchedIsHeard'
  BY DEF WindowInv, WindowTyped, WatchedIsHeard
<1>4. ModesAreApart'
  BY DEF WindowInv, WindowTyped, WindowSteps, Modes, SlotIsTimer, ModesAreApart, Leaving,
     Window!Entering
<1>5. ClosedIsSeenTo'
  BY DEF WindowInv, WindowTyped, WindowSteps, Modes, SlotIsTimer, ModesAreApart, ClosedIsSeenTo,
     WatchedIsHeard, Leaving, Window!Entering
<1>6. Window!OnlyAskedToQuit'
  BY DEF WindowInv, WindowTyped, ModesAreApart, Window!OnlyAskedToQuit, Window!Entering
<1> QED
  BY <1>1, <1>2, <1>3, <1>4, <1>5, <1>6 DEF WindowInv

\* The invariant holds at the start, and every step keeps it.
LEMMA WindowInit == Window!Init => WindowInv
<1> SUFFICES ASSUME Window!Init PROVE WindowInv
  OBVIOUS
<1>1. None \notin Tasks
  BY PartsAssumption
<1>2. /\ slot = None /\ tasks = [t \in Tasks |-> Window!Free]
      /\ gone = FALSE /\ exiting = FALSE /\ quits = "no" /\ windows_crossed = FALSE
      /\ watched = listening /\ listening \in BOOLEAN /\ auto \in BOOLEAN
      /\ window \in {"none", "loading"} /\ window_mode \in {"Normal", "In"}
  BY DEF Window!Init
<1>3. \A t \in Tasks : tasks[t] = [op |-> "none", step |-> "none"]
  BY <1>2 DEF Window!Free
<1>4. WindowTyped
  BY <1>2 DEF WindowTyped, WindowSteps, Modes, Window!Free
<1>5. SlotIsTimer /\ WatchedIsHeard /\ ClosedIsSeenTo /\ Window!OnlyAskedToQuit
  BY <1>2 DEF SlotIsTimer, WatchedIsHeard, ClosedIsSeenTo, Window!OnlyAskedToQuit
<1>6. ModesAreApart
  BY <1>2, <1>3 DEF ModesAreApart, Leaving, Window!Entering
<1> QED
  BY <1>4, <1>5, <1>6 DEF WindowInv

LEMMA WindowStep ==
  ASSUME WindowInv, Window!Next
  PROVE  WindowInv'
<1>0. None \notin Tasks
  BY PartsAssumption
<1>1. ASSUME NEW t \in Tasks, Window!TaskStep(t) PROVE WindowInv'
  BY <1>0, <1>1, ArmTimerStep, TimerExpiresStep, TimerClearsStep, EntryBeginsStep,
     EntryRecordsStep, EntryDestroysStep, EntryCancelsStep, ExitBeginsStep, ExitRecordsStep,
     ExitShowsStep, ExitListensStep, ExitCancelsStep, ExitEndsStep, ShowsOnlyStep,
     DashboardStep, ToggleShownStep, ToggleStep DEF Window!TaskStep
<1>2. CASE Window!PageLoads \/ Window!UserCloses \/ Window!TimePasses \/ Window!UserActs
           \/ Window!EnableAuto \/ Window!DisableAuto \/ Window!ExitRequested
           \/ Window!Quit \/ Window!QuitFails
  BY <1>0, <1>2, PageLoadsStep, UserClosesStep, TimePassesStep, UserActsStep, EnableAutoStep,
     DisableAutoStep, ExitRequestedStep, QuitStep, QuitFailsStep
<1> QED
  BY <1>1, <1>2 DEF Window!Next

\* A window that was closed while it was listened to comes back by its timer or is destroyed
\* by whoever enters lightweight mode, and the application quits only when it is asked to,
\* however many tasks open, close, enter and leave at once (Windows).
THEOREM ClosedWindowsComeBack == Spec => []WindowsComeBack
<1> DEFINE Inv == part = "windows" => WindowInv
<1>1. Init => Inv
  BY WindowInit DEF Init
<1>2. Inv /\ [Next]_mcvars => Inv'
  <2> SUFFICES ASSUME Inv, [Next]_mcvars, part' = "windows" PROVE WindowInv'
    OBVIOUS
  <2>1. part = "windows" /\ WindowInv
    BY PartStays
  <2>2. CASE Window!Next
    BY <2>1, <2>2, WindowStep
  <2>3. CASE UNCHANGED mcvars
    BY <2>1, <2>3 DEF mcvars, windows_vars, WindowInv, WindowTyped, SlotIsTimer, WatchedIsHeard,
       ModesAreApart, ClosedIsSeenTo, Leaving, Window!Entering, Window!OnlyAskedToQuit
  <2> QED
    BY <2>1, <2>2, <2>3 DEF Next
<1>3. Inv => WindowsComeBack
  BY DEF WindowsComeBack, WindowInv, WindowTyped, ClosedIsSeenTo, Window!HiddenWindowIsTimed
<1> QED
  BY <1>1, <1>2, <1>3, PTL DEF Spec

-----------------------------------------------------------------------------
(* TUN *)

\* A reconciliation that is on its way.
Reconciling == owed + spawned + queued > 0

\* TUN that cannot work is about to be looked at, by a reconciliation that is on its way or
\* by whoever holds the lock; requests are dropped only while the last one turns it off.
TunInv ==
  /\ owed \in Nat /\ spawned \in Nat /\ queued \in Nat
  /\ disabling => lock = "disables"
  /\ mode # "none" /\ ~failed /\ Tun!ShouldBeDisabled =>
       Reconciling \/ lock \in {"patch", "decided", "disables"}

\* Each step that changes what TUN needs sees to it that somebody looks at it.
LEMMA TunChangesStep ==
  ASSUME TunInv, Tun!Changes
  PROVE  TunInv'
BY DEF TunInv, Reconciling, Tun!Changes, Tun!ShouldBeDisabled, Tun!TunCapable,
   Tun!ServiceUsable, Tun!NeedsAttention, Tun!runstate, Tun!tasks, Tun!counts

LEMMA TunPublishStep ==
  ASSUME TunInv, Tun!Publish
  PROVE  TunInv'
BY DEF TunInv, Reconciling, Tun!Publish, Tun!ShouldBeDisabled, Tun!TunCapable,
   Tun!ServiceUsable, Tun!NeedsAttention, Tun!runstate, Tun!tasks, Tun!counts

LEMMA TunStartUpStep ==
  ASSUME TunInv, Tun!StartUp
  PROVE  TunInv'
BY DEF TunInv, Reconciling, Tun!StartUp, Tun!ShouldBeDisabled, Tun!TunCapable,
   Tun!ServiceUsable, Tun!NeedsAttention, Tun!runstate, Tun!tasks, Tun!counts

LEMMA TunPatchBeginsStep ==
  ASSUME TunInv, Tun!PatchBegins
  PROVE  TunInv'
BY DEF TunInv, Reconciling, Tun!PatchBegins, Tun!ShouldBeDisabled, Tun!TunCapable,
   Tun!ServiceUsable, Tun!NeedsAttention, Tun!runstate, Tun!tasks, Tun!counts

LEMMA TunPatchEndsStep ==
  ASSUME TunInv, Tun!PatchEnds
  PROVE  TunInv'
BY DEF TunInv, Reconciling, Tun!PatchEnds, Tun!ShouldBeDisabled, Tun!TunCapable,
   Tun!ServiceUsable, Tun!NeedsAttention, Tun!runstate, Tun!tasks, Tun!counts

LEMMA TunRestoresStep ==
  ASSUME TunInv, Tun!Restores
  PROVE  TunInv'
BY DEF TunInv, Reconciling, Tun!Restores, Tun!ShouldBeDisabled, Tun!TunCapable,
   Tun!ServiceUsable, Tun!NeedsAttention, Tun!runstate, Tun!tasks, Tun!counts

LEMMA TunLooksAtFlagStep ==
  ASSUME TunInv, Tun!LooksAtFlag
  PROVE  TunInv'
BY DEF TunInv, Reconciling, Tun!LooksAtFlag, Tun!ShouldBeDisabled, Tun!TunCapable,
   Tun!ServiceUsable, Tun!NeedsAttention, Tun!runstate, Tun!tasks, Tun!counts

LEMMA TunLocksStep ==
  ASSUME TunInv, Tun!Locks
  PROVE  TunInv'
BY DEF TunInv, Reconciling, Tun!Locks, Tun!ShouldBeDisabled, Tun!TunCapable, Tun!ServiceUsable,
   Tun!NeedsAttention, Tun!runstate, Tun!tasks, Tun!counts

LEMMA TunSetsFlagStep ==
  ASSUME TunInv, Tun!SetsFlag
  PROVE  TunInv'
BY DEF TunInv, Reconciling, Tun!SetsFlag, Tun!ShouldBeDisabled, Tun!TunCapable,
   Tun!ServiceUsable, Tun!NeedsAttention, Tun!runstate, Tun!tasks, Tun!counts

LEMMA TunDisablesStep ==
  ASSUME TunInv, Tun!Disables
  PROVE  TunInv'
BY DEF TunInv, Reconciling, Tun!Disables, Tun!ShouldBeDisabled, Tun!TunCapable,
   Tun!ServiceUsable, Tun!NeedsAttention, Tun!runstate, Tun!tasks, Tun!counts

LEMMA TunUnlocksStep ==
  ASSUME TunInv, Tun!Unlocks
  PROVE  TunInv'
BY DEF TunInv, Reconciling, Tun!Unlocks, Tun!ShouldBeDisabled, Tun!TunCapable,
   Tun!ServiceUsable, Tun!NeedsAttention, Tun!runstate, Tun!tasks, Tun!counts

\* The invariant of TUN is inductive, and implies the property.
LEMMA TunInit == ASSUME Tun!Init PROVE TunInv
BY DEF Tun!Init, TunInv, Tun!ShouldBeDisabled

LEMMA TunStep == ASSUME TunInv, Tun!Next PROVE TunInv'
BY TunChangesStep, TunPublishStep, TunStartUpStep, TunPatchBeginsStep, TunPatchEndsStep,
   TunRestoresStep, TunLooksAtFlagStep, TunLocksStep, TunSetsFlagStep, TunDisablesStep,
   TunUnlocksStep DEF Tun!Next

LEMMA TunIsOff == ASSUME TunInv PROVE Tun!UnusableTunIsOff
BY DEF TunInv, Reconciling, Tun!UnusableTunIsOff, Tun!Quiet

-----------------------------------------------------------------------------
(* The hotkeys *)

\* What the variables of the part hold.
HotkeysTyped ==
  /\ hotkeys \in Keyboard!Lists /\ global \in BOOLEAN
  /\ registered \in Keyboard!Lists /\ current \in Keyboard!Lists
  /\ draft \in [hotkeys : Keyboard!Lists, global : BOOLEAN]
  /\ list_patch \in [step : {"idle", "update", "rest"}, del : SUBSET Keys, add : SUBSET Keys]
  /\ focused \in BOOLEAN /\ disturbed \in BOOLEAN
  /\ task \in {"none", "focus", "blur", "registers", "resets"}
  /\ to_register \in Keyboard!Lists

\* What is registered while the window is told of its focus: the list of the settings while
\* hotkeys are heeded, nothing before the window has them registered.
FocusFollowed ==
  /\ task \in {"focus", "registers"} => focused
  /\ task \in {"blur", "resets"} => ~focused
  /\ task \in {"registers", "resets"} => ~global
  /\ list_patch.step = "idle" /\ (global \/ (task = "none" /\ focused)) =>
       registered = hotkeys /\ current = hotkeys
  /\ list_patch.step = "idle" /\ ~global /\ (task \in {"focus", "registers"} \/ (task = "none"
       /\ ~focused)) =>
       registered = Keyboard!NoHotkeys
  /\ list_patch.step = "idle" /\ task = "registers" => to_register = hotkeys

\* A patch has still to unregister and to register what its list differs in.
PatchFollowed ==
  /\ list_patch.step # "idle" => task = "none" /\ focused
  /\ list_patch.step = "update" =>
       \A k \in Keys \ list_patch.add :
         IF k \in list_patch.del THEN draft.hotkeys[k] = None
         ELSE registered[k] = draft.hotkeys[k]
  /\ list_patch.step = "rest" => registered = draft.hotkeys /\ current = draft.hotkeys

\* After a patch of the switch has met a task on its way, nothing is claimed.
HotkeysInv == HotkeysTyped /\ (~disturbed => FocusFollowed /\ PatchFollowed)

\* Each step of a patch and of a focus task keeps it.
LEMMA HotkeysPatchListStep ==
  ASSUME HotkeysInv, Keyboard!PatchList
  PROVE  HotkeysInv'
<1> USE DEF Keyboard!PatchList, Keyboard!Deleted, Keyboard!Added
<1>1. HotkeysTyped'
  BY DEF HotkeysInv, HotkeysTyped, Keyboard!Lists, Keyboard!NoHotkeys
<1>2. ~disturbed' => ~disturbed
  BY DEF HotkeysInv, HotkeysTyped
<1>3. ~disturbed' => FocusFollowed'
  BY <1>2 DEF HotkeysInv, HotkeysTyped, Keyboard!Lists, Keyboard!NoHotkeys, FocusFollowed,
     PatchFollowed
<1>4. ~disturbed' => PatchFollowed'
  <2>1. PICK new \in Keyboard!Lists :
          /\ draft' = [hotkeys |-> new, global |-> global]
          /\ list_patch' = [step |-> "update", del |-> Keyboard!Deleted(new), add
                 |-> Keyboard!Added(new)]
    OBVIOUS
  <2>2. /\ list_patch'.step = "update" /\ draft'.hotkeys = new
        /\ list_patch'.del = {k \in Keys : current[k] # None /\ new[k] # current[k]}
        /\ list_patch'.add = {k \in Keys : new[k] # None /\ new[k] # current[k]}
    BY <2>1
  <2>3. ~disturbed' => /\ registered' = current /\ focused' /\ task' = "none"
    BY <1>2 DEF HotkeysInv, HotkeysTyped, FocusFollowed
  <2> QED
    BY <2>2, <2>3 DEF PatchFollowed
<1> QED
  BY <1>1, <1>3, <1>4 DEF HotkeysInv

LEMMA HotkeysPatchSwitchStep ==
  ASSUME HotkeysInv, Keyboard!PatchSwitch
  PROVE  HotkeysInv'
<1> USE DEF Keyboard!PatchSwitch
<1>1. HotkeysTyped'
  BY DEF HotkeysInv, HotkeysTyped, Keyboard!Lists, Keyboard!NoHotkeys
<1>2. ~disturbed' => ~disturbed
  BY DEF HotkeysInv, HotkeysTyped
<1>3. ~disturbed' => FocusFollowed'
  BY <1>2 DEF HotkeysInv, HotkeysTyped, Keyboard!Lists, Keyboard!NoHotkeys, FocusFollowed,
     PatchFollowed
<1>4. ~disturbed' => PatchFollowed'
  BY <1>2 DEF HotkeysInv, HotkeysTyped, Keyboard!Lists, FocusFollowed, PatchFollowed
<1> QED
  BY <1>1, <1>3, <1>4 DEF HotkeysInv

LEMMA HotkeysUnregistersStep ==
  ASSUME HotkeysInv, Keyboard!Unregisters
  PROVE  HotkeysInv'
<1> USE DEF Keyboard!Unregisters
<1>1. HotkeysTyped'
  BY DEF HotkeysInv, HotkeysTyped, Keyboard!Lists, Keyboard!NoHotkeys
<1>2. ~disturbed' => ~disturbed
  BY DEF HotkeysInv, HotkeysTyped
<1>3. ~disturbed' => FocusFollowed'
  BY <1>2 DEF HotkeysInv, HotkeysTyped, Keyboard!Lists, Keyboard!NoHotkeys, FocusFollowed,
     PatchFollowed
<1>4. ~disturbed' => PatchFollowed'
  BY <1>2 DEF HotkeysInv, HotkeysTyped, Keyboard!Lists, FocusFollowed, PatchFollowed
<1> QED
  BY <1>1, <1>3, <1>4 DEF HotkeysInv

LEMMA HotkeysRegistersStep ==
  ASSUME HotkeysInv, Keyboard!Registers
  PROVE  HotkeysInv'
<1> USE DEF Keyboard!Registers, Keyboard!NoPatch, Keyboard!NoDraft
<1>1. HotkeysTyped'
  <2>1. PICK k \in list_patch.add :
          \/ /\ list_patch' = [list_patch EXCEPT !.add = @ \ {k}]
             /\ registered' = [registered EXCEPT ![k] = draft.hotkeys[k]]
             /\ UNCHANGED <<draft, disturbed>>
          \/ /\ list_patch' = Keyboard!NoPatch /\ draft' = Keyboard!NoDraft
             /\ registered' = [registered EXCEPT ![k] = None]
             /\ disturbed' = TRUE
    OBVIOUS
  <2>2. /\ list_patch' \in [step : {"idle", "update", "rest"}, del : SUBSET Keys, add : SUBSET Keys]
        /\ draft' \in [hotkeys : Keyboard!Lists, global : BOOLEAN]
        /\ disturbed' \in BOOLEAN
    <3>1. CASE list_patch' = [list_patch EXCEPT !.add = @ \ {k}] /\ UNCHANGED <<draft, disturbed>>
      BY <3>1 DEF HotkeysInv, HotkeysTyped
    <3>2. CASE list_patch' = Keyboard!NoPatch /\ draft' = Keyboard!NoDraft /\ disturbed' = TRUE
      BY <3>2 DEF Keyboard!Lists, Keyboard!NoHotkeys
    <3> QED
      BY <2>1, <3>1, <3>2
  <2>3. k \in Keys /\ draft.hotkeys[k] \in Functions \cup {None}
    BY DEF HotkeysInv, HotkeysTyped, Keyboard!Lists
  <2>4. registered' \in Keyboard!Lists
    BY <2>1, <2>3 DEF HotkeysInv, HotkeysTyped, Keyboard!Lists
  <2> QED
    BY <2>2, <2>4 DEF HotkeysInv, HotkeysTyped
<1>2. ~disturbed' => ~disturbed
  BY DEF HotkeysInv, HotkeysTyped
<1>3. ~disturbed' => FocusFollowed'
  BY <1>2 DEF HotkeysInv, HotkeysTyped, Keyboard!Lists, Keyboard!NoHotkeys, FocusFollowed,
     PatchFollowed
<1>4. ~disturbed' => PatchFollowed'
  BY <1>2 DEF HotkeysInv, HotkeysTyped, Keyboard!Lists, FocusFollowed, PatchFollowed
<1> QED
  BY <1>1, <1>3, <1>4 DEF HotkeysInv

LEMMA HotkeysUpdatedStep ==
  ASSUME HotkeysInv, Keyboard!Updated
  PROVE  HotkeysInv'
<1> USE DEF Keyboard!Updated
<1>1. HotkeysTyped'
  BY DEF HotkeysInv, HotkeysTyped, Keyboard!Lists, Keyboard!NoHotkeys
<1>2. ~disturbed' => ~disturbed
  BY DEF HotkeysInv, HotkeysTyped
<1>3. ~disturbed' => FocusFollowed'
  BY <1>2 DEF HotkeysInv, HotkeysTyped, Keyboard!Lists, Keyboard!NoHotkeys, FocusFollowed,
     PatchFollowed
<1>4. ~disturbed' => PatchFollowed'
  BY <1>2 DEF HotkeysInv, HotkeysTyped, Keyboard!Lists, FocusFollowed, PatchFollowed
<1> QED
  BY <1>1, <1>3, <1>4 DEF HotkeysInv

LEMMA HotkeysPatchEndsStep ==
  ASSUME HotkeysInv, Keyboard!PatchEnds
  PROVE  HotkeysInv'
<1> USE DEF Keyboard!PatchEnds, Keyboard!NoPatch, Keyboard!NoDraft
<1>1. HotkeysTyped'
  BY DEF HotkeysInv, HotkeysTyped, Keyboard!Lists, Keyboard!NoHotkeys
<1>2. ~disturbed' => ~disturbed
  BY DEF HotkeysInv, HotkeysTyped
<1>3. ~disturbed' => FocusFollowed'
  BY <1>2 DEF HotkeysInv, HotkeysTyped, Keyboard!Lists, Keyboard!NoHotkeys, FocusFollowed,
     PatchFollowed
<1>4. ~disturbed' => PatchFollowed'
  BY <1>2 DEF HotkeysInv, HotkeysTyped, Keyboard!Lists, FocusFollowed, PatchFollowed
<1> QED
  BY <1>1, <1>3, <1>4 DEF HotkeysInv

LEMMA HotkeysFocusChangesStep ==
  ASSUME HotkeysInv, Keyboard!FocusChanges
  PROVE  HotkeysInv'
<1> USE DEF Keyboard!FocusChanges
<1>1. HotkeysTyped'
  BY DEF HotkeysInv, HotkeysTyped, Keyboard!Lists, Keyboard!NoHotkeys
<1>2. ~disturbed' => ~disturbed
  BY DEF HotkeysInv, HotkeysTyped
<1>3. ~disturbed' => FocusFollowed'
  BY <1>2 DEF HotkeysInv, HotkeysTyped, Keyboard!Lists, Keyboard!NoHotkeys, FocusFollowed,
     PatchFollowed
<1>4. ~disturbed' => PatchFollowed'
  BY <1>2 DEF HotkeysInv, HotkeysTyped, Keyboard!Lists, FocusFollowed, PatchFollowed
<1> QED
  BY <1>1, <1>3, <1>4 DEF HotkeysInv

LEMMA HotkeysTaskReadsStep ==
  ASSUME HotkeysInv, Keyboard!TaskReads
  PROVE  HotkeysInv'
<1> USE DEF Keyboard!TaskReads, Keyboard!Latest
<1>1. HotkeysTyped'
  BY DEF HotkeysInv, HotkeysTyped, Keyboard!Lists, Keyboard!NoHotkeys
<1>2. ~disturbed' => ~disturbed
  BY DEF HotkeysInv, HotkeysTyped
<1>3. ~disturbed' => FocusFollowed'
  BY <1>2 DEF HotkeysInv, HotkeysTyped, Keyboard!Lists, Keyboard!NoHotkeys, FocusFollowed,
     PatchFollowed
<1>4. ~disturbed' => PatchFollowed'
  BY <1>2 DEF HotkeysInv, HotkeysTyped, Keyboard!Lists, FocusFollowed, PatchFollowed
<1> QED
  BY <1>1, <1>3, <1>4 DEF HotkeysInv

LEMMA HotkeysTaskRegistersStep ==
  ASSUME HotkeysInv, Keyboard!TaskRegisters
  PROVE  HotkeysInv'
<1> USE DEF Keyboard!TaskRegisters
<1>1. HotkeysTyped'
  BY DEF HotkeysInv, HotkeysTyped, Keyboard!Lists, Keyboard!NoHotkeys
<1>2. ~disturbed' => ~disturbed
  BY DEF HotkeysInv, HotkeysTyped
<1>3. ~disturbed' => FocusFollowed'
  <2> SUFFICES ASSUME ~disturbed' PROVE FocusFollowed'
    OBVIOUS
  <2>1. PICK failing \in {{k} : k \in Keys} \cup {{}} :
          /\ registered' = [k \in Keys |-> IF to_register[k] = None THEN registered[k]
                                           ELSE IF k \in failing THEN None ELSE to_register[k]]
          /\ disturbed' = (disturbed \/ \E k \in failing : to_register[k] # None)
    OBVIOUS
  <2>2. /\ FocusFollowed /\ PatchFollowed /\ task = "registers" /\ list_patch.step = "idle"
        /\ to_register = hotkeys /\ registered = Keyboard!NoHotkeys
    BY <1>2 DEF HotkeysInv, HotkeysTyped, FocusFollowed, PatchFollowed
  <2>3. \A k \in Keys : registered'[k] = hotkeys[k]
    BY <2>1, <2>2 DEF Keyboard!NoHotkeys
  <2>4. registered' = hotkeys /\ current' = hotkeys
    BY <1>1, <2>2, <2>3 DEF HotkeysInv, HotkeysTyped, Keyboard!Lists
  <2> QED
    BY <2>2, <2>4 DEF FocusFollowed
<1>4. ~disturbed' => PatchFollowed'
  BY <1>2 DEF HotkeysInv, HotkeysTyped, Keyboard!Lists, FocusFollowed, PatchFollowed
<1> QED
  BY <1>1, <1>3, <1>4 DEF HotkeysInv

LEMMA HotkeysTaskResetsStep ==
  ASSUME HotkeysInv, Keyboard!TaskResets
  PROVE  HotkeysInv'
<1> USE DEF Keyboard!TaskResets
<1>1. HotkeysTyped'
  BY DEF HotkeysInv, HotkeysTyped, Keyboard!Lists, Keyboard!NoHotkeys
<1>2. ~disturbed' => ~disturbed
  BY DEF HotkeysInv, HotkeysTyped
<1>3. ~disturbed' => FocusFollowed'
  BY <1>2 DEF HotkeysInv, HotkeysTyped, Keyboard!Lists, Keyboard!NoHotkeys, FocusFollowed,
     PatchFollowed
<1>4. ~disturbed' => PatchFollowed'
  BY <1>2 DEF HotkeysInv, HotkeysTyped, Keyboard!Lists, FocusFollowed, PatchFollowed
<1> QED
  BY <1>1, <1>3, <1>4 DEF HotkeysInv

\* The invariant of the hotkeys is inductive, and implies the property.
LEMMA HotkeysInit == ASSUME Keyboard!Init PROVE HotkeysInv
<1> USE DEF Keyboard!Init, Keyboard!Lists, Keyboard!NoHotkeys, Keyboard!NoPatch,
        Keyboard!NoDraft
<1>1. HotkeysTyped
  BY DEF HotkeysTyped
<1>2. FocusFollowed /\ PatchFollowed
  BY DEF FocusFollowed, PatchFollowed
<1> QED
  BY <1>1, <1>2 DEF HotkeysInv

LEMMA HotkeysStep == ASSUME HotkeysInv, Keyboard!Next PROVE HotkeysInv'
BY HotkeysPatchListStep, HotkeysPatchSwitchStep, HotkeysUnregistersStep, HotkeysRegistersStep,
   HotkeysUpdatedStep, HotkeysPatchEndsStep, HotkeysFocusChangesStep, HotkeysTaskReadsStep,
   HotkeysTaskRegistersStep, HotkeysTaskResetsStep DEF Keyboard!Next

LEMMA HotkeysAreThere == ASSUME HotkeysInv PROVE Keyboard!HotkeysWork
BY DEF HotkeysInv, HotkeysTyped, FocusFollowed, Keyboard!HotkeysWork, Keyboard!Quiet,
   Keyboard!HeedsPresses

-----------------------------------------------------------------------------
(* The DNS page *)

\* What a call may ask of the DNS page, and what an update makes of it.
Wishes == [on : BOOLEAN, confirmed : Sources \cup {None}]
States == [source : Sources \cup {None}, wish : Wishes, enabled : BOOLEAN]

\* What the variables of the part hold.
DnsTyped ==
  /\ source \in Sources \cup {None}
  /\ settings \in Wishes /\ staged \in Wishes \cup {None}
  /\ dns_lock \in Callers \cup {None} /\ updating \in Callers \cup {None}
  /\ generated \in States /\ runtime \in States /\ (runtime.enabled => runtime.wish.on)
  /\ (generated.enabled => generated.wish.on)
  /\ calls \in [Callers -> [op : {"none", "enable", "disable", "refresh"},
                            step : {"none", "locking", "staging", "updating", "applying",
                                    "applied", "syncing"},
                            read : Sources \cup {None} \cup States]]
  /\ \A c \in Callers :
       /\ calls[c].step = "staging" => calls[c].read \in Sources \cup {None}
       /\ calls[c].step = "syncing" => calls[c].read \in States
  /\ crossed \in BOOLEAN

\* A call that updates for another reason.
Refresher(c) == calls[c].op = "refresh"

\* The lock is held by the call that sets the switch or tells the settings, the pipeline by
\* the one that applies.
DnsHeld ==
  \A c \in Callers :
    /\ Dns!Setter(c) /\ calls[c].step \in {"staging", "updating", "applying", "applied"} =>
         dns_lock = c
    /\ calls[c].step = "syncing" => Refresher(c) /\ dns_lock = c
    /\ calls[c].step \in {"locking", "staging"} => Dns!Setter(c)
    /\ calls[c].step \in {"updating", "applying", "applied"} => Dns!Setter(c) \/ Refresher(c)
    /\ Dns!Setter(c) /\ calls[c].step = "staging" => staged = None
    /\ Dns!Setter(c) /\ calls[c].step \in {"updating", "applying", "applied"} => staged # None
    /\ calls[c].step = "applying" => updating = c

\* What is staged is staged by the holder of the lock.
StagedIsHeld ==
  staged # None => dns_lock # None /\ Dns!Setter(dns_lock)
                   /\ calls[dns_lock].step \in {"updating", "applying", "applied"}

\* An update under way was made from the settings as they are or are staged.
MadeFrom(state) == state.wish = settings \/ (staged # None /\ state.wish = staged)

\* Every update under way and every state that was read from one.
MadeFromSettings ==
  \A c \in Callers :
    /\ calls[c].step = "applying" =>
         /\ MadeFrom(generated)
         /\ Dns!Setter(c) => generated.wish = staged
         /\ \A d \in Callers : Dns!Setter(d) /\ calls[d].step = "applied" => generated.wish = staged
    /\ Refresher(c) /\ calls[c].step = "applied" => MadeFrom(runtime)
    /\ Dns!Setter(c) /\ calls[c].step = "applied" => runtime.wish = staged
    /\ calls[c].step = "syncing" =>
         /\ calls[c].read.wish = settings
         /\ (calls[c].read = runtime \/ \E d \in Callers : calls[d].step = "applied")

\* The settings say whether the page is in force, or somebody is about to tell them.
TellsRuntime ==
  \/ settings.on = runtime.enabled
  \/ \E c \in Callers : calls[c].step \in {"applied", "syncing"}

\* The inductive invariant of the DNS page.
DnsInv ==
  DnsTyped /\ DnsHeld /\ StagedIsHeld /\ (~crossed => MadeFromSettings /\ TellsRuntime)

\* Each step of the DNS page keeps it.
LEMMA DnsFileChangesStep ==
  ASSUME DnsInv, Dns!FileChanges
  PROVE  DnsInv'
<1> USE DEF Dns!FileChanges, Dns!word, Dns!pipeline
<1>1. DnsTyped'
  BY DEF DnsInv, DnsTyped, States, Wishes
<1>2. DnsHeld'
  BY NoneAssumption, PartsAssumption DEF DnsInv, DnsTyped, DnsHeld, StagedIsHeld, Dns!Setter,
     Refresher
<1>3. StagedIsHeld'
  BY DEF DnsInv, DnsTyped, DnsHeld, StagedIsHeld, Dns!Setter
<1>4. ~crossed' => ~crossed
  BY DEF DnsInv, DnsTyped
<1>5. ~crossed' => MadeFromSettings'
  BY <1>4 DEF DnsInv, DnsTyped, DnsHeld, StagedIsHeld, MadeFromSettings, MadeFrom, Dns!Setter,
     Refresher
<1>6. ~crossed' => TellsRuntime'
  BY <1>4 DEF DnsInv, DnsTyped, DnsHeld, StagedIsHeld, MadeFromSettings, MadeFrom, TellsRuntime,
     Dns!Setter, Refresher
<1> QED
  BY <1>1, <1>2, <1>3, <1>5, <1>6 DEF DnsInv

LEMMA DnsBeginStep ==
  ASSUME DnsInv, NEW c \in Callers, Dns!Begin(c)
  PROVE  DnsInv'
<1> USE DEF Dns!Begin, Dns!Idle, Dns!word, Dns!pipeline, Dns!At, Dns!Goes, Dns!Ends,
        Dns!OthersUpdate
<1>1. DnsTyped'
  BY DEF DnsInv, DnsTyped, States, Wishes
<1>2. DnsHeld'
  BY NoneAssumption, PartsAssumption DEF DnsInv, DnsTyped, DnsHeld, StagedIsHeld, Dns!Setter,
     Refresher
<1>3. StagedIsHeld'
  BY DEF DnsInv, DnsTyped, DnsHeld, StagedIsHeld, Dns!Setter
<1>4. ~crossed' => ~crossed
  BY DEF DnsInv, DnsTyped
<1>5. ~crossed' => MadeFromSettings'
  BY <1>4 DEF DnsInv, DnsTyped, DnsHeld, StagedIsHeld, MadeFromSettings, MadeFrom, Dns!Setter,
     Refresher
<1>6. ~crossed' => TellsRuntime'
  BY <1>4 DEF DnsInv, DnsTyped, DnsHeld, StagedIsHeld, MadeFromSettings, MadeFrom, TellsRuntime,
     Dns!Setter, Refresher
<1> QED
  BY <1>1, <1>2, <1>3, <1>5, <1>6 DEF DnsInv

LEMMA DnsSetLocksStep ==
  ASSUME DnsInv, NEW c \in Callers, Dns!SetLocks(c)
  PROVE  DnsInv'
<1> USE DEF Dns!SetLocks, Dns!word, Dns!pipeline, Dns!At, Dns!Goes, Dns!Ends, Dns!Idle,
        Dns!OthersUpdate
<1>1. DnsTyped'
  BY DEF DnsInv, DnsTyped, States, Wishes
<1>2. DnsHeld'
  BY NoneAssumption, PartsAssumption DEF DnsInv, DnsTyped, DnsHeld, StagedIsHeld, Dns!Setter,
     Refresher
<1>3. StagedIsHeld'
  BY DEF DnsInv, DnsTyped, DnsHeld, StagedIsHeld, Dns!Setter
<1>4. ~crossed' => ~crossed
  BY DEF DnsInv, DnsTyped
<1>5. ~crossed' => MadeFromSettings'
  BY <1>4 DEF DnsInv, DnsTyped, DnsHeld, StagedIsHeld, MadeFromSettings, MadeFrom, Dns!Setter,
     Refresher
<1>6. ~crossed' => TellsRuntime'
  BY <1>4 DEF DnsInv, DnsTyped, DnsHeld, StagedIsHeld, MadeFromSettings, MadeFrom, TellsRuntime,
     Dns!Setter, Refresher
<1> QED
  BY <1>1, <1>2, <1>3, <1>5, <1>6 DEF DnsInv

LEMMA DnsSetStagesStep ==
  ASSUME DnsInv, NEW c \in Callers, Dns!SetStages(c)
  PROVE  DnsInv'
<1> DEFINE wish == IF calls[c].op = "enable" THEN [on |-> TRUE, confirmed |-> calls[c].read]
               ELSE Dns!Off
<1>1. /\ calls[c].step = "staging" /\ Dns!Setter(c) /\ dns_lock = c /\ staged = None
      /\ UNCHANGED <<source, settings, updating, generated, runtime, begun, file_changes, crossed>>
      /\ \/ staged' = wish /\ calls' = [calls EXCEPT ![c].step = "updating"] /\ dns_lock' = dns_lock
         \/ calls' = [calls EXCEPT ![c] = Dns!Idle] /\ dns_lock' = None /\ staged' = staged
  BY DEF Dns!SetStages, Dns!At, Dns!Goes, Dns!Ends, Dns!pipeline, DnsInv, DnsHeld
<1>2. wish \in Wishes
  BY <1>1 DEF DnsInv, DnsTyped, Wishes, Dns!Off
<1> HIDE DEF wish
<1>3. CASE staged' = wish /\ calls' = [calls EXCEPT ![c].step = "updating"] /\ dns_lock' = dns_lock
  <2>1. DnsTyped'
    BY <1>1, <1>2, <1>3 DEF DnsInv, DnsTyped
  <2>2. wish # None
    BY <1>2, NoneAssumption DEF Wishes
  <2>3. DnsHeld' /\ StagedIsHeld'
    BY <1>1, <1>3, <2>2, PartsAssumption DEF DnsInv, DnsTyped, DnsHeld, StagedIsHeld,
       Dns!Setter, Refresher
  <2>4. ~crossed' => MadeFromSettings' /\ TellsRuntime'
    BY <1>1, <1>3 DEF DnsInv, DnsTyped, DnsHeld, MadeFromSettings, MadeFrom, TellsRuntime,
       Dns!Setter, Refresher
  <2> QED
    BY <2>1, <2>3, <2>4 DEF DnsInv
<1>4. CASE calls' = [calls EXCEPT ![c] = Dns!Idle] /\ dns_lock' = None /\ staged' = staged
  <2>1. DnsTyped'
    BY <1>1, <1>4 DEF DnsInv, DnsTyped, Dns!Idle
  <2>2. DnsHeld' /\ StagedIsHeld'
    BY <1>1, <1>4 DEF DnsInv, DnsTyped, DnsHeld, StagedIsHeld, Dns!Setter, Refresher, Dns!Idle
  <2>3. ~crossed' => MadeFromSettings' /\ TellsRuntime'
    BY <1>1, <1>4 DEF DnsInv, DnsTyped, DnsHeld, MadeFromSettings, MadeFrom, TellsRuntime,
       Dns!Setter, Refresher, Dns!Idle
  <2> QED
    BY <2>1, <2>2, <2>3 DEF DnsInv
<1> QED
  BY <1>1, <1>3, <1>4

LEMMA DnsSetEndsStep ==
  ASSUME DnsInv, NEW c \in Callers, Dns!SetEnds(c)
  PROVE  DnsInv'
<1>1. /\ calls[c].step = "applied" /\ Dns!Setter(c) /\ dns_lock = c /\ staged # None
           /\ staged \in Wishes
      /\ UNCHANGED <<source, updating, generated, runtime, begun, file_changes>>
      /\ settings' = IF runtime.enabled THEN staged ELSE Dns!Off
      /\ crossed' = (crossed \/ (Dns!OthersUpdate(c) /\ settings' # staged))
      /\ staged' = None /\ dns_lock' = None /\ calls' = [calls EXCEPT ![c] = Dns!Idle]
  BY DEF Dns!SetEnds, Dns!At, Dns!Goes, Dns!Ends, Dns!pipeline, DnsInv, DnsTyped, DnsHeld
<1>2. settings' \in Wishes
  BY <1>1 DEF Dns!Off, Wishes
<1>3. crossed' \in BOOLEAN /\ (~crossed' => ~crossed /\ (Dns!OthersUpdate(c) => settings' = staged))
  BY <1>1 DEF DnsInv, DnsTyped
<1>4. \A d \in Callers : calls'[d] = IF d = c THEN Dns!Idle ELSE calls[d]
  BY <1>1 DEF DnsInv, DnsTyped
<1>5. DnsTyped'
  BY <1>1, <1>2, <1>3 DEF DnsInv, DnsTyped, Dns!Idle
<1>6. DnsHeld' /\ StagedIsHeld'
  BY <1>1, <1>4 DEF DnsInv, DnsHeld, StagedIsHeld, Dns!Setter, Refresher, Dns!Idle
<1>7. ASSUME ~crossed' PROVE MadeFromSettings' /\ TellsRuntime'
  <2>1. \A d \in Callers \ {c} :
          /\ calls[d].step \in {"applying", "applied", "syncing"} => settings' = staged
          /\ Dns!Setter(d) => calls[d].step \notin {"applying", "applied"}
          /\ calls[d].step # "syncing"
    BY <1>1, <1>3, <1>7 DEF Dns!OthersUpdate, DnsInv, DnsHeld
  <2>2. MadeFromSettings
    BY <1>3, <1>7 DEF DnsInv
  <2>3. runtime.wish = staged
    BY <1>1, <2>2 DEF MadeFromSettings
  <2>4. settings'.on = runtime.enabled
    BY <1>1, <2>3 DEF DnsInv, DnsTyped, States, Wishes, Dns!Off
  <2>5. \A d \in Callers : calls[d].step = "applying" => generated.wish = staged
    BY <1>1, <2>2 DEF MadeFromSettings
  <2>6. MadeFromSettings'
    BY <1>1, <1>4, <2>1, <2>3, <2>5 DEF MadeFromSettings, MadeFrom, Dns!Setter, Refresher,
       Dns!Idle
  <2> QED
    BY <1>1, <2>4, <2>6 DEF TellsRuntime
<1> QED
  BY <1>5, <1>6, <1>7 DEF DnsInv

LEMMA DnsUpdateBusyStep ==
  ASSUME DnsInv, NEW c \in Callers, Dns!UpdateBusy(c)
  PROVE  DnsInv'
<1> USE DEF Dns!UpdateBusy, Dns!Drops, Dns!word, Dns!pipeline, Dns!At, Dns!Goes, Dns!Ends,
        Dns!Idle, Dns!OthersUpdate
<1>1. DnsTyped'
  BY DEF DnsInv, DnsTyped, States, Wishes
<1>2. DnsHeld'
  BY NoneAssumption, PartsAssumption DEF DnsInv, DnsTyped, DnsHeld, StagedIsHeld, Dns!Setter,
     Refresher
<1>3. StagedIsHeld'
  BY DEF DnsInv, DnsTyped, DnsHeld, StagedIsHeld, Dns!Setter
<1>4. ~crossed' => ~crossed
  BY DEF DnsInv, DnsTyped
<1>5. ~crossed' => MadeFromSettings'
  <2> SUFFICES ASSUME ~crossed' PROVE MadeFromSettings'
    OBVIOUS
  <2>1. /\ \A d \in Callers \ {c} : calls'[d] = calls[d]
        /\ calls'[c] = Dns!Idle
        /\ MadeFromSettings
        /\ settings' = settings /\ runtime' = runtime /\ generated' = generated
    BY <1>4 DEF DnsInv, DnsTyped
  <2>2. CASE Dns!Setter(c)
    <3>1. \A d \in Callers \ {c} : calls[d].step \notin {"applying", "applied", "syncing"}
      BY <2>2
    <3> QED
      BY <2>1, <3>1 DEF MadeFromSettings
  <2>3. CASE ~Dns!Setter(c)
    BY <2>1, <2>3 DEF MadeFromSettings, MadeFrom, Dns!Setter, Refresher
  <2> QED
    BY <2>2, <2>3
<1>6. ~crossed' => TellsRuntime'
  BY <1>4 DEF DnsInv, DnsTyped, DnsHeld, StagedIsHeld, MadeFromSettings, MadeFrom, TellsRuntime,
     Dns!Setter, Refresher
<1> QED
  BY <1>1, <1>2, <1>3, <1>5, <1>6 DEF DnsInv

LEMMA DnsUpdateGeneratesStep ==
  ASSUME DnsInv, NEW c \in Callers, Dns!UpdateGenerates(c)
  PROVE  DnsInv'
<1> USE DEF Dns!UpdateGenerates, Dns!State, Dns!word, Dns!pipeline, Dns!At, Dns!Goes, Dns!Ends,
        Dns!Idle, Dns!OthersUpdate
<1>1. DnsTyped'
  BY SMTT(30) DEF DnsInv, DnsTyped, States, Wishes
<1>2. DnsHeld'
  BY NoneAssumption, PartsAssumption DEF DnsInv, DnsTyped, DnsHeld, StagedIsHeld, Dns!Setter,
     Refresher
<1>3. StagedIsHeld'
  BY DEF DnsInv, DnsTyped, DnsHeld, StagedIsHeld, Dns!Setter
<1>4. ~crossed' => ~crossed
  BY DEF DnsInv, DnsTyped
<1>5. ~crossed' => MadeFromSettings'
  BY <1>4 DEF DnsInv, DnsTyped, DnsHeld, StagedIsHeld, MadeFromSettings, MadeFrom, Dns!Setter,
     Refresher
<1>6. ~crossed' => TellsRuntime'
  BY <1>4 DEF DnsInv, DnsTyped, DnsHeld, StagedIsHeld, MadeFromSettings, MadeFrom, TellsRuntime,
     Dns!Setter, Refresher
<1> QED
  BY <1>1, <1>2, <1>3, <1>5, <1>6 DEF DnsInv

LEMMA DnsUpdateAppliesStep ==
  ASSUME DnsInv, NEW c \in Callers, Dns!UpdateApplies(c)
  PROVE  DnsInv'
<1> USE DEF Dns!UpdateApplies, Dns!word, Dns!pipeline, Dns!At, Dns!Goes, Dns!Ends, Dns!Idle,
        Dns!OthersUpdate
<1>1. DnsTyped'
  BY DEF DnsInv, DnsTyped, States, Wishes
<1>2. DnsHeld'
  BY NoneAssumption, PartsAssumption DEF DnsInv, DnsTyped, DnsHeld, StagedIsHeld, Dns!Setter,
     Refresher
<1>3. StagedIsHeld'
  BY DEF DnsInv, DnsTyped, DnsHeld, StagedIsHeld, Dns!Setter
<1>4. ~crossed' => ~crossed
  BY DEF DnsInv, DnsTyped
<1>5. ~crossed' => MadeFromSettings'
  BY <1>4 DEF DnsInv, DnsTyped, DnsHeld, StagedIsHeld, MadeFromSettings, MadeFrom, Dns!Setter,
     Refresher
<1>6. ~crossed' => TellsRuntime'
  BY <1>4 DEF DnsInv, DnsTyped, DnsHeld, StagedIsHeld, MadeFromSettings, MadeFrom, TellsRuntime,
     Dns!Setter, Refresher
<1> QED
  BY <1>1, <1>2, <1>3, <1>5, <1>6 DEF DnsInv

LEMMA DnsUpdateFailsStep ==
  ASSUME DnsInv, NEW c \in Callers, Dns!UpdateFails(c)
  PROVE  DnsInv'
<1> USE DEF Dns!UpdateFails, Dns!Drops, Dns!word, Dns!pipeline, Dns!At, Dns!Goes, Dns!Ends,
        Dns!Idle, Dns!OthersUpdate
<1>1. DnsTyped'
  BY DEF DnsInv, DnsTyped, States, Wishes
<1>2. DnsHeld'
  BY NoneAssumption, PartsAssumption DEF DnsInv, DnsTyped, DnsHeld, StagedIsHeld, Dns!Setter,
     Refresher
<1>3. StagedIsHeld'
  BY DEF DnsInv, DnsTyped, DnsHeld, StagedIsHeld, Dns!Setter
<1>4. ~crossed' => ~crossed
  BY DEF DnsInv, DnsTyped
<1>5. ~crossed' => MadeFromSettings'
  <2> SUFFICES ASSUME ~crossed' PROVE MadeFromSettings'
    OBVIOUS
  <2>1. /\ \A d \in Callers \ {c} : calls'[d] = calls[d] /\ calls[d].step # "applying"
        /\ calls'[c] = Dns!Idle
        /\ MadeFromSettings /\ settings' = settings /\ runtime' = runtime
    BY <1>4 DEF DnsInv, DnsTyped, DnsHeld
  <2>2. CASE Dns!Setter(c)
    <3>1. \A d \in Callers \ {c} : calls[d].step \notin {"applied", "syncing"}
      BY <2>2
    <3> QED
      BY <2>1, <3>1 DEF MadeFromSettings
  <2>3. CASE ~Dns!Setter(c)
    BY <2>1, <2>3 DEF MadeFromSettings, MadeFrom, Dns!Setter, Refresher
  <2> QED
    BY <2>2, <2>3
<1>6. ~crossed' => TellsRuntime'
  BY <1>4 DEF DnsInv, DnsTyped, DnsHeld, StagedIsHeld, MadeFromSettings, MadeFrom, TellsRuntime,
     Dns!Setter, Refresher
<1> QED
  BY <1>1, <1>2, <1>3, <1>5, <1>6 DEF DnsInv

LEMMA DnsSyncReadsStep ==
  ASSUME DnsInv, NEW c \in Callers, Dns!SyncReads(c)
  PROVE  DnsInv'
<1>1. /\ calls[c].step = "applied" /\ Refresher(c) /\ dns_lock = None /\ staged = None
      /\ UNCHANGED <<source, settings, staged, updating, generated, runtime, begun,
             file_changes, crossed>>
      /\ dns_lock' = c
      /\ calls' = [calls EXCEPT ![c].step = "syncing", ![c].read = runtime]
  BY DEF Dns!SyncReads, Dns!At, Dns!pipeline, DnsInv, DnsTyped, DnsHeld, StagedIsHeld
<1>2. /\ \A d \in Callers \ {c} : calls'[d] = calls[d]
      /\ calls'[c].op = "refresh" /\ calls'[c].step = "syncing" /\ calls'[c].read = runtime
      /\ calls' \in [Callers -> [op : {"none", "enable", "disable", "refresh"},
                                 step : {"none", "locking", "staging", "updating", "applying",
                                         "applied", "syncing"},
                                 read : Sources \cup {None} \cup States]]
  <2> DEFINE synced == [calls[c] EXCEPT !.step = "syncing", !.read = runtime]
  <2>0. /\ calls[c] \in [op : {"none", "enable", "disable", "refresh"},
                         step : {"none", "locking", "staging", "updating", "applying", "applied",
                                 "syncing"},
                         read : Sources \cup {None} \cup States]
        /\ calls[c].op = "refresh" /\ runtime \in States
    BY <1>1 DEF DnsInv, DnsTyped, Refresher
  <2>1. /\ synced \in [op : {"none", "enable", "disable", "refresh"},
                       step : {"none", "locking", "staging", "updating", "applying", "applied",
                               "syncing"},
                       read : Sources \cup {None} \cup States]
        /\ synced.op = "refresh" /\ synced.step = "syncing" /\ synced.read = runtime
    BY <2>0
  <2>2. calls' = [calls EXCEPT ![c] = synced]
    BY <1>1
  <2> HIDE DEF synced
  <2> QED
    BY <2>1, <2>2 DEF DnsInv, DnsTyped
<1>3. DnsTyped'
  BY <1>1, <1>2 DEF DnsInv, DnsTyped
<1>4. DnsHeld' /\ StagedIsHeld'
  BY <1>1, <1>2, PartsAssumption DEF DnsInv, DnsHeld, StagedIsHeld, Dns!Setter, Refresher
<1>5. ASSUME ~crossed' PROVE MadeFromSettings' /\ TellsRuntime'
  <2>1. /\ MadeFromSettings /\ settings' = settings /\ runtime' = runtime
        /\ generated' = generated /\ staged' = staged /\ staged = None
    BY <1>1, <1>5 DEF DnsInv
  <2>2. runtime.wish = settings
    BY <1>1, <2>1 DEF MadeFromSettings, MadeFrom
  <2>3. \A d \in Callers :
          calls[d].step # "syncing" /\ ~(Dns!Setter(d) /\ calls[d].step = "applied")
    BY <1>1, PartsAssumption DEF DnsInv, DnsHeld
  <2>4. calls'[c].read.wish = settings /\ calls'[c].read = runtime
    BY <1>2, <2>2
  <2>5. MadeFromSettings'
    BY <1>2, <2>1, <2>3, <2>4 DEF MadeFromSettings, MadeFrom, Dns!Setter, Refresher
  <2> QED
    BY <1>2, <2>5 DEF TellsRuntime
<1> QED
  BY <1>3, <1>4, <1>5 DEF DnsInv

LEMMA DnsSyncAppliesStep ==
  ASSUME DnsInv, NEW c \in Callers, Dns!SyncApplies(c)
  PROVE  DnsInv'
<1>1. /\ calls[c].step = "syncing" /\ Refresher(c) /\ dns_lock = c /\ staged = None
      /\ UNCHANGED <<source, staged, updating, generated, runtime, begun, file_changes>>
      /\ settings' = Dns!Synced(calls[c].read, settings)
      /\ crossed' = (crossed \/ (Dns!OthersUpdate(c) /\ settings' # settings))
      /\ dns_lock' = None /\ calls' = [calls EXCEPT ![c] = Dns!Idle]
      /\ calls[c].read \in States
  BY DEF Dns!SyncApplies, Dns!At, Dns!Ends, Dns!pipeline, DnsInv, DnsTyped, DnsHeld,
     StagedIsHeld, Dns!Setter, Refresher
<1>2. settings' \in Wishes /\ (calls[c].read.wish = settings =>
        settings'.on = calls[c].read.enabled)
  BY <1>1 DEF Dns!Synced, Wishes, States, DnsInv, DnsTyped
<1>3. crossed' \in BOOLEAN /\ (~crossed' => ~crossed /\ (Dns!OthersUpdate(c) =>
        settings' = settings))
  BY <1>1 DEF DnsInv, DnsTyped
<1>4. \A d \in Callers : calls'[d] = IF d = c THEN Dns!Idle ELSE calls[d]
  BY <1>1 DEF DnsInv, DnsTyped
<1>5. DnsTyped'
  BY <1>1, <1>2, <1>3 DEF DnsInv, DnsTyped, Dns!Idle
<1>6. DnsHeld' /\ StagedIsHeld'
  BY <1>1, <1>4 DEF DnsInv, DnsHeld, StagedIsHeld, Dns!Setter, Refresher, Dns!Idle
<1>7. ASSUME ~crossed' PROVE MadeFromSettings' /\ TellsRuntime'
  <2>1. \A d \in Callers \ {c} :
          /\ calls[d].step \in {"applying", "applied", "syncing"} => settings' = settings
          /\ Dns!Setter(d) => calls[d].step \notin {"applying", "applied"}
          /\ calls[d].step # "syncing"
    BY <1>1, <1>3, <1>7 DEF Dns!OthersUpdate, DnsInv, DnsHeld
  <2>2. MadeFromSettings
    BY <1>3, <1>7 DEF DnsInv
  <2>3. settings'.on = calls[c].read.enabled /\ (calls[c].read = runtime
          \/ \E d \in Callers : calls[d].step = "applied")
    BY <1>1, <1>2, <2>2 DEF MadeFromSettings
  <2>4. TellsRuntime'
    BY <1>1, <1>4, <2>3 DEF TellsRuntime
  <2>5. MadeFromSettings'
    BY <1>1, <1>4, <2>1, <2>2 DEF MadeFromSettings, MadeFrom, Dns!Setter, Refresher, Dns!Idle
  <2> QED
    BY <2>4, <2>5
<1> QED
  BY <1>5, <1>6, <1>7 DEF DnsInv

\* The invariant is inductive, and implies the property.
LEMMA DnsInit == ASSUME Dns!Init PROVE DnsInv
<1>1. /\ source \in Sources \cup {None} /\ settings = Dns!Off /\ staged = None
      /\ dns_lock = None /\ updating = None
      /\ generated = Dns!State(source, Dns!Off) /\ runtime = Dns!State(source, Dns!Off)
      /\ calls = [c \in Callers |-> Dns!Idle] /\ crossed = FALSE
  BY DEF Dns!Init
<1>2. /\ Dns!Off \in Wishes /\ Dns!Off.on = FALSE
      /\ Dns!State(source, Dns!Off) \in States /\ Dns!State(source, Dns!Off).enabled = FALSE
  BY <1>1 DEF Dns!Off, Dns!State, Wishes, States
<1>3. DnsTyped
  BY <1>1, <1>2 DEF DnsTyped, Dns!Idle
<1>4. \A c \in Callers : calls[c].step = "none"
  BY <1>1 DEF Dns!Idle
<1>5. DnsHeld /\ StagedIsHeld /\ MadeFromSettings /\ TellsRuntime
  BY <1>1, <1>2, <1>4 DEF DnsHeld, StagedIsHeld, MadeFromSettings, TellsRuntime, Dns!Setter,
     Refresher, Dns!Idle
<1> QED
  BY <1>3, <1>5 DEF DnsInv

LEMMA DnsStep == ASSUME DnsInv, Dns!Next PROVE DnsInv'
BY DnsFileChangesStep, DnsBeginStep, DnsSetLocksStep, DnsSetStagesStep, DnsSetEndsStep,
   DnsUpdateBusyStep, DnsUpdateGeneratesStep, DnsUpdateAppliesStep, DnsUpdateFailsStep,
   DnsSyncReadsStep, DnsSyncAppliesStep DEF Dns!Next

LEMMA DnsIsTold == ASSUME DnsInv PROVE Dns!SettingsTellRuntime
BY PartsAssumption DEF DnsInv, DnsHeld, TellsRuntime, Dns!SettingsTellRuntime, Dns!At

\* Once nothing is at work TUN, the hotkeys and the DNS page are what their switches say:
\* after any changes of the run state, patches, focus events, updates and failures of them,
\* in any order (TunReconcile, Hotkeys, DnsOverride).
THEOREM SwitchesTellTheTruth == Spec => []SettingsAreInForce
<1> DEFINE Inv == /\ part = "dns" => DnsInv
                  /\ part = "tun" => TunInv
                  /\ part = "hotkeys" => HotkeysInv
<1>1. Init => Inv
  BY DnsInit, TunInit, HotkeysInit DEF Init
<1>2. Inv /\ [Next]_mcvars => Inv'
  <2> SUFFICES ASSUME Inv, [Next]_mcvars PROVE Inv'
    OBVIOUS
  <2>0. part' = part
    BY PartStays
  <2>1. CASE part = "dns"
    <3>1. CASE Dns!Next
      BY <2>0, <2>1, <3>1, DnsStep
    <3>2. CASE UNCHANGED dns_vars
      BY <2>0, <2>1, <3>2 DEF dns_vars, DnsInv, DnsTyped, DnsHeld, StagedIsHeld,
         MadeFromSettings, MadeFrom, TellsRuntime, Dns!Setter, Refresher
    <3> QED
      BY <2>1, <3>1, <3>2 DEF Next, mcvars
  <2>2. CASE part = "tun"
    <3>1. CASE Tun!Next
      BY <2>0, <2>2, <3>1, TunStep
    <3>2. CASE UNCHANGED tun_vars
      BY <2>0, <2>2, <3>2 DEF tun_vars, TunInv, Reconciling, Tun!ShouldBeDisabled,
         Tun!TunCapable, Tun!ServiceUsable, Tun!NeedsAttention
    <3> QED
      BY <2>2, <3>1, <3>2 DEF Next, mcvars
  <2>3. CASE part = "hotkeys"
    <3>1. CASE Keyboard!Next
      BY <2>0, <2>3, <3>1, HotkeysStep
    <3>2. CASE UNCHANGED hotkeys_vars
      BY <2>0, <2>3, <3>2 DEF hotkeys_vars, HotkeysInv, HotkeysTyped, FocusFollowed,
         PatchFollowed
    <3> QED
      BY <2>3, <3>1, <3>2 DEF Next, mcvars
  <2> QED
    BY <2>0, <2>1, <2>2, <2>3
<1>3. Inv => SettingsAreInForce
  BY DnsIsTold, TunIsOff, HotkeysAreThere DEF SettingsAreInForce
<1> QED
  BY <1>1, <1>2, <1>3, PTL DEF Spec

-----------------------------------------------------------------------------
(* The pipeline of enhance *)

\* The fields the application sets in one of the stages.
OwnedFields == Enhanced!Control \cup Enhanced!GuiTun \cup {"tun.enable"}
                   \cup DOMAIN Enhanced!Applied

\* The value the application insists on.
Wanted(f) ==
  IF f \in Enhanced!Paged THEN page[f]
  ELSE IF f = "tun.enable" THEN Enhanced!Switched("tun")
  ELSE IF f = "mode" /\ "builtin" \in on THEN Enhanced!Guarded(Enhanced!AppValue("mode"))
  ELSE Enhanced!AppValue(f)

\* What the variables of the part hold.
EnhanceTyped ==
  /\ scope \in {"ports", "lan", "tun", "dns", "groups"}
  /\ config \in [Enhanced!Fields[scope] -> {config[f] : f \in Enhanced!Fields[scope]}]
  /\ DOMAIN page = Enhanced!Fields[scope] \cap Enhanced!Paged
  /\ graph \in Enhanced!Graphs

\* What the application has set until it captures it.
SetSoFar ==
  /\ stage \in {"builtin", "tun", "page", "capture"} =>
       /\ \A f \in (Enhanced!Control \ {"mode"}) \cup Enhanced!GuiTun :
            Enhanced!Holds(f, Enhanced!AppValue(f))
       /\ Enhanced!Holds("mode", IF stage = "builtin" THEN Enhanced!AppValue("mode")
              ELSE Wanted("mode"))
  /\ stage \in {"page", "capture"} => Enhanced!Holds("tun.enable", Wanted("tun.enable"))
  /\ stage = "capture" => \A f \in DOMAIN Enhanced!Applied : Enhanced!Holds(f, page[f])

\* What it captures it keeps while merges and scripts rewrite the configuration.
CapturedIsWanted ==
  stage \in {"global merge", "global script", "merge", "script", "enforce"} =>
    /\ DOMAIN owned = {f \in Enhanced!Fields[scope] \cap OwnedFields : Wanted(f) # None}
    /\ \A f \in DOMAIN owned : owned[f] = Wanted(f)

\* What was captured is back once it has been enforced.
EnforcedStands ==
  /\ stage \in {"lan", "groups", "done"} => \A f \in OwnedFields : Enhanced!Holds(f, Wanted(f))
  /\ stage \in {"groups", "done"} /\ scope = "lan" /\ "lan" \in on =>
       config["bind-address"] # "loopback"

\* The inductive invariant of the pipeline.
EnhanceInv ==
  EnhanceTyped /\ SetSoFar /\ CapturedIsWanted /\ EnforcedStands /\ Enhanced!NothingDangles

\* The switches and the page are those of the start.
LEMMA WantedStays ==
  ASSUME UNCHANGED <<scope, on, page>>
  PROVE  /\ OwnedFields' = OwnedFields /\ Enhanced!GuiTun' = Enhanced!GuiTun
         /\ Enhanced!Applied' = Enhanced!Applied
         /\ \A f : Wanted(f)' = Wanted(f) /\ Enhanced!AppValue(f)' = Enhanced!AppValue(f)
BY DEF OwnedFields, Wanted, Enhanced!GuiTun, Enhanced!Applied, Enhanced!AppValue,
   Enhanced!Switched

\* A field outside the scope is nobody's.
LEMMA ScopeFields ==
  ASSUME EnhanceTyped
  PROVE  /\ DOMAIN config = Enhanced!Fields[scope]
         /\ scope # "groups" => Enhanced!Fields[scope] \subseteq
              {"port", "external-controller", "mode", "allow-lan", "bind-address", "tun.enable",
               "tun.stack", "dns.enable", "dns.enhanced-mode", "dns.nameserver", "hosts"}
         /\ "mode" \in Enhanced!Fields[scope] => scope = "ports"
         /\ "mode" \notin Enhanced!Fields[scope] => scope # "ports"
         /\ scope = "lan" => /\ "allow-lan" \in Enhanced!Fields[scope]
                             /\ "bind-address" \in Enhanced!Fields[scope]
BY DEF EnhanceTyped, Enhanced!Fields

\* What the page applies it has a value for, and none of the application's own fields.
LEMMA AppliedOps ==
  ASSUME EnhanceTyped
  PROVE  /\ DOMAIN Enhanced!Applied = {f \in DOMAIN page : page[f] \notin {None, "off"}}
         /\ \A f \in DOMAIN Enhanced!Applied :
              /\ Enhanced!Applied[f] = page[f] /\ page[f] # None
              /\ f \in Enhanced!Paged /\ f \in Enhanced!Fields[scope]
         /\ Enhanced!Paged \cap (Enhanced!Control \cup {"tun.enable", "tun.stack"}) = {}
         /\ Enhanced!GuiTun \subseteq {"tun.stack"}
         /\ "mode" \in Enhanced!Control /\ "allow-lan" \in Enhanced!Control
         /\ "tun.enable" \notin Enhanced!Control /\ "tun.stack" \notin Enhanced!Control
         /\ "bind-address" \notin Enhanced!Control \cup Enhanced!Paged
         /\ "allow-lan" # "mode"
BY DEF EnhanceTyped, Enhanced!Applied, Enhanced!Only, Enhanced!Paged, Enhanced!Control,
   Enhanced!GuiTun

\* What the application wants, field by field.
LEMMA WantedOps ==
  ASSUME EnhanceTyped
  PROVE  /\ \A f \in (Enhanced!Control \ {"mode"}) \cup Enhanced!GuiTun : Wanted(f) =
                Enhanced!AppValue(f)
         /\ Wanted("mode") = IF "builtin" \in on THEN Enhanced!Guarded(Enhanced!AppValue("mode"))
                             ELSE Enhanced!AppValue("mode")
         /\ Wanted("tun.enable") = Enhanced!Switched("tun")
         /\ \A f \in DOMAIN Enhanced!Applied : Wanted(f) = page[f]
         /\ \A f \in OwnedFields : Wanted(f) = None => f \in Enhanced!Control
<1>1. /\ \A f \in (Enhanced!Control \ {"mode"}) \cup Enhanced!GuiTun : Wanted(f) =
             Enhanced!AppValue(f)
      /\ Wanted("mode") = IF "builtin" \in on THEN Enhanced!Guarded(Enhanced!AppValue("mode"))
                          ELSE Enhanced!AppValue("mode")
      /\ Wanted("tun.enable") = Enhanced!Switched("tun")
      /\ \A f \in DOMAIN Enhanced!Applied : Wanted(f) = page[f]
  BY AppliedOps DEF Wanted
<1>2. Enhanced!Switched("tun") # None /\ Enhanced!AppValue("tun.stack") # None
  BY NoneAssumption DEF Enhanced!Switched, Enhanced!AppValue
<1>3. \A f \in OwnedFields : Wanted(f) = None => f \in Enhanced!Control
  BY <1>1, <1>2, AppliedOps DEF OwnedFields
<1> QED
  BY <1>1, <1>3

\* A later stage owes nothing of what an earlier one does.
LEMMA FunctionTyped ==
  ASSUME EnhanceTyped, UNCHANGED <<scope, page>>, graph' \in Enhanced!Graphs,
         DOMAIN config' = DOMAIN config, config' = [f \in DOMAIN config' |-> config'[f]]
  PROVE  EnhanceTyped'
BY DEF EnhanceTyped

\* Each stage of the pipeline keeps it.
LEMMA UseSeqStep ==
  ASSUME EnhanceInv, Enhanced!UseSeq
  PROVE  EnhanceInv'
<1>1. stage = "seq" /\ stage' = "default" /\ UNCHANGED <<scope, on, page, config, owned>>
  BY DEF Enhanced!UseSeq, Enhanced!Step
<1>2. graph' \in Enhanced!Graphs
  <2>1. CASE scope # "groups"
    BY <2>1 DEF Enhanced!UseSeq, EnhanceInv, EnhanceTyped
  <2>2. CASE scope = "groups"
    <3>1. PICK added \in SUBSET Names, deleted \in SUBSET Names, selector \in Groups \cup {None} :
            graph' = [graph EXCEPT
                        !.names = (@ \ deleted) \cup added,
                        !.refs = [g \in Groups |-> (@[g] \ deleted) \cup IF g = selector
                            THEN added ELSE {}]]
      BY <2>2 DEF Enhanced!UseSeq
    <3>2. graph \in Enhanced!Graphs
      BY DEF EnhanceInv, EnhanceTyped
    <3> DEFINE names == (graph.names \ deleted) \cup added
               refs == [g \in Groups |-> (graph.refs[g] \ deleted) \cup IF g = selector
                           THEN added ELSE {}]
    <3>3. names \in SUBSET Names /\ refs \in [Groups -> SUBSET (Names \cup {"DIRECT"})]
      BY <3>2 DEF Enhanced!Graphs
    <3>4. graph' = [graph EXCEPT !.names = names, !.refs = refs]
      BY <3>1
    <3> HIDE DEF names, refs
    <3> QED
      BY <3>2, <3>3, <3>4 DEF Enhanced!Graphs
  <2> QED
    BY <2>1, <2>2
<1>3. EnhanceTyped'
  BY <1>1, <1>2 DEF EnhanceInv, EnhanceTyped
<1> QED
  BY <1>1, <1>3 DEF EnhanceInv, SetSoFar, CapturedIsWanted, EnforcedStands,
     Enhanced!NothingDangles

LEMMA MergeDefaultStep ==
  ASSUME EnhanceInv, Enhanced!MergeDefault
  PROVE  EnhanceInv'
<1>1. /\ stage = "default" /\ stage' = "builtin" /\ UNCHANGED <<scope, on, page, owned, graph>>
      /\ config' = Enhanced!Over(config, [f \in Enhanced!Control \cup Enhanced!GuiTun
             |-> Enhanced!AppValue(f)])
  BY DEF Enhanced!MergeDefault, Enhanced!Step
<1>2. /\ DOMAIN config' = DOMAIN config /\ config' = [f \in DOMAIN config' |-> config'[f]]
      /\ \A f \in DOMAIN config : f \in Enhanced!Control \cup Enhanced!GuiTun =>
           config'[f] = Enhanced!AppValue(f)
  BY <1>1 DEF Enhanced!Over
<1>3. EnhanceTyped'
  BY <1>1, <1>2, FunctionTyped DEF EnhanceInv, EnhanceTyped
<1>4. SetSoFar'
  BY <1>1, <1>2, WantedStays, AppliedOps DEF SetSoFar, Enhanced!Holds, EnhanceInv
<1> QED
  BY <1>1, <1>3, <1>4 DEF EnhanceInv, CapturedIsWanted, EnforcedStands, Enhanced!NothingDangles

LEMMA BuiltinScriptsStep ==
  ASSUME EnhanceInv, Enhanced!BuiltinScripts
  PROVE  EnhanceInv'
<1>1. /\ stage = "builtin" /\ stage' = "tun" /\ UNCHANGED <<scope, on, page, owned, graph>>
      /\ config' = IF "builtin" \in on /\ scope = "ports"
                   THEN [config EXCEPT !["mode"] = Enhanced!Guarded(config["mode"])] ELSE config
  BY DEF Enhanced!BuiltinScripts, Enhanced!Step
<1>2. /\ DOMAIN config' = DOMAIN config /\ config' = [f \in DOMAIN config' |-> config'[f]]
      /\ \A f \in DOMAIN config \ {"mode"} : config'[f] = config[f]
      /\ "mode" \in DOMAIN config =>
           config'["mode"] = IF "builtin" \in on THEN Enhanced!Guarded(config["mode"])
               ELSE config["mode"]
  BY <1>1, ScopeFields DEF EnhanceInv, EnhanceTyped
<1>3. EnhanceTyped'
  BY <1>1, <1>2, FunctionTyped DEF EnhanceInv, EnhanceTyped
<1>4. SetSoFar'
  BY <1>1, <1>2, WantedStays, AppliedOps, WantedOps DEF SetSoFar, Enhanced!Holds, EnhanceInv
<1> QED
  BY <1>1, <1>3, <1>4 DEF EnhanceInv, CapturedIsWanted, EnforcedStands, Enhanced!NothingDangles

LEMMA UseTunStep ==
  ASSUME EnhanceInv, Enhanced!UseTun
  PROVE  EnhanceInv'
<1>1. /\ stage = "tun" /\ stage' = "page" /\ UNCHANGED <<scope, on, page, owned, graph>>
  BY DEF Enhanced!UseTun, Enhanced!Step
<1>2. /\ DOMAIN config' = DOMAIN config /\ config' = [f \in DOMAIN config' |-> config'[f]]
      /\ \A f \in DOMAIN config \ {"tun.enable", "dns.enable", "dns.enhanced-mode"} :
             config'[f] = config[f]
      /\ "tun.enable" \in DOMAIN config => config'["tun.enable"] = Enhanced!Switched("tun")
  BY DEF Enhanced!UseTun, Enhanced!Over, Enhanced!FakeIpDns
<1>3. EnhanceTyped'
  BY <1>1, <1>2, FunctionTyped DEF EnhanceInv, EnhanceTyped
<1>4. {"dns.enable", "dns.enhanced-mode"} \subseteq Enhanced!Paged
  BY DEF Enhanced!Paged
<1>5. SetSoFar'
  BY <1>1, <1>2, <1>4, WantedStays, AppliedOps, WantedOps DEF SetSoFar, Enhanced!Holds,
     EnhanceInv
<1> QED
  BY <1>1, <1>3, <1>5 DEF EnhanceInv, CapturedIsWanted, EnforcedStands, Enhanced!NothingDangles

LEMMA DnsSettingsStep ==
  ASSUME EnhanceInv, Enhanced!DnsSettings
  PROVE  EnhanceInv'
<1>1. /\ stage = "page" /\ stage' = "capture" /\ UNCHANGED <<scope, on, page, owned, graph>>
      /\ config' = Enhanced!Over(config, Enhanced!Applied)
  BY DEF Enhanced!DnsSettings, Enhanced!Step
<1>2. /\ DOMAIN config' = DOMAIN config /\ config' = [f \in DOMAIN config' |-> config'[f]]
      /\ \A f \in DOMAIN config :
           config'[f] = IF f \in DOMAIN Enhanced!Applied THEN Enhanced!Applied[f] ELSE config[f]
  BY <1>1 DEF Enhanced!Over
<1>3. EnhanceTyped'
  BY <1>1, <1>2, FunctionTyped DEF EnhanceInv, EnhanceTyped
<1>4. SetSoFar'
  BY <1>1, <1>2, WantedStays, AppliedOps, WantedOps DEF SetSoFar, Enhanced!Holds, EnhanceInv
<1> QED
  BY <1>1, <1>3, <1>4 DEF EnhanceInv, CapturedIsWanted, EnforcedStands, Enhanced!NothingDangles

LEMMA CaptureStep ==
  ASSUME EnhanceInv, Enhanced!Capture
  PROVE  EnhanceInv'
<1> DEFINE S == Enhanced!Control \cup {"tun.enable"} \cup Enhanced!GuiTun
               \cup DOMAIN Enhanced!Applied
<1>1. /\ stage = "capture" /\ stage' = "global merge"
           /\ UNCHANGED <<scope, on, page, config, graph>>
      /\ owned' = Enhanced!Over(Enhanced!Present(config, S), Enhanced!Applied)
  BY DEF Enhanced!Capture, Enhanced!Step, Enhanced!Captured
<1>2. S = OwnedFields
  BY DEF OwnedFields
<1> HIDE DEF S
<1>3. /\ DOMAIN owned' = {f \in DOMAIN config \cap OwnedFields : config[f] # None}
      /\ \A f \in DOMAIN owned' :
           owned'[f] = IF f \in DOMAIN Enhanced!Applied THEN Enhanced!Applied[f] ELSE config[f]
  BY <1>1, <1>2 DEF Enhanced!Over, Enhanced!Present, Enhanced!Only
<1>4. \A f \in DOMAIN config \cap OwnedFields : config[f] = Wanted(f)
  BY ZenonT(40), <1>1, AppliedOps, WantedOps DEF EnhanceInv, SetSoFar, Enhanced!Holds, OwnedFields
<1>5. EnhanceTyped'
  BY <1>1 DEF EnhanceInv, EnhanceTyped
<1>6. CapturedIsWanted'
  <2>1. /\ DOMAIN owned' = {f \in Enhanced!Fields[scope] \cap OwnedFields : Wanted(f) # None}
        /\ \A f \in DOMAIN owned' : owned'[f] = Wanted(f)
    <3>1. DOMAIN config = Enhanced!Fields[scope]
      BY ScopeFields DEF EnhanceInv
    <3>2. \A f \in DOMAIN Enhanced!Applied : Enhanced!Applied[f] = Wanted(f)
      BY AppliedOps, WantedOps DEF EnhanceInv
    <3> QED
      BY <1>3, <1>4, <3>1, <3>2
  <2>2. OwnedFields' = OwnedFields /\ \A f : Wanted(f)' = Wanted(f)
    BY <1>1, WantedStays
  <2>3. DOMAIN owned' = {f \in Enhanced!Fields[scope]' \cap OwnedFields' : Wanted(f)' # None}
    BY <1>1, <2>1, <2>2
  <2> QED
    BY <2>1, <2>2, <2>3 DEF CapturedIsWanted
<1> QED
  BY <1>1, <1>5, <1>6 DEF EnhanceInv, SetSoFar, EnforcedStands, Enhanced!NothingDangles

\* Whatever merges and scripts write, they write fields of the configuration, not what the
\* application has captured.
LEMMA OverrideStep ==
  ASSUME EnhanceInv,
         NEW from \in {"global merge", "global script", "merge", "script"},
         NEW to \in {"global script", "merge", "script", "enforce"},
         Enhanced!Merge(from, to) \/ Enhanced!Script(from, to)
  PROVE  EnhanceInv'
<1>1. /\ stage = from /\ stage' = to /\ UNCHANGED <<scope, on, page, owned>>
      /\ Enhanced!Rewrites
  BY DEF Enhanced!Merge, Enhanced!Script, Enhanced!Step
<1>2. graph' \in Enhanced!Graphs
  BY <1>1 DEF Enhanced!Rewrites, EnhanceInv, EnhanceTyped
<1>3. DOMAIN config' = DOMAIN config /\ config' = [f \in DOMAIN config' |-> config'[f]]
  BY DEF Enhanced!Merge, Enhanced!Script, EnhanceInv, EnhanceTyped
<1>4. EnhanceTyped'
  BY <1>1, <1>2, <1>3, FunctionTyped DEF EnhanceInv
<1>5. CapturedIsWanted'
  BY <1>1, WantedStays DEF CapturedIsWanted, EnhanceInv
<1> QED
  BY <1>1, <1>4, <1>5 DEF EnhanceInv, SetSoFar, EnforcedStands, Enhanced!NothingDangles

LEMMA EnforceStep ==
  ASSUME EnhanceInv, Enhanced!Enforce
  PROVE  EnhanceInv'
<1>1. /\ stage = "enforce" /\ stage' = "lan" /\ UNCHANGED <<scope, on, page, owned, graph>>
      /\ config' = [f \in DOMAIN config |-> IF f \in DOMAIN owned THEN owned[f]
                                            ELSE IF f \in Enhanced!Control THEN None ELSE config[f]]
  BY DEF Enhanced!Enforce, Enhanced!Step
<1>2. DOMAIN config' = DOMAIN config /\ config' = [f \in DOMAIN config' |-> config'[f]]
  BY <1>1
<1>3. EnhanceTyped'
  BY <1>1, <1>2, FunctionTyped DEF EnhanceInv, EnhanceTyped
<1>4. /\ DOMAIN owned = {f \in Enhanced!Fields[scope] \cap OwnedFields : Wanted(f) # None}
      /\ \A f \in DOMAIN owned : owned[f] = Wanted(f)
  BY <1>1 DEF CapturedIsWanted, EnhanceInv
<1>5. \A f \in OwnedFields : f \in DOMAIN config => config'[f] = Wanted(f)
  BY <1>1, <1>4, WantedOps, ScopeFields DEF EnhanceInv
<1>6. EnforcedStands'
  BY <1>1, <1>2, <1>5, WantedStays DEF EnforcedStands, Enhanced!Holds
<1> QED
  BY <1>1, <1>3, <1>6 DEF EnhanceInv, SetSoFar, CapturedIsWanted, Enhanced!NothingDangles

LEMMA LanBindAddressStep ==
  ASSUME EnhanceInv, Enhanced!LanBindAddress
  PROVE  EnhanceInv'
<1>1. /\ stage = "lan" /\ stage' = "groups" /\ UNCHANGED <<scope, on, page, owned, graph>>
      /\ config' = IF scope = "lan" /\ config["allow-lan"] = "on"
           /\ config["bind-address"] = "loopback"
                   THEN [config EXCEPT !["bind-address"] = "any"] ELSE config
  BY DEF Enhanced!LanBindAddress, Enhanced!Step
<1>2. /\ DOMAIN config' = DOMAIN config /\ config' = [f \in DOMAIN config' |-> config'[f]]
      /\ \A f \in DOMAIN config \ {"bind-address"} : config'[f] = config[f]
  BY <1>1 DEF EnhanceInv, EnhanceTyped
<1>3. EnhanceTyped'
  BY <1>1, <1>2, FunctionTyped DEF EnhanceInv, EnhanceTyped
<1>4. "bind-address" \notin OwnedFields
  BY AppliedOps DEF OwnedFields, EnhanceInv
<1>5. \A f \in OwnedFields : f \in DOMAIN config' => config'[f] = Wanted(f)
  BY <1>1, <1>2, <1>4 DEF EnhanceInv, EnforcedStands, Enhanced!Holds
<1>6. scope = "lan" /\ "lan" \in on => config'["bind-address"] # "loopback"
  <2> SUFFICES ASSUME scope = "lan", "lan" \in on PROVE config'["bind-address"] # "loopback"
    OBVIOUS
  <2>1. "allow-lan" \in DOMAIN config /\ "bind-address" \in DOMAIN config
          /\ "allow-lan" \in OwnedFields
    BY ScopeFields, AppliedOps DEF EnhanceInv, OwnedFields
  <2>2. config["allow-lan"] = Enhanced!AppValue("allow-lan")
    BY <1>1, <2>1, WantedOps, AppliedOps DEF EnhanceInv, EnforcedStands, Enhanced!Holds
  <2>3. Enhanced!AppValue("allow-lan") = "on"
    BY DEF Enhanced!AppValue, Enhanced!Switched
  <2> QED
    BY <1>1, <2>1, <2>2, <2>3
<1>7. EnforcedStands'
  BY <1>1, <1>5, <1>6, WantedStays DEF EnforcedStands, Enhanced!Holds
<1> QED
  BY <1>1, <1>3, <1>7 DEF EnhanceInv, SetSoFar, CapturedIsWanted, Enhanced!NothingDangles

LEMMA CleanGroupsStep ==
  ASSUME EnhanceInv, Enhanced!CleanGroups
  PROVE  EnhanceInv'
<1> DEFINE uses == [g \in Groups |-> graph.uses[g] \cap graph.providers]
           refs == [g \in Groups |-> IF graph.uses[g] \cap graph.providers # {} THEN graph.refs[g]
                                     ELSE graph.refs[g] \cap Enhanced!Allowed]
<1>1. /\ stage = "groups" /\ stage' = "done" /\ UNCHANGED <<scope, on, page, config, owned>>
      /\ graph' = [graph EXCEPT !.uses = uses, !.refs = refs]
  BY DEF Enhanced!CleanGroups, Enhanced!Step
<1>2. graph \in Enhanced!Graphs
  BY DEF EnhanceInv, EnhanceTyped
<1>3. uses \in [Groups -> SUBSET Providers] /\ refs \in [Groups -> SUBSET (Names \cup {"DIRECT"})]
  BY <1>2 DEF Enhanced!Graphs
<1>4. \A g \in Groups : /\ uses[g] \subseteq graph.providers
                        /\ uses[g] = {} => refs[g] \subseteq Enhanced!Allowed
  OBVIOUS
<1> HIDE DEF uses, refs
<1>5. /\ graph' \in Enhanced!Graphs /\ graph'.uses = uses /\ graph'.refs = refs
      /\ graph'.names = graph.names /\ graph'.providers = graph.providers
  BY <1>1, <1>2, <1>3 DEF Enhanced!Graphs
<1>6. EnhanceTyped'
  BY <1>1, <1>5 DEF EnhanceInv, EnhanceTyped
<1>7. Enhanced!NothingDangles'
  BY <1>4, <1>5 DEF Enhanced!NothingDangles, Enhanced!Allowed
<1>8. EnforcedStands'
  BY <1>1, WantedStays DEF EnhanceInv, EnforcedStands, Enhanced!Holds
<1> QED
  BY <1>1, <1>6, <1>7, <1>8 DEF EnhanceInv, SetSoFar, CapturedIsWanted

\* The invariant is inductive, and implies the property.
LEMMA EnhanceInit == ASSUME Enhanced!Init PROVE EnhanceInv
<1>1. /\ stage = "seq" /\ scope \in DOMAIN Enhanced!Fields
      /\ page \in Enhanced!Configs(Enhanced!Fields[scope] \cap Enhanced!Paged)
      /\ config \in Enhanced!Configs(Enhanced!Fields[scope])
      /\ IF scope = "groups" THEN graph \in Enhanced!Graphs ELSE graph = Enhanced!NoGraph
  BY DEF Enhanced!Init
<1>2. scope \in {"ports", "lan", "tun", "dns", "groups"}
  BY <1>1 DEF Enhanced!Fields
<1>3. DOMAIN page = Enhanced!Fields[scope] \cap Enhanced!Paged
  BY <1>1 DEF Enhanced!Configs
<1>4. config \in [Enhanced!Fields[scope] -> {config[f] : f \in Enhanced!Fields[scope]}]
  BY <1>1 DEF Enhanced!Configs
<1>5. graph \in Enhanced!Graphs
  BY <1>1 DEF Enhanced!NoGraph, Enhanced!Graphs
<1> QED
  BY <1>1, <1>2, <1>3, <1>4, <1>5 DEF EnhanceInv, EnhanceTyped, SetSoFar, CapturedIsWanted,
     EnforcedStands, Enhanced!NothingDangles

LEMMA EnhanceStep == ASSUME EnhanceInv, Enhanced!Next PROVE EnhanceInv'
BY UseSeqStep, MergeDefaultStep, BuiltinScriptsStep, UseTunStep, DnsSettingsStep, CaptureStep,
   OverrideStep, EnforceStep, LanBindAddressStep, CleanGroupsStep DEF Enhanced!Next

LEMMA EnhanceStutter == ASSUME EnhanceInv, UNCHANGED enhance_vars PROVE EnhanceInv'
<1>1. UNCHANGED <<stage, scope, on, page, config, owned, graph>>
  BY DEF enhance_vars
<1>2. EnhanceTyped' /\ SetSoFar' /\ CapturedIsWanted' /\ EnforcedStands'
  BY ZenonT(40), <1>1, WantedStays DEF EnhanceInv, EnhanceTyped, SetSoFar, CapturedIsWanted,
     EnforcedStands, Enhanced!Holds
<1> QED
  BY <1>1, <1>2 DEF EnhanceInv, Enhanced!NothingDangles, Enhanced!Allowed

LEMMA EnhanceIsSound == ASSUME EnhanceInv PROVE Enhanced!OwnedFieldsStand /\ Enhanced!NothingDangles
<1> SUFFICES ASSUME stage = "done" PROVE Enhanced!OwnedFieldsStand
  BY DEF EnhanceInv, Enhanced!OwnedFieldsStand
<1>1. \A f \in OwnedFields : Enhanced!Holds(f, Wanted(f))
  BY DEF EnhanceInv, EnforcedStands
<1>2. /\ \A f \in (Enhanced!Control \ {"mode"}) \cup Enhanced!GuiTun : Enhanced!Holds(f,
             Enhanced!AppValue(f))
      /\ Enhanced!Holds("mode", Wanted("mode"))
           /\ Enhanced!Holds("tun.enable", Wanted("tun.enable"))
      /\ \A f \in DOMAIN Enhanced!Applied : Enhanced!Holds(f, page[f])
  BY <1>1, WantedOps, AppliedOps DEF OwnedFields, EnhanceInv
<1>3. \A f \in DOMAIN page : page[f] \notin {None, "off"} => Enhanced!Holds(f, page[f])
  BY <1>2, AppliedOps DEF EnhanceInv
<1>4. scope = "lan" /\ "lan" \in on => config["bind-address"] # "loopback"
  BY DEF EnhanceInv, EnforcedStands
<1> QED
  BY <1>2, <1>3, <1>4, WantedOps DEF EnhanceInv, Enhanced!OwnedFieldsStand

\* The configuration the Core gets has the application's fields, whatever the profile, the
\* merges and the scripts are, and no group that names what is not there (Enhance).
THEOREM EnhancedConfigIsSound == Spec => []EnhancedIsSound
<1> DEFINE Inv == part = "enhance" => EnhanceInv
<1>1. Init => Inv
  BY EnhanceInit DEF Init
<1>2. Inv /\ [Next]_mcvars => Inv'
  <2> SUFFICES ASSUME Inv, [Next]_mcvars, part' = "enhance" PROVE EnhanceInv'
    OBVIOUS
  <2>1. part = "enhance" /\ EnhanceInv
    BY PartStays
  <2>2. CASE Enhanced!Next
    BY <2>1, <2>2, EnhanceStep
  <2>3. CASE UNCHANGED mcvars
    BY <2>1, <2>3, EnhanceStutter DEF mcvars
  <2> QED
    BY <2>1, <2>2, <2>3 DEF Next
<1>3. Inv => EnhancedIsSound
  BY EnhanceIsSound DEF EnhancedIsSound
<1> QED
  BY <1>1, <1>2, <1>3, PTL DEF Spec

-----------------------------------------------------------------------------
(* The failures that are shown *)

\* A failure of the system proxy is the user's or a restore's, one of the guard is neither.
Filed ==
  /\ pending_failures \in [Codes \cup {"guard"} -> Failure!Operations \cup {None,
         "SystemProxyGuard"}]
  /\ owed_request \in [Codes -> Failure!Requests \cup {None}]
  /\ \A c \in Codes : pending_failures[c] # "SystemProxyGuard"

\* At the start nothing has failed.
LEMMA FailuresInit == Failure!Init => Filed /\ Failure!RequestsStayOwed
BY NoneAssumption, BoundsAssumption DEF Failure!Init, Filed, Failure!RequestsStayOwed,
   Failure!Operations, Failure!Requests

\* A request replaces what is filed under its code, a restore never replaces a request.
LEMMA RequestFailsStep ==
  ASSUME Filed, Failure!RequestsStayOwed,
         NEW asked \in Failure!Operations, NEW code \in Codes, Failure!Fails(asked, code)
  PROVE  Filed' /\ Failure!RequestsStayOwed'
<1> USE DEF Failure!Requests, Failure!Operations
<1>1. pending_failures' = [pending_failures EXCEPT ![code] =
          IF Failure!Outranks(pending_failures[code], asked) THEN pending_failures[code] ELSE asked]
  BY DEF Failure!Fails, Failure!Record
<1>2. owed_request' = IF asked \in Failure!Requests THEN [owed_request EXCEPT ![code] = asked]
          ELSE owed_request
  BY DEF Failure!Fails
<1>3. Filed'
  BY <1>1, <1>2, NoneAssumption, BoundsAssumption DEF Filed
<1>4. pending_failures'["guard"] = pending_failures["guard"]
  BY <1>1, NoneAssumption, BoundsAssumption DEF Filed
<1>5. ASSUME NEW c \in Codes
      PROVE  pending_failures'[c] \in Failure!Requests \/ owed_request'[c] # None =>
               pending_failures'[c] = owed_request'[c]
  <2>1. CASE c # code
    BY <1>1, <1>2, <2>1 DEF Filed, Failure!RequestsStayOwed
  <2>2. CASE c = code /\ asked \in Failure!Requests
    BY <1>1, <1>2, <2>2 DEF Filed, Failure!Outranks
  <2>3. CASE c = code /\ asked = "SystemProxyRestore"
    BY <1>1, <1>2, <2>3, NoneAssumption, BoundsAssumption DEF Filed, Failure!RequestsStayOwed,
       Failure!Outranks
  <2> QED
    BY <2>1, <2>2, <2>3
<1> QED
  BY <1>3, <1>4, <1>5 DEF Failure!RequestsStayOwed

\* A request that works answers every earlier one, a restore that works none.
LEMMA RequestAppliesStep ==
  ASSUME Filed, Failure!RequestsStayOwed, NEW asked \in Failure!Operations, Failure!Applies(asked)
  PROVE  Filed' /\ Failure!RequestsStayOwed'
<1> USE DEF Failure!Requests, Failure!Operations
<1>1. pending_failures' = [c \in Codes \cup {"guard"} |->
                    IF Failure!RetiredBy(pending_failures[c], asked) THEN None
                        ELSE pending_failures[c]]
  BY DEF Failure!Applies, Failure!Retire, Filed
<1>2. owed_request' = IF asked \in Failure!Requests THEN [c \in Codes |-> None] ELSE owed_request
  BY DEF Failure!Applies
<1>3. Filed'
  BY <1>1, <1>2, NoneAssumption, BoundsAssumption DEF Filed
<1>4. pending_failures'["guard"] \in {None, "SystemProxyGuard"}
  BY <1>1 DEF Failure!RequestsStayOwed
<1>5. ASSUME NEW c \in Codes
      PROVE  pending_failures'[c] \in Failure!Requests \/ owed_request'[c] # None =>
               pending_failures'[c] = owed_request'[c]
  <2>1. CASE asked \in Failure!Requests
    BY <1>1, <1>2, <2>1, NoneAssumption, BoundsAssumption DEF Filed, Failure!RetiredBy
  <2>2. CASE asked = "SystemProxyRestore"
    BY <1>1, <1>2, <2>2, NoneAssumption, BoundsAssumption DEF Filed, Failure!RequestsStayOwed,
       Failure!RetiredBy
  <2> QED
    BY <2>1, <2>2
<1> QED
  BY <1>3, <1>4, <1>5 DEF Failure!RequestsStayOwed

\* What becomes of the guard touches no other code.
LEMMA GuardFailureStep ==
  ASSUME Filed, Failure!RequestsStayOwed, Failure!GuardStops \/ Failure!GuardRefreshed
  PROVE  Filed' /\ Failure!RequestsStayOwed'
<1>1. \A c \in Codes : pending_failures'[c] = pending_failures[c]
  BY NoneAssumption, BoundsAssumption DEF Failure!GuardStops, Failure!GuardRefreshed,
     Failure!Record, Filed
<1>2. pending_failures'["guard"] \in {None, "SystemProxyGuard"}
  BY DEF Failure!GuardStops, Failure!GuardRefreshed, Failure!Record, Filed,
     Failure!RequestsStayOwed, Failure!Outranks, Failure!Requests
<1>3. owed_request' = owed_request
  BY DEF Failure!GuardStops, Failure!GuardRefreshed
<1>4. pending_failures' \in [Codes \cup {"guard"} -> Failure!Operations \cup {None,
          "SystemProxyGuard"}]
  BY DEF Failure!GuardStops, Failure!GuardRefreshed, Failure!Record, Filed
<1> QED
  BY <1>1, <1>2, <1>3, <1>4 DEF Filed, Failure!RequestsStayOwed

\* The window shows the request of the user that is unanswered, however often restores, the
\* guard and other requests fail or work in between (FailureTable, settle_table).
THEOREM RequestsOwed == Spec => [](part = "failures" => Failure!RequestsStayOwed)
<1> DEFINE Inv == part = "failures" => Filed /\ Failure!RequestsStayOwed
<1>1. Init => Inv
  BY FailuresInit DEF Init
<1>2. Inv /\ [Next]_mcvars => Inv'
  <2> SUFFICES ASSUME Inv, [Next]_mcvars, part' = "failures"
               PROVE  Filed' /\ Failure!RequestsStayOwed'
    OBVIOUS
  <2>1. part = "failures" /\ Filed /\ Failure!RequestsStayOwed
    BY PartStays
  <2>2. CASE Failure!Next
    BY <2>1, <2>2, RequestFailsStep, RequestAppliesStep, GuardFailureStep DEF Failure!Next
  <2>3. CASE UNCHANGED mcvars
    BY <2>1, <2>3 DEF mcvars, failures_vars, Filed, Failure!RequestsStayOwed
  <2> QED
    BY <2>1, <2>2, <2>3 DEF Next
<1> QED
  BY <1>1, <1>2, PTL DEF Spec

-----------------------------------------------------------------------------
(* The judgement of the samples *)

\* Until the monitor asks to recover, both of its counters are below the limit, and they say
\* how long the Core can have been gone and must have looked bad.
WatchCounted ==
  /\ unreadable \in 0 .. Watch!Sustained /\ missing \in Nat
  /\ lost_run \in 0 .. MaxRun /\ bad_run \in 0 .. MaxRun
  /\ recovered = None =>
       /\ unreadable < Watch!Sustained /\ missing < Watch!Sustained
       /\ lost_run <= Watch!Sustained * missing + unreadable
       /\ bad_run >= missing + unreadable

\* The runs are counted further than the property looks.

\* At the start nothing was counted.
LEMMA WatchInit == Watch!Init => WatchCounted /\ Watch!BlipsAreTolerated
<1> SUFFICES ASSUME Watch!Init PROVE WatchCounted /\ Watch!BlipsAreTolerated
  OBVIOUS
<1>1. unreadable = 0 /\ missing = 0 /\ lost_run = 0 /\ bad_run = 0 /\ recovered = None
  BY DEF Watch!Init
<1> QED
  BY <1>1, NoneAssumption, BoundsAssumption DEF WatchCounted, Watch!BlipsAreTolerated,
     Watch!Sustained

\* One sample counts, and asks to recover only once its counter is at the limit.
LEMMA SampleStep ==
  ASSUME WatchCounted, Watch!Sample
  PROVE  WatchCounted' /\ Watch!BlipsAreTolerated'
<1> USE DEF Watch!Sustained
<1>0. PICK w \in Watch!Worlds :
      /\ IF w.silent THEN Watch!ReadsNothing(w)
         ELSE IF w.owner = "not active" THEN Watch!ReadsNotActive
         ELSE Watch!ReadsStatus(w)
      /\ lost_run' = IF w.core = "gone" THEN Watch!UpTo(lost_run + 1) ELSE 0
      /\ bad_run' = IF w.silent \/ w.core = "gone" THEN Watch!UpTo(bad_run + 1) ELSE 0
      /\ disowned' = (~w.silent /\ w.owner # "ours")
  BY DEF Watch!Sample
<1>1. recovered = None
  BY DEF Watch!Sample
<1>2. w.endpoint => w.core = "up"
  BY <1>0 DEF Watch!Worlds
<1>3. /\ lost_run' \in 0 .. MaxRun /\ lost_run' <= lost_run + 1
      /\ w.core # "gone" => lost_run' = 0
  <2>1. lost_run' = IF w.core = "gone" THEN Watch!UpTo(lost_run + 1) ELSE 0
    BY <1>0
  <2> QED
    BY <2>1, NoneAssumption, BoundsAssumption DEF Watch!UpTo, WatchCounted
<1>4. /\ bad_run' \in 0 .. MaxRun
      /\ w.silent \/ w.core = "gone" => bad_run' >= missing + unreadable + 1
  <2>1. CASE w.silent \/ w.core = "gone"
    <3>1. bad_run' = Watch!UpTo(bad_run + 1)
      BY <1>0, <2>1
    <3> QED
      BY <1>1, <3>1, NoneAssumption, BoundsAssumption DEF Watch!UpTo, WatchCounted
  <2>2. CASE ~(w.silent \/ w.core = "gone")
    <3>1. bad_run' = 0
      BY <1>0, <2>2
    <3> QED
      BY <2>2, <3>1, NoneAssumption, BoundsAssumption
  <2> QED
    BY <2>1, <2>2
<1>5. CASE w.silent
  <2>1. /\ missing' = missing
        /\ \/ unreadable + 1 < Watch!Sustained /\ unreadable' = unreadable + 1 /\ recovered' = None
           \/ w.core # "gone" /\ unreadable' = 0 /\ recovered' = None
           \/ unreadable + 1 >= Watch!Sustained /\ unreadable' = unreadable + 1 /\ recovered' # None
    <3>1. Watch!ReadsNothing(w)
      BY <1>0, <1>5
    <3> QED
      BY <1>1, <1>2, <3>1, NoneAssumption, BoundsAssumption DEF Watch!ReadsNothing, WatchCounted
  <2>2. bad_run' >= missing + unreadable + 1
    BY <1>5, <1>4
  <2>3. WatchCounted'
    BY <1>1, <1>3, <1>4, <2>1, <2>2, NoneAssumption, BoundsAssumption DEF WatchCounted
  <2>4. recovered' # None => bad_run' >= Watch!Sustained
    BY <1>1, <2>1, <2>2, <1>4, NoneAssumption, BoundsAssumption DEF WatchCounted
  <2> QED
    BY <2>3, <2>4 DEF Watch!BlipsAreTolerated
<1>6. CASE ~w.silent /\ w.owner = "not active"
  <2>1. recovered' # None /\ unreadable' = unreadable /\ missing' = missing
    <3>1. Watch!ReadsNotActive
      BY <1>0, <1>6
    <3> QED
      BY <3>1, NoneAssumption, BoundsAssumption DEF Watch!ReadsNotActive
  <2>2. WatchCounted'
    BY <1>3, <1>4, <2>1 DEF WatchCounted
  <2>3. disowned'
    BY <1>0, <1>6
  <2> QED
    BY <2>2, <2>3 DEF Watch!BlipsAreTolerated
<1>7. CASE ~w.silent /\ w.owner # "not active"
  <2>1. unreadable' = 0 /\ missing' = IF w.core = "gone" THEN missing + 1 ELSE 0
    BY <1>0, <1>7 DEF Watch!ReadsStatus, Watch!Missing
  <2>2. recovered' = None => missing' < Watch!Sustained
    <3>1. ~(missing' >= Watch!Sustained) => missing' < Watch!Sustained
      BY <2>1 DEF WatchCounted
    <3> QED
      BY <1>0, <1>7, <3>1, Zenon, NoneAssumption, BoundsAssumption DEF Watch!ReadsStatus
  <2>3. recovered' # None => w.owner # "ours" \/ missing' >= Watch!Sustained
    BY <1>0, <1>7, Zenon DEF Watch!ReadsStatus
  <2>4. WatchCounted'
    BY <1>1, <1>3, <1>4, <2>1, <2>2, NoneAssumption, BoundsAssumption DEF WatchCounted
  <2>5. missing' >= Watch!Sustained => bad_run' >= Watch!Sustained
    BY <1>1, <1>4, <2>1, NoneAssumption, BoundsAssumption DEF WatchCounted
  <2>6. w.owner # "ours" => disowned'
    BY <1>0, <1>7
  <2> QED
    BY <2>3, <2>4, <2>5, <2>6 DEF Watch!BlipsAreTolerated
<1> QED
  BY <1>5, <1>6, <1>7

-----------------------------------------------------------------------------
(* The probe of the ports *)

\* Whose sockets there are, and what a socket is.
Owners == {"before", "core", "since", "probe"}
Sockets == [address : Probe!Addresses, port : Numbers, transport : {"tcp", "udp"},
            live : BOOLEAN, owner : Owners]

\* The candidate asks for one port twice.
Clash == Probe!InternalConflict(candidate)

\* Only macOS has sockets that are not live, and those are connections.
ProbeTyped ==
  /\ probe_platform \in ProbePlatforms /\ enumerated \in BOOLEAN
  /\ probe_platform = "macos" \/ enumerated
  /\ bind_scope \in Probe!Scopes
  /\ candidate \in [Listeners -> Numbers \cup {None}]
  /\ current_ports \in [Listeners -> Numbers \cup {None}]
  /\ sockets \in SUBSET Sockets
  /\ \A s \in sockets :
       ~s.live => probe_platform = "macos" /\ s.transport = "tcp"
         /\ s.address \notin Probe!Unspecified

\* What the probe holds it holds for a claim it has done with.
HeldForClaims ==
  \A h \in held : \E c \in Probe!Probed \ todo :
    \E x \in {c} \cup Probe!Guards(c) : h = Probe!Socket(x, TRUE, "probe")

\* A claim that was done with, and was no conflict, is not served by a program that was there
\* before.
DoneIsFree ==
  outcome # "conflict" /\ enumerated =>
    \A c \in Probe!Probed \ todo, s \in sockets :
      ~(s.live /\ s.owner = "before" /\ Probe!Overlap(s, c))

\* The probe says conflict because of a socket that is there.
ConflictHasCause ==
  outcome = "conflict" => Clash \/ \E c \in Probe!Probed, s \in sockets : s.live
    /\ Probe!Overlap(s, c)

\* The probe is idle, or its verdict follows from the claims it has done with.
Probing ==
  \/ todo = None /\ held = {} /\ outcome = None
  \/ /\ todo \in SUBSET Probe!Probed
     /\ HeldForClaims /\ DoneIsFree /\ ConflictHasCause
     /\ outcome # "conflict" => ~Clash
     /\ outcome = "available" => todo = {}

\* The inductive invariant of the probe.
ProbeInv == ProbeTyped /\ Probing

\* The claims that are probed are those of the candidate that are not in use.
LEMMA ProbedClaims ==
  ASSUME NEW c \in Probe!Probed, ProbeTyped
  PROVE  /\ c \in Probe!AllClaims
         /\ c.address \in bind_scope
<1>1. PICK key \in Probe!Configured(candidate) : c \in Probe!ClaimsOf(key, candidate)
  BY DEF Probe!Probed, Probe!Claims
<1>2. PICK x \in bind_scope, t \in Probe!Transports(key) : c = Probe!Claim(x, candidate[key], t)
  BY <1>1 DEF Probe!ClaimsOf
<1>3. x \in Probe!Addresses
  BY DEF ProbeTyped, Probe!Scopes, Probe!Addresses, Probe!V4
<1>4. t \in {"tcp", "udp"}
  BY DEF Probe!Transports
<1>5. candidate[key] \in Numbers
  BY DEF Probe!Configured, ProbeTyped
<1>6. c \in Probe!AllClaims
  BY <1>2, <1>3, <1>4, <1>5 DEF Probe!AllClaims
<1>7. c.address = x
  BY <1>2 DEF Probe!Claim
<1> QED
  BY <1>6, <1>7

\* Without a conflict between the listeners no two claims overlap.
LEMMA ClaimsAreApart ==
  ASSUME ProbeTyped, ~Clash, NEW c \in Probe!Probed, NEW d \in Probe!Probed, Probe!Overlap(c, d)
  PROVE  c = d
<1>1. PICK j \in Probe!Configured(candidate) : c \in Probe!ClaimsOf(j, candidate)
  BY DEF Probe!Probed, Probe!Claims
<1>2. PICK k \in Probe!Configured(candidate) : d \in Probe!ClaimsOf(k, candidate)
  BY DEF Probe!Probed, Probe!Claims
<1>3. j = k
  BY <1>1, <1>2 DEF Clash, Probe!InternalConflict
<1>4. PICK x \in bind_scope, t \in Probe!Transports(j) : c = Probe!Claim(x, candidate[j], t)
  BY <1>1 DEF Probe!ClaimsOf
<1>5. PICK y \in bind_scope, u \in Probe!Transports(k) : d = Probe!Claim(y, candidate[k], u)
  BY <1>2 DEF Probe!ClaimsOf
<1>6. t = u /\ (x \in Probe!V4) = (y \in Probe!V4)
  BY <1>4, <1>5 DEF Probe!Overlap, Probe!Claim
<1>7. x = y
  BY <1>6 DEF ProbeTyped, Probe!Scopes, Probe!V4
<1> QED
  BY <1>3, <1>4, <1>5, <1>6, <1>7

\* A guard overlaps its claim, at an address that is not in the scope.
LEMMA GuardOps ==
  ASSUME ProbeTyped, NEW c \in Probe!AllClaims, NEW x \in Probe!Guards(c)
  PROVE  /\ x \in Probe!AllClaims
         /\ probe_platform = "macos" /\ c.transport = "tcp"
         /\ x.transport = "tcp" /\ x.port = c.port
         /\ x.address # c.address
         /\ (x.address \in Probe!V4) = (c.address \in Probe!V4)
         /\ (x.address \in Probe!Unspecified) # (c.address \in Probe!Unspecified)
<1>1. probe_platform = "macos" /\ c.transport = "tcp"
  BY DEF Probe!Guards, Probe!AllClaims, Probe!Claim
<1>2. c.address \in Probe!Addresses /\ c.port \in Numbers
  BY DEF Probe!AllClaims, Probe!Claim
<1>3. PICK a \in Probe!Addresses :
        /\ x = Probe!Claim(a, c.port, "tcp")
        /\ \/ c.address = "any4" /\ a \in {"loop4", "lan4"}
           \/ c.address = "any6" /\ a = "loop6"
           \/ c.address \in {"loop4", "lan4"} /\ a = "any4"
           \/ c.address = "loop6" /\ a = "any6"
  BY <1>1, <1>2 DEF Probe!Guards, Probe!Addresses, Probe!V4
<1>4. x.address = a /\ x.transport = "tcp" /\ x.port = c.port
  BY <1>3 DEF Probe!Claim
<1>5. x \in Probe!AllClaims
  BY <1>2, <1>3 DEF Probe!AllClaims
<1> QED
  BY <1>1, <1>3, <1>4, <1>5 DEF Probe!V4, Probe!Unspecified

\* On macOS a live socket that overlaps a claim has its address or that of a guard.
LEMMA GuardsCover ==
  ASSUME ProbeTyped, enumerated, NEW c \in Probe!AllClaims, NEW s \in Sockets,
         probe_platform = "macos", c.transport = "tcp", Probe!Overlap(s, c),
         s.address # c.address
  PROVE  \E x \in Probe!Guards(c) : x.address = s.address
<1>1. c.address \in Probe!Addresses /\ s.address \in Probe!Addresses
  BY DEF Probe!AllClaims, Probe!Claim, Sockets
<1>2. \/ c.address = "any4" /\ s.address \in {"loop4", "lan4"}
      \/ c.address = "any6" /\ s.address = "loop6"
      \/ c.address \in {"loop4", "lan4"} /\ s.address = "any4"
      \/ c.address = "loop6" /\ s.address = "any6"
  BY <1>1 DEF Probe!Overlap, Probe!Addresses, Probe!V4, Probe!Unspecified
<1>3. Probe!Claim(s.address, c.port, "tcp") \in Probe!Guards(c)
  BY <1>2 DEF Probe!Guards, Probe!V4
<1>4. Probe!Claim(s.address, c.port, "tcp").address = s.address
  BY DEF Probe!Claim
<1> QED
  BY <1>3, <1>4

\* bind_claim holds a claim and its guards, or some of the guards.
LEMMA BoundOps ==
  ASSUME ProbeTyped, NEW c \in Probe!AllClaims
  PROVE  /\ Probe!Bound(c) # None =>
              /\ Probe!Bound(c)[1] \subseteq {c} \cup Probe!Guards(c)
              /\ \A x \in Probe!Guards(c) : Probe!Refused(x) => Probe!NothingIsServing(x)
              /\ \/ \E x \in Probe!Guards(c) : Probe!Refused(x)
                 \/ ~Probe!Refused(c) /\ ~Probe!Shadowed(c)
         /\ Probe!Bound(c) = None =>
              \/ \E x \in Probe!Guards(c) : Probe!Refused(x) /\ ~Probe!NothingIsServing(x)
              \/ Probe!Refused(c) \/ Probe!Shadowed(c)
<1> DEFINE free == {x \in Probe!Guards(c) : ~Probe!Refused(x)}
           served == \E x \in Probe!Guards(c) \ free : ~Probe!NothingIsServing(x)
<1>1. Probe!Bound(c) = IF served THEN None
                       ELSE IF free # Probe!Guards(c) THEN <<free>>
                       ELSE IF Probe!Refused(c) \/ Probe!Shadowed(c) THEN None
                       ELSE <<free \cup {c}>>
  BY DEF Probe!Bound
<1>2. Probe!Guards(c) \subseteq Probe!AllClaims
  BY GuardOps
<1>3. None # <<free>> /\ None # <<free \cup {c}>>
  <2>1. free \in SUBSET Probe!AllClaims /\ free \cup {c} \in SUBSET Probe!AllClaims
    BY <1>2
  <2> HIDE DEF free
  <2>2. \A S \in SUBSET Probe!AllClaims : <<S>> \in Seq(SUBSET Probe!AllClaims)
    OBVIOUS
  <2>3. <<free>> \in Seq(SUBSET Probe!AllClaims)
        /\ <<free \cup {c}>> \in Seq(SUBSET Probe!AllClaims)
    BY <2>1, <2>2
  <2> QED
    BY <2>3, NoneAssumption
<1>4. <<free>>[1] = free /\ <<free \cup {c}>>[1] = free \cup {c}
  OBVIOUS
<1>5. CASE served
  BY <1>1, <1>5
<1>6. CASE ~served /\ free # Probe!Guards(c)
  BY <1>1, <1>3, <1>4, <1>6
<1>7. CASE ~served /\ free = Probe!Guards(c) /\ (Probe!Refused(c) \/ Probe!Shadowed(c))
  BY <1>1, <1>7
<1>8. CASE ~served /\ free = Probe!Guards(c) /\ ~(Probe!Refused(c) \/ Probe!Shadowed(c))
  BY <1>1, <1>3, <1>4, <1>8
<1> QED
  BY <1>5, <1>6, <1>7, <1>8

\* A claim that could be bound is served by nobody.
LEMMA BoundIsFree ==
  ASSUME ProbeTyped, enumerated,
         NEW c \in Probe!AllClaims, Probe!Bound(c) # None,
         NEW s \in sockets, s.live, Probe!Overlap(s, c)
  PROVE  FALSE
<1>0. s \in Sockets /\ s \in Probe!Taken
  BY DEF ProbeTyped, Probe!Taken
<1>1. ~Probe!Refused(c) => ~Probe!Refuses(s, c)
  BY <1>0 DEF Probe!Refused
<1>2. c.transport \in {"tcp", "udp"} /\ probe_platform \in {"windows", "macos", "linux"}
  BY PartsAssumption DEF Probe!AllClaims, Probe!Claim, ProbeTyped
<1>3. CASE probe_platform = "macos" /\ c.transport = "tcp"
  <2>1. CASE s.address # c.address
    <3>1. PICK x \in Probe!Guards(c) : x.address = s.address
      BY <1>0, <1>3, <2>1, GuardsCover
    <3>2. Probe!Overlap(s, x)
      BY <3>1, GuardOps DEF Probe!Overlap
    <3>3. Probe!Refuses(s, x)
      BY <3>1, <3>2 DEF Probe!Refuses
    <3>4. Probe!NothingIsServing(x)
      BY <1>0, <3>3, BoundOps DEF Probe!Refused
    <3> QED
      BY <3>2, <3>4 DEF Probe!NothingIsServing
  <2>2. CASE s.address = c.address
    <3>1. Probe!Refuses(s, c)
      BY <2>2 DEF Probe!Refuses
    <3>2. PICK x \in Probe!Guards(c) : Probe!Refused(x)
      BY <1>1, <3>1, BoundOps
    <3>3. Probe!NothingIsServing(x)
      BY <3>2, BoundOps
    <3>4. x.address \notin Probe!Unspecified
      BY <3>3 DEF Probe!NothingIsServing
    <3>5. Probe!Overlap(s, x)
      BY <2>2, <3>4, GuardOps DEF Probe!Overlap
    <3> QED
      BY <3>3, <3>5 DEF Probe!NothingIsServing
  <2> QED
    BY <2>1, <2>2
<1>4. CASE ~(probe_platform = "macos" /\ c.transport = "tcp")
  <2>1. ~Probe!Refused(c) /\ ~Probe!Shadowed(c)
    BY <1>4, BoundOps, GuardOps
  <2>2. ~Probe!Refuses(s, c)
    BY <1>1, <2>1
  <2>3. probe_platform = "windows" /\ c.transport = "tcp"
    BY <1>2, <1>4, <2>2 DEF Probe!Refuses
  <2>4. s.address # c.address /\ c.address \notin Probe!Unspecified
    BY <2>2, <2>3 DEF Probe!Refuses
  <2>5. s.address \in Probe!Unspecified
    BY <2>4 DEF Probe!Overlap
  <2> QED
    BY <2>1, <2>3, <2>4, <2>5 DEF Probe!Shadowed
<1> QED
  BY <1>3, <1>4

\* No two addresses the Core listens on are of one family.
LEMMA ScopeFamilies ==
  ASSUME ProbeTyped, NEW x \in bind_scope, NEW y \in bind_scope, (x \in Probe!V4) = (y \in Probe!V4)
  PROVE  x = y
BY DEF ProbeTyped, Probe!Scopes, Probe!V4

\* What the probe holds for other claims stands in the way of none.
LEMMA HeldIsApart ==
  ASSUME ProbeTyped, todo \in SUBSET Probe!Probed, HeldForClaims, ~Clash,
         NEW c \in todo, NEW x \in {c} \cup Probe!Guards(c),
         NEW s \in held, Probe!Refuses(s, x)
  PROVE  FALSE
<1>1. PICK d \in Probe!Probed \ todo :
        \E y \in {d} \cup Probe!Guards(d) : s = Probe!Socket(y, TRUE, "probe")
  BY DEF HeldForClaims
<1>2. PICK y \in {d} \cup Probe!Guards(d) : s = Probe!Socket(y, TRUE, "probe")
  BY <1>1
<1>3. s.address = y.address /\ s.port = y.port /\ s.transport = y.transport
  BY <1>2 DEF Probe!Socket
<1>4. /\ c \in Probe!AllClaims /\ c.address \in bind_scope
      /\ d \in Probe!AllClaims /\ d.address \in bind_scope
  BY ProbedClaims
<1>5. Probe!Overlap(s, x)
  BY DEF Probe!Refuses
<1>6. /\ y.port = d.port /\ y.transport = d.transport
      /\ (y.address \in Probe!V4) = (d.address \in Probe!V4)
      /\ x.port = c.port /\ x.transport = c.transport
      /\ (x.address \in Probe!V4) = (c.address \in Probe!V4)
  BY <1>4, GuardOps
<1>7. (d.address \in Probe!V4) = (c.address \in Probe!V4)
      /\ d.port = c.port /\ d.transport = c.transport
  BY <1>3, <1>5, <1>6 DEF Probe!Overlap
<1>8. d.address = c.address
  BY <1>4, <1>7, ScopeFamilies
<1>9. Probe!Overlap(d, c)
  BY <1>7, <1>8 DEF Probe!Overlap
<1>10. d = c
  BY <1>9, ClaimsAreApart
<1> QED
  BY <1>10

\* A conflict is told only for a claim that somebody serves.
LEMMA RefusedHasCause ==
  ASSUME ProbeTyped, todo \in SUBSET Probe!Probed, HeldForClaims, ~Clash,
         NEW c \in todo, Probe!Bound(c) = None, ~Probe!NothingIsServing(c)
  PROVE  \E s \in sockets : s.live /\ Probe!Overlap(s, c)
<1>1. c \in Probe!AllClaims
  BY ProbedClaims
<1>2. CASE Probe!Shadowed(c)
  BY <1>2 DEF Probe!Shadowed
<1>3. CASE Probe!Refused(c)
  <2>1. PICK s \in sockets : Probe!Refuses(s, c)
    BY <1>3, HeldIsApart DEF Probe!Refused, Probe!Taken
  <2>2. Probe!Overlap(s, c)
    BY <2>1 DEF Probe!Refuses
  <2>3. CASE ~s.live
    <3>1. probe_platform = "macos" /\ s.transport = "tcp" /\ s.address \notin Probe!Unspecified
      BY <2>3 DEF ProbeTyped
    <3>2. c.transport = "tcp"
      BY <2>2, <3>1 DEF Probe!Overlap
    <3>3. s.address = c.address
      BY <2>1, <3>1, <3>2 DEF Probe!Refuses
    <3> QED
      BY <3>1, <3>2, <3>3 DEF Probe!NothingIsServing
  <2> QED
    BY <2>2, <2>3
<1>4. CASE \E x \in Probe!Guards(c) : Probe!Refused(x) /\ ~Probe!NothingIsServing(x)
  <2>1. PICK x \in Probe!Guards(c) : Probe!Refused(x) /\ ~Probe!NothingIsServing(x)
    BY <1>4
  <2>2. /\ probe_platform = "macos" /\ c.transport = "tcp"
        /\ x.transport = "tcp" /\ x.port = c.port
        /\ (x.address \in Probe!V4) = (c.address \in Probe!V4)
        /\ (x.address \in Probe!Unspecified) # (c.address \in Probe!Unspecified)
    BY <1>1, GuardOps
  <2>3. PICK s \in sockets : Probe!Refuses(s, x)
    BY <2>1, HeldIsApart DEF Probe!Refused, Probe!Taken
  <2>4. Probe!Overlap(s, x) /\ s.address = x.address
    BY <2>2, <2>3 DEF Probe!Refuses
  <2>5. CASE s.live
    <3>1. s.address \in Probe!Unspecified \/ c.address \in Probe!Unspecified
      BY <2>2, <2>4
    <3>2. Probe!Overlap(s, c)
      BY <2>2, <2>4, <3>1 DEF Probe!Overlap
    <3> QED
      BY <2>5, <3>2
  <2>6. CASE ~s.live
    <3>1. s.address \notin Probe!Unspecified
      BY <2>6 DEF ProbeTyped
    <3>2. PICK r \in sockets : r.live /\ Probe!Overlap(r, x)
      BY <2>1, <2>2, <2>4, <3>1 DEF Probe!NothingIsServing
    <3>3. c.address \in Probe!Unspecified
      BY <2>2, <2>4, <3>1
    <3>4. Probe!Overlap(r, c)
      BY <2>2, <3>2, <3>3 DEF Probe!Overlap
    <3> QED
      BY <3>2, <3>4
  <2> QED
    BY <2>5, <2>6
<1> QED
  BY <1>1, <1>2, <1>3, <1>4, BoundOps

\* The claims and their guards are settled when the probe begins.
ProbeSettled ==
  /\ Probe!Probed' = Probe!Probed
  /\ Clash' = Clash
  /\ \A c \in Probe!AllClaims : Probe!Guards(c)' = Probe!Guards(c)

\* The probe changes neither the platform nor the ports.
LEMMA ProbeConstant ==
  ASSUME UNCHANGED <<probe_platform, enumerated, bind_scope, current_ports, candidate>>
  PROVE  ProbeSettled
<1> QED
  BY DEF ProbeSettled, Probe!Probed, Probe!Claims, Probe!ClaimsOf, Probe!Configured, Clash,
     Probe!InternalConflict, Probe!Guards

\* The sockets that are held are sockets of the probe.
LEMMA SocketsOf ==
  ASSUME NEW c \in Probe!AllClaims, NEW o \in Owners
  PROVE  /\ Probe!Socket(c, TRUE, o) \in Sockets
         /\ Probe!Socket(c, TRUE, o).live
         /\ Probe!Socket(c, TRUE, o).owner = o
BY DEF Probe!AllClaims, Probe!Claim, Probe!Socket, Sockets

\* The invariant holds at the start.
LEMMA ProbeInit == ASSUME Probe!Init PROVE ProbeInv
<1>1. PICK others \in {{}} \cup {{s} : s \in Probe!Others} :
        sockets = others \cup {Probe!Socket(c, TRUE, "core") : c \in Probe!Claims(current_ports)}
  BY DEF Probe!Init
<1>2. /\ probe_platform \in ProbePlatforms /\ enumerated \in BOOLEAN
      /\ probe_platform = "macos" \/ enumerated
      /\ bind_scope \in Probe!Scopes
      /\ candidate \in [Listeners -> Numbers \cup {None}]
      /\ current_ports \in [Listeners -> Numbers \cup {None}]
      /\ todo = None /\ held = {} /\ outcome = None
  BY DEF Probe!Init, Probe!PortSettings
<1>3. \A c \in Probe!Claims(current_ports) : c \in Probe!AllClaims
  <2> SUFFICES ASSUME NEW c \in Probe!Claims(current_ports) PROVE c \in Probe!AllClaims
    OBVIOUS
  <2>1. PICK key \in Probe!Configured(current_ports) : c \in Probe!ClaimsOf(key, current_ports)
    BY DEF Probe!Claims
  <2>2. PICK x \in bind_scope, t \in Probe!Transports(key) :
          c = Probe!Claim(x, current_ports[key], t)
    BY <2>1 DEF Probe!ClaimsOf
  <2>3. x \in Probe!Addresses /\ t \in {"tcp", "udp"} /\ current_ports[key] \in Numbers
    BY <1>2 DEF Probe!Scopes, Probe!Addresses, Probe!V4, Probe!Transports, Probe!Configured
  <2> QED
    BY <2>2, <2>3 DEF Probe!AllClaims
<1>4. \A s \in others :
        /\ s \in Sockets
        /\ ~s.live => probe_platform = "macos" /\ s.transport = "tcp"
             /\ s.address \notin Probe!Unspecified
  <2> SUFFICES ASSUME NEW s \in Probe!Others
               PROVE  /\ s \in Sockets
                      /\ ~s.live => /\ probe_platform = "macos" /\ s.transport = "tcp"
                                    /\ s.address \notin Probe!Unspecified
    OBVIOUS
  <2>1. CASE \E c \in Probe!AllClaims : s = Probe!Socket(c, TRUE, "before")
    BY <2>1, SocketsOf DEF Owners
  <2>2. CASE /\ probe_platform = "macos"
             /\ \E c \in Probe!AllClaims : /\ c.transport = "tcp"
                                                /\ c.address \notin Probe!Unspecified
                                           /\ s = Probe!Socket(c, FALSE, "before")
    BY <2>2 DEF Probe!AllClaims, Probe!Claim, Probe!Socket, Sockets, Owners
  <2> QED
    BY <2>1, <2>2 DEF Probe!Others
<1>5. \A c \in Probe!Claims(current_ports) :
        Probe!Socket(c, TRUE, "core") \in Sockets /\ Probe!Socket(c, TRUE, "core").live
  BY <1>3, SocketsOf DEF Owners
<1>6. ProbeTyped
  BY <1>1, <1>2, <1>4, <1>5 DEF ProbeTyped
<1> QED
  BY <1>2, <1>6 DEF ProbeInv, Probing

\* Each step of the probe keeps it.
LEMMA ProbeBeginStep ==
  ASSUME ProbeInv, Probe!Begin
  PROVE  ProbeInv'
<1>1. ProbeSettled /\ ProbeTyped'
  BY ProbeConstant DEF Probe!Begin, ProbeInv, ProbeTyped
<1>2. Probe!Probed \in SUBSET Probe!AllClaims
  BY ProbedClaims DEF ProbeInv
<1>3. held' = {}
  BY <1>2, NoneAssumption DEF Probe!Begin, ProbeInv, Probing
<1>4. /\ todo' = Probe!Probed
      /\ outcome' = IF Clash THEN "conflict" ELSE None
  BY DEF Probe!Begin, Clash
<1>5. HeldForClaims' /\ DoneIsFree' /\ ConflictHasCause'
  BY <1>1, <1>3, <1>4, NoneAssumption DEF HeldForClaims, DoneIsFree, ConflictHasCause,
     ProbeSettled
<1> QED
  BY <1>1, <1>4, <1>5, NoneAssumption DEF ProbeInv, Probing, ProbeSettled

LEMMA ProbeFinishStep ==
  ASSUME ProbeInv, Probe!Finish
  PROVE  ProbeInv'
<1>1. ProbeSettled /\ ProbeTyped'
  BY ProbeConstant DEF Probe!Finish, ProbeInv, ProbeTyped
<1>2. /\ todo \in SUBSET Probe!Probed
      /\ HeldForClaims /\ DoneIsFree /\ ~Clash /\ todo = {} /\ outcome # "conflict"
  BY NoneAssumption DEF Probe!Finish, ProbeInv, Probing
<1>3. /\ outcome' = "available" /\ todo' = todo /\ held' = held /\ sockets' = sockets
      /\ enumerated' = enumerated
  BY DEF Probe!Finish
<1>4. HeldForClaims'
  BY ZenonT(40), <1>1, <1>2, <1>3, ProbedClaims DEF HeldForClaims, ProbeInv, ProbeSettled
<1>5. DoneIsFree' /\ ConflictHasCause'
  BY <1>1, <1>2, <1>3 DEF DoneIsFree, ConflictHasCause, ProbeSettled
<1> QED
  BY <1>1, <1>2, <1>3, <1>4, <1>5 DEF ProbeInv, Probing, ProbeSettled

\* Whatever opens or closes meanwhile was not there before, or is there no longer.
LEMMA OthersStep ==
  ASSUME ProbeInv, Probe!OtherOpens \/ Probe!OtherCloses
  PROVE  ProbeInv'
<1>1. /\ UNCHANGED <<probe_platform, enumerated, bind_scope, current_ports, candidate, todo, held,
                       outcome>>
      /\ todo # None /\ outcome = None
  BY DEF Probe!OtherOpens, Probe!OtherCloses
<1>2. ProbeSettled
  BY <1>1, ProbeConstant
<1>3. /\ ProbeTyped'
      /\ \A s \in sockets' : s \in sockets \/ ~s.live \/ s.owner # "before"
  <2>1. CASE Probe!OtherOpens
    <3>1. PICK c \in Probe!AllClaims : sockets' = sockets \cup {Probe!Socket(c, TRUE, "since")}
      BY <2>1 DEF Probe!OtherOpens
    <3>2. /\ Probe!Socket(c, TRUE, "since") \in Sockets
          /\ Probe!Socket(c, TRUE, "since").live /\ Probe!Socket(c, TRUE, "since").owner = "since"
      BY SocketsOf DEF Owners
    <3> QED
      BY <1>1, <3>1, <3>2 DEF ProbeInv, ProbeTyped
  <2>2. CASE Probe!OtherCloses
    <3>1. PICK s \in sockets :
            \/ sockets' = sockets \ {s}
            \/ /\ probe_platform = "macos" /\ s.transport = "tcp"
                 /\ s.address \notin Probe!Unspecified
               /\ sockets' = (sockets \ {s}) \cup {[s EXCEPT !.live = FALSE]}
      BY <2>2 DEF Probe!OtherCloses
    <3>2. s \in Sockets
      BY DEF ProbeInv, ProbeTyped
    <3>3. /\ [s EXCEPT !.live = FALSE] \in Sockets /\ ~[s EXCEPT !.live = FALSE].live
          /\ [s EXCEPT !.live = FALSE].address = s.address
          /\ [s EXCEPT !.live = FALSE].transport = s.transport
      BY <3>2 DEF Sockets
    <3> QED
      BY <1>1, <3>1, <3>3 DEF ProbeInv, ProbeTyped
  <2> QED
    BY <2>1, <2>2
<1>4. /\ todo \in SUBSET Probe!Probed
      /\ HeldForClaims /\ DoneIsFree /\ ~Clash
  BY <1>1, NoneAssumption DEF ProbeInv, Probing
<1>5. HeldForClaims'
  BY <1>1, <1>2, <1>4, ProbedClaims DEF HeldForClaims, ProbeInv, ProbeSettled
<1>6. DoneIsFree'
  BY <1>1, <1>2, <1>3, <1>4 DEF DoneIsFree, ProbeSettled
<1> QED
  BY <1>1, <1>2, <1>3, <1>4, <1>5, <1>6, NoneAssumption DEF ProbeInv, Probing, ConflictHasCause,
     ProbeSettled

LEMMA ProbeClaimStep ==
  ASSUME ProbeInv, Probe!ProbeClaim
  PROVE  ProbeInv'
<1>1. /\ UNCHANGED <<probe_platform, enumerated, bind_scope, current_ports, candidate, sockets>>
      /\ todo # None /\ outcome = None
  BY DEF Probe!ProbeClaim
<1>2. ProbeSettled /\ ProbeTyped'
  BY <1>1, ProbeConstant DEF ProbeInv, ProbeTyped
<1>3. /\ todo \in SUBSET Probe!Probed
      /\ HeldForClaims /\ DoneIsFree /\ ~Clash /\ ProbeTyped
  BY <1>1, NoneAssumption DEF ProbeInv, Probing
<1>4. PICK c \in todo :
        /\ todo' = todo \ {c}
        /\ \/ /\ Probe!Bound(c) # None
              /\ held' = held \cup {Probe!Socket(x, TRUE, "probe") : x \in Probe!Bound(c)[1]}
              /\ UNCHANGED outcome
           \/ Probe!Bound(c) = None /\ Probe!NothingIsServing(c) /\ UNCHANGED <<held, outcome>>
           \/ /\ Probe!Bound(c) = None /\ ~Probe!NothingIsServing(c) /\ outcome' = "conflict"
              /\ UNCHANGED held
  BY DEF Probe!ProbeClaim
<1>5. c \in Probe!Probed /\ c \in Probe!AllClaims
  BY <1>3, ProbedClaims
<1>6. HeldForClaims'
  <2> SUFFICES ASSUME NEW h \in held'
               PROVE  \E d \in Probe!Probed \ todo' :
                        \E x \in {d} \cup Probe!Guards(d) : h = Probe!Socket(x, TRUE, "probe")
    BY <1>2, ProbedClaims, <1>3 DEF HeldForClaims, ProbeSettled
  <2>1. CASE h \in held
    BY <1>3, <1>4, <2>1 DEF HeldForClaims
  <2>2. CASE h \notin held
    <3>1. PICK x \in Probe!Bound(c)[1] : h = Probe!Socket(x, TRUE, "probe") /\ Probe!Bound(c) # None
      BY <1>4, <2>2
    <3>2. x \in {c} \cup Probe!Guards(c)
      BY <1>3, <1>5, <3>1, BoundOps
    <3> QED
      BY <1>4, <1>5, <3>1, <3>2
  <2> QED
    BY <2>1, <2>2
<1>7. outcome' # "conflict" /\ enumerated => \A s \in sockets : ~(s.live /\ Probe!Overlap(s, c))
  <2>1. CASE Probe!Bound(c) # None
    BY <1>3, <1>5, <2>1, BoundIsFree
  <2>2. CASE Probe!NothingIsServing(c)
    BY <2>2 DEF Probe!NothingIsServing
  <2> QED
    BY <1>4, <2>1, <2>2
<1>8. outcome' = "conflict" => \E s \in sockets : s.live /\ Probe!Overlap(s, c)
  <2> SUFFICES ASSUME outcome' = "conflict" PROVE \E s \in sockets : s.live /\ Probe!Overlap(s, c)
    OBVIOUS
  <2>1. Probe!Bound(c) = None /\ ~Probe!NothingIsServing(c)
    BY <1>1, <1>4, NoneAssumption
  <2> QED
    BY <1>3, <2>1, RefusedHasCause
<1>9. DoneIsFree'
  BY <1>1, <1>2, <1>3, <1>4, <1>7, NoneAssumption DEF DoneIsFree, ProbeSettled
<1>10. ConflictHasCause'
  BY <1>1, <1>2, <1>5, <1>8 DEF ConflictHasCause, ProbeSettled
<1>11. outcome' # "available"
  BY <1>1, <1>4, NoneAssumption
<1>12. todo' \in SUBSET Probe!Probed' /\ ~Clash'
  BY <1>2, <1>3, <1>4 DEF ProbeSettled
<1> QED
  BY <1>2, <1>6, <1>9, <1>10, <1>11, <1>12 DEF ProbeInv, Probing

\* Every step, and a stutter, keeps it.
LEMMA ProbeStep ==
  ASSUME ProbeInv, Probe!Next
  PROVE  ProbeInv'
BY OthersStep, ProbeBeginStep, ProbeClaimStep, ProbeFinishStep DEF Probe!Next

LEMMA ProbeStutter ==
  ASSUME ProbeInv, UNCHANGED probe_vars
  PROVE  ProbeInv'
<1>1. /\ UNCHANGED <<probe_platform, enumerated, bind_scope, current_ports, candidate, sockets,
                       todo, held, outcome>>
  BY DEF probe_vars
<1>2. ProbeSettled /\ ProbeTyped'
  BY <1>1, ProbeConstant DEF ProbeInv, ProbeTyped
<1>3. HeldForClaims => HeldForClaims'
  BY <1>1, <1>2, ProbedClaims DEF ProbeInv, HeldForClaims, ProbeSettled
<1> QED
  BY <1>1, <1>2, <1>3 DEF ProbeInv, Probing, DoneIsFree, ConflictHasCause, ProbeSettled

LEMMA ProbeIsTrue ==
  ASSUME ProbeInv
  PROVE  Probe!ProbeTellsTruth
<1>1. outcome # None => /\ todo \in SUBSET Probe!Probed
                        /\ DoneIsFree /\ ConflictHasCause
                        /\ outcome # "conflict" => ~Clash
                        /\ outcome = "available" => todo = {}
  BY DEF ProbeInv, Probing
<1>2. outcome = "available" /\ enumerated =>
        /\ ~Clash
        /\ \A c \in Probe!Probed, s \in sockets : ~(s.live /\ s.owner = "before"
             /\ Probe!Overlap(s, c))
  BY <1>1, NoneAssumption DEF DoneIsFree
<1>3. outcome = "conflict" => Clash \/ \E c \in Probe!Probed, s \in sockets : s.live
        /\ Probe!Overlap(s, c)
  BY <1>1, NoneAssumption DEF ConflictHasCause
<1> QED
  BY <1>2, <1>3 DEF Probe!ProbeTellsTruth, Clash

\* A port that is said to be free is nobody's, a conflict that is told has a cause; a Core
\* that is gone is given up within nine samples, and unless the Service disowns it no Core
\* is given up before three samples in a row were bad (PortProbe, OwnerWatch).
THEOREM JudgedRight == Spec => []VerdictsAreRight
<1> DEFINE Inv == /\ part = "probe" => ProbeInv
                  /\ part = "watch" => WatchCounted /\ Watch!BlipsAreTolerated
<1>1. Init => Inv
  BY ProbeInit, WatchInit DEF Init
<1>2. Inv /\ [Next]_mcvars => Inv'
  <2> SUFFICES ASSUME Inv, [Next]_mcvars PROVE Inv'
    OBVIOUS
  <2>0. part' = part
    BY PartStays
  <2>1. CASE part = "probe"
    <3>1. CASE Probe!Next
      BY <2>0, <2>1, <3>1, ProbeStep
    <3>2. CASE UNCHANGED probe_vars
      BY <2>0, <2>1, <3>2, ProbeStutter
    <3> QED
      BY <2>1, <3>1, <3>2 DEF Next, mcvars
  <2>2. CASE part = "watch"
    <3>1. CASE Watch!Next
      BY <2>0, <2>2, <3>1, SampleStep DEF Watch!Next
    <3>2. CASE UNCHANGED watch_vars
      BY <2>0, <2>2, <3>2 DEF watch_vars, WatchCounted, Watch!BlipsAreTolerated
    <3> QED
      BY <2>2, <3>1, <3>2 DEF Next, mcvars
  <2> QED
    BY <2>0, <2>1, <2>2
<1>3. Inv => VerdictsAreRight
  <2>1. WatchCounted => Watch!LostCoreIsGivenUp
    BY BoundsAssumption DEF WatchCounted, Watch!LostCoreIsGivenUp, Watch!Sustained
  <2> QED
    BY <2>1, ProbeIsTrue DEF VerdictsAreRight
<1> QED
  BY <1>1, <1>2, <1>3, PTL DEF Spec

-----------------------------------------------------------------------------
(* The system proxy *)

\* The kinds of proxy that a guard may enforce, and where the holder of lifecycle_lock is.
Enforceable == {"none", "global", "pac"}
ProxyCalls == {"apply", "refresh", "clear", "stop"}
Between == {"idle", "next"}
LocalApply == {"applyLock", "applyWait", "firstStep", "secondStep", "compensate"}
LocalClear == {"retryClear", "clearWait", "disable", "disableAgain"}
Draining == {"lockGuard", "drain"}
Asked == {"final", "request"}
OsSettings == [global : BOOLEAN, pac : BOOLEAN]
CallState == [want : [target : Proxy!Targets, guard : BOOLEAN], wasRunning : BOOLEAN,
              drained : BOOLEAN, reached : BOOLEAN, attempt : Nat, before : OsSettings]
LoopState == [state : {"none", "asleep", "asking", "reporting"}, target : Proxy!Targets,
              failures : Nat]
Positions == [holder : Between \cup LocalApply \cup LocalClear \cup Draining \cup Asked
                          \cup {"cancel", "refresh", "invalidate"},
              reader : {"idle", "cancel", "lockGuard", "drain", "done"}]
LastCalls == [name : ProxyCalls \cup {"none"}, answer : {"ok", "failed", "unknown", "abandoned"}]

\* What the variables of the part hold.
ProxyTyped ==
  /\ platform \in {"windows", "macos", "linux"}
  /\ verge \in Proxy!Choices /\ saved \in Proxy!Choices
  /\ os \in OsSettings /\ route \in {"local", "service"}
  /\ guardType \in Enforceable /\ guardWrite \in Enforceable
  /\ guardState \in {"stopped", "running", "stopping"}
  /\ generation \in Nat /\ loops \in [1..Proxy!MaxGeneration -> LoopState]
  /\ opLock \in {"free", "holder", "reader", "loop"}
  /\ pc \in Positions
  /\ call \in CallState
  /\ lastCall \in LastCalls
  /\ plans \in Nat /\ faults \in Nat /\ hangs \in 0..MaxHangs
  /\ word \in Proxy!Targets \cup {"none"}

\* The plan of the holder, in which a guard is refreshed only after an apply, and the call of
\* it that is under way.
RefreshesFollow(s) == \A i \in 1..(Len(s) - 1) : s[i + 1] = "refresh" => s[i] = "apply"
Doing(name) == plan # <<>> /\ Head(plan) = name
Superseding == pc.holder \in Draining /\ ~Doing("apply")
PlanShape ==
  /\ plan \in Seq(ProxyCalls) /\ RefreshesFollow(plan)
  /\ pc.holder = "idle" <=> plan = <<>>
  /\ pc.holder \in LocalApply => Doing("apply") /\ route = "local"
  /\ pc.holder \in LocalClear => Doing("clear") /\ route = "local"
  /\ pc.holder = "cancel" => Doing("stop") \/ Doing("refresh")
  /\ pc.holder = "refresh" => Doing("refresh")
  /\ pc.holder = "invalidate" => Doing("apply") /\ route = "service"
  /\ pc.holder \in Asked => Doing("apply") \/ Doing("clear")
  /\ pc.holder \in Asked => route = "service"
  /\ pc.holder \in Draining => Doing("apply") \/ Doing("stop") \/ Doing("refresh")
  /\ pc.holder \in Draining /\ Doing("apply") => route = "service"

\* operation_lock is held by a loop that asks, and by those that wait for the local guard or
\* the Service under it.
Asking(g) == loops[g].state = "asking"
LoopIndices == 1..Proxy!MaxGeneration
LockHeld ==
  /\ \A g \in LoopIndices : Asking(g) => opLock = "loop"
  /\ \A g, h \in LoopIndices : Asking(g) /\ Asking(h) => g = h
  /\ pc.holder = "request" \/ Superseding => opLock = "holder"
  /\ pc.reader \in Draining => opLock = "reader"

\* No guard loop is the current one, and none has a request under way.
NoLoopIsCurrent ==
  \A g \in LoopIndices : g = generation => loops[g].state \notin {"asleep", "asking"}
NoLoopAsks == \A g \in LoopIndices : ~Asking(g)
GivenUp == pc.holder \in Between /\ lastCall.name \in {"stop", "clear"}
LoopsFollow ==
  /\ \A g \in LoopIndices : generation < g => loops[g].state = "none"
  /\ route = "local" \/ pc.holder \in {"cancel", "refresh"} \cup Asked \/ Superseding \/ GivenUp =>
       NoLoopIsCurrent
  /\ route = "local" \/ pc.holder \in {"refresh", "request"} \/ Superseding \/ GivenUp =>
       NoLoopAsks
  /\ \A g \in LoopIndices :
       Asking(g) \/ (loops[g].state = "asleep" /\ g = generation) =>
         word \in {"none", loops[g].target}
  /\ filed => NoLoopIsCurrent

\* While a call is on its way to write the OS nothing is promised of it.
Unsaid ==
  \/ pc.holder \in LocalApply \cup LocalClear \cup Asked \cup {"invalidate"}
  \/ pc.holder \in Draining /\ Doing("apply")

\* The local guard writes no more than was promised, and rests while a call writes the OS.
GuardFollows ==
  /\ guardState = "stopped" <=> guardState # "running" /\ guardWrite = "none"
  /\ guardState = "running" => guardWrite \in {"none", guardType}
  /\ route = "service" \/ GivenUp => guardState # "running"
  /\ pc.holder \in (LocalApply \ {"applyLock"}) \cup LocalClear \cup {"drain"} =>
       guardState # "running"
  /\ Unsaid => word = "none"
  /\ word # "none" /\ guardState = "running" => guardType \in {"none", word}
  /\ word # "none" => guardWrite \in {"none", word}
  /\ word # "none" /\ Doing("refresh") /\ route = "local" => guardType \in {"none", word}

\* What an apply and a clear know of the OS at each step.
First(target) == Proxy!ProxyApplySteps(target)[1]
CallKnows ==
  /\ pc.holder \in {"applyLock", "applyWait", "firstStep"} => ~call.reached
  /\ pc.holder = "firstStep" /\ call.drained => guardState = "stopped" /\ os = call.before
  /\ pc.holder = "secondStep" =>
       /\ call.reached
       /\ call.drained =>
            /\ guardState = "stopped"
            /\ LET kind == First(call.want.target) IN
                 os[kind] = Proxy!Settings(call.want.target)[kind]
  /\ pc.holder = "disable" /\ call.drained => guardState = "stopped"

\* The inductive invariant of what the holder has promised.
ProxyInv ==
  /\ ProxyTyped /\ PlanShape /\ LockHeld /\ LoopsFollow /\ GuardFollows /\ CallKnows
  /\ Proxy!LastWordStands

\* The holder has superseded the loops once per call at most, the reader once.
Owed == IF pc.holder \in {"cancel", "refresh"} \cup Asked \/ Superseding THEN Len(plan) - 1
        ELSE Len(plan)
GenerationsCounted ==
  /\ generation + Owed + (IF pc.reader = "idle" THEN 1 ELSE 0) <= 4 * plans + 1
  /\ plans <= MaxPlans

\* What a plan may begin with.
LEMMA PlansAreShaped ==
  ASSUME NEW s \in Proxy!Plans
  PROVE  /\ s \in Seq(ProxyCalls) /\ RefreshesFollow(s) /\ s # <<>> /\ Len(s) <= 4
         /\ Head(s) # "refresh"
<1> USE DEF ProxyCalls, RefreshesFollow
<1>1. CASE s = <<"apply", "refresh">>
  BY <1>1
<1>2. CASE s = <<"apply", "clear", "stop">>
  BY <1>2
<1>3. CASE s = <<"apply", "refresh", "clear", "stop">>
  BY <1>3
<1>4. CASE s = <<"clear">>
  BY <1>4
<1>5. CASE s = <<"stop">>
  BY <1>5
<1>6. CASE s = <<"stop", "clear">>
  BY <1>6
<1> QED
  BY <1>1, <1>2, <1>3, <1>4, <1>5, <1>6 DEF Proxy!Plans

\* An answer ends the call, and with it the plan unless another one may follow; a refresh
\* follows an apply that worked.
Ended(name, answer) ==
  /\ plan' \in Seq(ProxyCalls) /\ RefreshesFollow(plan') /\ Len(plan') <= Len(plan) - 1
  /\ pc' \in Positions /\ pc'.holder \in {"idle", "next"} /\ pc'.reader = pc.reader
  /\ pc'.holder = "idle" <=> plan' = <<>>
  /\ call' = Proxy!NoCall /\ lastCall' = [name |-> name, answer |-> answer]
  /\ Doing("refresh")' => Doing("apply") /\ (answer = "ok" \/ name = "clear")

\* The answers are the ends of the calls.
LEMMA AnswerEnds ==
  ASSUME ProxyTyped, PlanShape, plan # <<>>
  PROVE  \A name, answer : Proxy!Answer(name, answer) => Ended(name, answer)
<1> SUFFICES ASSUME NEW name, NEW answer, Proxy!Answer(name, answer)
             PROVE  Ended(name, answer)
  OBVIOUS
<1>1. plan \in Seq(ProxyCalls) /\ Len(plan) \in Nat \ {0} /\ RefreshesFollow(plan)
  BY DEF PlanShape
<1>2. /\ Tail(plan) \in Seq(ProxyCalls) /\ Len(Tail(plan)) = Len(plan) - 1
      /\ \A i \in 1..(Len(plan) - 1) : Tail(plan)[i] = plan[i + 1]
  BY <1>1
<1>3. RefreshesFollow(Tail(plan))
  BY <1>1, <1>2 DEF RefreshesFollow
<1>4. Tail(plan) # <<>> /\ Head(Tail(plan)) = "refresh" => Head(plan) = "apply"
  BY <1>1, <1>2 DEF RefreshesFollow
<1>5. plan' = <<>> \/ (plan' = Tail(plan) /\ (answer = "ok" \/ name = "clear"))
  BY DEF Proxy!Answer
<1>6. plan' \in Seq(ProxyCalls) /\ RefreshesFollow(plan') /\ Len(plan') <= Len(plan) - 1
  <2>1. CASE plan' = <<>>
    BY <1>1, <2>1 DEF RefreshesFollow
  <2>2. CASE plan' = Tail(plan)
    BY <1>2, <1>3, <2>2
  <2> QED
    BY <1>5, <2>1, <2>2
<1>7. Doing("refresh")' => Doing("apply") /\ (answer = "ok" \/ name = "clear")
  BY <1>4, <1>5 DEF Doing
<1>8. /\ pc \in Positions /\ (plan' = <<>> => pc' = [pc EXCEPT !["holder"] = "idle"])
      /\ plan' # <<>> => pc' = [pc EXCEPT !["holder"] = "next"]
  BY DEF Proxy!Answer, Proxy!Goto, ProxyTyped
<1>9. /\ pc' \in Positions /\ pc'.holder \in {"idle", "next"} /\ pc'.reader = pc.reader
      /\ pc'.holder = "idle" <=> plan' = <<>>
  <2>1. PICK h \in {"idle", "next"} :
          pc' = [pc EXCEPT !["holder"] = h] /\ (h = "idle" <=> plan' = <<>>)
    BY <1>8
  <2> QED
    BY <1>8, <2>1 DEF Positions, Between
<1>10. call' = Proxy!NoCall /\ lastCall' = [name |-> name, answer |-> answer]
  BY DEF Proxy!Answer
<1> QED
  <2> HIDE DEF Doing
  <2>1. plan' \in Seq(ProxyCalls) /\ RefreshesFollow(plan') /\ Len(plan') <= Len(plan) - 1
    BY <1>6
  <2> HIDE DEF RefreshesFollow
  <2> QED
    BY <1>7, <1>9, <1>10, <2>1 DEF Ended

\* The values that the variables of the part start from have their types.
LEMMA ProxyValues ==
  /\ Proxy!NoCall \in CallState /\ Proxy!NoLoop \in LoopState
  /\ \A target \in Proxy!Targets : Proxy!Settings(target) \in OsSettings
  /\ \A choice \in Proxy!Choices : /\ Proxy!Enforced(choice) \in Enforceable
                                  /\ choice.target \in Proxy!Targets
                                  /\ choice \in [target : Proxy!Targets, guard : BOOLEAN]
  /\ \A want \in [target : Proxy!Targets, guard : BOOLEAN] : Proxy!Enforced(want) \in Enforceable
  /\ "off" \in Proxy!Targets
BY DEF Proxy!NoCall, Proxy!NoLoop, Proxy!Settings, Proxy!Targets, Proxy!Choices, Proxy!Enforced,
   CallState, LoopState, OsSettings, Enforceable

\* What disable_both and a setter leave.
LEMMA DisableAllTyped ==
  ASSUME os \in OsSettings, faults \in Nat, Proxy!DisableAll
  PROVE  /\ os' \in OsSettings /\ faults' \in Nat
         /\ faults' = faults => os' = Proxy!Settings("off")
<1>1. CASE os' = Proxy!Settings("off") /\ UNCHANGED faults
  BY <1>1, ProxyValues
<1>2. CASE /\ faults' = faults + 1
           /\ os' \in {os, [os EXCEPT !.global = FALSE], [os EXCEPT !.pac = FALSE]}
  <2>1. os' \in OsSettings
    BY <1>2 DEF OsSettings
  <2>2. faults' \in Nat /\ faults' # faults
    BY <1>2
  <2> QED
    BY <2>1, <2>2
<1> QED
  BY <1>1, <1>2 DEF Proxy!DisableAll

\* One service of the OS settings written by hand.
LEMMA SetTyped ==
  ASSUME os \in OsSettings, NEW kind \in {"global", "pac"}, NEW value \in BOOLEAN
  PROVE  Proxy!Set(kind, value) \in OsSettings
BY ProxyValues DEF Proxy!Set, OsSettings

\* What a step that moves one loop leaves of the others.
LEMMA LoopsKept ==
  ASSUME LoopsFollow, UNCHANGED <<pc, plan, route, generation, lastCall>>, filed' => filed,
         NEW g \in LoopIndices, \A h \in LoopIndices : h # g => loops'[h] = loops[h],
         word' \in {word, "none"}, loops'[g].target = loops[g].target \/ loops'[g].state = "none",
         \/ loops[g].state = "asking" /\ loops'[g].state \in {"asleep", "reporting"}
         \/ loops[g].state = "asleep" /\ g = generation /\ loops'[g].state = "asking"
              /\ route = "service"
         \/ loops[g].state = "asleep" /\ loops'[g].state = "none"
  PROVE  LoopsFollow'
<1>1. NoLoopIsCurrent => NoLoopIsCurrent'
  BY DEF NoLoopIsCurrent
<1>2. NoLoopIsCurrent /\ NoLoopAsks => NoLoopAsks'
  BY DEF NoLoopIsCurrent, NoLoopAsks, Asking
<1>3. (Superseding' <=> Superseding) /\ (GivenUp' <=> GivenUp)
  BY DEF Superseding, Doing, GivenUp
<1>4. \A h \in LoopIndices :
        Asking(h)' \/ (loops'[h].state = "asleep" /\ h = generation) =>
          word' \in {"none", loops'[h].target}
  BY DEF LoopsFollow, Asking
<1>5. \A h \in LoopIndices : generation < h => loops'[h].state = "none"
  BY DEF LoopsFollow, Asking
<1>6. (\/ route = "local" \/ pc.holder \in {"cancel", "refresh"} \cup Asked \/ Superseding
       \/ GivenUp)' => NoLoopIsCurrent'
  BY <1>1, <1>3 DEF LoopsFollow
<1>7. (route = "local" \/ pc.holder \in {"refresh", "request"} \/ Superseding \/ GivenUp)' =>
        NoLoopAsks'
  BY <1>1, <1>2, <1>3 DEF LoopsFollow, Asked
<1>8. filed' => NoLoopIsCurrent'
  BY <1>1 DEF LoopsFollow
<1> QED
  BY <1>4, <1>5, <1>6, <1>7, <1>8 DEF LoopsFollow

\* What a loop becomes once its request is answered.
LEMMA LoopChanges ==
  ASSUME NEW r \in LoopState
  PROVE  \A change \in {[r EXCEPT !.state = "asleep", !.failures = 0],
                        [r EXCEPT !.state = "reporting"],
                        [r EXCEPT !.state = "asleep", !.failures = @ + 1]} :
           /\ change.state \in {"asleep", "reporting"}
           /\ change.target = r.target /\ change \in LoopState
<1>1. LET change == [r EXCEPT !.state = "asleep", !.failures = 0] IN
        change.state = "asleep" /\ change.target = r.target /\ change \in LoopState
  BY DEF LoopState
<1>2. LET change == [r EXCEPT !.state = "reporting"] IN
        change.state = "reporting" /\ change.target = r.target /\ change \in LoopState
  BY DEF LoopState
<1>3. LET change == [r EXCEPT !.state = "asleep", !.failures = @ + 1] IN
        change.state = "asleep" /\ change.target = r.target /\ change \in LoopState
  <2> DEFINE more == r.failures + 1
             change == [r EXCEPT !.state = "asleep", !.failures = more]
  <2>1. more \in Nat
    BY DEF LoopState
  <2> HIDE DEF more
  <2>2. change.state = "asleep" /\ change.target = r.target /\ change \in LoopState
    BY <2>1 DEF LoopState
  <2> QED
    BY <2>2 DEF more
<1> QED
  BY <1>1, <1>2, <1>3

\* Each action preserves the invariant.
LEMMA ProxyBeginPlanStep ==
  ASSUME ProxyInv, Proxy!BeginPlan
  PROVE  ProxyInv'
<1> USE DEF Proxy!BeginPlan, Proxy!Goto, Proxy!Plans, Proxy!settings_vars, Proxy!guard_vars,
   Proxy!loop_vars, Proxy!lock_vars, Proxy!task_vars, Proxy!bound_vars
<1>1. ProxyTyped'
  <2>1. pc' \in Positions
    BY DEF ProxyInv, ProxyTyped, Positions, Between
  <2>2. call' \in CallState
    BY PlansAreShaped, ProxyValues DEF ProxyInv, ProxyTyped, CallState
  <2>3. os' \in OsSettings
    BY DEF ProxyInv, ProxyTyped
  <2>4. lastCall' \in LastCalls
    BY DEF ProxyInv, ProxyTyped
  <2> QED
    BY <2>1, <2>2, <2>3, <2>4, PlansAreShaped, ProxyValues DEF ProxyInv, ProxyTyped
<1>2. PlanShape'
  BY PlansAreShaped DEF ProxyInv, ProxyTyped, Positions, ProxyCalls, PlanShape, Doing,
     Superseding, Between, LocalApply, LocalClear, Draining, Asked
<1>3. LockHeld'
  BY DEF ProxyInv, LockHeld, Asking, Superseding, Draining
<1>4. LoopsFollow'
  BY DEF ProxyInv, LoopsFollow, NoLoopIsCurrent, NoLoopAsks, GivenUp, Asking, Superseding,
     Between, Draining, Asked
<1>5. GuardFollows'
  BY DEF ProxyInv, GuardFollows, Unsaid, GivenUp, Doing, Between, LocalApply, LocalClear,
     Draining, Asked
<1>6. CallKnows'
  BY DEF CallKnows
<1>7. Proxy!LastWordStands'
  BY DEF ProxyInv, Proxy!LastWordStands
<1> QED
  BY <1>1, <1>2, <1>3, <1>4, <1>5, <1>6, <1>7 DEF ProxyInv

\* StagePatch keeps the invariant.
LEMMA ProxyStagePatchStep ==
  ASSUME ProxyInv, Proxy!StagePatch
  PROVE  ProxyInv'
<1> USE DEF Proxy!StagePatch, Proxy!Goto, Proxy!settings_vars, Proxy!guard_vars, Proxy!loop_vars,
   Proxy!lock_vars, Proxy!task_vars, Proxy!bound_vars
<1>1. ProxyTyped'
  <2>1. pc' \in Positions
    BY DEF ProxyInv, ProxyTyped
  <2>2. call' \in CallState
    BY ProxyValues DEF ProxyInv, ProxyTyped, CallState
  <2>3. os' \in OsSettings
    BY DEF ProxyInv, ProxyTyped
  <2>4. lastCall' \in LastCalls
    BY DEF ProxyInv, ProxyTyped
  <2> QED
    BY <2>1, <2>2, <2>3, <2>4, ProxyValues DEF ProxyInv, ProxyTyped
<1>2. PlanShape'
  BY DEF ProxyInv, PlanShape, Doing
<1>3. LockHeld'
  BY DEF ProxyInv, LockHeld, Asking, Doing, Superseding
<1>4. LoopsFollow'
  BY DEF ProxyInv, LoopsFollow, NoLoopIsCurrent, NoLoopAsks, GivenUp, Asking, Doing, Superseding
<1>5. GuardFollows'
  BY DEF ProxyInv, GuardFollows, Unsaid, GivenUp, Doing
<1>6. CallKnows'
  BY DEF ProxyInv, CallKnows
<1>7. Proxy!LastWordStands'
  BY DEF ProxyInv, Proxy!LastWordStands
<1> QED
  BY <1>1, <1>2, <1>3, <1>4, <1>5, <1>6, <1>7 DEF ProxyInv

\* ApplyPatch keeps the invariant.
LEMMA ProxyApplyPatchStep ==
  ASSUME ProxyInv, Proxy!ApplyPatch
  PROVE  ProxyInv'
<1> USE DEF Proxy!ApplyPatch, Proxy!Goto, Proxy!settings_vars, Proxy!guard_vars, Proxy!loop_vars,
   Proxy!lock_vars, Proxy!task_vars, Proxy!bound_vars
<1>1. ProxyTyped'
  <2>1. pc' \in Positions
    BY DEF ProxyInv, ProxyTyped, Positions, Between
  <2>2. call' \in CallState
    BY PlansAreShaped, ProxyValues DEF ProxyInv, ProxyTyped, CallState
  <2>3. os' \in OsSettings
    BY DEF ProxyInv, ProxyTyped
  <2>4. lastCall' \in LastCalls
    BY DEF ProxyInv, ProxyTyped
  <2> QED
    BY <2>1, <2>2, <2>3, <2>4, PlansAreShaped, ProxyValues DEF ProxyInv, ProxyTyped
<1>2. PlanShape'
  <2>1. plan' \in Proxy!Plans /\ plan' = <<"apply", "refresh">>
    BY DEF Proxy!Plans
  <2>2. /\ plan' \in Seq(ProxyCalls) /\ RefreshesFollow(plan') /\ plan' # <<>>
        /\ Head(plan') # "refresh"
    BY <2>1, PlansAreShaped
  <2> QED
    BY <2>2 DEF ProxyInv, ProxyTyped, Positions, PlanShape, LocalApply, LocalClear, Draining,
       Asked
<1>3. LockHeld'
  BY DEF ProxyInv, LockHeld, Asking, Doing, Superseding
<1>4. LoopsFollow'
  BY DEF ProxyInv, LoopsFollow, NoLoopIsCurrent, NoLoopAsks, GivenUp, Asking, Doing,
     Superseding, Between, Asked
<1>5. GuardFollows'
  BY DEF ProxyInv, GuardFollows, Unsaid, GivenUp, Doing, Between, LocalApply, LocalClear,
     Draining, Asked
<1>6. CallKnows'
  BY DEF CallKnows
<1>7. Proxy!LastWordStands'
  BY DEF ProxyInv, Proxy!LastWordStands
<1> QED
  BY <1>1, <1>2, <1>3, <1>4, <1>5, <1>6, <1>7 DEF ProxyInv

\* EndPatch keeps the invariant.
LEMMA ProxyEndPatchStep ==
  ASSUME ProxyInv, Proxy!EndPatch
  PROVE  ProxyInv'
<1> USE DEF Proxy!EndPatch, Proxy!Goto, Proxy!settings_vars, Proxy!guard_vars, Proxy!loop_vars,
   Proxy!lock_vars, Proxy!task_vars, Proxy!bound_vars
<1>1. ProxyTyped'
  <2>1. pc' \in Positions
    BY DEF ProxyInv, ProxyTyped
  <2>2. call' \in CallState
    BY ProxyValues DEF ProxyInv, ProxyTyped, CallState
  <2>3. os' \in OsSettings
    BY DEF ProxyInv, ProxyTyped
  <2>4. lastCall' \in LastCalls
    BY DEF ProxyInv, ProxyTyped
  <2> QED
    BY <2>1, <2>2, <2>3, <2>4, ProxyValues DEF ProxyInv, ProxyTyped
<1>2. PlanShape'
  BY DEF ProxyInv, PlanShape, Doing
<1>3. LockHeld'
  BY DEF ProxyInv, LockHeld, Asking, Doing, Superseding
<1>4. LoopsFollow'
  BY DEF ProxyInv, LoopsFollow, NoLoopIsCurrent, NoLoopAsks, GivenUp, Asking, Doing, Superseding
<1>5. GuardFollows'
  BY DEF ProxyInv, GuardFollows, Unsaid, GivenUp, Doing
<1>6. CallKnows'
  BY DEF CallKnows
<1>7. Proxy!LastWordStands'
  BY DEF ProxyInv, Proxy!LastWordStands
<1> QED
  BY <1>1, <1>2, <1>3, <1>4, <1>5, <1>6, <1>7 DEF ProxyInv

\* SwitchRoute keeps the invariant.
LEMMA ProxySwitchRouteStep ==
  ASSUME ProxyInv, Proxy!SwitchRoute
  PROVE  ProxyInv'
<1> USE DEF Proxy!SwitchRoute, Proxy!Goto, Proxy!Word, Proxy!settings_vars, Proxy!guard_vars,
   Proxy!loop_vars, Proxy!lock_vars, Proxy!task_vars, Proxy!bound_vars
<1>1. ProxyTyped'
  <2>1. pc' \in Positions
    BY DEF ProxyInv, ProxyTyped
  <2>2. call' \in CallState
    BY ProxyValues DEF ProxyInv, ProxyTyped, CallState
  <2>3. os' \in OsSettings
    BY ProxyValues DEF ProxyInv, ProxyTyped
  <2>4. lastCall' \in LastCalls
    BY DEF ProxyInv, ProxyTyped
  <2> QED
    BY <2>1, <2>2, <2>3, <2>4, ProxyValues DEF ProxyInv, ProxyTyped
<1>2. PlanShape'
  BY DEF ProxyInv, PlanShape, Doing
<1>3. LockHeld'
  BY DEF ProxyInv, LockHeld, Asking, Doing, Superseding
<1>4. LoopsFollow'
  BY DEF ProxyInv, ProxyTyped, Positions, PlanShape, LoopsFollow, NoLoopIsCurrent, NoLoopAsks,
     GivenUp, Asking, Draining, Asked
<1>5. GuardFollows'
  BY DEF ProxyInv, ProxyTyped, Positions, PlanShape, GuardFollows, Unsaid, GivenUp, Doing
<1>6. CallKnows'
  BY DEF CallKnows
<1>7. Proxy!LastWordStands'
  BY DEF ProxyInv, Proxy!LastWordStands
<1> QED
  BY <1>1, <1>2, <1>3, <1>4, <1>5, <1>6, <1>7 DEF ProxyInv

\* GuardFires keeps the invariant.
LEMMA ProxyGuardFiresStep ==
  ASSUME ProxyInv, Proxy!GuardFires
  PROVE  ProxyInv'
<1> USE DEF Proxy!GuardFires, Proxy!Goto, Proxy!settings_vars, Proxy!guard_vars, Proxy!loop_vars,
   Proxy!lock_vars, Proxy!task_vars, Proxy!bound_vars
<1>1. ProxyTyped'
  <2>1. pc' \in Positions
    BY DEF ProxyInv, ProxyTyped
  <2>2. call' \in CallState
    BY ProxyValues DEF ProxyInv, ProxyTyped, CallState
  <2>3. os' \in OsSettings
    BY DEF ProxyInv, ProxyTyped
  <2>4. lastCall' \in LastCalls
    BY DEF ProxyInv, ProxyTyped
  <2> QED
    BY <2>1, <2>2, <2>3, <2>4, ProxyValues DEF ProxyInv, ProxyTyped
<1>2. PlanShape'
  BY DEF ProxyInv, PlanShape, Doing
<1>3. LockHeld'
  BY DEF ProxyInv, LockHeld, Asking, Doing, Superseding
<1>4. LoopsFollow'
  BY DEF ProxyInv, ProxyTyped, LoopsFollow, NoLoopIsCurrent, NoLoopAsks, Asking, GuardFollows
<1>5. GuardFollows'
  BY DEF ProxyInv, GuardFollows, Unsaid, GivenUp, Doing
<1>6. CallKnows'
  BY DEF ProxyInv, CallKnows
<1>7. Proxy!LastWordStands'
  BY DEF ProxyInv, Proxy!LastWordStands
<1> QED
  BY <1>1, <1>2, <1>3, <1>4, <1>5, <1>6, <1>7 DEF ProxyInv

\* GuardWriteLands keeps the invariant.
LEMMA ProxyGuardWriteLandsStep ==
  ASSUME ProxyInv, Proxy!GuardWriteLands
  PROVE  ProxyInv'
<1> USE DEF Proxy!GuardWriteLands, Proxy!Goto, Proxy!settings_vars, Proxy!guard_vars,
   Proxy!loop_vars, Proxy!lock_vars, Proxy!task_vars, Proxy!bound_vars
<1>1. ProxyTyped'
  <2>1. pc' \in Positions
    BY DEF ProxyInv, ProxyTyped
  <2>2. call' \in CallState
    BY ProxyValues DEF ProxyInv, ProxyTyped, CallState
  <2>3. os' \in OsSettings
    <3>1. guardWrite = "global" \/ guardWrite = "pac"
      BY DEF ProxyInv, ProxyTyped, Enforceable
    <3> QED
      BY <3>1 DEF ProxyInv, ProxyTyped, OsSettings
  <2>4. lastCall' \in LastCalls
    BY DEF ProxyInv, ProxyTyped
  <2>5. /\ plans' \in Nat /\ faults' \in Nat /\ hangs' \in 0..MaxHangs /\ generation' \in Nat
        /\ loops' \in [1..Proxy!MaxGeneration -> LoopState] /\ platform' = platform
        /\ verge' \in Proxy!Choices /\ saved' \in Proxy!Choices /\ route' \in {"local", "service"}
    BY DEF ProxyInv, ProxyTyped
  <2>6. guardType' \in Enforceable /\ guardWrite' \in Enforceable
    BY DEF ProxyInv, ProxyTyped, Enforceable
  <2>7. guardState' \in {"stopped", "running", "stopping"}
    BY DEF ProxyInv, ProxyTyped
  <2>8. word' \in Proxy!Targets \cup {"none"}
    BY ProxyValues DEF ProxyInv, ProxyTyped, CallState
  <2>9. opLock' \in {"free", "holder", "reader", "loop"}
    BY DEF ProxyInv, ProxyTyped, Proxy!Free
  <2> QED
    BY <2>1, <2>2, <2>3, <2>4, <2>5, <2>6, <2>7, <2>8, <2>9 DEF ProxyInv, ProxyTyped
<1>2. PlanShape'
  BY DEF ProxyInv, PlanShape, Doing
<1>3. LockHeld'
  BY DEF ProxyInv, LockHeld, Asking, Doing, Superseding
<1>4. LoopsFollow'
  BY DEF ProxyInv, LoopsFollow, NoLoopIsCurrent, NoLoopAsks, GivenUp, Asking, Doing, Superseding
<1>5. GuardFollows'
  BY DEF ProxyInv, ProxyTyped, GuardFollows, Unsaid, GivenUp, Doing
<1>6. CallKnows'
  BY DEF ProxyInv, ProxyTyped, Positions, PlanShape, CallKnows, GuardFollows, Doing, Between,
     LocalApply, LocalClear, Draining, Asked, CallState, OsSettings, Proxy!Settings, First,
     Proxy!ProxyApplySteps, Proxy!Targets, Proxy!NoCall
<1>7. Proxy!LastWordStands'
  <2>1. guardWrite = "global" \/ guardWrite = "pac"
    BY DEF ProxyInv, ProxyTyped, Enforceable
  <2>2. word' # "none" => word = guardWrite /\ os = Proxy!Settings(guardWrite)
    BY DEF ProxyInv, GuardFollows, Proxy!LastWordStands
  <2>3. word' # "none" => os' = os
    <3>1. CASE guardWrite = "global"
      <4> HAVE word' # "none"
      <4>1. os = [global |-> TRUE, pac |-> FALSE]
        BY <2>2, <3>1 DEF Proxy!Settings
      <4>2. os' = [os EXCEPT !["global"] = TRUE]
        BY <3>1
      <4> QED
        BY <4>1, <4>2
    <3>2. CASE guardWrite = "pac"
      <4> HAVE word' # "none"
      <4>1. os = [global |-> FALSE, pac |-> TRUE]
        BY <2>2, <3>2 DEF Proxy!Settings
      <4>2. os' = [os EXCEPT !["pac"] = TRUE]
        BY <3>2
      <4> QED
        BY <4>1, <4>2
    <3> QED
      BY <2>1, <3>1, <3>2
  <2> QED
    BY <2>2, <2>3 DEF ProxyInv, Proxy!LastWordStands
<1> QED
  BY <1>1, <1>2, <1>3, <1>4, <1>5, <1>6, <1>7 DEF ProxyInv

\* ApplyLocal keeps the invariant.
LEMMA ProxyApplyLocalStep ==
  ASSUME ProxyInv, Proxy!ApplyLocal
  PROVE  ProxyInv'
<1> USE DEF Proxy!ApplyLocal, Proxy!Goto, Proxy!AtCall, Proxy!settings_vars, Proxy!guard_vars,
   Proxy!loop_vars, Proxy!lock_vars, Proxy!task_vars, Proxy!bound_vars
<1>1. ProxyTyped'
  <2>1. pc' \in Positions
    BY DEF ProxyInv, ProxyTyped, Positions, LocalApply
  <2>2. call' \in CallState
    BY ProxyValues DEF ProxyInv, ProxyTyped, CallState
  <2>3. os' \in OsSettings
    BY DEF ProxyInv, ProxyTyped
  <2>4. lastCall' \in LastCalls
    BY DEF ProxyInv, ProxyTyped
  <2> QED
    BY <2>1, <2>2, <2>3, <2>4, ProxyValues DEF ProxyInv, ProxyTyped
<1>2. PlanShape'
  BY DEF ProxyInv, PlanShape, Doing, LocalClear, Draining, Asked
<1>3. LockHeld'
  BY DEF ProxyInv, PlanShape, LockHeld, Asking, Doing, Superseding
<1>4. LoopsFollow'
  BY DEF ProxyInv, LoopsFollow, NoLoopIsCurrent, NoLoopAsks, Asking
<1>5. GuardFollows'
  BY DEF ProxyInv, GuardFollows, GivenUp, Between, LocalClear
<1>6. CallKnows'
  BY DEF CallKnows, Proxy!NoCall
<1>7. Proxy!LastWordStands'
  BY DEF Proxy!LastWordStands
<1> QED
  BY <1>1, <1>2, <1>3, <1>4, <1>5, <1>6, <1>7 DEF ProxyInv

\* DrainForApply keeps the invariant.
LEMMA ProxyDrainForApplyStep ==
  ASSUME ProxyInv, Proxy!DrainForApply
  PROVE  ProxyInv'
<1> USE DEF Proxy!DrainForApply, Proxy!Goto, Proxy!ShutdownGuard, Proxy!settings_vars,
   Proxy!guard_vars, Proxy!loop_vars, Proxy!lock_vars, Proxy!task_vars, Proxy!bound_vars
<1>1. ProxyTyped'
  <2>1. pc' \in Positions
    BY DEF ProxyInv, ProxyTyped, Positions, LocalApply
  <2>2. call' \in CallState
    BY ProxyValues DEF ProxyInv, ProxyTyped, CallState
  <2>3. os' \in OsSettings
    BY DEF ProxyInv, ProxyTyped
  <2>4. lastCall' \in LastCalls
    BY DEF ProxyInv, ProxyTyped
  <2> QED
    BY <2>1, <2>2, <2>3, <2>4, ProxyValues DEF ProxyInv, ProxyTyped
<1>2. PlanShape'
  BY DEF ProxyInv, PlanShape, Doing, LocalApply, LocalClear, Draining, Asked
<1>3. LockHeld'
  BY DEF ProxyInv, PlanShape, LockHeld, Asking, Doing, Superseding, LocalApply
<1>4. LoopsFollow'
  BY DEF ProxyInv, PlanShape, LoopsFollow, NoLoopIsCurrent, NoLoopAsks, Asking, LocalApply
<1>5. GuardFollows'
  BY DEF ProxyInv, GuardFollows, Unsaid, LocalApply
<1>6. CallKnows'
  BY DEF ProxyInv, CallKnows
<1>7. Proxy!LastWordStands'
  BY DEF ProxyInv, Proxy!LastWordStands
<1> QED
  BY <1>1, <1>2, <1>3, <1>4, <1>5, <1>6, <1>7 DEF ProxyInv

\* ApplyAfterDrain keeps the invariant.
LEMMA ProxyApplyAfterDrainStep ==
  ASSUME ProxyInv, Proxy!ApplyAfterDrain
  PROVE  ProxyInv'
<1> USE DEF Proxy!ApplyAfterDrain, Proxy!Goto, Proxy!WaitIdle, Proxy!settings_vars,
   Proxy!guard_vars, Proxy!loop_vars, Proxy!lock_vars, Proxy!task_vars, Proxy!bound_vars
<1>a. plan # <<>>
  BY DEF ProxyInv, PlanShape
<1>0. \A name, answer : Proxy!Answer(name, answer) => Ended(name, answer)
  BY <1>a, AnswerEnds DEF ProxyInv
<1>1. ProxyTyped'
  <2>1. pc' \in Positions
    BY <1>0 DEF ProxyInv, ProxyTyped, Positions, LocalApply, Ended
  <2>2. call' \in CallState
    BY ZenonT(40), <1>0, ProxyValues DEF ProxyInv, ProxyTyped, CallState, Ended
  <2>3. os' \in OsSettings
    BY DEF ProxyInv, ProxyTyped
  <2>4. lastCall' \in LastCalls
    BY <1>0 DEF ProxyInv, ProxyTyped, LastCalls, ProxyCalls, Ended
  <2>5. /\ plans' \in Nat /\ faults' \in Nat /\ hangs' \in 0..MaxHangs /\ generation' \in Nat
        /\ loops' \in [1..Proxy!MaxGeneration -> LoopState] /\ platform' = platform
        /\ verge' \in Proxy!Choices /\ saved' \in Proxy!Choices /\ route' \in {"local", "service"}
    BY BoundsAssumption DEF ProxyInv, ProxyTyped
  <2>6. guardType' \in Enforceable /\ guardWrite' \in Enforceable
    BY ProxyValues DEF ProxyInv, ProxyTyped, CallState
  <2>7. guardState' \in {"stopped", "running", "stopping"}
    BY DEF ProxyInv, ProxyTyped
  <2>8. word' \in Proxy!Targets \cup {"none"}
    BY ProxyValues DEF ProxyInv, ProxyTyped, CallState
  <2>9. opLock' \in {"free", "holder", "reader", "loop"}
    BY DEF ProxyInv, ProxyTyped, Proxy!Free
  <2> QED
    BY <2>1, <2>2, <2>3, <2>4, <2>5, <2>6, <2>7, <2>8, <2>9 DEF ProxyInv, ProxyTyped
<1>2. PlanShape'
  BY <1>0 DEF ProxyInv, ProxyTyped, Positions, PlanShape, Doing, LocalApply, LocalClear,
     Draining, Asked, Ended
<1>3. LockHeld'
  BY <1>0 DEF ProxyInv, ProxyTyped, Positions, LockHeld, Asking, Superseding, Draining, Ended
<1>4. LoopsFollow'
  BY DEF ProxyInv, PlanShape, LoopsFollow, NoLoopIsCurrent, NoLoopAsks, Asking, LocalApply
<1>5. GuardFollows'
  BY <1>0 DEF ProxyInv, GuardFollows, Unsaid, LocalApply, LocalClear, Draining, Asked,
     Proxy!Enforced, Ended
<1>6. CallKnows'
  BY ZenonT(40), <1>0 DEF ProxyInv, ProxyTyped, Positions, PlanShape, CallKnows, GuardFollows,
     Doing, Between, LocalApply, LocalClear, Draining, Asked, CallState, OsSettings,
     Proxy!Settings, First, Proxy!ProxyApplySteps, Proxy!Targets, Proxy!NoCall, Ended
<1>7. Proxy!LastWordStands'
  BY DEF ProxyInv, Proxy!LastWordStands
<1> QED
  BY <1>1, <1>2, <1>3, <1>4, <1>5, <1>6, <1>7 DEF ProxyInv

\* WriteFirst keeps the invariant.
LEMMA ProxyWriteFirstStep ==
  ASSUME ProxyInv, Proxy!WriteFirst
  PROVE  ProxyInv'
<1> USE DEF Proxy!WriteFirst, Proxy!Goto, Proxy!StepFails, Proxy!RecoverUnchanged,
   Proxy!RecoverUnknown, Proxy!WritesAreEvidence, Proxy!StartGuard, Proxy!Set,
   Proxy!ProxyApplySteps, Proxy!settings_vars, Proxy!guard_vars, Proxy!loop_vars,
   Proxy!lock_vars, Proxy!task_vars, Proxy!bound_vars
<1>a. plan # <<>>
  BY DEF ProxyInv, PlanShape
<1>0. \A name, answer : Proxy!Answer(name, answer) => Ended(name, answer)
  BY <1>a, AnswerEnds DEF ProxyInv
<1>1. ProxyTyped'
  <2>1. pc' \in Positions
    BY <1>0 DEF ProxyInv, ProxyTyped, Positions, LocalApply, Ended
  <2>2. call' \in CallState
    <3>1. \/ call' = [call EXCEPT !.reached = TRUE]
          \/ call' = call
          \/ call' = Proxy!NoCall
      BY <1>0 DEF Ended
    <3> QED
      BY ZenonT(40), <3>1, ProxyValues DEF ProxyInv, ProxyTyped, CallState
  <2>3. os' \in OsSettings
    BY ProxyValues DEF ProxyInv, ProxyTyped, CallState, OsSettings
  <2>4. lastCall' \in LastCalls
    BY <1>0, ProxyValues DEF ProxyInv, ProxyTyped, LastCalls, ProxyCalls, Ended
  <2>5. /\ plans' \in Nat /\ faults' \in Nat /\ hangs' \in 0..MaxHangs /\ generation' \in Nat
        /\ loops' \in [1..Proxy!MaxGeneration -> LoopState] /\ platform' = platform
        /\ verge' \in Proxy!Choices /\ saved' \in Proxy!Choices /\ route' \in {"local", "service"}
    BY DEF ProxyInv, ProxyTyped
  <2>6. guardType' \in Enforceable /\ guardWrite' \in Enforceable
    BY DEF ProxyInv, ProxyTyped, Enforceable
  <2>7. guardState' \in {"stopped", "running", "stopping"}
    BY DEF ProxyInv, ProxyTyped
  <2>8. word' \in Proxy!Targets \cup {"none"}
    BY ProxyValues DEF ProxyInv, ProxyTyped, CallState
  <2>9. opLock' \in {"free", "holder", "reader", "loop"}
    BY DEF ProxyInv, ProxyTyped, Proxy!Free
  <2> QED
    BY <2>1, <2>2, <2>3, <2>4, <2>5, <2>6, <2>7, <2>8, <2>9 DEF ProxyInv, ProxyTyped
<1>2. PlanShape'
  BY SMTT(30), <1>0 DEF ProxyInv, ProxyTyped, Positions, ProxyCalls, PlanShape, Doing, Superseding,
     Between, LocalApply, LocalClear, Draining, Asked, Ended
<1>3. LockHeld'
  BY <1>0 DEF ProxyInv, ProxyTyped, Positions, LockHeld, Asking, Superseding, Draining,
     Proxy!NoLoop, Ended
<1>4. LoopsFollow'
  BY <1>0 DEF ProxyInv, PlanShape, LoopsFollow, NoLoopIsCurrent, NoLoopAsks, Asking, LocalApply,
     Asked, Proxy!NoLoop
<1>5. GuardFollows'
  BY <1>0 DEF ProxyInv, PlanShape, GuardFollows, Unsaid, GivenUp, LocalApply, LocalClear, Asked,
     Ended
<1>6. CallKnows'
  <2> DEFINE first == First(call.want.target)
             wanted == Proxy!Settings(call.want.target)[first]
  <2>1. call.want.target \in Proxy!Targets /\ call \in CallState /\ pc \in Positions
        /\ os \in OsSettings
    BY DEF ProxyInv, ProxyTyped, CallState
  <2>2. first \in {"global", "pac"} /\ wanted \in BOOLEAN
    BY <2>1, ProxyValues DEF First, Proxy!ProxyApplySteps, OsSettings
  <2>3. CASE /\ os' = Proxy!Set(first, wanted)
             /\ call' = [call EXCEPT !.reached = TRUE]
             /\ pc' = [pc EXCEPT !["holder"] = "secondStep"]
             /\ UNCHANGED guardState
    <3>1. pc'.holder = "secondStep" /\ call'.reached /\ call'.drained = call.drained
          /\ call'.want = call.want
      BY <2>1, <2>3 DEF Positions, CallState
    <3>2. call.drained => guardState' = "stopped"
      BY <2>3 DEF ProxyInv, CallKnows
    <3>3. os'[first] = wanted
      BY <2>1, <2>2, <2>3 DEF Proxy!Set, Proxy!Settings, OsSettings
    <3> QED
      BY <3>1, <3>2, <3>3 DEF CallKnows, First
  <2>4. CASE pc'.holder \in {"compensate", "idle", "next"}
    BY <2>4 DEF CallKnows
  <2>5. \/ /\ os' = Proxy!Set(first, wanted)
           /\ call' = [call EXCEPT !.reached = TRUE]
           /\ pc' = [pc EXCEPT !["holder"] = "secondStep"]
           /\ UNCHANGED guardState
        \/ pc'.holder \in {"compensate", "idle", "next"}
    BY <1>0, <2>1 DEF First, Ended, Positions
  <2> QED
    BY <2>3, <2>4, <2>5
<1>7. Proxy!LastWordStands'
  BY DEF ProxyInv, GuardFollows, Proxy!LastWordStands, Unsaid, LocalApply
<1> QED
  BY <1>1, <1>2, <1>3, <1>4, <1>5, <1>6, <1>7 DEF ProxyInv

\* WriteSecond keeps the invariant.
LEMMA ProxyWriteSecondStep ==
  ASSUME ProxyInv, Proxy!WriteSecond
  PROVE  ProxyInv'
<1> USE DEF Proxy!WriteSecond, Proxy!Goto, Proxy!StepFails, Proxy!RecoverUnchanged,
   Proxy!RecoverUnknown, Proxy!WritesAreEvidence, Proxy!StartGuard, Proxy!Set,
   Proxy!ProxyApplySteps, Proxy!Word, Proxy!settings_vars, Proxy!guard_vars, Proxy!loop_vars,
   Proxy!lock_vars, Proxy!task_vars, Proxy!bound_vars
<1>a. plan # <<>>
  BY DEF ProxyInv, PlanShape
<1>0. \A name, answer : Proxy!Answer(name, answer) => Ended(name, answer)
  BY <1>a, AnswerEnds DEF ProxyInv
<1>1. ProxyTyped'
  <2>1. pc' \in Positions
    BY <1>0, ProxyValues DEF ProxyInv, ProxyTyped, Positions, Between, LocalApply, LocalClear,
       Draining, Asked, Ended
  <2>2. call' \in CallState
    BY <1>0, ProxyValues DEF ProxyInv, ProxyTyped, CallState, Ended
  <2>3. os' \in OsSettings
    <3>1. call.want.target \in Proxy!Targets
      BY DEF ProxyInv, ProxyTyped, CallState
    <3>2. PICK kind \in {"global", "pac"} :
            os' \in {os, Proxy!Set(kind, Proxy!Settings(call.want.target)[kind])}
      BY <3>1
    <3>3. Proxy!Settings(call.want.target)[kind] \in BOOLEAN
      BY <3>1, ProxyValues DEF OsSettings
    <3> HIDE DEF Proxy!Set
    <3> QED
      BY <3>2, <3>3, SetTyped DEF ProxyInv, ProxyTyped
  <2>4. lastCall' \in LastCalls
    BY <1>0, ProxyValues DEF ProxyInv, ProxyTyped, LastCalls, ProxyCalls, Ended
  <2>5. /\ plans' \in Nat /\ faults' \in Nat /\ hangs' \in 0..MaxHangs /\ generation' \in Nat
        /\ loops' \in [1..Proxy!MaxGeneration -> LoopState] /\ platform' = platform
        /\ verge' \in Proxy!Choices /\ saved' \in Proxy!Choices /\ route' \in {"local", "service"}
    BY DEF ProxyInv, ProxyTyped
  <2>6. guardType' \in Enforceable /\ guardWrite' \in Enforceable
    BY ProxyValues DEF ProxyInv, ProxyTyped, CallState, Enforceable
  <2>7. guardState' \in {"stopped", "running", "stopping"}
    BY DEF ProxyInv, ProxyTyped
  <2>8. word' \in Proxy!Targets \cup {"none"}
    BY ProxyValues DEF ProxyInv, ProxyTyped, CallState
  <2>9. opLock' \in {"free", "holder", "reader", "loop"}
    BY DEF ProxyInv, ProxyTyped, Proxy!Free
  <2> QED
    BY <2>1, <2>2, <2>3, <2>4, <2>5, <2>6, <2>7, <2>8, <2>9 DEF ProxyInv, ProxyTyped
<1>2. PlanShape'
  BY <1>0 DEF ProxyInv, ProxyTyped, Positions, ProxyCalls, PlanShape, Doing, Superseding,
     Between, LocalApply, LocalClear, Draining, Asked, Ended
<1>3. LockHeld'
  BY <1>0 DEF ProxyInv, ProxyTyped, Positions, PlanShape, LockHeld, Asking, LoopIndices, Doing,
     Superseding, Between, LocalApply, LocalClear, Draining, Asked, LoopState, Proxy!NoLoop,
     Ended
<1>4. LoopsFollow'
  BY <1>0 DEF ProxyInv, ProxyTyped, Positions, PlanShape, LockHeld, LoopsFollow, NoLoopIsCurrent,
     NoLoopAsks, GivenUp, Asking, LoopIndices, Doing, Superseding, Between, LocalApply,
     LocalClear, Draining, Asked, LoopState, Proxy!NoLoop, GuardFollows, Unsaid,
     Proxy!LastWordStands, Ended
<1>5. GuardFollows'
  BY <1>0 DEF ProxyInv, ProxyTyped, Positions, PlanShape, GuardFollows, Unsaid, GivenUp, Doing,
     Superseding, Between, LocalApply, LocalClear, Draining, Asked, Enforceable, Proxy!Targets,
     CallKnows, Proxy!Enforced, Proxy!Choices, Ended
<1>6. CallKnows'
  BY <1>0 DEF ProxyInv, ProxyTyped, Positions, PlanShape, CallKnows, GuardFollows, Doing,
     Between, LocalApply, LocalClear, Draining, Asked, CallState, OsSettings, Proxy!Settings,
     First, Proxy!ProxyApplySteps, Proxy!Targets, Proxy!NoCall, Ended
<1>7. Proxy!LastWordStands'
  BY <1>0 DEF ProxyInv, ProxyTyped, Positions, PlanShape, LoopsFollow, NoLoopAsks, Asking,
     LoopIndices, GuardFollows, CallKnows, Proxy!LastWordStands, Proxy!Settings, Unsaid, Doing,
     Between, LocalApply, LocalClear, Draining, Asked, CallState, OsSettings, Proxy!Targets,
     Enforceable, First, Proxy!ProxyApplySteps, Ended
<1> QED
  BY <1>1, <1>2, <1>3, <1>4, <1>5, <1>6, <1>7 DEF ProxyInv

\* Compensate keeps the invariant.
LEMMA ProxyCompensateStep ==
  ASSUME ProxyInv, Proxy!Compensate
  PROVE  ProxyInv'
<1> USE DEF Proxy!Compensate, Proxy!Goto, Proxy!DisableAll, Proxy!settings_vars,
   Proxy!guard_vars, Proxy!loop_vars, Proxy!lock_vars, Proxy!task_vars, Proxy!bound_vars
<1>a. plan # <<>>
  BY DEF ProxyInv, PlanShape
<1>0. \A name, answer : Proxy!Answer(name, answer) => Ended(name, answer)
  BY <1>a, AnswerEnds DEF ProxyInv
<1>1. ProxyTyped'
  <2>1. pc' \in Positions
    BY <1>0 DEF Ended
  <2>2. call' \in CallState
    BY <1>0, ProxyValues DEF Ended
  <2>3. os' \in OsSettings
    BY DisableAllTyped DEF ProxyInv, ProxyTyped
  <2>4. lastCall' \in LastCalls
    BY <1>0 DEF LastCalls, ProxyCalls, Ended
  <2> QED
    BY <2>1, <2>2, <2>3, <2>4, <1>0, ProxyValues DEF ProxyInv, ProxyTyped, Ended
<1>2. PlanShape'
  BY <1>0 DEF PlanShape, LocalApply, LocalClear, Draining, Asked, Ended
<1>3. LockHeld'
  BY <1>0 DEF ProxyInv, LockHeld, Asking, Superseding, Draining, Ended
<1>4. LoopsFollow'
  BY DEF ProxyInv, PlanShape, LoopsFollow, NoLoopIsCurrent, NoLoopAsks, Asking, LocalApply
<1>5. GuardFollows'
  BY DEF ProxyInv, GuardFollows, Unsaid, LocalApply
<1>6. CallKnows'
  BY <1>0 DEF CallKnows, Ended
<1>7. Proxy!LastWordStands'
  BY DEF ProxyInv, GuardFollows, Proxy!LastWordStands, Unsaid, LocalApply
<1> QED
  BY <1>1, <1>2, <1>3, <1>4, <1>5, <1>6, <1>7 DEF ProxyInv

\* ClearLocal keeps the invariant.
LEMMA ProxyClearLocalStep ==
  ASSUME ProxyInv, Proxy!ClearLocal
  PROVE  ProxyInv'
<1> USE DEF Proxy!ClearLocal, Proxy!Goto, Proxy!AtCall, Proxy!ShutdownGuard, Proxy!settings_vars,
   Proxy!guard_vars, Proxy!loop_vars, Proxy!lock_vars, Proxy!task_vars, Proxy!bound_vars
<1>1. ProxyTyped'
  <2>1. pc' \in Positions
    BY DEF ProxyInv, ProxyTyped, Positions, LocalClear
  <2>2. call' \in CallState
    BY ProxyValues DEF ProxyInv, ProxyTyped, CallState
  <2>3. os' \in OsSettings
    BY DEF ProxyInv, ProxyTyped
  <2>4. lastCall' \in LastCalls
    BY DEF ProxyInv, ProxyTyped
  <2> QED
    BY <2>1, <2>2, <2>3, <2>4, ProxyValues DEF ProxyInv, ProxyTyped
<1>2. PlanShape'
  BY DEF ProxyInv, PlanShape, Doing, LocalApply, LocalClear, Draining, Asked
<1>3. LockHeld'
  BY DEF ProxyInv, LockHeld, Asking, Superseding, Draining
<1>4. LoopsFollow'
  BY DEF ProxyInv, PlanShape, LoopsFollow, NoLoopIsCurrent, NoLoopAsks, Asking, LocalClear
<1>5. GuardFollows'
  BY DEF ProxyInv, GuardFollows
<1>6. CallKnows'
  BY DEF CallKnows
<1>7. Proxy!LastWordStands'
  BY DEF Proxy!LastWordStands
<1> QED
  BY <1>1, <1>2, <1>3, <1>4, <1>5, <1>6, <1>7 DEF ProxyInv

\* ClearAfterDrain keeps the invariant.
LEMMA ProxyClearAfterDrainStep ==
  ASSUME ProxyInv, Proxy!ClearAfterDrain
  PROVE  ProxyInv'
<1> USE DEF Proxy!ClearAfterDrain, Proxy!Goto, Proxy!WaitIdle, Proxy!settings_vars,
   Proxy!guard_vars, Proxy!loop_vars, Proxy!lock_vars, Proxy!task_vars, Proxy!bound_vars
<1>a. plan # <<>>
  BY DEF ProxyInv, PlanShape
<1>0. \A name, answer : Proxy!Answer(name, answer) => Ended(name, answer)
  BY <1>a, AnswerEnds DEF ProxyInv
<1>1. ProxyTyped'
  <2>1. pc' \in Positions
    BY <1>0 DEF ProxyInv, ProxyTyped, Positions, LocalClear, Ended
  <2>2. call' \in CallState
    <3>1. \/ call' = [call EXCEPT !.drained = (guardState = "stopped")]
          \/ call' = Proxy!NoCall
      BY <1>0 DEF Ended
    <3>2. call \in CallState /\ Proxy!NoCall \in CallState
      BY ProxyValues DEF ProxyInv, ProxyTyped
    <3>3. \A c \in CallState, b \in BOOLEAN : [c EXCEPT !.drained = b] \in CallState
      BY DEF CallState
    <3> QED
      BY <3>1, <3>2, <3>3
  <2>3. os' \in OsSettings
    BY DEF ProxyInv, ProxyTyped
  <2>4. lastCall' \in LastCalls
    BY <1>0 DEF ProxyInv, ProxyTyped, LastCalls, ProxyCalls, Ended
  <2>5. /\ plans' \in Nat /\ faults' \in Nat /\ hangs' \in 0..MaxHangs /\ generation' \in Nat
        /\ loops' \in [1..Proxy!MaxGeneration -> LoopState] /\ platform' = platform
        /\ verge' \in Proxy!Choices /\ saved' \in Proxy!Choices /\ route' \in {"local", "service"}
    BY BoundsAssumption DEF ProxyInv, ProxyTyped
  <2>6. guardType' \in Enforceable /\ guardWrite' \in Enforceable
    BY DEF ProxyInv, ProxyTyped
  <2>7. guardState' \in {"stopped", "running", "stopping"}
    BY DEF ProxyInv, ProxyTyped
  <2>8. word' \in Proxy!Targets \cup {"none"}
    BY ProxyValues DEF ProxyInv, ProxyTyped, CallState
  <2>9. opLock' \in {"free", "holder", "reader", "loop"}
    BY DEF ProxyInv, ProxyTyped, Proxy!Free
  <2> QED
    BY <2>1, <2>2, <2>3, <2>4, <2>5, <2>6, <2>7, <2>8, <2>9 DEF ProxyInv, ProxyTyped
<1>2. PlanShape'
  BY <1>0 DEF ProxyInv, ProxyTyped, Positions, ProxyCalls, PlanShape, Doing, Superseding,
     Between, LocalApply, LocalClear, Draining, Asked, Ended
<1>3. LockHeld'
  BY <1>0 DEF ProxyInv, ProxyTyped, Positions, PlanShape, LockHeld, Asking, LoopIndices, Doing,
     Superseding, Between, LocalApply, LocalClear, Draining, Asked, LoopState, Proxy!NoLoop,
     Ended
<1>4. LoopsFollow'
  BY <1>0 DEF ProxyInv, ProxyTyped, Positions, PlanShape, LockHeld, LoopsFollow, NoLoopIsCurrent,
     NoLoopAsks, GivenUp, Asking, LoopIndices, Doing, Superseding, Between, LocalApply,
     LocalClear, Draining, Asked, LoopState, Proxy!NoLoop, GuardFollows, Unsaid,
     Proxy!LastWordStands, Ended
<1>5. GuardFollows'
  BY <1>0 DEF ProxyInv, ProxyTyped, Positions, PlanShape, GuardFollows, Unsaid, GivenUp, Doing,
     Superseding, Between, LocalApply, LocalClear, Draining, Asked, Enforceable, Proxy!Targets,
     CallKnows, Proxy!Enforced, Proxy!Choices, Ended
<1>6. CallKnows'
  BY ZenonT(40), <1>0 DEF ProxyInv, ProxyTyped, Positions, PlanShape, CallKnows, GuardFollows,
     Doing, Between, LocalApply, LocalClear, Draining, Asked, CallState, OsSettings,
     Proxy!Settings, First, Proxy!ProxyApplySteps, Proxy!Targets, Proxy!NoCall, Ended
<1>7. Proxy!LastWordStands'
  BY <1>0 DEF ProxyInv, ProxyTyped, Positions, PlanShape, LoopsFollow, NoLoopAsks, Asking,
     LoopIndices, GuardFollows, CallKnows, Proxy!LastWordStands, Proxy!Settings, Unsaid, Doing,
     Between, LocalApply, LocalClear, Draining, Asked, CallState, OsSettings, Proxy!Targets,
     Enforceable, First, Proxy!ProxyApplySteps, Ended
<1> QED
  BY <1>1, <1>2, <1>3, <1>4, <1>5, <1>6, <1>7 DEF ProxyInv

\* Disable keeps the invariant.
LEMMA ProxyDisableStep ==
  ASSUME ProxyInv, Proxy!Disable
  PROVE  ProxyInv'
<1> USE DEF Proxy!Disable, Proxy!Goto, Proxy!DisableAll, Proxy!ClearFails, Proxy!ClearSucceeds,
   Proxy!ShutdownGuard, Proxy!Word, Proxy!settings_vars, Proxy!guard_vars, Proxy!loop_vars,
   Proxy!lock_vars, Proxy!task_vars, Proxy!bound_vars
<1>a. plan # <<>>
  BY DEF ProxyInv, PlanShape, Draining, LocalApply, LocalClear, Asked, Doing, ProxyTyped,
     Positions
<1>0. \A name, answer : Proxy!Answer(name, answer) => Ended(name, answer)
  BY <1>a, AnswerEnds DEF ProxyInv
<1>1. ProxyTyped'
  <2>1. pc' \in Positions
    BY <1>0, ProxyValues DEF ProxyInv, ProxyTyped, Positions, Between, LocalApply, LocalClear,
       Draining, Asked, Ended
  <2>2. call' \in CallState
    BY <1>0, ProxyValues DEF ProxyInv, ProxyTyped, CallState, Ended
  <2>3. os' \in OsSettings
    BY DisableAllTyped DEF ProxyInv, ProxyTyped
  <2>4. lastCall' \in LastCalls
    BY <1>0, ProxyValues DEF ProxyInv, ProxyTyped, LastCalls, ProxyCalls, Ended
  <2> QED
    BY <2>1, <2>2, <2>3, <2>4, <1>0, ProxyValues DEF ProxyInv, ProxyTyped, Ended
<1>2. PlanShape'
  BY <1>0 DEF ProxyInv, ProxyTyped, Positions, ProxyCalls, PlanShape, Doing, Superseding,
     Between, LocalApply, LocalClear, Draining, Asked, Ended
<1>3. LockHeld'
  BY <1>0 DEF ProxyInv, ProxyTyped, Positions, PlanShape, LockHeld, Asking, LoopIndices, Doing,
     Superseding, Between, LocalApply, LocalClear, Draining, Asked, LoopState, Proxy!NoLoop,
     Ended
<1>4. LoopsFollow'
  BY <1>0 DEF ProxyInv, ProxyTyped, Positions, PlanShape, LockHeld, LoopsFollow, NoLoopIsCurrent,
     NoLoopAsks, GivenUp, Asking, LoopIndices, Doing, Superseding, Between, LocalApply,
     LocalClear, Draining, Asked, LoopState, Proxy!NoLoop, GuardFollows, Unsaid,
     Proxy!LastWordStands, Ended
<1>5. GuardFollows'
  BY <1>0 DEF ProxyInv, ProxyTyped, Positions, PlanShape, GuardFollows, Unsaid, GivenUp, Doing,
     Superseding, Between, LocalApply, LocalClear, Draining, Asked, Enforceable, Proxy!Targets,
     CallKnows, Proxy!Enforced, Proxy!Choices, Ended
<1>6. CallKnows'
  BY SMTT(30), <1>0 DEF ProxyInv, ProxyTyped, Positions, PlanShape, CallKnows, GuardFollows, Doing,
     Between, LocalApply, LocalClear, Draining, Asked, CallState, OsSettings, Proxy!Settings,
     First, Proxy!ProxyApplySteps, Proxy!Targets, Proxy!NoCall, Ended
<1>7. Proxy!LastWordStands'
  BY <1>0 DEF ProxyInv, ProxyTyped, Positions, PlanShape, LoopsFollow, NoLoopAsks, Asking,
     LoopIndices, GuardFollows, CallKnows, Proxy!LastWordStands, Proxy!Settings, Unsaid, Doing,
     Between, LocalApply, LocalClear, Draining, Asked, CallState, OsSettings, Proxy!Targets,
     Enforceable, First, Proxy!ProxyApplySteps, Ended
<1> QED
  BY <1>1, <1>2, <1>3, <1>4, <1>5, <1>6, <1>7 DEF ProxyInv

\* DisableAgain keeps the invariant.
LEMMA ProxyDisableAgainStep ==
  ASSUME ProxyInv, Proxy!DisableAgain
  PROVE  ProxyInv'
<1> USE DEF Proxy!DisableAgain, Proxy!Goto, Proxy!WaitIdle, Proxy!DisableAll, Proxy!ClearFails,
   Proxy!ClearSucceeds, Proxy!Word, Proxy!settings_vars, Proxy!guard_vars, Proxy!loop_vars,
   Proxy!lock_vars, Proxy!task_vars, Proxy!bound_vars
<1>a. plan # <<>>
  BY DEF ProxyInv, PlanShape, Draining, LocalApply, LocalClear, Asked, Doing, ProxyTyped,
     Positions
<1>0. \A name, answer : Proxy!Answer(name, answer) => Ended(name, answer)
  BY <1>a, AnswerEnds DEF ProxyInv
<1>1. ProxyTyped'
  <2>1. pc' \in Positions
    BY <1>0, ProxyValues DEF ProxyInv, ProxyTyped, Positions, Between, LocalApply, LocalClear,
       Draining, Asked, Ended
  <2>2. call' \in CallState
    BY <1>0, ProxyValues DEF ProxyInv, ProxyTyped, CallState, Ended
  <2>3. os' \in OsSettings
    BY DisableAllTyped DEF ProxyInv, ProxyTyped
  <2>4. lastCall' \in LastCalls
    BY <1>0, ProxyValues DEF ProxyInv, ProxyTyped, LastCalls, ProxyCalls, Ended
  <2>5. /\ plans' \in Nat /\ faults' \in Nat /\ hangs' \in 0..MaxHangs /\ generation' \in Nat
        /\ loops' \in [1..Proxy!MaxGeneration -> LoopState] /\ platform' = platform
        /\ verge' \in Proxy!Choices /\ saved' \in Proxy!Choices /\ route' \in {"local", "service"}
    BY SMTT(30), BoundsAssumption DEF ProxyInv, ProxyTyped
  <2>6. guardType' \in Enforceable /\ guardWrite' \in Enforceable
    BY ProxyValues DEF ProxyInv, ProxyTyped, CallState, Enforceable
  <2>7. guardState' \in {"stopped", "running", "stopping"}
    BY DEF ProxyInv, ProxyTyped
  <2>8. word' \in Proxy!Targets \cup {"none"}
    BY ProxyValues DEF ProxyInv, ProxyTyped, CallState
  <2>9. opLock' \in {"free", "holder", "reader", "loop"}
    BY DEF ProxyInv, ProxyTyped, Proxy!Free
  <2> QED
    BY <2>1, <2>2, <2>3, <2>4, <2>5, <2>6, <2>7, <2>8, <2>9 DEF ProxyInv, ProxyTyped
<1>2. PlanShape'
  BY <1>0 DEF ProxyInv, ProxyTyped, Positions, ProxyCalls, PlanShape, Doing, Superseding,
     Between, LocalApply, LocalClear, Draining, Asked, Ended
<1>3. LockHeld'
  BY <1>0 DEF ProxyInv, ProxyTyped, Positions, PlanShape, LockHeld, Asking, LoopIndices, Doing,
     Superseding, Between, LocalApply, LocalClear, Draining, Asked, LoopState, Proxy!NoLoop,
     Ended
<1>4. LoopsFollow'
  BY <1>0 DEF ProxyInv, ProxyTyped, Positions, PlanShape, LockHeld, LoopsFollow, NoLoopIsCurrent,
     NoLoopAsks, GivenUp, Asking, LoopIndices, Doing, Superseding, Between, LocalApply,
     LocalClear, Draining, Asked, LoopState, Proxy!NoLoop, GuardFollows, Unsaid,
     Proxy!LastWordStands, Ended
<1>5. GuardFollows'
  BY <1>0 DEF ProxyInv, ProxyTyped, Positions, PlanShape, GuardFollows, Unsaid, GivenUp, Doing,
     Superseding, Between, LocalApply, LocalClear, Draining, Asked, Enforceable, Proxy!Targets,
     CallKnows, Proxy!Enforced, Proxy!Choices, Ended
<1>6. CallKnows'
  BY SMTT(30), <1>0 DEF ProxyInv, ProxyTyped, Positions, PlanShape, CallKnows, GuardFollows, Doing,
     Between, LocalApply, LocalClear, Draining, Asked, CallState, OsSettings, Proxy!Settings,
     First, Proxy!ProxyApplySteps, Proxy!Targets, Proxy!NoCall, Ended
<1>7. Proxy!LastWordStands'
  BY <1>0 DEF ProxyInv, ProxyTyped, Positions, PlanShape, LoopsFollow, NoLoopAsks, Asking,
     LoopIndices, GuardFollows, CallKnows, Proxy!LastWordStands, Proxy!Settings, Unsaid, Doing,
     Between, LocalApply, LocalClear, Draining, Asked, CallState, OsSettings, Proxy!Targets,
     Enforceable, First, Proxy!ProxyApplySteps, Ended
<1> QED
  BY <1>1, <1>2, <1>3, <1>4, <1>5, <1>6, <1>7 DEF ProxyInv

\* CancelAndDrain keeps the invariant.
LEMMA ProxyCancelAndDrainStep ==
  ASSUME ProxyInv, NEW t \in {"holder", "reader"}, Proxy!CancelAndDrain(t)
  PROVE  ProxyInv'
<1> USE DEF Proxy!CancelAndDrain, Proxy!Goto, Proxy!AtCall, Proxy!Supersede, Proxy!settings_vars,
   Proxy!guard_vars, Proxy!loop_vars, Proxy!lock_vars, Proxy!task_vars, Proxy!bound_vars
<1>1. ProxyTyped'
  <2>1. pc' \in Positions
    BY ProxyValues DEF ProxyInv, ProxyTyped, Positions, Between, LocalApply, LocalClear,
       Draining, Asked
  <2>2. call' \in CallState
    BY ProxyValues DEF ProxyInv, ProxyTyped, CallState
  <2>3. os' \in OsSettings
    BY ProxyValues DEF ProxyInv, ProxyTyped, CallState, OsSettings
  <2>4. lastCall' \in LastCalls
    BY ProxyValues DEF ProxyInv, ProxyTyped, LastCalls, ProxyCalls
  <2> QED
    BY <2>1, <2>2, <2>3, <2>4, ProxyValues DEF ProxyInv, ProxyTyped
<1>2. PlanShape'
  BY DEF ProxyInv, ProxyTyped, Positions, ProxyCalls, PlanShape, Doing, Superseding, Between,
     LocalApply, LocalClear, Draining, Asked
<1>3. LockHeld'
  BY DEF ProxyInv, ProxyTyped, Positions, PlanShape, LockHeld, Asking, LoopIndices, Doing,
     Superseding, Between, LocalApply, LocalClear, Draining, Asked, LoopState, Proxy!NoLoop
<1>4. LoopsFollow'
  BY DEF ProxyInv, ProxyTyped, Positions, PlanShape, LockHeld, LoopsFollow, NoLoopIsCurrent,
     NoLoopAsks, GivenUp, Asking, LoopIndices, Doing, Superseding, Between, LocalApply,
     LocalClear, Draining, Asked, LoopState, Proxy!NoLoop, GuardFollows, Unsaid,
     Proxy!LastWordStands
<1>5. GuardFollows'
  BY DEF ProxyInv, ProxyTyped, Positions, PlanShape, GuardFollows, Unsaid, GivenUp, Doing,
     Superseding, Between, LocalApply, LocalClear, Draining, Asked, Enforceable, Proxy!Targets,
     CallKnows, Proxy!Enforced, Proxy!Choices
<1>6. CallKnows'
  BY DEF ProxyInv, ProxyTyped, Positions, PlanShape, CallKnows, GuardFollows, Doing, Between,
     LocalApply, LocalClear, Draining, Asked, CallState, OsSettings, Proxy!Settings, First,
     Proxy!ProxyApplySteps, Proxy!Targets, Proxy!NoCall
<1>7. Proxy!LastWordStands'
  BY DEF ProxyInv, ProxyTyped, Positions, PlanShape, LoopsFollow, NoLoopAsks, Asking,
     LoopIndices, GuardFollows, CallKnows, Proxy!LastWordStands, Proxy!Settings, Unsaid, Doing,
     Between, LocalApply, LocalClear, Draining, Asked, CallState, OsSettings, Proxy!Targets,
     Enforceable, First, Proxy!ProxyApplySteps
<1> QED
  BY <1>1, <1>2, <1>3, <1>4, <1>5, <1>6, <1>7 DEF ProxyInv

\* LockOperation keeps the invariant.
LEMMA ProxyLockOperationStep ==
  ASSUME ProxyInv, NEW t \in {"holder", "reader"}, Proxy!LockOperation(t)
  PROVE  ProxyInv'
<1> USE DEF Proxy!LockOperation, Proxy!Free, Proxy!Goto, Proxy!settings_vars, Proxy!guard_vars,
   Proxy!loop_vars, Proxy!lock_vars, Proxy!task_vars, Proxy!bound_vars
<1>1. ProxyTyped'
  <2>1. pc' \in Positions
    BY ProxyValues DEF ProxyInv, ProxyTyped, Positions, Between, LocalApply, LocalClear,
       Draining, Asked
  <2>2. call' \in CallState
    BY ProxyValues DEF ProxyInv, ProxyTyped, CallState
  <2>3. os' \in OsSettings
    BY ProxyValues DEF ProxyInv, ProxyTyped, CallState, OsSettings
  <2>4. lastCall' \in LastCalls
    BY ProxyValues DEF ProxyInv, ProxyTyped, LastCalls, ProxyCalls
  <2> QED
    BY <2>1, <2>2, <2>3, <2>4, ProxyValues DEF ProxyInv, ProxyTyped
<1>2. PlanShape'
  BY DEF ProxyInv, ProxyTyped, Positions, ProxyCalls, PlanShape, Doing, Superseding, Between,
     LocalApply, LocalClear, Draining, Asked
<1>3. LockHeld'
  BY DEF ProxyInv, ProxyTyped, Positions, PlanShape, LockHeld, Asking, LoopIndices, Doing,
     Superseding, Between, LocalApply, LocalClear, Draining, Asked, LoopState, Proxy!NoLoop
<1>4. LoopsFollow'
  BY DEF ProxyInv, ProxyTyped, Positions, PlanShape, LockHeld, LoopsFollow, NoLoopIsCurrent,
     NoLoopAsks, GivenUp, Asking, LoopIndices, Doing, Superseding, Between, LocalApply,
     LocalClear, Draining, Asked, LoopState, Proxy!NoLoop, GuardFollows, Unsaid,
     Proxy!LastWordStands
<1>5. GuardFollows'
  BY DEF ProxyInv, ProxyTyped, Positions, PlanShape, GuardFollows, Unsaid, GivenUp, Doing,
     Superseding, Between, LocalApply, LocalClear, Draining, Asked, Enforceable, Proxy!Targets,
     CallKnows, Proxy!Enforced, Proxy!Choices
<1>6. CallKnows'
  BY DEF ProxyInv, ProxyTyped, Positions, PlanShape, CallKnows, GuardFollows, Doing, Between,
     LocalApply, LocalClear, Draining, Asked, CallState, OsSettings, Proxy!Settings, First,
     Proxy!ProxyApplySteps, Proxy!Targets, Proxy!NoCall
<1>7. Proxy!LastWordStands'
  BY DEF ProxyInv, ProxyTyped, Positions, PlanShape, LoopsFollow, NoLoopAsks, Asking,
     LoopIndices, GuardFollows, CallKnows, Proxy!LastWordStands, Proxy!Settings, Unsaid, Doing,
     Between, LocalApply, LocalClear, Draining, Asked, CallState, OsSettings, Proxy!Targets,
     Enforceable, First, Proxy!ProxyApplySteps
<1> QED
  BY <1>1, <1>2, <1>3, <1>4, <1>5, <1>6, <1>7 DEF ProxyInv

\* ApplyService keeps the invariant.
LEMMA ProxyApplyServiceStep ==
  ASSUME ProxyInv, Proxy!ApplyService
  PROVE  ProxyInv'
<1> USE DEF Proxy!ApplyService, Proxy!Goto, Proxy!AtCall, Proxy!settings_vars, Proxy!guard_vars,
   Proxy!loop_vars, Proxy!lock_vars, Proxy!task_vars, Proxy!bound_vars
<1>1. ProxyTyped'
  <2>1. pc' \in Positions
    BY ProxyValues DEF ProxyInv, ProxyTyped, Positions, Between, LocalApply, LocalClear,
       Draining, Asked
  <2>2. call' \in CallState
    BY ProxyValues DEF ProxyInv, ProxyTyped, CallState
  <2>3. os' \in OsSettings
    BY ProxyValues DEF ProxyInv, ProxyTyped, CallState, OsSettings
  <2>4. lastCall' \in LastCalls
    BY ProxyValues DEF ProxyInv, ProxyTyped, LastCalls, ProxyCalls
  <2> QED
    BY <2>1, <2>2, <2>3, <2>4, ProxyValues DEF ProxyInv, ProxyTyped
<1>2. PlanShape'
  BY DEF ProxyInv, ProxyTyped, Positions, ProxyCalls, PlanShape, Doing, Superseding, Between,
     LocalApply, LocalClear, Draining, Asked
<1>3. LockHeld'
  BY DEF ProxyInv, ProxyTyped, Positions, PlanShape, LockHeld, Asking, LoopIndices, Doing,
     Superseding, Between, LocalApply, LocalClear, Draining, Asked, LoopState, Proxy!NoLoop
<1>4. LoopsFollow'
  BY DEF ProxyInv, ProxyTyped, Positions, PlanShape, LockHeld, LoopsFollow, NoLoopIsCurrent,
     NoLoopAsks, GivenUp, Asking, LoopIndices, Doing, Superseding, Between, LocalApply,
     LocalClear, Draining, Asked, LoopState, Proxy!NoLoop, GuardFollows, Unsaid,
     Proxy!LastWordStands
<1>5. GuardFollows'
  BY DEF ProxyInv, ProxyTyped, Positions, PlanShape, GuardFollows, Unsaid, GivenUp, Doing,
     Superseding, Between, LocalApply, LocalClear, Draining, Asked, Enforceable, Proxy!Targets,
     CallKnows, Proxy!Enforced, Proxy!Choices
<1>6. CallKnows'
  BY DEF ProxyInv, ProxyTyped, Positions, PlanShape, CallKnows, GuardFollows, Doing, Between,
     LocalApply, LocalClear, Draining, Asked, CallState, OsSettings, Proxy!Settings, First,
     Proxy!ProxyApplySteps, Proxy!Targets, Proxy!NoCall
<1>7. Proxy!LastWordStands'
  BY DEF ProxyInv, ProxyTyped, Positions, PlanShape, LoopsFollow, NoLoopAsks, Asking,
     LoopIndices, GuardFollows, CallKnows, Proxy!LastWordStands, Proxy!Settings, Unsaid, Doing,
     Between, LocalApply, LocalClear, Draining, Asked, CallState, OsSettings, Proxy!Targets,
     Enforceable, First, Proxy!ProxyApplySteps
<1> QED
  BY <1>1, <1>2, <1>3, <1>4, <1>5, <1>6, <1>7 DEF ProxyInv

\* StopLocalGuard keeps the invariant.
LEMMA ProxyStopLocalGuardStep ==
  ASSUME ProxyInv, NEW t \in {"holder", "reader"}, Proxy!StopLocalGuard(t)
  PROVE  ProxyInv'
<1> USE DEF Proxy!StopLocalGuard, Proxy!Free, Proxy!Goto, Proxy!ShutdownGuard, Proxy!settings_vars,
   Proxy!guard_vars, Proxy!loop_vars, Proxy!lock_vars, Proxy!task_vars, Proxy!bound_vars
<1>1. ProxyTyped'
  <2>1. pc' \in Positions
    BY ProxyValues DEF ProxyInv, ProxyTyped, Positions, Between, LocalApply, LocalClear,
       Draining, Asked
  <2>2. call' \in CallState
    BY ProxyValues DEF ProxyInv, ProxyTyped, CallState
  <2>3. os' \in OsSettings
    BY ProxyValues DEF ProxyInv, ProxyTyped, CallState, OsSettings
  <2>4. lastCall' \in LastCalls
    BY ProxyValues DEF ProxyInv, ProxyTyped, LastCalls, ProxyCalls
  <2> QED
    BY <2>1, <2>2, <2>3, <2>4, ProxyValues DEF ProxyInv, ProxyTyped
<1>2. PlanShape'
  BY DEF ProxyInv, ProxyTyped, Positions, ProxyCalls, PlanShape, Doing, Superseding, Between,
     LocalApply, LocalClear, Draining, Asked
<1>3. LockHeld'
  BY DEF ProxyInv, ProxyTyped, Positions, PlanShape, LockHeld, Asking, LoopIndices, Doing,
     Superseding, Between, LocalApply, LocalClear, Draining, Asked, LoopState, Proxy!NoLoop
<1>4. LoopsFollow'
  BY DEF ProxyInv, ProxyTyped, Positions, PlanShape, LockHeld, LoopsFollow, NoLoopIsCurrent,
     NoLoopAsks, GivenUp, Asking, LoopIndices, Doing, Superseding, Between, LocalApply,
     LocalClear, Draining, Asked, LoopState, Proxy!NoLoop, GuardFollows, Unsaid,
     Proxy!LastWordStands
<1>5. GuardFollows'
  BY DEF ProxyInv, ProxyTyped, Positions, PlanShape, GuardFollows, Unsaid, GivenUp, Doing,
     Superseding, Between, LocalApply, LocalClear, Draining, Asked, Enforceable, Proxy!Targets,
     CallKnows, Proxy!Enforced, Proxy!Choices
<1>6. CallKnows'
  BY DEF ProxyInv, ProxyTyped, Positions, PlanShape, CallKnows, GuardFollows, Doing, Between,
     LocalApply, LocalClear, Draining, Asked, CallState, OsSettings, Proxy!Settings, First,
     Proxy!ProxyApplySteps, Proxy!Targets, Proxy!NoCall
<1>7. Proxy!LastWordStands'
  BY DEF ProxyInv, ProxyTyped, Positions, PlanShape, LoopsFollow, NoLoopAsks, Asking,
     LoopIndices, GuardFollows, CallKnows, Proxy!LastWordStands, Proxy!Settings, Unsaid, Doing,
     Between, LocalApply, LocalClear, Draining, Asked, CallState, OsSettings, Proxy!Targets,
     Enforceable, First, Proxy!ProxyApplySteps
<1> QED
  BY <1>1, <1>2, <1>3, <1>4, <1>5, <1>6, <1>7 DEF ProxyInv

\* HolderDrained keeps the invariant.
LEMMA ProxyHolderDrainedStep ==
  ASSUME ProxyInv, Proxy!Drained("holder")
  PROVE  ProxyInv'
<1> USE DEF Proxy!Drained, Proxy!Free, Proxy!Goto, Proxy!WaitIdle, Proxy!settings_vars,
    Proxy!guard_vars, Proxy!loop_vars, Proxy!lock_vars, Proxy!task_vars, Proxy!bound_vars
<1>a. plan # <<>>
  BY DEF ProxyInv, PlanShape, Draining, LocalApply, LocalClear, Asked, Doing, ProxyTyped,
     Positions
<1>0. \A name, answer : Proxy!Answer(name, answer) => Ended(name, answer)
  BY <1>a, AnswerEnds DEF ProxyInv
<1>1. ProxyTyped'
  <2>1. pc' \in Positions
    BY <1>0, ProxyValues DEF ProxyInv, ProxyTyped, Positions, Between, LocalApply, LocalClear,
       Draining, Asked, Ended
  <2>2. call' \in CallState
    BY <1>0, ProxyValues DEF ProxyInv, ProxyTyped, CallState, Ended
  <2>3. os' \in OsSettings
    BY <1>0, ProxyValues DEF ProxyInv, ProxyTyped, CallState, OsSettings, Ended
  <2>4. lastCall' \in LastCalls
    BY <1>0, ProxyValues DEF ProxyInv, ProxyTyped, LastCalls, ProxyCalls, Ended
  <2>5. /\ plans' \in Nat /\ faults' \in Nat /\ hangs' \in 0..MaxHangs /\ generation' \in Nat
        /\ loops' \in [1..Proxy!MaxGeneration -> LoopState] /\ platform' = platform
        /\ verge' \in Proxy!Choices /\ saved' \in Proxy!Choices /\ route' \in {"local", "service"}
    BY BoundsAssumption DEF ProxyInv, ProxyTyped
  <2>6. guardType' \in Enforceable /\ guardWrite' \in Enforceable
    BY ProxyValues DEF ProxyInv, ProxyTyped, CallState, Enforceable
  <2>7. guardState' \in {"stopped", "running", "stopping"}
    BY DEF ProxyInv, ProxyTyped
  <2>8. word' \in Proxy!Targets \cup {"none"}
    BY ProxyValues DEF ProxyInv, ProxyTyped, CallState
  <2>9. opLock' \in {"free", "holder", "reader", "loop"}
    BY DEF ProxyInv, ProxyTyped, Proxy!Free
  <2> QED
    BY <2>1, <2>2, <2>3, <2>4, <2>5, <2>6, <2>7, <2>8, <2>9 DEF ProxyInv, ProxyTyped
<1>2. PlanShape'
  BY <1>0 DEF ProxyInv, ProxyTyped, Positions, ProxyCalls, PlanShape, Doing, Superseding,
     Between, LocalApply, LocalClear, Draining, Asked, Ended
<1>3. LockHeld'
  BY <1>0 DEF ProxyInv, ProxyTyped, Positions, PlanShape, LockHeld, Asking, LoopIndices, Doing,
     Superseding, Between, LocalApply, LocalClear, Draining, Asked, LoopState, Proxy!NoLoop,
     Ended
<1>4. LoopsFollow'
  BY <1>0 DEF ProxyInv, ProxyTyped, Positions, PlanShape, LockHeld, LoopsFollow, NoLoopIsCurrent,
     NoLoopAsks, GivenUp, Asking, LoopIndices, Doing, Superseding, Between, LocalApply,
     LocalClear, Draining, Asked, LoopState, Proxy!NoLoop, GuardFollows, Unsaid,
     Proxy!LastWordStands, Ended
<1>5. GuardFollows'
  BY <1>0 DEF ProxyInv, ProxyTyped, Positions, PlanShape, GuardFollows, Unsaid, GivenUp, Doing,
     Superseding, Between, LocalApply, LocalClear, Draining, Asked, Enforceable, Proxy!Targets,
     CallKnows, Proxy!Enforced, Proxy!Choices, Ended
<1>6. CallKnows'
  BY <1>0 DEF ProxyInv, ProxyTyped, Positions, PlanShape, CallKnows, GuardFollows, Doing,
     Between, LocalApply, LocalClear, Draining, Asked, CallState, OsSettings, Proxy!Settings,
     First, Proxy!ProxyApplySteps, Proxy!Targets, Proxy!NoCall, Ended
<1>7. Proxy!LastWordStands'
  BY <1>0 DEF ProxyInv, ProxyTyped, Positions, PlanShape, LoopsFollow, NoLoopAsks, Asking,
     LoopIndices, GuardFollows, CallKnows, Proxy!LastWordStands, Proxy!Settings, Unsaid, Doing,
     Between, LocalApply, LocalClear, Draining, Asked, CallState, OsSettings, Proxy!Targets,
     Enforceable, First, Proxy!ProxyApplySteps, Ended
<1> QED
  BY <1>1, <1>2, <1>3, <1>4, <1>5, <1>6, <1>7 DEF ProxyInv

\* ReaderDrained keeps the invariant.
LEMMA ProxyReaderDrainedStep ==
  ASSUME ProxyInv, Proxy!Drained("reader")
  PROVE  ProxyInv'
<1> USE DEF Proxy!Drained, Proxy!Free, Proxy!Goto, Proxy!WaitIdle, Proxy!settings_vars,
    Proxy!guard_vars, Proxy!loop_vars, Proxy!lock_vars, Proxy!task_vars, Proxy!bound_vars
<1>1. ProxyTyped'
  <2>1. pc' \in Positions
    BY ProxyValues DEF ProxyInv, ProxyTyped, Positions, Between, LocalApply, LocalClear,
       Draining, Asked
  <2>2. call' \in CallState
    BY ProxyValues DEF ProxyInv, ProxyTyped, CallState
  <2>3. os' \in OsSettings
    BY ProxyValues DEF ProxyInv, ProxyTyped, CallState, OsSettings
  <2>4. lastCall' \in LastCalls
    BY ProxyValues DEF ProxyInv, ProxyTyped, LastCalls, ProxyCalls
  <2>5. /\ plans' \in Nat /\ faults' \in Nat /\ hangs' \in 0..MaxHangs /\ generation' \in Nat
        /\ loops' \in [1..Proxy!MaxGeneration -> LoopState] /\ platform' = platform
        /\ verge' \in Proxy!Choices /\ saved' \in Proxy!Choices /\ route' \in {"local", "service"}
    BY BoundsAssumption DEF ProxyInv, ProxyTyped
  <2>6. guardType' \in Enforceable /\ guardWrite' \in Enforceable
    BY ProxyValues DEF ProxyInv, ProxyTyped, CallState, Enforceable
  <2>7. guardState' \in {"stopped", "running", "stopping"}
    BY DEF ProxyInv, ProxyTyped
  <2>8. word' \in Proxy!Targets \cup {"none"}
    BY ProxyValues DEF ProxyInv, ProxyTyped, CallState
  <2>9. opLock' \in {"free", "holder", "reader", "loop"}
    BY DEF ProxyInv, ProxyTyped, Proxy!Free
  <2> QED
    BY <2>1, <2>2, <2>3, <2>4, <2>5, <2>6, <2>7, <2>8, <2>9 DEF ProxyInv, ProxyTyped
<1>2. PlanShape'
  BY DEF ProxyInv, ProxyTyped, Positions, ProxyCalls, PlanShape, Doing, Superseding,
     Between, LocalApply, LocalClear, Draining, Asked
<1>3. LockHeld'
  BY DEF ProxyInv, ProxyTyped, Positions, PlanShape, LockHeld, Asking, LoopIndices, Doing,
     Superseding, Between, LocalApply, LocalClear, Draining, Asked, LoopState, Proxy!NoLoop
<1>4. LoopsFollow'
  BY DEF ProxyInv, ProxyTyped, Positions, PlanShape, LockHeld, LoopsFollow, NoLoopIsCurrent,
     NoLoopAsks, GivenUp, Asking, LoopIndices, Doing, Superseding, Between, LocalApply,
     LocalClear, Draining, Asked, LoopState, Proxy!NoLoop, GuardFollows, Unsaid,
     Proxy!LastWordStands
<1>5. GuardFollows'
  BY DEF ProxyInv, ProxyTyped, Positions, PlanShape, GuardFollows, Unsaid, GivenUp, Doing,
     Superseding, Between, LocalApply, LocalClear, Draining, Asked, Enforceable, Proxy!Targets,
     CallKnows, Proxy!Enforced, Proxy!Choices
<1>6. CallKnows'
  BY DEF ProxyInv, ProxyTyped, Positions, PlanShape, CallKnows, GuardFollows, Doing,
     Between, LocalApply, LocalClear, Draining, Asked, CallState, OsSettings, Proxy!Settings,
     First, Proxy!ProxyApplySteps, Proxy!Targets, Proxy!NoCall
<1>7. Proxy!LastWordStands'
  BY DEF ProxyInv, ProxyTyped, Positions, PlanShape, LoopsFollow, NoLoopAsks, Asking,
     LoopIndices, GuardFollows, CallKnows, Proxy!LastWordStands, Proxy!Settings, Unsaid, Doing,
     Between, LocalApply, LocalClear, Draining, Asked, CallState, OsSettings, Proxy!Targets,
     Enforceable, First, Proxy!ProxyApplySteps
<1> QED
  BY <1>1, <1>2, <1>3, <1>4, <1>5, <1>6, <1>7 DEF ProxyInv

\* RefreshLocal keeps the invariant.
LEMMA ProxyRefreshLocalStep ==
  ASSUME ProxyInv, Proxy!RefreshLocal
  PROVE  ProxyInv'
<1> USE DEF Proxy!RefreshLocal, Proxy!Free, Proxy!Goto, Proxy!StartGuard, Proxy!ShutdownGuard,
   Proxy!Enforced, Proxy!settings_vars, Proxy!guard_vars, Proxy!loop_vars, Proxy!lock_vars,
   Proxy!task_vars, Proxy!bound_vars
<1>a. plan # <<>>
  BY DEF ProxyInv, PlanShape, Draining, LocalApply, LocalClear, Asked, Doing, ProxyTyped,
     Positions
<1>0. \A name, answer : Proxy!Answer(name, answer) => Ended(name, answer)
  BY <1>a, AnswerEnds DEF ProxyInv
<1>1. ProxyTyped'
  <2>1. pc' \in Positions
    BY <1>0, ProxyValues DEF ProxyInv, ProxyTyped, Positions, Between, LocalApply, LocalClear,
       Draining, Asked, Ended
  <2>2. call' \in CallState
    BY <1>0, ProxyValues DEF ProxyInv, ProxyTyped, CallState, Ended
  <2>3. os' \in OsSettings
    BY <1>0, ProxyValues DEF ProxyInv, ProxyTyped, CallState, OsSettings, Ended
  <2>4. lastCall' \in LastCalls
    BY <1>0, ProxyValues DEF ProxyInv, ProxyTyped, LastCalls, ProxyCalls, Ended
  <2> QED
    BY <2>1, <2>2, <2>3, <2>4, <1>0, ProxyValues DEF ProxyInv, ProxyTyped, Ended
<1>2. PlanShape'
  BY <1>0 DEF ProxyInv, ProxyTyped, Positions, ProxyCalls, PlanShape, Doing, Superseding,
     Between, LocalApply, LocalClear, Draining, Asked, Ended
<1>3. LockHeld'
  BY <1>0 DEF ProxyInv, ProxyTyped, Positions, PlanShape, LockHeld, Asking, LoopIndices, Doing,
     Superseding, Between, LocalApply, LocalClear, Draining, Asked, LoopState, Proxy!NoLoop,
     Ended
<1>4. LoopsFollow'
  BY <1>0 DEF ProxyInv, ProxyTyped, Positions, PlanShape, LockHeld, LoopsFollow, NoLoopIsCurrent,
     NoLoopAsks, GivenUp, Asking, LoopIndices, Doing, Superseding, Between, LocalApply,
     LocalClear, Draining, Asked, LoopState, Proxy!NoLoop, GuardFollows, Unsaid,
     Proxy!LastWordStands, Ended
<1>5. GuardFollows'
  BY <1>0 DEF ProxyInv, ProxyTyped, Positions, PlanShape, GuardFollows, Unsaid, GivenUp, Doing,
     Superseding, Between, LocalApply, LocalClear, Draining, Asked, Enforceable, Proxy!Targets,
     CallKnows, Proxy!Enforced, Proxy!Choices, Ended
<1>6. CallKnows'
  BY <1>0 DEF ProxyInv, ProxyTyped, Positions, PlanShape, CallKnows, GuardFollows, Doing,
     Between, LocalApply, LocalClear, Draining, Asked, CallState, OsSettings, Proxy!Settings,
     First, Proxy!ProxyApplySteps, Proxy!Targets, Proxy!NoCall, Ended
<1>7. Proxy!LastWordStands'
  BY <1>0 DEF ProxyInv, ProxyTyped, Positions, PlanShape, LoopsFollow, NoLoopAsks, Asking,
     LoopIndices, GuardFollows, CallKnows, Proxy!LastWordStands, Proxy!Settings, Unsaid, Doing,
     Between, LocalApply, LocalClear, Draining, Asked, CallState, OsSettings, Proxy!Targets,
     Enforceable, First, Proxy!ProxyApplySteps, Ended
<1> QED
  BY <1>1, <1>2, <1>3, <1>4, <1>5, <1>6, <1>7 DEF ProxyInv

\* RefreshService keeps the invariant.
LEMMA ProxyRefreshServiceStep ==
  ASSUME ProxyInv, Proxy!RefreshService
  PROVE  ProxyInv'
<1>b. /\ loops \in [LoopIndices -> LoopState] /\ generation \in Nat
      /\ UNCHANGED <<route, generation, opLock>>
      /\ route = "service" /\ pc.holder = "refresh" /\ (~filed' \/ UNCHANGED <<filed, loops>>)
      /\ pc'.reader = pc.reader
      /\ word' \in {word, "none"}
  BY DEF Proxy!RefreshService, Proxy!Free, ProxyInv, ProxyTyped, LoopIndices, Proxy!Word,
     Proxy!Answer, Proxy!Goto, Positions,
     Proxy!settings_vars, Proxy!guard_vars, Proxy!loop_vars,
     Proxy!lock_vars, Proxy!task_vars, Proxy!bound_vars
<1>c. \A h \in LoopIndices :
        \/ loops'[h] = loops[h]
        \/ /\ h = generation /\ loops'[h].state = "asleep"
           /\ loops'[h].target = verge.target /\ word' \in {"none", verge.target}
  <2>1. \/ UNCHANGED loops
        \/ /\ loops' = [loops EXCEPT ![generation] =
                          [state |-> "asleep", target |-> verge.target, failures |-> 0]]
           /\ word' \in {"none", verge.target}
    BY DEF Proxy!RefreshService, Proxy!Word
  <2> QED
    BY <1>b, <2>1
<1>g. pc'.holder \in Between /\ lastCall'.name = "refresh"
  BY <1>b DEF Proxy!RefreshService, Proxy!Answer, Proxy!Goto, Between, ProxyInv, ProxyTyped,
     Positions
<1>d. LockHeld'
  BY <1>b, <1>c, <1>g DEF ProxyInv, LockHeld, Asking, Superseding, Between, Draining
<1>e. LoopsFollow'
  <2>1. route = "service" /\ ~GivenUp' /\ ~Superseding'
        /\ pc'.holder \notin {"cancel", "refresh", "request"} \cup Asked
    BY <1>b, <1>g DEF ProxyInv, LoopsFollow, NoLoopIsCurrent, GivenUp, Superseding, Between,
       Draining, Asked
  <2> QED
    BY <1>b, <1>c, <2>1 DEF ProxyInv, LoopsFollow, NoLoopIsCurrent, NoLoopAsks, Asking
<1> USE DEF Proxy!RefreshService, Proxy!Free, Proxy!Goto, Proxy!Enforced, Proxy!Word,
    Proxy!settings_vars, Proxy!guard_vars, Proxy!loop_vars, Proxy!lock_vars, Proxy!task_vars,
    Proxy!bound_vars
<1>a. plan # <<>>
  BY DEF ProxyInv, PlanShape, Draining, LocalApply, LocalClear, Asked, Doing, ProxyTyped,
     Positions
<1>0. \A name, answer : Proxy!Answer(name, answer) => Ended(name, answer)
  BY <1>a, AnswerEnds DEF ProxyInv
<1>1. ProxyTyped'
  <2>1. pc' \in Positions
    BY <1>0, ProxyValues DEF ProxyInv, ProxyTyped, Positions, Between, LocalApply, LocalClear,
       Draining, Asked, Ended
  <2>2. call' \in CallState
    BY <1>0, ProxyValues DEF ProxyInv, ProxyTyped, CallState, Ended
  <2>3. os' \in OsSettings
    BY <1>0, ProxyValues DEF ProxyInv, ProxyTyped, CallState, OsSettings, Ended
  <2>4. lastCall' \in LastCalls
    BY <1>0, ProxyValues DEF ProxyInv, ProxyTyped, LastCalls, ProxyCalls, Ended
  <2> QED
    BY <2>1, <2>2, <2>3, <2>4, <1>0, ProxyValues DEF ProxyInv, ProxyTyped, LoopState, Ended
<1>2. PlanShape'
  BY <1>0 DEF ProxyInv, ProxyTyped, Positions, ProxyCalls, PlanShape, Doing, Superseding,
     Between, LocalApply, LocalClear, Draining, Asked, Ended
<1>3. LockHeld'
  BY <1>d
<1>4. LoopsFollow'
  BY <1>e
<1>5. GuardFollows'
  BY <1>0 DEF ProxyInv, ProxyTyped, Positions, PlanShape, GuardFollows, Unsaid, GivenUp, Doing,
     Superseding, Between, LocalApply, LocalClear, Draining, Asked, Enforceable, Proxy!Targets,
     CallKnows, Proxy!Enforced, Proxy!Choices, Ended
<1>6. CallKnows'
  BY <1>0 DEF ProxyInv, ProxyTyped, Positions, PlanShape, CallKnows, GuardFollows, Doing,
     Between, LocalApply, LocalClear, Draining, Asked, CallState, OsSettings, Proxy!Settings,
     First, Proxy!ProxyApplySteps, Proxy!Targets, Proxy!NoCall, Ended
<1>7. Proxy!LastWordStands'
  BY <1>0 DEF ProxyInv, ProxyTyped, Positions, PlanShape, LoopsFollow, NoLoopAsks, Asking,
     LoopIndices, GuardFollows, CallKnows, Proxy!LastWordStands, Proxy!Settings, Unsaid, Doing,
     Between, LocalApply, LocalClear, Draining, Asked, CallState, OsSettings, Proxy!Targets,
     Enforceable, First, Proxy!ProxyApplySteps, Ended
<1> QED
  BY <1>1, <1>2, <1>3, <1>4, <1>5, <1>6, <1>7 DEF ProxyInv

\* FinalOperation keeps the invariant.
LEMMA ProxyFinalOperationStep ==
  ASSUME ProxyInv, Proxy!FinalOperation
  PROVE  ProxyInv'
<1> USE DEF Proxy!FinalOperation, Proxy!Goto, Proxy!AtCall, Proxy!Supersede, Proxy!settings_vars,
   Proxy!guard_vars, Proxy!loop_vars, Proxy!lock_vars, Proxy!task_vars, Proxy!bound_vars
<1>1. ProxyTyped'
  <2>1. pc' \in Positions
    BY ProxyValues DEF ProxyInv, ProxyTyped, Positions, Between, LocalApply, LocalClear,
       Draining, Asked
  <2>2. call' \in CallState
    BY ProxyValues DEF ProxyInv, ProxyTyped, CallState
  <2>3. os' \in OsSettings
    BY ProxyValues DEF ProxyInv, ProxyTyped, CallState, OsSettings
  <2>4. lastCall' \in LastCalls
    BY ProxyValues DEF ProxyInv, ProxyTyped, LastCalls, ProxyCalls
  <2> QED
    BY <2>1, <2>2, <2>3, <2>4, ProxyValues DEF ProxyInv, ProxyTyped
<1>2. PlanShape'
  BY DEF ProxyInv, ProxyTyped, Positions, ProxyCalls, PlanShape, Doing, Superseding, Between,
     LocalApply, LocalClear, Draining, Asked
<1>3. LockHeld'
  BY DEF ProxyInv, ProxyTyped, Positions, PlanShape, LockHeld, Asking, LoopIndices, Doing,
     Superseding, Between, LocalApply, LocalClear, Draining, Asked, LoopState, Proxy!NoLoop
<1>4. LoopsFollow'
  BY DEF ProxyInv, ProxyTyped, Positions, PlanShape, LockHeld, LoopsFollow, NoLoopIsCurrent,
     NoLoopAsks, GivenUp, Asking, LoopIndices, Doing, Superseding, Between, LocalApply,
     LocalClear, Draining, Asked, LoopState, Proxy!NoLoop, GuardFollows, Unsaid,
     Proxy!LastWordStands
<1>5. GuardFollows'
  BY DEF ProxyInv, ProxyTyped, Positions, PlanShape, GuardFollows, Unsaid, GivenUp, Doing,
     Superseding, Between, LocalApply, LocalClear, Draining, Asked, Enforceable, Proxy!Targets,
     CallKnows, Proxy!Enforced, Proxy!Choices
<1>6. CallKnows'
  BY DEF ProxyInv, ProxyTyped, Positions, PlanShape, CallKnows, GuardFollows, Doing, Between,
     LocalApply, LocalClear, Draining, Asked, CallState, OsSettings, Proxy!Settings, First,
     Proxy!ProxyApplySteps, Proxy!Targets, Proxy!NoCall
<1>7. Proxy!LastWordStands'
  BY DEF ProxyInv, ProxyTyped, Positions, PlanShape, LoopsFollow, NoLoopAsks, Asking,
     LoopIndices, GuardFollows, CallKnows, Proxy!LastWordStands, Proxy!Settings, Unsaid, Doing,
     Between, LocalApply, LocalClear, Draining, Asked, CallState, OsSettings, Proxy!Targets,
     Enforceable, First, Proxy!ProxyApplySteps
<1> QED
  BY <1>1, <1>2, <1>3, <1>4, <1>5, <1>6, <1>7 DEF ProxyInv

\* LockFinal keeps the invariant.
LEMMA ProxyLockFinalStep ==
  ASSUME ProxyInv, Proxy!LockFinal
  PROVE  ProxyInv'
<1> USE DEF Proxy!LockFinal, Proxy!Free, Proxy!Goto, Proxy!settings_vars, Proxy!guard_vars,
    Proxy!loop_vars, Proxy!lock_vars, Proxy!task_vars, Proxy!bound_vars
<1>1. ProxyTyped'
  <2>1. pc' \in Positions
    BY ProxyValues DEF ProxyInv, ProxyTyped, Positions, Between, LocalApply, LocalClear,
       Draining, Asked
  <2>2. call' \in CallState
    BY ProxyValues DEF ProxyInv, ProxyTyped, CallState
  <2>3. os' \in OsSettings
    BY ProxyValues DEF ProxyInv, ProxyTyped, CallState, OsSettings
  <2>4. lastCall' \in LastCalls
    BY ProxyValues DEF ProxyInv, ProxyTyped, LastCalls, ProxyCalls
  <2> QED
    BY <2>1, <2>2, <2>3, <2>4, ProxyValues DEF ProxyInv, ProxyTyped
<1>2. PlanShape'
  BY DEF ProxyInv, ProxyTyped, Positions, ProxyCalls, PlanShape, Doing, Superseding, Between,
     LocalApply, LocalClear, Draining, Asked
<1>3. LockHeld'
  BY DEF ProxyInv, ProxyTyped, Positions, PlanShape, LockHeld, Asking, LoopIndices, Doing,
     Superseding, Between, LocalApply, LocalClear, Draining, Asked, LoopState, Proxy!NoLoop
<1>4. LoopsFollow'
  BY DEF ProxyInv, ProxyTyped, Positions, PlanShape, LockHeld, LoopsFollow, NoLoopIsCurrent,
     NoLoopAsks, GivenUp, Asking, LoopIndices, Doing, Superseding, Between, LocalApply,
     LocalClear, Draining, Asked, LoopState, Proxy!NoLoop, GuardFollows, Unsaid,
     Proxy!LastWordStands
<1>5. GuardFollows'
  BY DEF ProxyInv, ProxyTyped, Positions, PlanShape, GuardFollows, Unsaid, GivenUp, Doing,
     Superseding, Between, LocalApply, LocalClear, Draining, Asked, Enforceable, Proxy!Targets,
     CallKnows, Proxy!Enforced, Proxy!Choices
<1>6. CallKnows'
  BY DEF ProxyInv, ProxyTyped, Positions, PlanShape, CallKnows, GuardFollows, Doing, Between,
     LocalApply, LocalClear, Draining, Asked, CallState, OsSettings, Proxy!Settings, First,
     Proxy!ProxyApplySteps, Proxy!Targets, Proxy!NoCall
<1>7. Proxy!LastWordStands'
  BY DEF ProxyInv, ProxyTyped, Positions, PlanShape, LoopsFollow, NoLoopAsks, Asking,
     LoopIndices, GuardFollows, CallKnows, Proxy!LastWordStands, Proxy!Settings, Unsaid, Doing,
     Between, LocalApply, LocalClear, Draining, Asked, CallState, OsSettings, Proxy!Targets,
     Enforceable, First, Proxy!ProxyApplySteps
<1> QED
  BY <1>1, <1>2, <1>3, <1>4, <1>5, <1>6, <1>7 DEF ProxyInv

\* FinalAnswer keeps the invariant.
LEMMA ProxyFinalAnswerStep ==
  ASSUME ProxyInv, Proxy!FinalAnswer
  PROVE  ProxyInv'
<1> USE DEF Proxy!FinalAnswer, Proxy!Free, Proxy!Goto, Proxy!RequestApplied, Proxy!RequestFails,
    Proxy!Word, Proxy!settings_vars, Proxy!guard_vars, Proxy!loop_vars, Proxy!lock_vars,
    Proxy!task_vars, Proxy!bound_vars
<1>a. plan # <<>>
  BY DEF ProxyInv, PlanShape, Draining, LocalApply, LocalClear, Asked, Doing, ProxyTyped,
     Positions
<1>0. \A name, answer : Proxy!Answer(name, answer) => Ended(name, answer)
  BY <1>a, AnswerEnds DEF ProxyInv
<1>1. ProxyTyped'
  <2>1. pc' \in Positions
    BY <1>0, ProxyValues DEF ProxyInv, ProxyTyped, Positions, Between, LocalApply, LocalClear,
       Draining, Asked, Ended
  <2>2. call' \in CallState
    BY <1>0, ProxyValues DEF ProxyInv, ProxyTyped, CallState, Ended
  <2>3. os' \in OsSettings
    BY <1>0, ProxyValues DEF ProxyInv, ProxyTyped, CallState, OsSettings, Ended
  <2>4. lastCall' \in LastCalls
    BY <1>0 DEF ProxyInv, ProxyTyped, LastCalls, ProxyCalls, Ended, PlanShape, Doing, Asked
  <2> QED
    BY <2>1, <2>2, <2>3, <2>4, <1>0, ProxyValues DEF ProxyInv, ProxyTyped, CallState, Ended
<1>2. PlanShape'
  BY <1>0 DEF ProxyInv, ProxyTyped, Positions, ProxyCalls, PlanShape, Doing, Superseding,
     Between, LocalApply, LocalClear, Draining, Asked, Ended
<1>3. LockHeld'
  BY <1>0 DEF ProxyInv, ProxyTyped, Positions, PlanShape, LockHeld, Asking, LoopIndices, Doing,
     Superseding, Between, LocalApply, LocalClear, Draining, Asked, LoopState, Proxy!NoLoop,
     Ended
<1>4. LoopsFollow'
  BY <1>0 DEF ProxyInv, ProxyTyped, Positions, PlanShape, LockHeld, LoopsFollow, NoLoopIsCurrent,
     NoLoopAsks, GivenUp, Asking, LoopIndices, Doing, Superseding, Between, LocalApply,
     LocalClear, Draining, Asked, LoopState, Proxy!NoLoop, GuardFollows, Unsaid,
     Proxy!LastWordStands, Ended
<1>5. GuardFollows'
  BY <1>0 DEF ProxyInv, ProxyTyped, Positions, PlanShape, GuardFollows, Unsaid, GivenUp, Doing,
     Superseding, Between, LocalApply, LocalClear, Draining, Asked, Enforceable, Proxy!Targets,
     CallKnows, Proxy!Enforced, Proxy!Choices, Ended
<1>6. CallKnows'
  BY <1>0 DEF ProxyInv, ProxyTyped, Positions, PlanShape, CallKnows, GuardFollows, Doing,
     Between, LocalApply, LocalClear, Draining, Asked, CallState, OsSettings, Proxy!Settings,
     First, Proxy!ProxyApplySteps, Proxy!Targets, Proxy!NoCall, Ended
<1>7. Proxy!LastWordStands'
  BY <1>0 DEF ProxyInv, ProxyTyped, Positions, PlanShape, LoopsFollow, NoLoopAsks, Asking,
     LoopIndices, GuardFollows, CallKnows, Proxy!LastWordStands, Proxy!Settings, Unsaid, Doing,
     Between, LocalApply, LocalClear, Draining, Asked, CallState, OsSettings, Proxy!Targets,
     Enforceable, First, Proxy!ProxyApplySteps, Ended
<1> QED
  BY <1>1, <1>2, <1>3, <1>4, <1>5, <1>6, <1>7 DEF ProxyInv

\* LoopAsks keeps the invariant.
LEMMA ProxyLoopAsksStep ==
  ASSUME ProxyInv, NEW g \in LoopIndices, Proxy!LoopAsks(g)
  PROVE  ProxyInv'
<1>b. /\ loops \in [LoopIndices -> LoopState] /\ loops[g] \in LoopState
      /\ UNCHANGED <<pc, plan, route, generation, filed, lastCall, word>>
      /\ opLock = "free" /\ loops[g].state = "asleep"
      /\ \A h \in LoopIndices : h # g => loops'[h] = loops[h]
  BY DEF Proxy!LoopAsks, Proxy!Loop, Proxy!Free, ProxyInv, ProxyTyped, LoopIndices,
     Proxy!settings_vars, Proxy!guard_vars, Proxy!loop_vars,
     Proxy!lock_vars, Proxy!task_vars, Proxy!bound_vars
<1>c. \/ /\ g = generation /\ route = "service" /\ opLock' = "loop"
         /\ loops'[g].state = "asking" /\ loops'[g].target = loops[g].target
      \/ loops'[g].state = "none" /\ opLock' = "free"
  <2>1. \/ /\ Proxy!LoopIsCurrent(g)
           /\ Proxy!Loop(g, [loops[g] EXCEPT !.state = "asking"]) /\ opLock' = "loop"
        \/ Proxy!Loop(g, Proxy!NoLoop) /\ opLock' = opLock
    BY DEF Proxy!LoopAsks
  <2>2. \A change : Proxy!Loop(g, change) => loops'[g] = change
    BY <1>b DEF Proxy!Loop
  <2>3. loops'[g] = [loops[g] EXCEPT !.state = "asking"] =>
          loops'[g].state = "asking" /\ loops'[g].target = loops[g].target
    BY <1>b DEF LoopState
  <2>4. Proxy!NoLoop.state = "none"
    BY DEF Proxy!NoLoop
  <2> QED
    BY <1>b, <2>1, <2>2, <2>3, <2>4 DEF Proxy!LoopIsCurrent
<1>d. LockHeld'
  BY <1>b, <1>c DEF ProxyInv, LockHeld, Asking, Superseding, Doing
<1>e. LoopsFollow'
  BY <1>b, <1>c, LoopsKept DEF ProxyInv
<1> USE DEF Proxy!LoopAsks, Proxy!Free, Proxy!Goto, Proxy!LoopIsCurrent, Proxy!Loop,
    Proxy!settings_vars, Proxy!guard_vars, Proxy!loop_vars, Proxy!lock_vars, Proxy!task_vars,
    Proxy!bound_vars
<1>1. ProxyTyped'
  <2>1. pc' \in Positions
    BY ProxyValues DEF ProxyInv, ProxyTyped, Positions, Between, LocalApply, LocalClear,
       Draining, Asked
  <2>2. call' \in CallState
    BY ProxyValues DEF ProxyInv, ProxyTyped, CallState
  <2>3. os' \in OsSettings
    BY ProxyValues DEF ProxyInv, ProxyTyped, CallState, OsSettings
  <2>4. lastCall' \in LastCalls
    BY ProxyValues DEF ProxyInv, ProxyTyped, LastCalls, ProxyCalls
  <2> QED
    BY <2>1, <2>2, <2>3, <2>4, ProxyValues DEF ProxyInv, ProxyTyped, LoopState
<1>2. PlanShape'
  BY DEF ProxyInv, ProxyTyped, Positions, ProxyCalls, PlanShape, Doing, Superseding, Between,
     LocalApply, LocalClear, Draining, Asked
<1>3. LockHeld'
  BY <1>d
<1>4. LoopsFollow'
  BY <1>e
<1>5. GuardFollows'
  BY DEF ProxyInv, ProxyTyped, Positions, PlanShape, GuardFollows, Unsaid, GivenUp, Doing,
     Superseding, Between, LocalApply, LocalClear, Draining, Asked, Enforceable, Proxy!Targets,
     CallKnows, Proxy!Enforced, Proxy!Choices
<1>6. CallKnows'
  BY DEF ProxyInv, ProxyTyped, Positions, PlanShape, CallKnows, GuardFollows, Doing, Between,
     LocalApply, LocalClear, Draining, Asked, CallState, OsSettings, Proxy!Settings, First,
     Proxy!ProxyApplySteps, Proxy!Targets, Proxy!NoCall
<1>7. Proxy!LastWordStands'
  BY DEF ProxyInv, ProxyTyped, Positions, PlanShape, LoopsFollow, NoLoopAsks, Asking,
     LoopIndices, GuardFollows, CallKnows, Proxy!LastWordStands, Proxy!Settings, Unsaid, Doing,
     Between, LocalApply, LocalClear, Draining, Asked, CallState, OsSettings, Proxy!Targets,
     Enforceable, First, Proxy!ProxyApplySteps
<1> QED
  BY <1>1, <1>2, <1>3, <1>4, <1>5, <1>6, <1>7 DEF ProxyInv

\* LoopLands keeps the invariant.
LEMMA ProxyLoopLandsStep ==
  ASSUME ProxyInv, NEW g \in LoopIndices, Proxy!LoopLands(g)
  PROVE  ProxyInv'
<1>b. /\ loops \in [LoopIndices -> LoopState] /\ loops[g] \in LoopState
      /\ loops[g].target \in Proxy!Targets
      /\ UNCHANGED <<pc, plan, route, generation, filed, lastCall>>
      /\ opLock' = "free" /\ loops[g].state = "asking" /\ word' \in {word, "none"}
      /\ \A h \in LoopIndices : h # g => loops'[h] = loops[h]
  BY DEF Proxy!LoopLands, Proxy!Loop, Proxy!Free, ProxyInv, ProxyTyped, LoopIndices, LoopState,
     Proxy!settings_vars, Proxy!guard_vars, Proxy!loop_vars,
     Proxy!lock_vars, Proxy!task_vars, Proxy!bound_vars
<1>c. /\ loops'[g].state \in {"asleep", "reporting"} /\ loops'[g].target = loops[g].target
      /\ loops' \in [LoopIndices -> LoopState]
  <2>1. \E change \in {[loops[g] EXCEPT !.state = "asleep", !.failures = 0],
                       [loops[g] EXCEPT !.state = "reporting"],
                       [loops[g] EXCEPT !.state = "asleep", !.failures = @ + 1]} :
          loops' = [loops EXCEPT ![g] = change]
    BY DEF Proxy!LoopLands, Proxy!Loop
  <2>2. \A change \in {[loops[g] EXCEPT !.state = "asleep", !.failures = 0],
                       [loops[g] EXCEPT !.state = "reporting"],
                       [loops[g] EXCEPT !.state = "asleep", !.failures = @ + 1]} :
          /\ change.state \in {"asleep", "reporting"}
          /\ change.target = loops[g].target /\ change \in LoopState
    BY <1>b, LoopChanges
  <2>3. PICK change : /\ loops' = [loops EXCEPT ![g] = change]
                      /\ change.state \in {"asleep", "reporting"}
                      /\ change.target = loops[g].target /\ change \in LoopState
    BY <2>1, <2>2
  <2> QED
    BY <1>b, <2>3
<1>d. LockHeld'
  BY <1>b, <1>c DEF ProxyInv, LockHeld, Asking, Superseding, Doing
<1>e. LoopsFollow'
  BY <1>b, <1>c, LoopsKept DEF ProxyInv
<1>f. route = "service"
  BY <1>b DEF ProxyInv, ProxyTyped, LoopsFollow, NoLoopAsks, Asking
<1> USE DEF Proxy!LoopLands, Proxy!Free, Proxy!Goto, Proxy!RequestApplied, Proxy!RequestFails,
    Proxy!Loop, Proxy!GuardFailuresBeforeStopping, Proxy!settings_vars, Proxy!guard_vars,
    Proxy!loop_vars, Proxy!lock_vars, Proxy!task_vars, Proxy!bound_vars
<1>1. ProxyTyped'
  <2>1. pc' \in Positions
    BY ProxyValues DEF ProxyInv, ProxyTyped, Positions, Between, LocalApply, LocalClear,
       Draining, Asked
  <2>2. call' \in CallState
    BY ProxyValues DEF ProxyInv, ProxyTyped, CallState
  <2>3. os' \in OsSettings
    BY <1>b, ProxyValues DEF ProxyInv, ProxyTyped
  <2>4. lastCall' \in LastCalls
    BY ProxyValues DEF ProxyInv, ProxyTyped, LastCalls, ProxyCalls
  <2> QED
    BY <1>b, <1>c, <2>1, <2>2, <2>3, <2>4 DEF ProxyInv, ProxyTyped, LoopIndices
<1>2. PlanShape'
  BY DEF ProxyInv, ProxyTyped, Positions, ProxyCalls, PlanShape, Doing, Superseding, Between,
     LocalApply, LocalClear, Draining, Asked
<1>3. LockHeld'
  BY <1>d
<1>4. LoopsFollow'
  BY <1>e
<1>5. GuardFollows'
  BY DEF ProxyInv, ProxyTyped, Positions, PlanShape, GuardFollows, Unsaid, GivenUp, Doing,
     Superseding, Between, LocalApply, LocalClear, Draining, Asked, Enforceable, Proxy!Targets,
     CallKnows, Proxy!Enforced, Proxy!Choices
<1>6. CallKnows'
  BY <1>b, <1>f DEF ProxyInv, CallKnows, PlanShape, LocalApply, LocalClear
<1>7. Proxy!LastWordStands'
  BY DEF ProxyInv, ProxyTyped, Positions, PlanShape, LoopsFollow, NoLoopAsks, Asking,
     LoopIndices, GuardFollows, CallKnows, Proxy!LastWordStands, Proxy!Settings, Unsaid, Doing,
     Between, LocalApply, LocalClear, Draining, Asked, CallState, OsSettings, Proxy!Targets,
     Enforceable, First, Proxy!ProxyApplySteps
<1> QED
  BY <1>1, <1>2, <1>3, <1>4, <1>5, <1>6, <1>7 DEF ProxyInv

\* LoopReports keeps the invariant.
LEMMA ProxyLoopReportsStep ==
  ASSUME ProxyInv, NEW g \in LoopIndices, Proxy!LoopReports(g)
  PROVE  ProxyInv'
<1> USE DEF Proxy!LoopReports, Proxy!Goto, Proxy!RecordIfCurrent, Proxy!Loop,
   Proxy!settings_vars, Proxy!guard_vars, Proxy!loop_vars, Proxy!lock_vars, Proxy!task_vars,
   Proxy!bound_vars
<1>1. ProxyTyped'
  <2>1. pc' \in Positions
    BY ProxyValues DEF ProxyInv, ProxyTyped, Positions, Between, LocalApply, LocalClear,
       Draining, Asked
  <2>2. call' \in CallState
    BY ProxyValues DEF ProxyInv, ProxyTyped, CallState
  <2>3. os' \in OsSettings
    BY ProxyValues DEF ProxyInv, ProxyTyped, CallState, OsSettings
  <2>4. lastCall' \in LastCalls
    BY ProxyValues DEF ProxyInv, ProxyTyped, LastCalls, ProxyCalls
  <2> QED
    BY <2>1, <2>2, <2>3, <2>4, ProxyValues DEF ProxyInv, ProxyTyped, LoopState
<1>2. PlanShape'
  BY DEF ProxyInv, ProxyTyped, Positions, ProxyCalls, PlanShape, Doing, Superseding, Between,
     LocalApply, LocalClear, Draining, Asked
<1>3. LockHeld'
  BY DEF ProxyInv, ProxyTyped, Positions, PlanShape, LockHeld, Asking, LoopIndices, Doing,
     Superseding, Between, LocalApply, LocalClear, Draining, Asked, LoopState, Proxy!NoLoop
<1>4. LoopsFollow'
  BY ZenonT(40) DEF ProxyInv, ProxyTyped, Positions, PlanShape, LockHeld, LoopsFollow,
     NoLoopIsCurrent, NoLoopAsks, GivenUp, Asking, LoopIndices, Doing, Superseding, Between,
     LocalApply, LocalClear, Draining, Asked, LoopState, Proxy!NoLoop, GuardFollows, Unsaid,
     Proxy!LastWordStands
<1>5. GuardFollows'
  BY DEF ProxyInv, ProxyTyped, Positions, PlanShape, GuardFollows, Unsaid, GivenUp, Doing,
     Superseding, Between, LocalApply, LocalClear, Draining, Asked, Enforceable, Proxy!Targets,
     CallKnows, Proxy!Enforced, Proxy!Choices
<1>6. CallKnows'
  BY DEF ProxyInv, ProxyTyped, Positions, PlanShape, CallKnows, GuardFollows, Doing, Between,
     LocalApply, LocalClear, Draining, Asked, CallState, OsSettings, Proxy!Settings, First,
     Proxy!ProxyApplySteps, Proxy!Targets, Proxy!NoCall
<1>7. Proxy!LastWordStands'
  BY DEF ProxyInv, ProxyTyped, Positions, PlanShape, LoopsFollow, NoLoopAsks, Asking,
     LoopIndices, GuardFollows, CallKnows, Proxy!LastWordStands, Proxy!Settings, Unsaid, Doing,
     Between, LocalApply, LocalClear, Draining, Asked, CallState, OsSettings, Proxy!Targets,
     Enforceable, First, Proxy!ProxyApplySteps
<1> QED
  BY <1>1, <1>2, <1>3, <1>4, <1>5, <1>6, <1>7 DEF ProxyInv

\* Where the holder is in a call: it has superseded the loops for it, or not.
Before == {"idle", "next", "invalidate"} \cup LocalApply \cup LocalClear
Past == {"cancel", "refresh"} \cup Asked

\* What the holder may still supersede, by where it is.
OwedCounts ==
  /\ Owed \in Nat /\ generation \in Nat /\ plans \in Nat /\ MaxPlans \in Nat
  /\ Len(plan) <= Owed + 1 /\ Owed <= Len(plan) /\ Len(plan) \in Nat
  /\ pc.holder \in Before => Owed = Len(plan)
  /\ pc.holder \in Past => Owed = Len(plan) - 1
  /\ pc.holder \in Draining => Owed = IF Doing("apply") THEN Len(plan) ELSE Len(plan) - 1

\* What is owed is counted by the position and the plan.
LEMMA OwedIsCounted == ProxyInv => OwedCounts
BY BoundsAssumption DEF ProxyInv, ProxyTyped, PlanShape, Owed, OwedCounts, Before, Past,
   Superseding, Draining, LocalApply, LocalClear, Asked, Doing

\* A count that does not grow, and one that a new plan pays for.
LEMMA CountsStay ==
  ASSUME NEW g \in Nat, NEW o \in Nat, NEW later \in Nat, NEW r \in Nat, NEW p \in Nat,
         g + o + r <= 4 * p + 1, later <= o
  PROVE  g + later + r <= 4 * p + 1
OBVIOUS

\* A new plan pays for four more loops.
LEMMA CountsGrow ==
  ASSUME NEW g \in Nat, NEW o \in Nat, NEW later \in Nat, NEW r \in Nat, NEW p \in Nat,
         g + o + r <= 4 * p + 1, later <= 4
  PROVE  g + later + r <= 4 * (p + 1) + 1
OBVIOUS

\* A plan pays for the loops that its calls supersede, the reader for one.
LEMMA GenerationsStep ==
  ASSUME ProxyInv, ProxyInv', GenerationsCounted, Proxy!Next
  PROVE  GenerationsCounted'
<1> DEFINE reader == IF pc.reader = "idle" THEN 1 ELSE 0
<1>o. OwedCounts /\ OwedCounts'
  BY OwedIsCounted, PTL
<1>a. /\ Owed \in Nat /\ generation \in Nat /\ plans \in Nat /\ MaxPlans \in Nat
      /\ Owed' \in Nat /\ generation' \in Nat /\ plans' \in Nat
      /\ Len(plan) <= Owed + 1 /\ Owed <= Len(plan) /\ Len(plan) \in Nat
      /\ Owed' <= Len(plan)' /\ Len(plan)' \in Nat
      /\ pc \in Positions /\ reader \in {0, 1} /\ plans <= MaxPlans
  BY <1>o DEF OwedCounts, ProxyInv, ProxyTyped, GenerationsCounted
<1>b. \A name, answer : plan # <<>> /\ Proxy!Answer(name, answer) =>
        Owed' <= Owed /\ pc'.reader = pc.reader
  BY <1>a, AnswerEnds DEF Ended, ProxyInv
<1>c. \A t : UNCHANGED plan /\ pc' = [pc EXCEPT !["holder"] = t]
          /\ (\/ pc.holder \in Before /\ t \in Before
              \/ pc.holder \in Past /\ t \in Past) =>
        Owed' = Owed /\ pc'.reader = pc.reader
  <2> SUFFICES ASSUME NEW t, UNCHANGED plan, pc' = [pc EXCEPT !["holder"] = t],
                      \/ pc.holder \in Before /\ t \in Before
                      \/ pc.holder \in Past /\ t \in Past
               PROVE  Owed' = Owed /\ pc'.reader = pc.reader
    OBVIOUS
  <2>1. pc'.holder = t /\ pc'.reader = pc.reader
    BY <1>a DEF Positions
  <2> QED
    BY <2>1, <1>o DEF OwedCounts
<1>d. UNCHANGED <<plan, pc>> => Owed' = Owed /\ reader' = reader
  BY DEF Owed, Superseding, Doing
<1>e. pc'.reader = pc.reader => reader' = reader
  OBVIOUS
<1>f. generation + Owed + reader <= 4 * plans + 1
  BY DEF GenerationsCounted
<1>g. SUFFICES generation' + Owed' + reader' <= 4 * plans' + 1 /\ plans' <= MaxPlans
  BY DEF GenerationsCounted
<1> HIDE DEF reader
<1>h. CASE UNCHANGED <<generation, plans>> /\ Owed' <= Owed /\ reader' = reader
  <2>1. generation + Owed' + reader <= 4 * plans + 1
    BY <1>a, <1>f, <1>h, CountsStay
  <2> QED
    BY <1>a, <1>h, <2>1
<1>1. CASE Proxy!StagePatch
  BY <1>1, <1>a, <1>d, <1>h DEF Proxy!StagePatch, Proxy!settings_vars, Proxy!guard_vars,
     Proxy!loop_vars, Proxy!lock_vars, Proxy!task_vars, Proxy!bound_vars
<1>2. CASE Proxy!EndPatch
  BY <1>2, <1>a, <1>d, <1>h DEF Proxy!EndPatch, Proxy!settings_vars, Proxy!guard_vars,
     Proxy!loop_vars, Proxy!lock_vars, Proxy!task_vars, Proxy!bound_vars
<1>3. CASE Proxy!SwitchRoute
  BY <1>3, <1>a, <1>d, <1>h DEF Proxy!SwitchRoute, Proxy!settings_vars, Proxy!guard_vars,
     Proxy!loop_vars, Proxy!lock_vars, Proxy!task_vars, Proxy!bound_vars
<1>4. CASE Proxy!GuardFires
  BY <1>4, <1>a, <1>d, <1>h DEF Proxy!GuardFires, Proxy!settings_vars, Proxy!guard_vars,
     Proxy!loop_vars, Proxy!lock_vars, Proxy!task_vars, Proxy!bound_vars
<1>5. CASE Proxy!GuardWriteLands
  BY <1>5, <1>a, <1>d, <1>h DEF Proxy!GuardWriteLands, Proxy!settings_vars, Proxy!guard_vars,
     Proxy!loop_vars, Proxy!lock_vars, Proxy!task_vars, Proxy!bound_vars
<1>6. CASE \E g \in LoopIndices : Proxy!LoopSteps(g)
  BY <1>6, <1>a, <1>d, <1>h DEF Proxy!LoopSteps, Proxy!LoopAsks, Proxy!LoopLands,
     Proxy!LoopReports, Proxy!settings_vars, Proxy!guard_vars, Proxy!loop_vars,
     Proxy!lock_vars, Proxy!task_vars, Proxy!bound_vars
<1>7. CASE Proxy!BeginPlan
  <2>1. pc.holder = "idle" /\ plan' \in Proxy!Plans /\ plans' = plans + 1 /\ plans < MaxPlans
        /\ UNCHANGED generation /\ pc' = [pc EXCEPT !["holder"] = "next"]
    BY <1>7 DEF Proxy!BeginPlan, Proxy!Goto, Proxy!Plans, Proxy!loop_vars
  <2>2. Len(plan') <= 4 /\ Owed' <= 4
    BY <1>a, <2>1, PlansAreShaped, <1>o DEF OwedCounts, Before
  <2>3. pc'.reader = pc.reader
    BY <1>a, <2>1 DEF Positions
  <2>4. generation + Owed' + reader <= 4 * (plans + 1) + 1
    BY <1>a, <1>f, <2>1, <2>2, CountsGrow
  <2>5. generation' + Owed' + reader' <= 4 * plans' + 1
    BY <1>e, <2>1, <2>3, <2>4
  <2> QED
    BY <1>a, <2>1, <2>5
<1>8. CASE Proxy!ApplyPatch
  <2>1. pc.holder = "idle" /\ plan' \in Proxy!Plans /\ plans' = plans + 1 /\ plans < MaxPlans
        /\ UNCHANGED generation /\ pc' = [pc EXCEPT !["holder"] = "next"]
    BY <1>8 DEF Proxy!ApplyPatch, Proxy!Goto, Proxy!Plans, Proxy!loop_vars
  <2>2. Len(plan') <= 4 /\ Owed' <= 4
    BY <1>a, <2>1, PlansAreShaped, <1>o DEF OwedCounts, Before
  <2>3. pc'.reader = pc.reader
    BY <1>a, <2>1 DEF Positions
  <2>4. generation + Owed' + reader <= 4 * (plans + 1) + 1
    BY <1>a, <1>f, <2>1, <2>2, CountsGrow
  <2>5. generation' + Owed' + reader' <= 4 * plans' + 1
    BY <1>e, <2>1, <2>3, <2>4
  <2> QED
    BY <1>a, <2>1, <2>5
<1>9. CASE Proxy!ApplyLocal
  <2>1. UNCHANGED <<plan, generation, plans>> /\ pc' = [pc EXCEPT !["holder"] = "applyLock"]
    BY <1>9 DEF Proxy!ApplyLocal, Proxy!Goto, Proxy!AtCall, Proxy!settings_vars,
       Proxy!guard_vars, Proxy!loop_vars, Proxy!lock_vars, Proxy!task_vars, Proxy!bound_vars
  <2>2. pc.holder \in Before /\ "applyLock" \in Before
    BY <1>9 DEF Proxy!ApplyLocal, Proxy!Goto, Proxy!AtCall, Before, Past, LocalApply,
       LocalClear, Asked
  <2>3. Owed' = Owed /\ pc'.reader = pc.reader
    <3>1. UNCHANGED plan /\ pc' = [pc EXCEPT !["holder"] = "applyLock"]
      BY <2>1
    <3> QED
      BY <1>c, <2>2, <3>1
  <2> QED
    BY <1>a, <1>e, <1>h, <2>1, <2>3
<1>10. CASE Proxy!DrainForApply
  <2>1. UNCHANGED <<plan, generation, plans>> /\ pc' = [pc EXCEPT !["holder"] = "applyWait"]
    BY <1>10 DEF Proxy!DrainForApply, Proxy!Goto, Proxy!ShutdownGuard, Proxy!settings_vars,
       Proxy!guard_vars, Proxy!loop_vars, Proxy!lock_vars, Proxy!task_vars, Proxy!bound_vars
  <2>2. pc.holder \in Before /\ "applyWait" \in Before
    BY <1>10 DEF Proxy!DrainForApply, Proxy!Goto, Proxy!ShutdownGuard, Before, Past,
       LocalApply, LocalClear, Asked
  <2>3. Owed' = Owed /\ pc'.reader = pc.reader
    <3>1. UNCHANGED plan /\ pc' = [pc EXCEPT !["holder"] = "applyWait"]
      BY <2>1
    <3> QED
      BY <1>c, <2>2, <3>1
  <2> QED
    BY <1>a, <1>e, <1>h, <2>1, <2>3
<1>11. CASE Proxy!ClearLocal
  <2>1. UNCHANGED <<plan, generation, plans>> /\ pc' = [pc EXCEPT !["holder"] = "clearWait"]
    BY <1>11 DEF Proxy!ClearLocal, Proxy!Goto, Proxy!AtCall, Proxy!ShutdownGuard,
       Proxy!settings_vars, Proxy!guard_vars, Proxy!loop_vars, Proxy!lock_vars,
       Proxy!task_vars, Proxy!bound_vars
  <2>2. pc.holder \in Before /\ "clearWait" \in Before
    BY <1>11 DEF Proxy!ClearLocal, Proxy!Goto, Proxy!AtCall, Proxy!ShutdownGuard, Before,
       Past, LocalApply, LocalClear, Asked
  <2>3. Owed' = Owed /\ pc'.reader = pc.reader
    <3>1. UNCHANGED plan /\ pc' = [pc EXCEPT !["holder"] = "clearWait"]
      BY <2>1
    <3> QED
      BY <1>c, <2>2, <3>1
  <2> QED
    BY <1>a, <1>e, <1>h, <2>1, <2>3
<1>12. CASE Proxy!LockFinal
  <2>1. UNCHANGED <<plan, generation, plans>> /\ pc' = [pc EXCEPT !["holder"] = "request"]
    BY <1>12 DEF Proxy!LockFinal, Proxy!Goto, Proxy!settings_vars, Proxy!guard_vars,
       Proxy!loop_vars, Proxy!lock_vars, Proxy!task_vars, Proxy!bound_vars
  <2>2. pc.holder \in Past /\ "request" \in Past
    BY <1>12 DEF Proxy!LockFinal, Proxy!Goto, Before, Past, LocalApply, LocalClear, Asked
  <2>3. Owed' = Owed /\ pc'.reader = pc.reader
    <3>1. UNCHANGED plan /\ pc' = [pc EXCEPT !["holder"] = "request"]
      BY <2>1
    <3> QED
      BY <1>c, <2>2, <3>1
  <2> QED
    BY <1>a, <1>e, <1>h, <2>1, <2>3
<1>13. CASE Proxy!ApplyAfterDrain
  <2>1. UNCHANGED <<generation, plans>> /\ plan # <<>>
    BY <1>13 DEF Proxy!ApplyAfterDrain, Proxy!Goto, Proxy!WaitIdle, Proxy!settings_vars,
       Proxy!guard_vars, Proxy!loop_vars, Proxy!lock_vars, Proxy!task_vars, Proxy!bound_vars,
       ProxyInv, ProxyTyped, PlanShape, Positions
  <2>2. \/ \E name, answer : Proxy!Answer(name, answer)
        \/ UNCHANGED plan /\ \E t \in {"firstStep"} : pc' = [pc EXCEPT !["holder"] = t]
    BY <1>13 DEF Proxy!ApplyAfterDrain, Proxy!Goto, Proxy!WaitIdle, Proxy!settings_vars,
       Proxy!guard_vars, Proxy!loop_vars, Proxy!lock_vars, Proxy!task_vars, Proxy!bound_vars
  <2>3. pc.holder \in Before /\ {"firstStep"} \subseteq Before
    BY <1>13 DEF Proxy!ApplyAfterDrain, Before, LocalApply, LocalClear
  <2> QED
    BY <1>a, <1>b, <1>c, <1>e, <1>h, <2>1, <2>2, <2>3
<1>14. CASE Proxy!WriteFirst
  <2>1. UNCHANGED <<generation, plans>> /\ plan # <<>>
    BY <1>14 DEF Proxy!WriteFirst, Proxy!Goto, Proxy!StepFails, Proxy!RecoverUnchanged,
       Proxy!RecoverUnknown, Proxy!StartGuard, Proxy!settings_vars, Proxy!guard_vars,
       Proxy!loop_vars, Proxy!lock_vars, Proxy!task_vars, Proxy!bound_vars, ProxyInv,
       ProxyTyped, PlanShape, Positions
  <2>2. \/ \E name, answer : Proxy!Answer(name, answer)
        \/ /\ UNCHANGED plan
           /\ \E t \in {"secondStep", "compensate"} : pc' = [pc EXCEPT !["holder"] = t]
    BY <1>14 DEF Proxy!WriteFirst, Proxy!Goto, Proxy!StepFails, Proxy!RecoverUnchanged,
       Proxy!RecoverUnknown, Proxy!StartGuard, Proxy!settings_vars, Proxy!guard_vars,
       Proxy!loop_vars, Proxy!lock_vars, Proxy!task_vars, Proxy!bound_vars
  <2>3. pc.holder \in Before /\ {"secondStep", "compensate"} \subseteq Before
    BY <1>14 DEF Proxy!WriteFirst, Before, LocalApply, LocalClear
  <2> QED
    BY <1>a, <1>b, <1>c, <1>e, <1>h, <2>1, <2>2, <2>3
<1>15. CASE Proxy!WriteSecond
  <2>1. UNCHANGED <<generation, plans>> /\ plan # <<>>
    BY <1>15 DEF Proxy!WriteSecond, Proxy!Goto, Proxy!StepFails, Proxy!RecoverUnchanged,
       Proxy!RecoverUnknown, Proxy!StartGuard, Proxy!settings_vars, Proxy!guard_vars,
       Proxy!loop_vars, Proxy!lock_vars, Proxy!task_vars, Proxy!bound_vars, ProxyInv,
       ProxyTyped, PlanShape, Positions
  <2>2. \/ \E name, answer : Proxy!Answer(name, answer)
        \/ UNCHANGED plan /\ \E t \in {"compensate"} : pc' = [pc EXCEPT !["holder"] = t]
    BY <1>15 DEF Proxy!WriteSecond, Proxy!Goto, Proxy!StepFails, Proxy!RecoverUnchanged,
       Proxy!RecoverUnknown, Proxy!StartGuard, Proxy!settings_vars, Proxy!guard_vars,
       Proxy!loop_vars, Proxy!lock_vars, Proxy!task_vars, Proxy!bound_vars
  <2>3. pc.holder \in Before /\ {"compensate"} \subseteq Before
    BY <1>15 DEF Proxy!WriteSecond, Before, LocalApply, LocalClear
  <2> QED
    BY <1>a, <1>b, <1>c, <1>e, <1>h, <2>1, <2>2, <2>3
<1>16. CASE Proxy!Compensate
  <2>1. UNCHANGED <<generation, plans>> /\ plan # <<>>
    BY <1>16 DEF Proxy!Compensate, Proxy!settings_vars, Proxy!guard_vars, Proxy!loop_vars,
       Proxy!lock_vars, Proxy!task_vars, Proxy!bound_vars, ProxyInv, ProxyTyped, PlanShape,
       Positions
  <2>2. \E name, answer : Proxy!Answer(name, answer)
    BY <1>16 DEF Proxy!Compensate, Proxy!settings_vars, Proxy!guard_vars, Proxy!loop_vars,
       Proxy!lock_vars, Proxy!task_vars, Proxy!bound_vars
  <2> QED
    BY <1>a, <1>b, <1>c, <1>e, <1>h, <2>1, <2>2
<1>17. CASE Proxy!ClearAfterDrain
  <2>1. UNCHANGED <<generation, plans>> /\ plan # <<>>
    BY <1>17 DEF Proxy!ClearAfterDrain, Proxy!Goto, Proxy!WaitIdle, Proxy!settings_vars,
       Proxy!guard_vars, Proxy!loop_vars, Proxy!lock_vars, Proxy!task_vars, Proxy!bound_vars,
       ProxyInv, ProxyTyped, PlanShape, Positions
  <2>2. \/ \E name, answer : Proxy!Answer(name, answer)
        \/ UNCHANGED plan /\ \E t \in {"disable"} : pc' = [pc EXCEPT !["holder"] = t]
    BY <1>17 DEF Proxy!ClearAfterDrain, Proxy!Goto, Proxy!WaitIdle, Proxy!settings_vars,
       Proxy!guard_vars, Proxy!loop_vars, Proxy!lock_vars, Proxy!task_vars, Proxy!bound_vars
  <2>3. pc.holder \in Before /\ {"disable"} \subseteq Before
    BY <1>17 DEF Proxy!ClearAfterDrain, Before, LocalApply, LocalClear
  <2> QED
    BY <1>a, <1>b, <1>c, <1>e, <1>h, <2>1, <2>2, <2>3
<1>18. CASE Proxy!Disable
  <2>1. UNCHANGED <<generation, plans>> /\ plan # <<>>
    BY <1>18 DEF Proxy!Disable, Proxy!Goto, Proxy!ClearFails, Proxy!ClearSucceeds,
       Proxy!ShutdownGuard, Proxy!settings_vars, Proxy!guard_vars, Proxy!loop_vars,
       Proxy!lock_vars, Proxy!task_vars, Proxy!bound_vars, ProxyInv, ProxyTyped, PlanShape,
       Positions
  <2>2. \/ \E name, answer : Proxy!Answer(name, answer)
        \/ /\ UNCHANGED plan
           /\ \E t \in {"disableAgain", "retryClear"} : pc' = [pc EXCEPT !["holder"] = t]
    BY <1>18 DEF Proxy!Disable, Proxy!Goto, Proxy!ClearFails, Proxy!ClearSucceeds,
       Proxy!ShutdownGuard, Proxy!settings_vars, Proxy!guard_vars, Proxy!loop_vars,
       Proxy!lock_vars, Proxy!task_vars, Proxy!bound_vars
  <2>3. pc.holder \in Before /\ {"disableAgain", "retryClear"} \subseteq Before
    BY <1>18 DEF Proxy!Disable, Before, LocalApply, LocalClear
  <2> QED
    BY <1>a, <1>b, <1>c, <1>e, <1>h, <2>1, <2>2, <2>3
<1>19. CASE Proxy!DisableAgain
  <2>1. UNCHANGED <<generation, plans>> /\ plan # <<>>
    BY <1>19 DEF Proxy!DisableAgain, Proxy!Goto, Proxy!ClearFails, Proxy!ClearSucceeds,
       Proxy!WaitIdle, Proxy!settings_vars, Proxy!guard_vars, Proxy!loop_vars,
       Proxy!lock_vars, Proxy!task_vars, Proxy!bound_vars, ProxyInv, ProxyTyped, PlanShape,
       Positions
  <2>2. \/ \E name, answer : Proxy!Answer(name, answer)
        \/ UNCHANGED plan /\ \E t \in {"retryClear"} : pc' = [pc EXCEPT !["holder"] = t]
    BY <1>19 DEF Proxy!DisableAgain, Proxy!Goto, Proxy!ClearFails, Proxy!ClearSucceeds,
       Proxy!WaitIdle, Proxy!settings_vars, Proxy!guard_vars, Proxy!loop_vars,
       Proxy!lock_vars, Proxy!task_vars, Proxy!bound_vars
  <2>3. pc.holder \in Before /\ {"retryClear"} \subseteq Before
    BY <1>19 DEF Proxy!DisableAgain, Before, LocalApply, LocalClear
  <2> QED
    BY <1>a, <1>b, <1>c, <1>e, <1>h, <2>1, <2>2, <2>3
<1>20. CASE Proxy!FinalAnswer
  <2>1. UNCHANGED <<generation, plans>> /\ plan # <<>>
    BY <1>20 DEF Proxy!FinalAnswer, Proxy!settings_vars, Proxy!guard_vars, Proxy!loop_vars,
       Proxy!lock_vars, Proxy!task_vars, Proxy!bound_vars, ProxyInv, ProxyTyped, PlanShape,
       Positions
  <2>2. \E name, answer : Proxy!Answer(name, answer)
    BY <1>20 DEF Proxy!FinalAnswer, Proxy!settings_vars, Proxy!guard_vars, Proxy!loop_vars,
       Proxy!lock_vars, Proxy!task_vars, Proxy!bound_vars
  <2> QED
    BY <1>a, <1>b, <1>c, <1>e, <1>h, <2>1, <2>2
<1>21. CASE Proxy!RefreshLocal
  <2>1. UNCHANGED <<generation, plans>> /\ plan # <<>>
    BY <1>21 DEF Proxy!RefreshLocal, Proxy!StartGuard, Proxy!ShutdownGuard,
       Proxy!settings_vars, Proxy!guard_vars, Proxy!loop_vars, Proxy!lock_vars,
       Proxy!task_vars, Proxy!bound_vars, ProxyInv, ProxyTyped, PlanShape, Positions
  <2>2. \E name, answer : Proxy!Answer(name, answer)
    BY <1>21 DEF Proxy!RefreshLocal, Proxy!StartGuard, Proxy!ShutdownGuard,
       Proxy!settings_vars, Proxy!guard_vars, Proxy!loop_vars, Proxy!lock_vars,
       Proxy!task_vars, Proxy!bound_vars
  <2> QED
    BY <1>a, <1>b, <1>c, <1>e, <1>h, <2>1, <2>2
<1>22. CASE Proxy!RefreshService
  <2>1. UNCHANGED <<generation, plans>> /\ plan # <<>>
    BY <1>22 DEF Proxy!RefreshService, Proxy!settings_vars, Proxy!guard_vars, Proxy!loop_vars,
       Proxy!lock_vars, Proxy!task_vars, Proxy!bound_vars, ProxyInv, ProxyTyped, PlanShape,
       Positions
  <2>2. \E name, answer : Proxy!Answer(name, answer)
    BY <1>22 DEF Proxy!RefreshService, Proxy!settings_vars, Proxy!guard_vars, Proxy!loop_vars,
       Proxy!lock_vars, Proxy!task_vars, Proxy!bound_vars
  <2> QED
    BY <1>a, <1>b, <1>c, <1>e, <1>h, <2>1, <2>2
<1>23. CASE Proxy!ApplyService
  <2>1. UNCHANGED <<plan, generation, plans>> /\ pc' = [pc EXCEPT !["holder"] = "lockGuard"]
        /\ pc.holder = "next" /\ Head(plan) = "apply"
    BY <1>23 DEF Proxy!ApplyService, Proxy!Goto, Proxy!AtCall, Proxy!settings_vars,
       Proxy!guard_vars, Proxy!loop_vars, Proxy!lock_vars, Proxy!task_vars, Proxy!bound_vars
  <2>2. pc'.holder = "lockGuard" /\ pc'.reader = pc.reader
    BY <1>a, <2>1 DEF Positions
  <2>3. Owed = Len(plan)
    BY <2>1, <1>o DEF OwedCounts, Before
  <2> QED
    BY <1>a, <1>e, <1>h, <2>1, <2>2, <2>3
<1>24. CASE Proxy!FinalOperation
  <2>1. UNCHANGED <<plan, plans>> /\ pc' = [pc EXCEPT !["holder"] = "final"]
        /\ pc.holder \in {"next", "invalidate"} /\ generation' = generation + 1
    BY <1>24 DEF Proxy!FinalOperation, Proxy!Goto, Proxy!AtCall, Proxy!Supersede,
       Proxy!settings_vars, Proxy!guard_vars, Proxy!loop_vars, Proxy!lock_vars,
       Proxy!task_vars, Proxy!bound_vars
  <2>2. pc'.holder = "final" /\ pc'.reader = pc.reader
    BY <1>a, <2>1 DEF Positions
  <2>3. Owed = Len(plan) /\ Owed' = Len(plan) - 1
    BY <2>1, <2>2, <1>o DEF OwedCounts, Before, Past, Asked
  <2> QED
    BY <1>a, <1>e, <1>f, <2>1, <2>2, <2>3
<1>25. CASE Proxy!CancelAndDrain("holder")
  <2>1. UNCHANGED <<plan, plans>> /\ pc' = [pc EXCEPT !["holder"] = "cancel"]
        /\ pc.holder = "next" /\ generation' = generation + 1
    BY <1>25 DEF Proxy!CancelAndDrain, Proxy!Goto, Proxy!AtCall, Proxy!Supersede,
       Proxy!settings_vars, Proxy!guard_vars, Proxy!loop_vars, Proxy!lock_vars,
       Proxy!task_vars, Proxy!bound_vars
  <2>2. pc'.holder = "cancel" /\ pc'.reader = pc.reader
    BY <1>a, <2>1 DEF Positions
  <2>3. Owed = Len(plan) /\ Owed' = Len(plan) - 1
    BY <2>1, <2>2, <1>o DEF OwedCounts, Before, Past
  <2> QED
    BY <1>a, <1>e, <1>f, <2>1, <2>2, <2>3
<1>26. CASE Proxy!CancelAndDrain("reader")
  <2>1. UNCHANGED <<plan, plans>> /\ pc' = [pc EXCEPT !["reader"] = "cancel"]
        /\ pc.reader = "idle" /\ generation' = generation + 1
    BY <1>26 DEF Proxy!CancelAndDrain, Proxy!Goto, Proxy!AtCall, Proxy!Supersede,
       Proxy!settings_vars, Proxy!guard_vars, Proxy!loop_vars, Proxy!lock_vars,
       Proxy!task_vars, Proxy!bound_vars
  <2>2. pc'.reader = "cancel" /\ pc'.holder = pc.holder
    BY <1>a, <2>1 DEF Positions
  <2>3. Owed' = Owed
    BY <2>1, <2>2 DEF Owed, Superseding, Doing
  <2> QED
    BY <1>a, <1>f, <2>1, <2>2, <2>3 DEF reader
<1>27. CASE Proxy!LockOperation("reader")
  <2>1. UNCHANGED <<plan, plans, generation>> /\ pc' = [pc EXCEPT !["reader"] = "lockGuard"]
        /\ pc.reader = "cancel"
    BY <1>27 DEF Proxy!LockOperation, Proxy!Goto, Proxy!settings_vars, Proxy!guard_vars,
       Proxy!loop_vars, Proxy!lock_vars, Proxy!task_vars, Proxy!bound_vars
  <2>2. pc'.reader = "lockGuard" /\ pc'.holder = pc.holder
    BY <1>a, <2>1 DEF Positions
  <2>3. Owed' = Owed
    BY <2>1, <2>2 DEF Owed, Superseding, Doing
  <2> QED
    BY <1>a, <1>h, <2>1, <2>2, <2>3 DEF reader
<1>28. CASE Proxy!LockOperation("holder")
  <2>1. UNCHANGED <<plan, plans, generation>> /\ pc' = [pc EXCEPT !["holder"] = "lockGuard"]
        /\ pc.holder = "cancel"
    BY <1>28 DEF Proxy!LockOperation, Proxy!Goto, Proxy!settings_vars, Proxy!guard_vars,
       Proxy!loop_vars, Proxy!lock_vars, Proxy!task_vars, Proxy!bound_vars
  <2>2. pc'.reader = pc.reader /\ pc'.holder = "lockGuard"
    BY <1>a, <2>1 DEF Positions
  <2>3. Owed' = Owed
    BY <1>a, <2>1, <2>2 DEF ProxyInv, PlanShape, Owed, Superseding, Doing, Draining, Asked
  <2> QED
    BY <1>a, <1>e, <1>h, <2>1, <2>2, <2>3
<1>29. CASE Proxy!StopLocalGuard("reader")
  <2>1. UNCHANGED <<plan, plans, generation>> /\ pc' = [pc EXCEPT !["reader"] = "drain"]
        /\ pc.reader = "lockGuard"
    BY <1>29 DEF Proxy!StopLocalGuard, Proxy!Goto, Proxy!ShutdownGuard, Proxy!settings_vars,
       Proxy!guard_vars, Proxy!loop_vars, Proxy!lock_vars, Proxy!task_vars, Proxy!bound_vars
  <2>2. pc'.reader = "drain" /\ pc'.holder = pc.holder
    BY <1>a, <2>1 DEF Positions
  <2>3. Owed' = Owed
    BY <2>1, <2>2 DEF Owed, Superseding, Doing
  <2> QED
    BY <1>a, <1>h, <2>1, <2>2, <2>3 DEF reader
<1>30. CASE Proxy!StopLocalGuard("holder")
  <2>1. UNCHANGED <<plan, plans, generation>> /\ pc' = [pc EXCEPT !["holder"] = "drain"]
        /\ pc.holder = "lockGuard"
    BY <1>30 DEF Proxy!StopLocalGuard, Proxy!Goto, Proxy!ShutdownGuard, Proxy!settings_vars,
       Proxy!guard_vars, Proxy!loop_vars, Proxy!lock_vars, Proxy!task_vars, Proxy!bound_vars
  <2>2. pc'.reader = pc.reader /\ pc'.holder = "drain"
    BY <1>a, <2>1 DEF Positions
  <2>3. Owed' = Owed
    BY <1>a, <2>1, <2>2 DEF ProxyInv, PlanShape, Owed, Superseding, Doing, Draining, Asked
  <2> QED
    BY <1>a, <1>e, <1>h, <2>1, <2>2, <2>3
<1>31. CASE Proxy!Drained("reader")
  <2>1. UNCHANGED <<plan, plans, generation>> /\ pc' = [pc EXCEPT !["reader"] = "done"]
        /\ pc.reader = "drain"
    BY <1>31 DEF Proxy!Drained, Proxy!Goto, Proxy!WaitIdle, Proxy!settings_vars,
       Proxy!guard_vars, Proxy!loop_vars, Proxy!lock_vars, Proxy!task_vars, Proxy!bound_vars
  <2>2. pc'.reader = "done" /\ pc'.holder = pc.holder
    BY <1>a, <2>1 DEF Positions
  <2>3. Owed' = Owed
    BY <2>1, <2>2 DEF Owed, Superseding, Doing
  <2> QED
    BY <1>a, <1>h, <2>1, <2>2, <2>3 DEF reader
<1>32. CASE Proxy!Drained("holder")
  <2>1. UNCHANGED <<plans, generation>> /\ pc.holder = "drain" /\ plan # <<>>
    BY <1>32 DEF Proxy!Drained, Proxy!Goto, Proxy!WaitIdle, Proxy!settings_vars,
       Proxy!guard_vars, Proxy!loop_vars, Proxy!lock_vars, Proxy!task_vars, Proxy!bound_vars,
       ProxyInv, ProxyTyped, PlanShape, Positions
  <2>2. CASE Proxy!Answer("stop", "ok")
    BY <1>a, <1>b, <1>e, <1>h, <2>1, <2>2
  <2>3. CASE UNCHANGED plan /\ pc' = [pc EXCEPT !["holder"] = "refresh"] /\ Head(plan) = "refresh"
    <3>1. pc'.reader = pc.reader /\ pc'.holder = "refresh"
      BY <1>a, <2>3 DEF Positions
    <3>2. Owed' = Owed
      BY <1>a, <2>1, <2>3, <3>1 DEF Owed, Superseding, Doing, Draining, Asked
    <3> QED
      BY <1>a, <1>e, <1>h, <2>1, <3>1, <3>2
  <2>4. CASE UNCHANGED plan /\ pc' = [pc EXCEPT !["holder"] = "invalidate"] /\ Doing("apply")
    <3>1. pc'.reader = pc.reader /\ pc'.holder = "invalidate"
      BY <1>a, <2>4 DEF Positions
    <3>2. Owed' = Owed
      BY <1>a, <2>1, <2>4, <3>1 DEF Owed, Superseding, Doing, Draining, Asked
    <3> QED
      BY <1>a, <1>e, <1>h, <2>1, <3>1, <3>2
  <2> QED
    BY <1>32, <2>1, <2>2, <2>3, <2>4 DEF Proxy!Drained, Proxy!Goto, ProxyInv, PlanShape,
       Doing, Draining
<1> QED
  BY <1>h, <1>1, <1>2, <1>3, <1>4, <1>5, <1>6, <1>7, <1>8, <1>9, <1>10, <1>11, <1>12, <1>13,
     <1>14, <1>15, <1>16, <1>17, <1>18, <1>19, <1>20, <1>21, <1>22, <1>23, <1>24, <1>25,
     <1>26, <1>27, <1>28, <1>29, <1>30, <1>31, <1>32 DEF Proxy!Next, Proxy!CallSteps,
     Proxy!ReaderSteps, LoopIndices

\* The invariant holds at first, and while the part is left alone.
LEMMA ProxyInit == Proxy!Init => ProxyInv /\ GenerationsCounted
<1> SUFFICES ASSUME Proxy!Init PROVE ProxyInv /\ GenerationsCounted
  OBVIOUS
<1> USE BoundsAssumption DEF Proxy!Init
<1>1. ProxyTyped
  <2>1. /\ verge \in Proxy!Choices /\ saved \in Proxy!Choices
        /\ platform \in {"windows", "macos", "linux"} /\ route \in {"local", "service"}
    BY PartsAssumption DEF Proxy!Choices, Proxy!Targets
  <2>2. loops \in [1..Proxy!MaxGeneration -> LoopState] /\ call \in CallState
    BY ProxyValues
  <2>3. os \in OsSettings /\ word \in Proxy!Targets
    BY ProxyValues DEF Proxy!Targets
  <2>4. pc \in Positions /\ lastCall \in LastCalls
    BY DEF Positions, Between, LastCalls
  <2> QED
    BY <2>1, <2>2, <2>3, <2>4 DEF ProxyTyped, Enforceable, Proxy!Free
<1>2. PlanShape
  BY DEF PlanShape, RefreshesFollow, ProxyCalls, LocalApply, LocalClear, Draining, Asked
<1>3. \A g \in LoopIndices : loops[g].state = "none"
  BY DEF LoopIndices, Proxy!NoLoop
<1>4. LockHeld
  BY <1>3 DEF LockHeld, Asking, Superseding, Draining
<1>5. LoopsFollow
  BY <1>3 DEF LoopsFollow, NoLoopIsCurrent, NoLoopAsks, Asking
<1>6. GuardFollows
  BY DEF GuardFollows, Unsaid, Doing, LocalApply, LocalClear, Draining, Asked
<1>7. CallKnows /\ Proxy!LastWordStands
  BY DEF CallKnows, Proxy!LastWordStands
<1>8. GenerationsCounted
  <2>1. Owed = 0
    BY DEF Owed, Superseding, Draining, Asked
  <2> QED
    BY <2>1 DEF GenerationsCounted
<1> QED
  BY <1>1, <1>2, <1>4, <1>5, <1>6, <1>7, <1>8 DEF ProxyInv

\* A stutter of the part keeps its invariant.
LEMMA ProxyStays ==
  ASSUME ProxyInv, GenerationsCounted, UNCHANGED proxy_vars
  PROVE  ProxyInv' /\ GenerationsCounted'
<1> USE DEF proxy_vars
<1>1. ProxyTyped' /\ PlanShape'
  BY DEF ProxyInv, ProxyTyped, PlanShape, Doing
<1>2. LockHeld' /\ LoopsFollow'
  BY DEF ProxyInv, LockHeld, LoopsFollow, Asking, Superseding, Doing, NoLoopIsCurrent,
     NoLoopAsks, GivenUp
<1>3. GuardFollows'
  BY DEF ProxyInv, GuardFollows, Unsaid, GivenUp, Doing
<1>4. CallKnows' /\ Proxy!LastWordStands'
  BY DEF ProxyInv, CallKnows, Proxy!LastWordStands
<1>5. GenerationsCounted'
  BY DEF GenerationsCounted, Owed, Superseding, Doing
<1> QED
  BY <1>1, <1>2, <1>3, <1>4, <1>5 DEF ProxyInv

\* And each step of the part preserves it.
LEMMA ProxyStep ==
  ASSUME ProxyInv, Proxy!Next
  PROVE  ProxyInv'
<1>1. CASE Proxy!CallSteps
  BY <1>1, ProxyApplyLocalStep, ProxyDrainForApplyStep, ProxyApplyAfterDrainStep,
     ProxyWriteFirstStep, ProxyWriteSecondStep, ProxyCompensateStep, ProxyClearLocalStep,
     ProxyClearAfterDrainStep, ProxyDisableStep, ProxyDisableAgainStep, ProxyApplyServiceStep,
     ProxyFinalOperationStep, ProxyLockFinalStep, ProxyFinalAnswerStep, ProxyRefreshLocalStep,
     ProxyRefreshServiceStep, ProxyCancelAndDrainStep, ProxyLockOperationStep,
     ProxyStopLocalGuardStep, ProxyHolderDrainedStep DEF Proxy!CallSteps
<1>2. CASE Proxy!ReaderSteps \/ Proxy!CancelAndDrain("reader")
  BY <1>2, ProxyCancelAndDrainStep, ProxyLockOperationStep, ProxyStopLocalGuardStep,
     ProxyReaderDrainedStep DEF Proxy!ReaderSteps
<1>3. CASE \E g \in LoopIndices : Proxy!LoopSteps(g)
  BY <1>3, ProxyLoopAsksStep, ProxyLoopLandsStep, ProxyLoopReportsStep DEF Proxy!LoopSteps
<1>4. CASE \/ Proxy!BeginPlan \/ Proxy!StagePatch \/ Proxy!ApplyPatch \/ Proxy!EndPatch
           \/ Proxy!SwitchRoute \/ Proxy!GuardFires \/ Proxy!GuardWriteLands
  BY <1>4, ProxyBeginPlanStep, ProxyStagePatchStep, ProxyApplyPatchStep, ProxyEndPatchStep,
     ProxySwitchRouteStep, ProxyGuardFiresStep, ProxyGuardWriteLandsStep
<1> QED
  BY <1>1, <1>2, <1>3, <1>4 DEF Proxy!Next, LoopIndices

\* The rests of the plans.
Remaining == {<<>>, <<"refresh">>, <<"refresh", "clear", "stop">>, <<"clear", "stop">>}
               \cup Proxy!Plans

\* A guard that is to enforce another target than the one it still writes, since its drain
\* timed out: the target is there, or two drains have timed out and the plan stops the guard
\* before it can be started again.
There(kind) == kind # "none" => os[kind]
Late == guardState = "stopping" /\ guardType # "none" /\ guardWrite # guardType
Kept ==
  /\ os[guardType] /\ ~GivenUp
  /\ pc.holder \in Between \cup {"applyLock", "applyWait", "clearWait", "cancel", "refresh"}
                     \cup Draining
  /\ pc.holder = "refresh" => hangs >= 2
  /\ hangs < 2 => Doing("refresh") \/ plan = <<"clear", "stop">>
Lost ==
  /\ hangs >= 2
  /\ \/ plan = <<"clear", "stop">> /\ pc.holder \in LocalClear
     \/ plan = <<"stop">> /\ pc.holder \in {"next", "cancel"} \cup Draining
LateIsMinded == Late => hangs >= 1 /\ route = "local" /\ (Kept \/ Lost)

\* What the guard enforces, or may be started with, is there.
TargetThere ==
  /\ guardState = "running" => There(guardType)
  /\ Doing("refresh") /\ route = "local" => There(guardType)
  /\ pc.holder \in {"applyWait", "firstStep"} /\ call.wasRunning =>
       There(guardType) \/ (guardState = "stopping" /\ guardWrite = guardType)
  /\ pc.holder \in {"firstStep", "secondStep"} /\ ~call.drained => hangs >= 1

\* What follows a call of a plan.
LEMMA TailRemains ==
  ASSUME plan \in Remaining, plan # <<>>
  PROVE  /\ Tail(plan) \in Remaining
         /\ Head(plan) = "apply" =>
              /\ Tail(plan) # <<>>
              /\ Head(Tail(plan)) = "refresh" \/ Tail(plan) = <<"clear", "stop">>
         /\ Head(plan) = "refresh" => Tail(plan) \in {<<>>, <<"clear", "stop">>}
         /\ plan = <<"clear", "stop">> => Tail(plan) = <<"stop">> /\ Head(plan) = "clear"
         /\ plan = <<"stop">> => Tail(plan) = <<>> /\ Head(plan) = "stop"
<1>1. CASE plan = <<"apply", "refresh">>
  BY <1>1 DEF Remaining
<1>2. CASE plan = <<"apply", "clear", "stop">>
  BY <1>2 DEF Remaining
<1>3. CASE plan = <<"apply", "refresh", "clear", "stop">>
  BY <1>3 DEF Remaining
<1>4. ASSUME NEW x \in {"clear", "stop", "refresh"}, plan = <<x>>
      PROVE  /\ Tail(plan) = <<>> /\ Head(plan) = x /\ plan # <<"clear", "stop">>
             /\ plan # <<>> /\ (plan = <<"stop">> => x = "stop")
  BY <1>4
<1>5. CASE plan = <<"stop", "clear">>
  BY <1>5 DEF Remaining, Proxy!Plans
<1>6. CASE plan = <<"refresh", "clear", "stop">>
  BY <1>6 DEF Remaining
<1>7. CASE plan = <<"clear", "stop">>
  BY SMTT(30), <1>7 DEF Remaining, Proxy!Plans
<1> QED
  <2>1. \/ plan \in {<<"apply", "refresh">>, <<"apply", "clear", "stop">>,
                     <<"apply", "refresh", "clear", "stop">>, <<"stop", "clear">>,
                     <<"refresh", "clear", "stop">>, <<"clear", "stop">>}
        \/ \E x \in {"clear", "stop", "refresh"} : plan = <<x>>
    BY DEF Remaining, Proxy!Plans
  <2>2. <<>> \in Remaining
    BY DEF Remaining
  <2> QED
    BY <1>1, <1>2, <1>3, <1>4, <1>5, <1>6, <1>7, <2>1, <2>2

\* Two drains may time out and the target of the guard is there all the same.
LEMMA TargetStep ==
  ASSUME ProxyInv, plan \in Remaining, TargetThere, LateIsMinded, MaxHangs <= 2,
         Proxy!WritesAreEvidence, Proxy!Next
  PROVE  TargetThere' /\ LateIsMinded'
<1>t. /\ os \in OsSettings /\ pc \in Positions /\ call \in CallState
      /\ guardType \in Enforceable /\ guardWrite \in Enforceable /\ hangs \in 0..MaxHangs
      /\ guardState \in {"running", "stopping", "stopped"}
  BY DEF ProxyInv, ProxyTyped
<1>0. \A name, answer : plan # <<>> /\ Proxy!Answer(name, answer) => Ended(name, answer)
  BY AnswerEnds DEF ProxyInv
<1>e. /\ Proxy!Enforced(call.want) \in {"none", call.want.target} \ {"off"}
      /\ \A target \in {"global", "pac"} : Proxy!Settings(target)[target]
      /\ call.want.target \in {"off", "global", "pac"}
  <2>1. call.want \in [target : {"off", "global", "pac"}, guard : BOOLEAN]
    BY <1>t DEF CallState, Proxy!Targets
  <2>2. \A target \in {"global", "pac"} : Proxy!Settings(target)[target]
    <3>1. Proxy!Settings("global")["global"] /\ Proxy!Settings("pac")["pac"]
      BY DEF Proxy!Settings
    <3> QED
      BY <3>1
  <2> QED
    BY <2>1, <2>2 DEF Proxy!Enforced
<1> USE BoundsAssumption DEF Between, LocalApply, LocalClear, Draining, Asked, Doing, GivenUp,
      There, TargetThere, Late,
  LateIsMinded, Kept, Lost, OsSettings, Enforceable, Positions, CallState
<1>1. CASE Proxy!BeginPlan
  BY <1>1, <1>t, TailRemains, PlansAreShaped DEF ProxyInv, PlanShape, GuardFollows,
     Proxy!BeginPlan, Proxy!Goto, Proxy!settings_vars, Proxy!guard_vars, Proxy!loop_vars,
     Proxy!lock_vars, Proxy!task_vars, Proxy!bound_vars
<1>2. CASE Proxy!StagePatch
  BY <1>2, <1>t, TailRemains, PlansAreShaped DEF ProxyInv, PlanShape, GuardFollows,
     Proxy!StagePatch, Proxy!settings_vars, Proxy!guard_vars, Proxy!loop_vars,
     Proxy!lock_vars, Proxy!task_vars, Proxy!bound_vars
<1>3. CASE Proxy!ApplyPatch
  BY <1>3, <1>t, TailRemains, PlansAreShaped DEF ProxyInv, PlanShape, GuardFollows,
     Proxy!ApplyPatch, Proxy!Goto, Proxy!settings_vars, Proxy!guard_vars, Proxy!loop_vars,
     Proxy!lock_vars, Proxy!task_vars, Proxy!bound_vars
<1>4. CASE Proxy!EndPatch
  BY <1>4, <1>t, TailRemains, PlansAreShaped DEF ProxyInv, PlanShape, GuardFollows,
     Proxy!EndPatch, Proxy!settings_vars, Proxy!guard_vars, Proxy!loop_vars, Proxy!lock_vars,
     Proxy!task_vars, Proxy!bound_vars
<1>5. CASE Proxy!SwitchRoute
  BY <1>5, <1>t, TailRemains DEF ProxyInv, PlanShape, GuardFollows, Proxy!SwitchRoute,
     Proxy!Word, Proxy!settings_vars, Proxy!guard_vars, Proxy!loop_vars, Proxy!lock_vars,
     Proxy!task_vars, Proxy!bound_vars
<1>6. CASE Proxy!ApplyLocal
  BY <1>6, <1>t, TailRemains DEF ProxyInv, PlanShape, GuardFollows, Proxy!ApplyLocal,
     Proxy!Goto, Proxy!AtCall, Proxy!settings_vars, Proxy!guard_vars, Proxy!loop_vars,
     Proxy!lock_vars, Proxy!task_vars, Proxy!bound_vars
<1>7. CASE Proxy!DrainForApply
  BY <1>7, <1>t, TailRemains DEF ProxyInv, PlanShape, GuardFollows, Proxy!DrainForApply,
     Proxy!Goto, Proxy!ShutdownGuard, Proxy!settings_vars, Proxy!guard_vars, Proxy!loop_vars,
     Proxy!lock_vars, Proxy!task_vars, Proxy!bound_vars
<1>8. CASE Proxy!ApplyAfterDrain
  <2>1. CASE /\ guardState = "stopped" /\ os = Proxy!Settings(call.want.target)
             /\ guardType' = Proxy!Enforced(call.want)
             /\ Proxy!Answer("apply", "ok") /\ UNCHANGED <<os, guardState>>
    <3>1. There(guardType)'
      BY <1>e, <2>1 DEF There
    <3>2. pc'.holder \in {"idle", "next"}
      <4>1. plan # <<>>
        BY <1>8, <1>t DEF Proxy!ApplyAfterDrain, ProxyInv, PlanShape
      <4> QED
        BY <1>0, <2>1, <4>1 DEF Ended
    <3> QED
      BY <2>1, <3>1, <3>2
  <2>2. CASE /\ call' = [call EXCEPT !.drained = (guardState = "stopped"), !.before = os]
             /\ pc' = [pc EXCEPT !["holder"] = "firstStep"]
             /\ UNCHANGED <<guardType, plan, os, guardState, guardWrite, route, lastCall>>
    <3>1. /\ call'.drained = (guardState = "stopped") /\ call'.wasRunning = call.wasRunning
          /\ pc'.holder = "firstStep" /\ pc.holder = "applyWait"
      BY <1>8, <1>t, <2>2 DEF Proxy!ApplyAfterDrain
    <3>2. guardState # "stopped" => hangs < MaxHangs /\ hangs' = hangs + 1
      BY <1>8 DEF Proxy!ApplyAfterDrain, Proxy!WaitIdle
    <3>3. ~Late
      <4> SUFFICES ASSUME Late PROVE FALSE
        OBVIOUS
      <4>1. hangs < 2
        BY <1>t, <3>2
      <4> QED
        BY <1>t, <3>1, <4>1 DEF ProxyInv, PlanShape
    <3>4. guardState # "running" /\ Doing("apply") /\ pc.holder = "applyWait"
      BY <3>1 DEF ProxyInv, GuardFollows, PlanShape
    <3>5. ~Late' /\ ~Doing("refresh")' /\ guardState' # "running"
      BY <2>2, <3>3, <3>4
    <3>6. call'.wasRunning =>
            There(guardType)' \/ (guardState' = "stopping" /\ guardWrite' = guardType')
      BY <2>2, <3>1, <3>4
    <3>7. ~call'.drained => hangs' >= 1
      <4>1. guardState # "stopped" => hangs' >= 1
        BY <1>t, <3>2
      <4> QED
        BY <3>1, <4>1
    <3> QED
      BY <3>1, <3>5, <3>6, <3>7
  <2> QED
    BY <1>8, <2>1, <2>2 DEF Proxy!ApplyAfterDrain, Proxy!Goto, Proxy!settings_vars,
       Proxy!guard_vars, Proxy!loop_vars, Proxy!lock_vars, Proxy!task_vars, Proxy!bound_vars
<1>9. CASE Proxy!WriteFirst
  BY ZenonT(40), <1>9, <1>t, TailRemains, <1>0 DEF ProxyInv, PlanShape, GuardFollows, Ended,
     Proxy!Answer, Proxy!WriteFirst, Proxy!Goto, Proxy!StepFails, Proxy!RecoverUnchanged,
     Proxy!RecoverUnknown, Proxy!StartGuard, Proxy!settings_vars, Proxy!guard_vars,
     Proxy!loop_vars, Proxy!lock_vars, Proxy!task_vars, Proxy!bound_vars
<1>10. CASE Proxy!WriteSecond
  <2> DEFINE kind == Proxy!ProxyApplySteps(call.want.target)[2]
  <2>1. /\ pc.holder = "secondStep" /\ plan # <<>> /\ Head(plan) = "apply" /\ route = "local"
        /\ call.reached /\ guardState # "running"
        /\ call.drained => guardState = "stopped"
    BY <1>10 DEF Proxy!WriteSecond, ProxyInv, PlanShape, CallKnows, GuardFollows
  <2>2. CASE /\ os' = Proxy!Set(kind, Proxy!Settings(call.want.target)[kind])
             /\ guardType' = Proxy!Enforced(call.want) /\ Proxy!Answer("apply", "ok")
             /\ UNCHANGED <<guardState, guardWrite, hangs, route>>
    <3>1. There(guardType)'
      <4>1. CASE guardType' # "none"
        <5>1. call.want.target = guardType' /\ guardType' \in {"global", "pac"}
          BY <1>e, <2>2, <4>1
        <5>2. kind = guardType' /\ Proxy!Settings(call.want.target)[kind]
          BY <1>e, <5>1 DEF Proxy!ProxyApplySteps
        <5>3. os' = [os EXCEPT ![kind] = TRUE]
          BY <1>e, <2>2, <5>1, <5>2 DEF Proxy!Set, Proxy!Settings
        <5> QED
          BY <1>t, <5>1, <5>2, <5>3
      <4> QED
        BY <4>1
    <3>2. /\ pc'.holder \in {"idle", "next"} /\ lastCall'.name = "apply" /\ plan' = Tail(plan)
      BY <1>0, <2>1, <2>2 DEF Ended, Proxy!Answer
    <3>3. Doing("refresh")' \/ plan' = <<"clear", "stop">>
      BY <2>1, <3>2, TailRemains
    <3>4. Late' => hangs' >= 1
      BY <2>1, <2>2
    <3>5. Late' => Kept'
      BY <3>1, <3>2, <3>3
    <3> QED
      BY <2>1, <2>2, <3>1, <3>2, <3>4, <3>5
  <2>3. CASE Proxy!RecoverUnknown /\ UNCHANGED guardWrite
    <3>1. guardType' = "none" /\ pc'.holder = "compensate"
      BY <1>t, <2>3 DEF Proxy!RecoverUnknown, Proxy!Goto
    <3> QED
      BY <3>1
  <2> QED
    BY <1>10, <2>1, <2>2, <2>3 DEF Proxy!WriteSecond, Proxy!StepFails, Proxy!settings_vars,
       Proxy!guard_vars, Proxy!loop_vars, Proxy!lock_vars, Proxy!task_vars, Proxy!bound_vars
<1>11. CASE Proxy!Compensate
  BY <1>11, <1>t, TailRemains, <1>0 DEF ProxyInv, PlanShape, GuardFollows, Ended,
     Proxy!Answer, Proxy!Compensate, Proxy!settings_vars, Proxy!guard_vars, Proxy!loop_vars,
     Proxy!lock_vars, Proxy!task_vars, Proxy!bound_vars
<1>12. CASE Proxy!ClearLocal
  BY <1>12, <1>t, TailRemains DEF ProxyInv, PlanShape, GuardFollows, Proxy!ClearLocal,
     Proxy!Goto, Proxy!AtCall, Proxy!ShutdownGuard, Proxy!settings_vars, Proxy!guard_vars,
     Proxy!loop_vars, Proxy!lock_vars, Proxy!task_vars, Proxy!bound_vars
<1>13. CASE Proxy!ClearAfterDrain
  BY SMTT(30), <1>13, <1>t, TailRemains, <1>0 DEF ProxyInv, PlanShape, GuardFollows, Ended,
     Proxy!Answer, Proxy!ClearAfterDrain, Proxy!Goto, Proxy!WaitIdle, Proxy!settings_vars,
     Proxy!guard_vars, Proxy!loop_vars, Proxy!lock_vars, Proxy!task_vars, Proxy!bound_vars
<1>14. CASE Proxy!Disable
  <2>1. /\ pc.holder = "disable" /\ plan # <<>> /\ Head(plan) = "clear" /\ route = "local"
        /\ guardState # "running"
        /\ Late => hangs >= 2 /\ plan = <<"clear", "stop">>
    BY <1>14 DEF Proxy!Disable, ProxyInv, PlanShape, GuardFollows
  <2>2. /\ UNCHANGED <<guardType, guardWrite, hangs, route>>
        /\ guardState' # "running"
        /\ Late' => Late
    BY <1>14, <1>t, <2>1 DEF Proxy!Disable, Proxy!ClearFails, Proxy!ClearSucceeds,
       Proxy!ShutdownGuard, Proxy!settings_vars, Proxy!guard_vars, Proxy!loop_vars, Proxy!lock_vars,
       Proxy!task_vars, Proxy!bound_vars
  <2>3. CASE pc'.holder \in {"retryClear", "disableAgain"} /\ UNCHANGED plan
    <3>1. plan' # <<>> /\ Head(plan') = "clear"
      BY <2>1, <2>3
    <3>2. Late' => hangs' >= 2 /\ plan' = <<"clear", "stop">> /\ route' = "local"
      BY <2>1, <2>2, <2>3
    <3>3. Late' => Lost'
      BY <2>3, <3>2
    <3>4. TargetThere'
      BY <2>2, <2>3, <3>1
    <3> QED
      BY <1>t, <2>2, <3>2, <3>3, <3>4
  <2>4. CASE \E answer : Proxy!Answer("clear", answer)
    <3>1. /\ pc'.holder \in {"idle", "next"} /\ plan' = Tail(plan)
          /\ pc'.holder = "idle" <=> plan' = <<>>
          /\ ~Doing("refresh")'
      BY <1>0, <2>1, <2>4 DEF Ended, Proxy!Answer
    <3>2. Late' => plan' = <<"stop">> /\ pc'.holder = "next" /\ hangs' >= 2
      <4>1. plan = <<"clear", "stop">> => Tail(plan) = <<"stop">>
        BY <2>1, TailRemains
      <4>2. plan' = <<"stop">> => pc'.holder = "next"
        <5>1. <<"stop">> # <<>>
          OBVIOUS
        <5> QED
          BY <3>1, <5>1
      <4> QED
        BY <2>1, <2>2, <3>1, <4>1, <4>2
    <3> QED
      BY <1>t, <2>1, <2>2, <3>1, <3>2
  <2> QED
    BY ZenonT(40), <1>14, <1>t, <2>3, <2>4 DEF Proxy!Disable, Proxy!Goto, Proxy!ClearFails,
       Proxy!ClearSucceeds
<1>15. CASE Proxy!DisableAgain
  <2>1. /\ pc.holder = "disableAgain" /\ plan # <<>> /\ Head(plan) = "clear" /\ route = "local"
        /\ guardState # "running"
        /\ Late => hangs >= 2 /\ plan = <<"clear", "stop">>
    BY <1>15 DEF Proxy!DisableAgain, ProxyInv, PlanShape, GuardFollows
  <2>2. /\ UNCHANGED <<guardType, guardWrite, guardState, route>>
        /\ guardState' # "running" /\ hangs' \in Nat
        /\ Late => hangs' >= 2
        /\ Late' => Late
    BY <1>15, <1>t, <2>1 DEF Proxy!DisableAgain, Proxy!WaitIdle, Proxy!settings_vars,
       Proxy!guard_vars, Proxy!loop_vars
  <2>3. CASE pc'.holder \in {"retryClear", "disableAgain"} /\ UNCHANGED plan
    <3>1. plan' # <<>> /\ Head(plan') = "clear"
      BY <2>1, <2>3
    <3>2. Late' => hangs' >= 2 /\ plan' = <<"clear", "stop">> /\ route' = "local"
      BY <2>1, <2>2, <2>3
    <3>3. Late' => Lost'
      BY <2>3, <3>2
    <3>4. TargetThere'
      BY <2>2, <2>3, <3>1
    <3> QED
      BY <1>t, <2>2, <3>2, <3>3, <3>4
  <2>4. CASE \E answer : Proxy!Answer("clear", answer)
    <3>1. /\ pc'.holder \in {"idle", "next"} /\ plan' = Tail(plan)
          /\ pc'.holder = "idle" <=> plan' = <<>>
          /\ ~Doing("refresh")'
      BY <1>0, <2>1, <2>4 DEF Ended, Proxy!Answer
    <3>2. Late' => plan' = <<"stop">> /\ pc'.holder = "next" /\ hangs' >= 2
      <4>1. plan = <<"clear", "stop">> => Tail(plan) = <<"stop">>
        BY <2>1, TailRemains
      <4>2. plan' = <<"stop">> => pc'.holder = "next"
        <5>1. <<"stop">> # <<>>
          OBVIOUS
        <5> QED
          BY <3>1, <5>1
      <4> QED
        BY <2>1, <2>2, <3>1, <4>1, <4>2
    <3> QED
      BY <1>t, <2>1, <2>2, <3>1, <3>2
  <2> QED
    BY <1>15, <1>t, <2>3, <2>4
       DEF Proxy!DisableAgain, Proxy!Goto, Proxy!ClearFails, Proxy!ClearSucceeds
<1>16. CASE Proxy!ApplyService
  BY <1>16, <1>t, TailRemains DEF ProxyInv, PlanShape, GuardFollows, Proxy!ApplyService,
     Proxy!Goto, Proxy!AtCall, Proxy!settings_vars, Proxy!guard_vars, Proxy!loop_vars,
     Proxy!lock_vars, Proxy!task_vars, Proxy!bound_vars
<1>17. CASE Proxy!FinalOperation
  BY <1>17, <1>t, TailRemains DEF ProxyInv, PlanShape, GuardFollows, Proxy!FinalOperation,
     Proxy!Goto, Proxy!AtCall, Proxy!Supersede, Proxy!settings_vars, Proxy!guard_vars,
     Proxy!loop_vars, Proxy!lock_vars, Proxy!task_vars, Proxy!bound_vars
<1>18. CASE Proxy!LockFinal
  BY <1>18, <1>t, TailRemains DEF ProxyInv, PlanShape, GuardFollows, Proxy!LockFinal,
     Proxy!Goto, Proxy!settings_vars, Proxy!guard_vars, Proxy!loop_vars, Proxy!lock_vars,
     Proxy!task_vars, Proxy!bound_vars
<1>19. CASE Proxy!FinalAnswer
  BY <1>19, <1>t, TailRemains, <1>0 DEF ProxyInv, PlanShape, GuardFollows, Ended,
     Proxy!Answer, Proxy!FinalAnswer, Proxy!settings_vars, Proxy!guard_vars, Proxy!loop_vars,
     Proxy!lock_vars, Proxy!task_vars, Proxy!bound_vars
<1>20. CASE Proxy!RefreshLocal
  BY SMTT(30), <1>20, <1>t, TailRemains, <1>0 DEF ProxyInv, PlanShape, GuardFollows, Ended,
     Proxy!Answer, Proxy!RefreshLocal, Proxy!StartGuard, Proxy!ShutdownGuard,
     Proxy!settings_vars, Proxy!guard_vars, Proxy!loop_vars, Proxy!lock_vars, Proxy!task_vars,
     Proxy!bound_vars
<1>21. CASE Proxy!RefreshService
  BY <1>21, <1>t, TailRemains, <1>0 DEF ProxyInv, PlanShape, GuardFollows, Ended,
     Proxy!Answer, Proxy!RefreshService, Proxy!settings_vars, Proxy!guard_vars,
     Proxy!loop_vars, Proxy!lock_vars, Proxy!task_vars, Proxy!bound_vars
<1>22. CASE Proxy!GuardFires
  BY <1>22, <1>t, TailRemains DEF ProxyInv, PlanShape, GuardFollows, Proxy!GuardFires,
     Proxy!settings_vars, Proxy!guard_vars, Proxy!loop_vars, Proxy!lock_vars, Proxy!task_vars,
     Proxy!bound_vars
<1>23. CASE Proxy!GuardWriteLands
  BY <1>23, <1>t, TailRemains DEF ProxyInv, PlanShape, GuardFollows, Proxy!GuardWriteLands,
     Proxy!settings_vars, Proxy!guard_vars, Proxy!loop_vars, Proxy!lock_vars, Proxy!task_vars,
     Proxy!bound_vars
<1>24. CASE Proxy!CancelAndDrain("holder")
  BY <1>24, <1>t, TailRemains DEF ProxyInv, PlanShape, GuardFollows, Proxy!CancelAndDrain,
     Proxy!Goto, Proxy!AtCall, Proxy!Supersede, Proxy!settings_vars, Proxy!guard_vars,
     Proxy!loop_vars, Proxy!lock_vars, Proxy!task_vars, Proxy!bound_vars
<1>25. CASE Proxy!CancelAndDrain("reader")
  BY <1>25, <1>t, TailRemains DEF ProxyInv, PlanShape, GuardFollows, Proxy!CancelAndDrain,
     Proxy!Goto, Proxy!AtCall, Proxy!Supersede, Proxy!settings_vars, Proxy!guard_vars,
     Proxy!loop_vars, Proxy!lock_vars, Proxy!task_vars, Proxy!bound_vars
<1>26. CASE Proxy!LockOperation("holder")
  BY <1>26, <1>t, TailRemains DEF ProxyInv, PlanShape, GuardFollows, Proxy!LockOperation,
     Proxy!Goto, Proxy!settings_vars, Proxy!guard_vars, Proxy!loop_vars, Proxy!lock_vars,
     Proxy!task_vars, Proxy!bound_vars
<1>27. CASE Proxy!LockOperation("reader")
  BY <1>27, <1>t, TailRemains DEF ProxyInv, PlanShape, GuardFollows, Proxy!LockOperation,
     Proxy!Goto, Proxy!settings_vars, Proxy!guard_vars, Proxy!loop_vars, Proxy!lock_vars,
     Proxy!task_vars, Proxy!bound_vars
<1>28. CASE Proxy!StopLocalGuard("holder")
  BY <1>28, <1>t, TailRemains DEF ProxyInv, PlanShape, GuardFollows, Proxy!StopLocalGuard,
     Proxy!Goto, Proxy!ShutdownGuard, Proxy!settings_vars, Proxy!guard_vars, Proxy!loop_vars,
     Proxy!lock_vars, Proxy!task_vars, Proxy!bound_vars
<1>29. CASE Proxy!StopLocalGuard("reader")
  BY <1>29, <1>t, TailRemains DEF ProxyInv, PlanShape, GuardFollows, Proxy!StopLocalGuard,
     Proxy!Goto, Proxy!ShutdownGuard, Proxy!settings_vars, Proxy!guard_vars, Proxy!loop_vars,
     Proxy!lock_vars, Proxy!task_vars, Proxy!bound_vars
<1>30. CASE Proxy!Drained("holder")
  BY <1>30, <1>t, TailRemains, <1>0 DEF ProxyInv, PlanShape, GuardFollows, Ended,
     Proxy!Answer, Proxy!Drained, Proxy!Goto, Proxy!WaitIdle, Proxy!settings_vars,
     Proxy!guard_vars, Proxy!loop_vars, Proxy!lock_vars, Proxy!task_vars, Proxy!bound_vars
<1>31. CASE Proxy!Drained("reader")
  BY <1>31, <1>t, TailRemains DEF ProxyInv, PlanShape, GuardFollows, Ended, Proxy!Answer,
     Proxy!Drained, Proxy!Goto, Proxy!WaitIdle, Proxy!settings_vars, Proxy!guard_vars,
     Proxy!loop_vars, Proxy!lock_vars, Proxy!task_vars, Proxy!bound_vars
<1>32. CASE \E g \in LoopIndices : Proxy!LoopSteps(g)
  <2> SUFFICES ASSUME NEW g \in LoopIndices, Proxy!LoopSteps(g)
               PROVE  TargetThere' /\ LateIsMinded'
    BY <1>32
  <2>1. /\ UNCHANGED <<route, guardType, guardState, guardWrite, pc, plan, call, lastCall, hangs>>
        /\ UNCHANGED os \/ loops[g].state = "asking"
    BY DEF Proxy!LoopSteps, Proxy!LoopAsks, Proxy!LoopLands, Proxy!LoopReports,
       Proxy!settings_vars, Proxy!guard_vars, Proxy!loop_vars, Proxy!lock_vars, Proxy!task_vars,
       Proxy!bound_vars
  <2>2. CASE loops[g].state = "asking"
    <3>1. route # "local"
      BY <2>2 DEF ProxyInv, LoopsFollow, NoLoopAsks, Asking
    <3>2. guardState # "running" /\ ~Late /\ pc.holder \notin LocalApply
      BY <3>1 DEF ProxyInv, ProxyTyped, GuardFollows, PlanShape
    <3> QED
      BY <2>1, <3>1, <3>2
  <2> QED
    BY <2>1, <2>2
<1> QED
  BY <1>1, <1>2, <1>3, <1>4, <1>5, <1>6, <1>7, <1>8, <1>9, <1>10, <1>11, <1>12, <1>13, <1>14,
     <1>15, <1>16, <1>17, <1>18, <1>19, <1>20, <1>21, <1>22, <1>23, <1>24, <1>25, <1>26,
     <1>27, <1>28, <1>29, <1>30, <1>31, <1>32 DEF Proxy!Next, Proxy!CallSteps,
     Proxy!ReaderSteps, LoopIndices

\* A plan is begun whole and loses one call at a time.
LEMMA RemainsStep ==
  ASSUME ProxyInv, plan \in Remaining, Proxy!Next
  PROVE  plan' \in Remaining
<1>1. CASE UNCHANGED plan
  BY <1>1
<1>2. CASE plan' \in Proxy!Plans
  BY <1>2 DEF Remaining
<1>3. CASE plan # <<>> /\ \E name, answer : Proxy!Answer(name, answer)
  <2>1. plan' \in {<<>>, Tail(plan)}
    BY <1>3 DEF Proxy!Answer
  <2>2. Tail(plan) \in Remaining
    BY <1>3, TailRemains
  <2> QED
    BY <2>1, <2>2 DEF Remaining
<1>p. pc.holder # "idle" => plan # <<>>
  BY DEF ProxyInv, PlanShape
<1>4. CASE Proxy!BeginPlan
  BY <1>4, <1>1, <1>2 DEF Proxy!BeginPlan, Proxy!Goto, Proxy!settings_vars, Proxy!guard_vars,
     Proxy!loop_vars, Proxy!lock_vars, Proxy!task_vars, Proxy!bound_vars
<1>5. CASE Proxy!StagePatch
  BY <1>5, <1>1, <1>2 DEF Proxy!StagePatch, Proxy!settings_vars, Proxy!guard_vars,
     Proxy!loop_vars, Proxy!lock_vars, Proxy!task_vars, Proxy!bound_vars
<1>6. CASE Proxy!ApplyPatch
  BY <1>6, <1>1, <1>2 DEF Proxy!ApplyPatch, Proxy!Goto, Proxy!Plans, Proxy!settings_vars,
     Proxy!guard_vars, Proxy!loop_vars, Proxy!lock_vars, Proxy!task_vars, Proxy!bound_vars
<1>7. CASE Proxy!EndPatch
  BY <1>7, <1>1, <1>2 DEF Proxy!EndPatch, Proxy!settings_vars, Proxy!guard_vars,
     Proxy!loop_vars, Proxy!lock_vars, Proxy!task_vars, Proxy!bound_vars
<1>8. CASE Proxy!SwitchRoute
  BY <1>8, <1>1 DEF Proxy!SwitchRoute, Proxy!Word, Proxy!settings_vars, Proxy!guard_vars,
     Proxy!loop_vars, Proxy!lock_vars, Proxy!task_vars, Proxy!bound_vars
<1>9. CASE Proxy!ApplyLocal
  BY <1>9, <1>1 DEF Proxy!ApplyLocal, Proxy!Goto, Proxy!AtCall, Proxy!settings_vars,
     Proxy!guard_vars, Proxy!loop_vars, Proxy!lock_vars, Proxy!task_vars, Proxy!bound_vars
<1>10. CASE Proxy!DrainForApply
  BY <1>10, <1>1 DEF Proxy!DrainForApply, Proxy!Goto, Proxy!ShutdownGuard,
     Proxy!settings_vars, Proxy!guard_vars, Proxy!loop_vars, Proxy!lock_vars, Proxy!task_vars,
     Proxy!bound_vars
<1>11. CASE Proxy!ApplyAfterDrain
  BY <1>11, <1>1, <1>3, <1>p DEF Proxy!ApplyAfterDrain, Proxy!Goto, Proxy!WaitIdle,
     Proxy!settings_vars, Proxy!guard_vars, Proxy!loop_vars, Proxy!lock_vars, Proxy!task_vars,
     Proxy!bound_vars
<1>12. CASE Proxy!WriteFirst
  BY <1>12, <1>1, <1>3, <1>p DEF Proxy!WriteFirst, Proxy!Goto, Proxy!StepFails,
     Proxy!RecoverUnchanged, Proxy!RecoverUnknown, Proxy!StartGuard, Proxy!settings_vars,
     Proxy!guard_vars, Proxy!loop_vars, Proxy!lock_vars, Proxy!task_vars, Proxy!bound_vars
<1>13. CASE Proxy!WriteSecond
  BY <1>13, <1>1, <1>3, <1>p DEF Proxy!WriteSecond, Proxy!Goto, Proxy!StepFails,
     Proxy!RecoverUnchanged, Proxy!RecoverUnknown, Proxy!StartGuard, Proxy!settings_vars,
     Proxy!guard_vars, Proxy!loop_vars, Proxy!lock_vars, Proxy!task_vars, Proxy!bound_vars
<1>14. CASE Proxy!Compensate
  BY <1>14, <1>1, <1>3, <1>p DEF Proxy!Compensate, Proxy!settings_vars, Proxy!guard_vars,
     Proxy!loop_vars, Proxy!lock_vars, Proxy!task_vars, Proxy!bound_vars
<1>15. CASE Proxy!ClearLocal
  BY <1>15, <1>1 DEF Proxy!ClearLocal, Proxy!Goto, Proxy!AtCall, Proxy!ShutdownGuard,
     Proxy!settings_vars, Proxy!guard_vars, Proxy!loop_vars, Proxy!lock_vars, Proxy!task_vars,
     Proxy!bound_vars
<1>16. CASE Proxy!ClearAfterDrain
  BY <1>16, <1>1, <1>3, <1>p DEF Proxy!ClearAfterDrain, Proxy!Goto, Proxy!WaitIdle,
     Proxy!settings_vars, Proxy!guard_vars, Proxy!loop_vars, Proxy!lock_vars, Proxy!task_vars,
     Proxy!bound_vars
<1>17. CASE Proxy!Disable
  BY <1>17, <1>1, <1>3, <1>p DEF Proxy!Disable, Proxy!Goto, Proxy!ClearFails, Proxy!ClearSucceeds,
     Proxy!ShutdownGuard, Proxy!settings_vars, Proxy!guard_vars, Proxy!loop_vars,
     Proxy!lock_vars, Proxy!task_vars, Proxy!bound_vars
<1>18. CASE Proxy!DisableAgain
  BY <1>18, <1>1, <1>3, <1>p DEF Proxy!DisableAgain, Proxy!Goto, Proxy!ClearFails,
     Proxy!ClearSucceeds, Proxy!WaitIdle, Proxy!settings_vars, Proxy!guard_vars,
     Proxy!loop_vars, Proxy!lock_vars, Proxy!task_vars, Proxy!bound_vars
<1>19. CASE Proxy!ApplyService
  BY <1>19, <1>1 DEF Proxy!ApplyService, Proxy!Goto, Proxy!AtCall, Proxy!settings_vars,
     Proxy!guard_vars, Proxy!loop_vars, Proxy!lock_vars, Proxy!task_vars, Proxy!bound_vars
<1>20. CASE Proxy!FinalOperation
  BY <1>20, <1>1 DEF Proxy!FinalOperation, Proxy!Goto, Proxy!AtCall, Proxy!Supersede,
     Proxy!settings_vars, Proxy!guard_vars, Proxy!loop_vars, Proxy!lock_vars, Proxy!task_vars,
     Proxy!bound_vars
<1>21. CASE Proxy!LockFinal
  BY <1>21, <1>1 DEF Proxy!LockFinal, Proxy!Goto, Proxy!settings_vars, Proxy!guard_vars,
     Proxy!loop_vars, Proxy!lock_vars, Proxy!task_vars, Proxy!bound_vars
<1>22. CASE Proxy!FinalAnswer
  BY <1>22, <1>1, <1>3, <1>p DEF Proxy!FinalAnswer, Proxy!settings_vars, Proxy!guard_vars,
     Proxy!loop_vars, Proxy!lock_vars, Proxy!task_vars, Proxy!bound_vars
<1>23. CASE Proxy!RefreshLocal
  BY <1>23, <1>1, <1>3, <1>p DEF Proxy!RefreshLocal, Proxy!StartGuard, Proxy!ShutdownGuard,
     Proxy!settings_vars, Proxy!guard_vars, Proxy!loop_vars, Proxy!lock_vars, Proxy!task_vars,
     Proxy!bound_vars
<1>24. CASE Proxy!RefreshService
  BY <1>24, <1>1, <1>3, <1>p DEF Proxy!RefreshService, Proxy!settings_vars, Proxy!guard_vars,
     Proxy!loop_vars, Proxy!lock_vars, Proxy!task_vars, Proxy!bound_vars
<1>25. CASE Proxy!GuardFires
  BY <1>25, <1>1 DEF Proxy!GuardFires, Proxy!settings_vars, Proxy!guard_vars, Proxy!loop_vars,
     Proxy!lock_vars, Proxy!task_vars, Proxy!bound_vars
<1>26. CASE Proxy!GuardWriteLands
  BY <1>26, <1>1 DEF Proxy!GuardWriteLands, Proxy!settings_vars, Proxy!guard_vars,
     Proxy!loop_vars, Proxy!lock_vars, Proxy!task_vars, Proxy!bound_vars
<1>27. CASE Proxy!CancelAndDrain("holder") \/ Proxy!CancelAndDrain("reader")
  BY <1>27, <1>1 DEF Proxy!CancelAndDrain, Proxy!Goto, Proxy!AtCall, Proxy!Supersede,
     Proxy!settings_vars, Proxy!guard_vars, Proxy!loop_vars, Proxy!lock_vars, Proxy!task_vars,
     Proxy!bound_vars
<1>28. CASE Proxy!LockOperation("holder") \/ Proxy!LockOperation("reader")
  BY <1>28, <1>1 DEF Proxy!LockOperation, Proxy!Goto, Proxy!settings_vars, Proxy!guard_vars,
     Proxy!loop_vars, Proxy!lock_vars, Proxy!task_vars, Proxy!bound_vars
<1>29. CASE Proxy!StopLocalGuard("holder") \/ Proxy!StopLocalGuard("reader")
  BY <1>29, <1>1 DEF Proxy!StopLocalGuard, Proxy!Goto, Proxy!ShutdownGuard,
     Proxy!settings_vars, Proxy!guard_vars, Proxy!loop_vars, Proxy!lock_vars, Proxy!task_vars,
     Proxy!bound_vars
<1>30. CASE Proxy!Drained("holder") \/ Proxy!Drained("reader")
  BY <1>30, <1>1, <1>3, <1>p DEF Proxy!Drained, Proxy!Goto, Proxy!WaitIdle, Proxy!settings_vars,
     Proxy!guard_vars, Proxy!loop_vars, Proxy!lock_vars, Proxy!task_vars, Proxy!bound_vars
<1>31. CASE \E g \in LoopIndices : Proxy!LoopSteps(g)
  BY SMTT(30), <1>31, <1>1 DEF Proxy!LoopSteps, Proxy!LoopAsks, Proxy!LoopLands, Proxy!LoopReports,
     Proxy!settings_vars, Proxy!guard_vars, Proxy!loop_vars, Proxy!lock_vars, Proxy!task_vars,
     Proxy!bound_vars
<1> QED
  BY <1>1, <1>2, <1>3, <1>4, <1>5, <1>6, <1>7, <1>8, <1>9, <1>10, <1>11, <1>12, <1>13, <1>14,
     <1>15, <1>16, <1>17, <1>18, <1>19, <1>20, <1>21, <1>22, <1>23, <1>24, <1>25, <1>26,
     <1>27, <1>28, <1>29, <1>30, <1>31 DEF Proxy!Next, Proxy!CallSteps, Proxy!ReaderSteps,
     LoopIndices

\* The platform is chosen once.
LEMMA PlatformStays == Proxy!Next => UNCHANGED platform
BY DEF Proxy!Next, Proxy!CallSteps, Proxy!ReaderSteps, Proxy!LoopSteps, Proxy!BeginPlan,
   Proxy!StagePatch, Proxy!ApplyPatch, Proxy!EndPatch, Proxy!SwitchRoute, Proxy!ApplyLocal,
   Proxy!DrainForApply, Proxy!ApplyAfterDrain, Proxy!WriteFirst, Proxy!WriteSecond,
   Proxy!Compensate, Proxy!ClearLocal, Proxy!ClearAfterDrain, Proxy!Disable,
   Proxy!DisableAgain, Proxy!ApplyService, Proxy!FinalOperation, Proxy!LockFinal,
   Proxy!FinalAnswer, Proxy!RefreshLocal, Proxy!RefreshService, Proxy!GuardFires,
   Proxy!GuardWriteLands, Proxy!CancelAndDrain, Proxy!LockOperation, Proxy!StopLocalGuard,
   Proxy!Drained, Proxy!LoopAsks, Proxy!LoopLands, Proxy!LoopReports, Proxy!settings_vars

\* Each step that ends an apply says what it left.
LEMMA HonestStep ==
  ASSUME ProxyInv, Proxy!Next
  PROVE  Proxy!ApplyIsHonest
<1>t. /\ pc \in Positions /\ call \in CallState /\ faults \in Nat /\ os \in OsSettings
  BY DEF ProxyInv, ProxyTyped
<1>0. \A name, answer : plan # <<>> /\ Proxy!Answer(name, answer) => Ended(name, answer)
  BY AnswerEnds DEF ProxyInv
<1>a. (\A answer \in {"failed", "unknown"} : ~Proxy!Answers("apply", answer)) => Proxy!ApplyIsHonest
  BY DEF Proxy!ApplyIsHonest
<1>b. UNCHANGED <<pc, lastCall>> => Proxy!ApplyIsHonest
  BY <1>a DEF Proxy!Answers
<1> USE DEF Proxy!Answers
<1>1. CASE Proxy!BeginPlan
  BY <1>1, <1>t, <1>a DEF Proxy!BeginPlan, Proxy!Goto, Positions, Proxy!settings_vars,
     Proxy!guard_vars, Proxy!loop_vars, Proxy!lock_vars, Proxy!task_vars, Proxy!bound_vars
<1>2. CASE Proxy!StagePatch
  BY <1>2, <1>t, <1>a DEF Proxy!StagePatch, Positions, Proxy!settings_vars, Proxy!guard_vars,
     Proxy!loop_vars, Proxy!lock_vars, Proxy!task_vars, Proxy!bound_vars
<1>3. CASE Proxy!ApplyPatch
  BY <1>3, <1>t, <1>a DEF Proxy!ApplyPatch, Proxy!Goto, Positions, Proxy!settings_vars,
     Proxy!guard_vars, Proxy!loop_vars, Proxy!lock_vars, Proxy!task_vars, Proxy!bound_vars
<1>4. CASE Proxy!EndPatch
  BY <1>4, <1>t, <1>a DEF Proxy!EndPatch, Positions, Proxy!settings_vars, Proxy!guard_vars,
     Proxy!loop_vars, Proxy!lock_vars, Proxy!task_vars, Proxy!bound_vars
<1>5. CASE Proxy!SwitchRoute
  BY <1>5, <1>t, <1>a DEF Proxy!SwitchRoute, Proxy!Word, Positions, Proxy!settings_vars,
     Proxy!guard_vars, Proxy!loop_vars, Proxy!lock_vars, Proxy!task_vars, Proxy!bound_vars
<1>6. CASE Proxy!ApplyLocal
  BY <1>6, <1>t, <1>a DEF Proxy!ApplyLocal, Proxy!Goto, Proxy!AtCall, Positions,
     Proxy!settings_vars, Proxy!guard_vars, Proxy!loop_vars, Proxy!lock_vars, Proxy!task_vars,
     Proxy!bound_vars
<1>7. CASE Proxy!DrainForApply
  BY <1>7, <1>t, <1>a DEF Proxy!DrainForApply, Proxy!Goto, Proxy!ShutdownGuard, Positions,
     Proxy!settings_vars, Proxy!guard_vars, Proxy!loop_vars, Proxy!lock_vars, Proxy!task_vars,
     Proxy!bound_vars
<1>8. CASE Proxy!ApplyAfterDrain
  BY <1>8, <1>t, <1>a DEF Proxy!ApplyAfterDrain, Proxy!Goto, Proxy!WaitIdle, Proxy!Answer,
     Positions, Proxy!settings_vars, Proxy!guard_vars, Proxy!loop_vars, Proxy!lock_vars,
     Proxy!task_vars, Proxy!bound_vars
<1>9. CASE Proxy!WriteFirst
  <2>1. CASE pc' = [pc EXCEPT !["holder"] = "secondStep"]
    BY <1>t, <1>a, <2>1 DEF Positions
  <2>2. ASSUME Proxy!StepFails(Proxy!ProxyApplySteps(call.want.target)[1])
        PROVE  Proxy!ApplyIsHonest
    <3>1. CASE Proxy!RecoverUnknown
      BY <1>t, <1>a, <3>1 DEF Proxy!RecoverUnknown, Proxy!Goto, Positions
    <3>2. CASE Proxy!RecoverUnchanged /\ (Proxy!WritesAreEvidence => os' = os)
      <4>1. lastCall' = [name |-> "apply", answer |-> "failed"]
        BY <3>2 DEF Proxy!RecoverUnchanged, Proxy!Answer
      <4>2. call.drained => os = call.before
        BY <1>9 DEF Proxy!WriteFirst, ProxyInv, CallKnows
      <4> QED
        BY <3>2, <4>1, <4>2 DEF Proxy!ApplyIsHonest
    <3> QED
      BY <2>2, <3>1, <3>2 DEF Proxy!StepFails
  <2> QED
    BY <1>9, <2>1, <2>2 DEF Proxy!WriteFirst, Proxy!Goto
<1>10. CASE Proxy!WriteSecond
  <2>1. CASE Proxy!Answer("apply", "ok")
    BY <1>a, <2>1 DEF Proxy!Answer
  <2>2. ASSUME Proxy!StepFails(Proxy!ProxyApplySteps(call.want.target)[2])
        PROVE  Proxy!ApplyIsHonest
    <3>1. call.reached
      BY <1>10 DEF Proxy!WriteSecond, ProxyInv, CallKnows
    <3>2. CASE Proxy!RecoverUnknown
      BY <1>t, <1>a, <3>2 DEF Proxy!RecoverUnknown, Proxy!Goto, Positions
    <3>3. CASE ~Proxy!WritesAreEvidence
      BY <3>3 DEF Proxy!ApplyIsHonest
    <3> QED
      BY <2>2, <3>1, <3>2, <3>3 DEF Proxy!StepFails
  <2> QED
    BY <1>10, <2>1, <2>2 DEF Proxy!WriteSecond
<1>11. CASE Proxy!Compensate
  <2>1. lastCall' = [name |-> "apply",
                     answer |-> IF faults' = faults THEN "unknown" ELSE "abandoned"]
    BY <1>11 DEF Proxy!Compensate, Proxy!Answer
  <2>2. faults' = faults => os' = Proxy!Settings("off")
    BY <1>11, <1>t, DisableAllTyped DEF Proxy!Compensate
  <2> QED
    BY <2>1, <2>2 DEF Proxy!ApplyIsHonest
<1>12. CASE Proxy!ClearLocal
  BY <1>12, <1>t, <1>a DEF Proxy!ClearLocal, Proxy!Goto, Proxy!AtCall, Proxy!ShutdownGuard,
     Positions, Proxy!settings_vars, Proxy!guard_vars, Proxy!loop_vars, Proxy!lock_vars,
     Proxy!task_vars, Proxy!bound_vars
<1>13. CASE Proxy!ClearAfterDrain
  BY <1>13, <1>t, <1>a DEF Proxy!ClearAfterDrain, Proxy!Goto, Proxy!WaitIdle, Proxy!Answer,
     Positions, Proxy!settings_vars, Proxy!guard_vars, Proxy!loop_vars, Proxy!lock_vars,
     Proxy!task_vars, Proxy!bound_vars
<1>14. CASE Proxy!Disable
  <2>1. CASE \E answer : Proxy!Answer("clear", answer)
    BY <1>a, <2>1 DEF Proxy!Answer
  <2>2. CASE \E t \in {"retryClear", "disableAgain"} : pc' = [pc EXCEPT !["holder"] = t]
    BY <1>t, <1>a, <2>2 DEF Positions
  <2> QED
    BY <1>14, <2>1, <2>2 DEF Proxy!Disable, Proxy!ClearFails, Proxy!ClearSucceeds, Proxy!Goto
<1>15. CASE Proxy!DisableAgain
  BY <1>15, <1>t, <1>a DEF Proxy!DisableAgain, Proxy!Goto, Proxy!ClearFails,
     Proxy!ClearSucceeds, Proxy!WaitIdle, Proxy!Answer, Positions, Proxy!settings_vars,
     Proxy!guard_vars, Proxy!loop_vars, Proxy!lock_vars, Proxy!task_vars, Proxy!bound_vars
<1>16. CASE Proxy!ApplyService
  BY <1>16, <1>t, <1>a DEF Proxy!ApplyService, Proxy!Goto, Proxy!AtCall, Positions,
     Proxy!settings_vars, Proxy!guard_vars, Proxy!loop_vars, Proxy!lock_vars, Proxy!task_vars,
     Proxy!bound_vars
<1>17. CASE Proxy!FinalOperation
  BY <1>17, <1>t, <1>a DEF Proxy!FinalOperation, Proxy!Goto, Proxy!AtCall, Proxy!Supersede,
     Positions, Proxy!settings_vars, Proxy!guard_vars, Proxy!loop_vars, Proxy!lock_vars,
     Proxy!task_vars, Proxy!bound_vars
<1>18. CASE Proxy!LockFinal
  BY <1>18, <1>t, <1>a DEF Proxy!LockFinal, Proxy!Goto, Positions, Proxy!settings_vars,
     Proxy!guard_vars, Proxy!loop_vars, Proxy!lock_vars, Proxy!task_vars, Proxy!bound_vars
<1>19. CASE Proxy!FinalAnswer
  BY <1>19, <1>t, <1>a DEF Proxy!FinalAnswer, Proxy!Answer, Positions, Proxy!settings_vars,
     Proxy!guard_vars, Proxy!loop_vars, Proxy!lock_vars, Proxy!task_vars, Proxy!bound_vars
<1>20. CASE Proxy!RefreshLocal
  BY <1>20, <1>t, <1>a DEF Proxy!RefreshLocal, Proxy!StartGuard, Proxy!ShutdownGuard,
     Proxy!Answer, Positions, Proxy!settings_vars, Proxy!guard_vars, Proxy!loop_vars,
     Proxy!lock_vars, Proxy!task_vars, Proxy!bound_vars
<1>21. CASE Proxy!RefreshService
  BY <1>21, <1>t, <1>a DEF Proxy!RefreshService, Proxy!Answer, Positions, Proxy!settings_vars,
     Proxy!guard_vars, Proxy!loop_vars, Proxy!lock_vars, Proxy!task_vars, Proxy!bound_vars
<1>22. CASE Proxy!GuardFires
  BY <1>22, <1>t, <1>a DEF Proxy!GuardFires, Positions, Proxy!settings_vars, Proxy!guard_vars,
     Proxy!loop_vars, Proxy!lock_vars, Proxy!task_vars, Proxy!bound_vars
<1>23. CASE Proxy!GuardWriteLands
  BY <1>23, <1>t, <1>a DEF Proxy!GuardWriteLands, Positions, Proxy!settings_vars,
     Proxy!guard_vars, Proxy!loop_vars, Proxy!lock_vars, Proxy!task_vars, Proxy!bound_vars
<1>24. CASE Proxy!CancelAndDrain("holder") \/ Proxy!CancelAndDrain("reader")
  BY <1>24, <1>t, <1>a DEF Proxy!CancelAndDrain, Proxy!Goto, Proxy!AtCall, Proxy!Supersede,
     Positions, Proxy!settings_vars, Proxy!guard_vars, Proxy!loop_vars, Proxy!lock_vars,
     Proxy!task_vars, Proxy!bound_vars
<1>25. CASE Proxy!LockOperation("holder") \/ Proxy!LockOperation("reader")
  BY <1>25, <1>t, <1>a DEF Proxy!LockOperation, Proxy!Goto, Positions, Proxy!settings_vars,
     Proxy!guard_vars, Proxy!loop_vars, Proxy!lock_vars, Proxy!task_vars, Proxy!bound_vars
<1>26. CASE Proxy!StopLocalGuard("holder") \/ Proxy!StopLocalGuard("reader")
  BY <1>26, <1>t, <1>a DEF Proxy!StopLocalGuard, Proxy!Goto, Proxy!ShutdownGuard, Positions,
     Proxy!settings_vars, Proxy!guard_vars, Proxy!loop_vars, Proxy!lock_vars, Proxy!task_vars,
     Proxy!bound_vars
<1>27. CASE Proxy!Drained("holder") \/ Proxy!Drained("reader")
  BY <1>27, <1>t, <1>a DEF Proxy!Drained, Proxy!Goto, Proxy!WaitIdle, Proxy!Answer, Positions,
     Proxy!settings_vars, Proxy!guard_vars, Proxy!loop_vars, Proxy!lock_vars, Proxy!task_vars,
     Proxy!bound_vars
<1>28. CASE \E g \in LoopIndices : Proxy!LoopSteps(g)
  BY <1>28, <1>b DEF Proxy!LoopSteps, Proxy!LoopAsks, Proxy!LoopLands, Proxy!LoopReports,
     Proxy!settings_vars, Proxy!guard_vars, Proxy!loop_vars, Proxy!lock_vars, Proxy!task_vars,
     Proxy!bound_vars
<1> QED
  BY <1>1, <1>2, <1>3, <1>4, <1>5, <1>6, <1>7, <1>8, <1>9, <1>10, <1>11, <1>12, <1>13, <1>14,
     <1>15, <1>16, <1>17, <1>18, <1>19, <1>20, <1>21, <1>22, <1>23, <1>24, <1>25, <1>26,
     <1>27, <1>28 DEF Proxy!Next, Proxy!CallSteps, Proxy!ReaderSteps, LoopIndices

\* The inductive invariant of the part.
ProxyHolds == part = "proxy" => ProxyInv /\ GenerationsCounted

\* The inductive invariant holds in every state.
LEMMA ProxyHoldsAlways == Spec => []ProxyHolds
<1>1. Init => ProxyHolds
  BY ProxyInit DEF Init, ProxyHolds
<1>2. ProxyHolds /\ [Next]_mcvars => ProxyHolds'
  <2> SUFFICES ASSUME ProxyHolds, [Next]_mcvars, part' = "proxy"
               PROVE  ProxyInv' /\ GenerationsCounted'
    BY DEF ProxyHolds
  <2>1. part = "proxy" /\ ProxyInv /\ GenerationsCounted
    BY PartStays DEF ProxyHolds
  <2>2. CASE Proxy!Next
    BY <2>1, <2>2, ProxyStep, GenerationsStep
  <2>3. CASE UNCHANGED mcvars
    BY <2>1, <2>3, ProxyStays DEF mcvars
  <2> QED
    BY <2>1, <2>2, <2>3 DEF Next
<1> QED
  BY <1>1, <1>2, PTL DEF Spec

\* What apply or clear answered for is what the OS has until the next call, and the warning
\* of a stopped guard is there only while no current guard is at work (proxy_control, Sysopt).
THEOREM AnswersStand ==
  Spec => [](part = "proxy" => Proxy!LastWordStands /\ Proxy!GuardFailureIsCurrent)
<1>1. ProxyHolds => (part = "proxy" => Proxy!LastWordStands /\ Proxy!GuardFailureIsCurrent)
  <2> SUFFICES ASSUME ProxyInv, GenerationsCounted
               PROVE  Proxy!GuardFailureIsCurrent
    BY DEF ProxyHolds, ProxyInv
  <2>1. generation \in Nat /\ plans \in Nat /\ MaxPlans \in Nat /\ Owed \in Nat
    BY OwedIsCounted DEF OwedCounts
  <2>2. generation <= Proxy!MaxGeneration
    BY <2>1 DEF GenerationsCounted, Proxy!MaxGeneration
  <2>3. generation > 0 => generation \in LoopIndices
    BY BoundsAssumption, <2>1, <2>2 DEF LoopIndices, Proxy!MaxGeneration
  <2> QED
    BY <2>3 DEF ProxyInv, LoopsFollow, NoLoopIsCurrent, Proxy!GuardFailureIsCurrent
<1> QED
  BY <1>1, ProxyHoldsAlways, PTL

\* A failed local apply says what it left (Sysopt::update_sysproxy).
THEOREM FailuresAreHonest == Spec => FailedApplyIsHonest
<1>1. ProxyHolds /\ [Next]_mcvars => [part = "proxy" => Proxy!ApplyIsHonest]_mcvars
  <2> SUFFICES ASSUME ProxyHolds, Next, part = "proxy"
               PROVE  Proxy!ApplyIsHonest
    OBVIOUS
  <2> QED
    BY HonestStep DEF Next, ProxyHolds
<1> QED
  BY <1>1, ProxyHoldsAlways, PTL DEF Spec, FailedApplyIsHonest

\* The inductive invariant of the guard's target.
TargetHolds ==
  part = "proxy" =>
    /\ plan \in Remaining
    /\ Proxy!WritesAreEvidence => TargetThere /\ LateIsMinded

\* What the guard enforces is what the OS has, whenever the guard runs and every write tells
\* what it did (off Linux): a guard write that outlives two drains is minded by the calls that
\* follow (Sysopt::update_sysproxy, GUARD_DRAIN_TIMEOUT).
THEOREM GuardsEnforceWhatIsThere ==
  MaxHangs <= 2 /\ Spec => [](part = "proxy" => Proxy!GuardEnforcesWhatIsThere)
<1> SUFFICES ASSUME MaxHangs <= 2
             PROVE  Spec => [](part = "proxy" => Proxy!GuardEnforcesWhatIsThere)
  OBVIOUS
<1>1. Init => TargetHolds
  <2> SUFFICES ASSUME Proxy!Init PROVE plan \in Remaining /\ TargetThere /\ LateIsMinded
    BY DEF Init, TargetHolds
  <2> QED
    BY DEF Proxy!Init, Remaining, TargetThere, LateIsMinded, There, Late, Doing
<1>2. ProxyHolds /\ TargetHolds /\ [Next]_mcvars => TargetHolds'
  <2> SUFFICES ASSUME ProxyHolds, TargetHolds, [Next]_mcvars, part' = "proxy"
               PROVE  /\ plan' \in Remaining
                      /\ Proxy!WritesAreEvidence' => TargetThere' /\ LateIsMinded'
    BY DEF TargetHolds
  <2>1. part = "proxy" /\ ProxyInv /\ plan \in Remaining
    BY PartStays DEF ProxyHolds, TargetHolds
  <2>2. CASE Proxy!Next
    <3>1. plan' \in Remaining
      BY <2>1, <2>2, RemainsStep
    <3>2. Proxy!WritesAreEvidence' => Proxy!WritesAreEvidence
      BY <2>2, PlatformStays DEF Proxy!WritesAreEvidence
    <3> QED
      BY <2>1, <2>2, <3>1, <3>2, TargetStep DEF TargetHolds
  <2>3. CASE UNCHANGED mcvars
    BY <2>1, <2>3 DEF mcvars, proxy_vars, TargetHolds, TargetThere, LateIsMinded, There, Late,
       Kept, Lost, Doing, GivenUp, Proxy!WritesAreEvidence
  <2> QED
    BY <2>1, <2>2, <2>3 DEF Next
<1>3. TargetHolds => (part = "proxy" => Proxy!GuardEnforcesWhatIsThere)
  BY DEF TargetHolds, TargetThere, There, Proxy!GuardEnforcesWhatIsThere
<1> QED
  BY <1>1, <1>2, <1>3, ProxyHoldsAlways, PTL DEF Spec

\* The answers of the proxy holder stand, the guard enforces what is there, its warning is
\* current, and what the user asked of the settings stays owed until it is answered.
THEOREM ProxyAnswers == MaxHangs <= 2 /\ Spec => []ProxyAnswersStand
<1> SUFFICES ASSUME MaxHangs <= 2
             PROVE  Spec => []ProxyAnswersStand
  OBVIOUS
<1> QED
  BY AnswersStand, GuardsEnforceWhatIsThere, RequestsOwed, PTL DEF ProxyAnswersStand
================================================================================
