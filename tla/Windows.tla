-------------------------------- MODULE Windows --------------------------------
(***************************************************************************)
(* The main window and lightweight mode (module::lightweight,              *)
(* utils::window_manager), the events of the window and of the application *)
(* (lib.rs) and quitting (feat::window).  Lightweight mode destroys the    *)
(* window, a timer armed when the window is closed enters it; statements   *)
(* without an await are steps too, the tasks run on several threads.       *)
(***************************************************************************)
EXTENDS Naturals

CONSTANTS
  Tasks, None,
  MaxOperations     \* bound: operations begun

VARIABLES
  mode,             \* LIGHTWEIGHT_STATE
  window,           \* the main window: "none", "loading", "shown" or "hidden"
  watched,          \* a close of this window must arm the timer, kept likewise
  listening,        \* the window has the listeners of lightweight mode
  auto,             \* enable_auto_light_weight_mode
  slot,             \* CANCEL_TX: the task of the timer, or None
  tasks,            \* [Tasks -> what each task does]
  begun,            \* operations begun
  recent,           \* a window operation was let through less than 625 ms ago
  gone,             \* the last window is gone: ExitRequested is on its way
  exiting,          \* is_exiting
  quits,            \* why the application quits, kept to state a property
  crossed           \* lightweight mode was left while it was entered, kept likewise

wvars == <<mode, window, watched, listening, auto, slot, tasks, begun, recent, gone, exiting,
           quits, crossed>>
win == <<window, watched, listening>>
app == <<gone, exiting, quits>>

Free == [op |-> "none", step |-> "none"]
At(t, op, step) == tasks[t] = [op |-> op, step |-> step]
Goes(t, op, step) == tasks' = [tasks EXCEPT ![t] = [op |-> op, step |-> step]]
Ends(t) == tasks' = [tasks EXCEPT ![t] = Free]

Begin(op, step) ==
  \E t \in Tasks :
    /\ tasks[t] = Free
    /\ begun < MaxOperations
    /\ begun' = begun + 1
    /\ Goes(t, op, step)

\* A silent start creates no window and enters lightweight mode.
Init ==
  /\ auto \in BOOLEAN
  /\ \/ window = "loading" /\ mode = "Normal" /\ listening = auto
     \/ window = "none" /\ mode = "In" /\ listening = FALSE
  /\ watched = listening
  /\ slot = None
  /\ tasks = [t \in Tasks |-> Free]
  /\ begun = 0
  /\ recent = FALSE
  /\ gone = FALSE /\ exiting = FALSE /\ quits = "no"
  /\ crossed = FALSE

-----------------------------------------------------------------------------
(* The timer of lightweight mode *)

\* Mutation of Cancelled: the sender is used and left in its place.
SlotKept(s) == s

Cancelled(s) == None

\* cancel_light_weight_timer: a timer that has expired does not hear of it.
Cancel(ts) ==
  /\ slot' = Cancelled(slot)
  /\ tasks' = IF slot # None /\ At(slot, "timer", "sleeping") THEN [ts EXCEPT ![slot] = Free] ELSE ts

\* setup_light_weight_timer
ArmTimer(t) ==
  /\ At(t, "timer", "setup")
  /\ IF slot = None THEN slot' = t /\ Goes(t, "timer", "sleeping")
     ELSE Ends(t) /\ UNCHANGED slot
  /\ UNCHANGED <<mode, win, auto, begun, recent, app, crossed>>

TimerExpires(t) ==
  /\ At(t, "timer", "sleeping")
  /\ Goes(t, "timer", "expired")
  /\ UNCHANGED <<mode, win, auto, slot, begun, recent, app, crossed>>

\* It drops whatever sender is there: another timer that loses its sender ends.
TimerClears(t) ==
  /\ At(t, "timer", "expired")
  /\ slot' = None
  /\ tasks' = [s \in Tasks |-> IF s = t THEN [op |-> "entry", step |-> "begin"]
                               ELSE IF s = slot /\ At(s, "timer", "sleeping") THEN Free
                               ELSE tasks[s]]
  /\ UNCHANGED <<mode, win, auto, begun, recent, app, crossed>>

-----------------------------------------------------------------------------
(* entry_lightweight_mode *)

EntryBegins(t) ==
  /\ At(t, "entry", "begin")
  /\ IF mode = "Normal" THEN mode' = "In" /\ Goes(t, "entry", "record") ELSE Ends(t) /\ UNCHANGED mode
  /\ UNCHANGED <<win, auto, slot, begun, recent, app, crossed>>

EntryRecords(t) ==
  /\ At(t, "entry", "record")
  /\ mode' = "In"
  /\ Goes(t, "entry", "destroy")
  /\ UNCHANGED <<win, auto, slot, begun, recent, app, crossed>>

EntryDestroys(t) ==
  /\ At(t, "entry", "destroy")
  /\ window' = "none" /\ watched' = FALSE /\ listening' = FALSE
  /\ gone' = (gone \/ window # "none")
  /\ Goes(t, "entry", "cancel")
  /\ UNCHANGED <<mode, auto, slot, begun, recent, exiting, quits, crossed>>

EntryCancels(t) ==
  /\ At(t, "entry", "cancel")
  /\ Cancel([tasks EXCEPT ![t] = Free])
  /\ UNCHANGED <<mode, win, auto, begun, recent, app, crossed>>

-----------------------------------------------------------------------------
(* exit_lightweight_mode and the manager of the window *)

Entering == gone \/ \E t \in Tasks : tasks[t].op = "entry" /\ tasks[t].step # "begin"

\* A caller that cannot leave lightweight mode shows the window itself.
ExitBegins(t) ==
  /\ At(t, "exit", "begin")
  /\ IF mode = "In" THEN mode' = "Exiting" /\ Goes(t, "exit", "record") ELSE UNCHANGED mode /\ Goes(t, "show", "begin")
  /\ crossed' = (crossed \/ (mode = "In" /\ Entering))
  /\ UNCHANGED <<win, auto, slot, begun, recent, app>>

ExitRecords(t) ==
  /\ At(t, "exit", "record")
  /\ mode' = "Exiting"
  /\ Goes(t, "exit", "show")
  /\ UNCHANGED <<win, auto, slot, begun, recent, app, crossed>>

\* Limiter::check
LetThrough == ~recent /\ recent' = TRUE
TooSoon == recent /\ UNCHANGED recent

\* A new window stays hidden until its page has loaded; building it may fail.
Create == window = "none" /\ window' \in {"none", "loading"} /\ watched' = FALSE /\ listening' = FALSE

\* A window that is shown gets the focus, whose listener cancels the timer.
Focus(ts) == IF listening THEN Cancel(ts) ELSE tasks' = ts /\ UNCHANGED slot

Activate(ts) ==
  /\ window \in {"loading", "hidden"}
  /\ window' = "shown"
  /\ Focus(ts)
  /\ UNCHANGED <<watched, listening>>

\* show_main_window; the callers go on whatever it has done.
Show(t, next) ==
  LET ts == [tasks EXCEPT ![t] = next]
  IN \/ TooSoon /\ tasks' = ts /\ UNCHANGED <<win, slot>>
     \/ LetThrough /\ window = "shown" /\ tasks' = ts /\ UNCHANGED <<win, slot>>
     \/ LetThrough /\ Create /\ tasks' = ts /\ UNCHANGED slot
     \/ LetThrough /\ Activate(ts)

ExitShows(t) ==
  /\ At(t, "exit", "show")
  /\ Show(t, [op |-> "exit", step |-> "listen"])
  /\ UNCHANGED <<mode, auto, begun, app, crossed>>

ShowsOnly(t) ==
  /\ At(t, "show", "begin")
  /\ Show(t, Free)
  /\ UNCHANGED <<mode, auto, begun, app, crossed>>

Listen ==
  /\ listening' = (window # "none")
  /\ watched' = (window \in {"loading", "shown"})

\* Mutation of ExitListens: the listeners of the old window are taken to be enough.
ExitListensNoMore(t) ==
  /\ At(t, "exit", "listen")
  /\ watched' = (auto /\ window \in {"loading", "shown"})
  /\ Goes(t, "exit", "cancel")
  /\ UNCHANGED <<mode, window, listening, auto, slot, begun, recent, app, crossed>>

ExitListens(t) ==
  /\ At(t, "exit", "listen")
  /\ IF auto THEN Listen ELSE UNCHANGED <<watched, listening>>
  /\ Goes(t, "exit", "cancel")
  /\ UNCHANGED <<mode, window, auto, slot, begun, recent, app, crossed>>

ExitCancels(t) ==
  /\ At(t, "exit", "cancel")
  /\ Cancel([tasks EXCEPT ![t] = [op |-> "exit", step |-> "normal"]])
  /\ UNCHANGED <<mode, win, auto, begun, recent, app, crossed>>

ExitEnds(t) ==
  /\ At(t, "exit", "normal")
  /\ mode' = "Normal"
  /\ Ends(t)
  /\ UNCHANGED <<win, auto, slot, begun, recent, app, crossed>>

\* A close, by its button or by toggle_main_window, hides the window and, with the
\* listener, spawns the timer.  One that falls into the end of lightweight mode, which
\* cancels the timer last, is excepted.
Closed ==
  /\ window' = "hidden"
  /\ watched' = (watched /\ mode = "Normal")
  /\ UNCHANGED listening

ToggleShown(t) ==
  /\ At(t, "dashboard", "toggle")
  /\ LetThrough
  /\ window = "shown"
  /\ Closed
  /\ IF listening THEN Goes(t, "timer", "setup") ELSE Ends(t)
  /\ UNCHANGED <<mode, auto, slot, begun, app, crossed>>

Toggle(t) ==
  /\ At(t, "dashboard", "toggle")
  /\ LET ts == [tasks EXCEPT ![t] = Free]
     IN \/ TooSoon /\ tasks' = ts /\ UNCHANGED <<win, slot>>
        \/ LetThrough /\ Create /\ tasks' = ts /\ UNCHANGED slot
        \/ LetThrough /\ Activate(ts)
  /\ UNCHANGED <<mode, auto, begun, app, crossed>>

\* open_or_close_dashboard
Dashboard(t) ==
  /\ At(t, "dashboard", "begin")
  /\ IF mode = "In" THEN Goes(t, "exit", "begin") ELSE Goes(t, "dashboard", "toggle")
  /\ UNCHANGED <<mode, win, auto, slot, begun, recent, app, crossed>>

-----------------------------------------------------------------------------
(* Events of the window and of the application, the user and time *)

PageLoads ==
  /\ window = "loading"
  /\ window' = "shown"
  /\ Focus(tasks)
  /\ UNCHANGED <<mode, watched, listening, auto, begun, recent, app, crossed>>

UserCloses ==
  /\ window = "shown" /\ ~exiting
  /\ Closed
  /\ IF listening THEN Begin("timer", "setup") ELSE UNCHANGED <<tasks, begun>>
  /\ UNCHANGED <<mode, auto, slot, recent, app, crossed>>

TimePasses == recent /\ recent' = FALSE
              /\ UNCHANGED <<mode, win, auto, slot, tasks, begun, app, crossed>>

UserActs ==
  /\ \E op \in {"entry", "exit", "dashboard"} : Begin(op, "begin")
  /\ UNCHANGED <<mode, win, auto, slot, recent, app, crossed>>

\* A window that is hidden when the mode is enabled is not timed.
EnableAuto ==
  /\ ~auto
  /\ auto' = TRUE
  /\ Listen
  /\ UNCHANGED <<mode, window, slot, tasks, begun, recent, app, crossed>>

DisableAuto ==
  /\ auto
  /\ auto' = FALSE
  /\ watched' = FALSE /\ listening' = FALSE
  /\ Cancel(tasks)
  /\ UNCHANGED <<mode, window, begun, recent, app, crossed>>

\* Mutation of ExitRequested: lightweight mode is not asked.
ExitRequestedAlways ==
  /\ gone
  /\ gone' = FALSE
  /\ IF ~exiting THEN exiting' = TRUE /\ quits' = "unasked" ELSE UNCHANGED <<exiting, quits>>
  /\ UNCHANGED <<mode, win, auto, slot, tasks, begun, recent, crossed>>

\* Without a window the application quits, lightweight mode apart.
ExitRequested ==
  /\ gone
  /\ gone' = FALSE
  /\ IF mode # "In" /\ ~exiting THEN exiting' = TRUE /\ quits' = "unasked"
     ELSE UNCHANGED <<exiting, quits>>
  /\ UNCHANGED <<mode, win, auto, slot, tasks, begun, recent, crossed>>

Quit ==
  /\ ~exiting
  /\ exiting' = TRUE
  /\ quits' = "asked"
  /\ UNCHANGED <<mode, win, auto, slot, tasks, begun, recent, gone, crossed>>

\* A Core that cannot be stopped cancels the quit.
QuitFails ==
  /\ quits = "asked"
  /\ exiting' = FALSE
  /\ quits' = "no"
  /\ UNCHANGED <<mode, win, auto, slot, tasks, begun, recent, gone, crossed>>

-----------------------------------------------------------------------------
TaskStep(t) ==
  \/ ArmTimer(t) \/ TimerExpires(t) \/ TimerClears(t)
  \/ EntryBegins(t) \/ EntryRecords(t) \/ EntryDestroys(t) \/ EntryCancels(t)
  \/ ExitBegins(t) \/ ExitRecords(t) \/ ExitShows(t) \/ ExitListens(t) \/ ExitCancels(t)
  \/ ExitEnds(t) \/ ShowsOnly(t) \/ Dashboard(t) \/ ToggleShown(t) \/ Toggle(t)

Next ==
  /\ quits # "unasked"
  /\ \/ \E t \in Tasks : TaskStep(t)
     \/ PageLoads \/ UserCloses \/ TimePasses \/ UserActs \/ EnableAuto \/ DisableAuto
     \/ ExitRequested \/ Quit \/ QuitFails

WindowSpec == Init /\ [][Next]_wvars

-----------------------------------------------------------------------------
\* With the automatic mode a window that is closed waits for the timer, or for a task
\* that will arm it or enter the mode: no cancelled, expired or repeated timer leaves
\* it hidden for ever; the exception is lightweight mode left while it was being
\* entered (setup_light_weight_timer, exit_lightweight_mode).
HiddenWindowIsTimed ==
  mode = "Normal" /\ window = "hidden" /\ watched /\ auto /\ ~crossed =>
    \E t \in Tasks : tasks[t].op \in {"timer", "entry"}

\* The application quits when it is asked to: destroying the window for lightweight
\* mode never quits it, unless the user leaves that mode while it is being entered
\* (RunEvent::ExitRequested).
OnlyAskedToQuit == quits = "unasked" => crossed
=============================================================================
