-------------------------------- MODULE Startup --------------------------------
(***************************************************************************)
(* Processes of the application that start side by side.  On Windows each  *)
(* first repairs the owner of the data directory, if need be by building   *)
(* it anew (owner_identity); then each takes the lock of the one primary,  *)
(* which reserves a port and writes it to a record, or asks that primary   *)
(* to show its window (utils::server).  Every file operation may fail and  *)
(* a process may die between two.  Owners are "me" and "other"; a process  *)
(* starts once and stands for its token.                                   *)
(***************************************************************************)
EXTENDS Naturals, FiniteSets

CONSTANTS
  Starts, None,
  Data,             \* entries of the data directory that are the user's
  Ports,
  MaxFailures,      \* bound: operations that fail
  MaxDeaths         \* bound: processes that die

VARIABLES
  windows,
  denied,           \* taking the old directory's ownership is refused
  kept,             \* the user's entries before anybody starts
  root,             \* the data directory, or None
  stale,            \* [Starts -> the directory each has set aside, or None]
  at,               \* [Starts -> the next step]
  repaired,         \* processes whose repair succeeded
  file,             \* [Starts -> the lock file each has open, or None]
  locked,           \* processes that hold the lock of the file they have open
  heard,            \* [Starts -> the record each has read, or None]
  bound,            \* [Ports -> the process that listens, or None]
  failures, deaths,
  unrestored,       \* a restoration failed, kept to state a property
  died,             \* a process died while it rebuilt the directory, kept likewise
  intruded,         \* another one came in meanwhile, kept likewise
  spoilt            \* a token was created and not written, kept likewise

startvars == <<windows, denied, kept, root, stale, at, repaired, file, locked, heard, bound,
               failures, deaths, unrestored, died, intruded, spoilt>>
host == <<windows, denied, kept>>
histories == <<unrestored, died, intruded, spoilt>>
singleton == <<file, locked, heard, bound>>

Reserved == {"token", "record", "lock"}      \* REGENERATED_FILES

Made(owner) ==
  [owner |-> owner, data |-> {}, token |-> None, record |-> None, lock |-> None]

\* A lock file is told from another by its id: the process that has created it.
Left(owner, reserved) ==
  [owner |-> owner, data |-> Data,
   token |-> [owner |-> reserved, whole |-> TRUE],
   record |-> [owner |-> reserved, port |-> CHOOSE n \in Ports : TRUE, token |-> None],
   lock |-> [owner |-> reserved, id |-> None]]

Init ==
  /\ windows \in BOOLEAN /\ denied \in BOOLEAN
  /\ root \in {None} \cup {Left(o, r) : o \in {"me", "other"}, r \in {"me", "other"}}
  /\ windows \/ (denied = FALSE /\ root \in {None, Left("me", "me")})
  /\ kept = (IF root = None THEN {} ELSE Data)
  /\ stale = [p \in Starts |-> None]
  /\ at = [p \in Starts |-> "off"]
  /\ repaired = {}
  /\ file = [p \in Starts |-> None]
  /\ locked = {}
  /\ heard = [p \in Starts |-> None]
  /\ bound = [n \in Ports |-> None]
  /\ failures = 0 /\ deaths = 0
  /\ unrestored = FALSE /\ died = FALSE /\ intruded = FALSE /\ spoilt = FALSE

Goes(p, from, to) == at[p] = from /\ at' = [at EXCEPT ![p] = to]
Works == UNCHANGED failures
Fails == failures < MaxFailures /\ failures' = failures + 1

Rebuilding == {p \in Starts : at[p] \in {"create", "own", "move", "back"}}
ComesIn(p) == intruded' = (intruded \/ Rebuilding \ {p} # {})

HeldShared(dir) == FALSE

\* A lock file that is open can be neither removed nor renamed, nor can its directory:
\* it is opened without FILE_SHARE_DELETE.
Held(dir) == dir.lock # None /\ \E p \in Starts : file[p] = <<dir.lock.id>>

Begin(p) ==
  /\ Goes(p, "off", IF windows THEN "check" ELSE "open")
  /\ UNCHANGED <<host, root, stale, repaired, singleton, failures, deaths, histories>>

\* repair_root_owner: an error leaves the repair, and start-up goes on without it.
Check(p) ==
  \/ /\ \E owner \in {"me", "other"} :
          root' = IF root = None THEN Made(owner) ELSE root
     /\ Goes(p, "check", IF root'.owner = "me" THEN "drop" ELSE "take")
     /\ ComesIn(p)
     /\ Works /\ UNCHANGED <<unrestored, died, spoilt>>
  \/ Goes(p, "check", "open") /\ Fails /\ UNCHANGED <<root, histories>>

Take(p) ==
  \/ /\ root # None /\ ~denied /\ Goes(p, "take", "drop") /\ Works
     /\ root' = [root EXCEPT !.owner = "me"]
  \/ root # None /\ denied /\ Goes(p, "take", "aside") /\ Works /\ UNCHANGED root
  \/ root = None /\ Goes(p, "take", "open") /\ Works /\ UNCHANGED root
  \/ Goes(p, "take", "open") /\ Fails /\ UNCHANGED root

\* rebuild_root
SetAside(p) ==
  \/ /\ root # None /\ ~Held(root)
     /\ Goes(p, "aside", "create") /\ Works
     /\ stale' = [stale EXCEPT ![p] = root]
     /\ root' = None
     /\ ComesIn(p)
  \/ /\ Goes(p, "aside", "open")
     /\ IF root = None \/ Held(root) THEN Works ELSE Fails
     /\ UNCHANGED <<root, stale, intruded>>

\* A rename of the directory set aside to a name that is taken fails, and nobody is told.
Create(p) ==
  \/ /\ root = None /\ Goes(p, "create", "own") /\ Works
     /\ \E owner \in {"me", "other"} : root' = Made(owner)
     /\ UNCHANGED <<stale, unrestored>>
  \/ /\ IF root = None THEN Fails ELSE Works
     /\ Goes(p, "create", "open")
     /\ \/ root = None /\ root' = stale[p] /\ stale' = [stale EXCEPT ![p] = None]
           /\ UNCHANGED unrestored
        \/ unrestored' = TRUE /\ UNCHANGED <<root, stale>>

\* repopulate_root
Own(p) ==
  \/ /\ root # None /\ Goes(p, "own", "move") /\ Works
     /\ root' = [root EXCEPT !.owner = "me"]
  \/ Goes(p, "own", "back") /\ (IF root = None THEN Works ELSE Fails) /\ UNCHANGED root

Move(p) ==
  \/ /\ root # None /\ Goes(p, "move", "move") /\ Works
     /\ \E d \in stale[p].data :
          /\ stale' = [stale EXCEPT ![p].data = @ \ {d}]
          /\ root' = [root EXCEPT !.data = @ \cup {d}]
  \/ /\ Goes(p, "move", "drop") /\ stale[p].data = {}
     /\ \/ stale' = [stale EXCEPT ![p] = None] /\ Works
        \/ Fails /\ UNCHANGED stale
     /\ UNCHANGED root
  \/ /\ Goes(p, "move", "back") /\ stale[p].data # {}
     /\ IF root = None THEN Works ELSE Fails
     /\ UNCHANGED <<root, stale>>

RestoredWhole(p) == stale[p]

\* restore_root: whatever is in the new directory goes back, then the directory does.
Restored(p) ==
  [stale[p] EXCEPT !.data = @ \cup root.data,
                   !.token = IF root.token = None THEN @ ELSE root.token,
                   !.record = IF root.record = None THEN @ ELSE root.record,
                   !.lock = IF root.lock = None THEN @ ELSE root.lock]

Back(p) ==
  /\ Goes(p, "back", "open")
  /\ \/ /\ root # None /\ ~Held(root) /\ Works
        /\ root' = Restored(p)
        /\ stale' = [stale EXCEPT ![p] = None]
        /\ UNCHANGED unrestored
     \/ /\ IF root = None \/ Held(root) THEN Works ELSE Fails
        /\ unrestored' = TRUE
        /\ \/ UNCHANGED <<root, stale>>
           \/ \E d \in (IF root = None THEN {} ELSE root.data) :
                /\ root' = [root EXCEPT !.data = @ \ {d}]
                /\ stale' = [stale EXCEPT ![p].data = @ \cup {d}]

\* drop_files_owned_by_others looks at the three in this order and stops at an error.
Theirs(dir, name) == dir[name] # None /\ dir[name].owner = "other"

DroppedToken(dir, names) ==
  [n \in DOMAIN dir |-> IF n \in names \ {"record"} /\ Theirs(dir, n) THEN None ELSE dir[n]]

Dropped(dir, names) ==
  [n \in DOMAIN dir |-> IF n \in names /\ Theirs(dir, n) THEN None ELSE dir[n]]

Drop(p) ==
  \/ /\ root # None => ~(Theirs(root, "lock") /\ Held(root))
     /\ Goes(p, "drop", "open") /\ Works
     /\ root' = IF root = None THEN None ELSE Dropped(root, Reserved)
     /\ repaired' = repaired \cup {p}
  \/ /\ root # None /\ Goes(p, "drop", "open")
     /\ IF Theirs(root, "lock") /\ Held(root) THEN Works ELSE Fails
     /\ \E names \in {{}, {"token"}, {"token", "record"}} : root' = Dropped(root, names)
     /\ UNCHANGED repaired

Repair(p) ==
  /\ \/ Check(p) /\ UNCHANGED <<stale, repaired>>
     \/ Take(p) /\ UNCHANGED <<stale, repaired, histories>>
     \/ SetAside(p) /\ UNCHANGED <<repaired, unrestored, died, spoilt>>
     \/ Create(p) /\ UNCHANGED <<repaired, died, intruded, spoilt>>
     \/ Own(p) /\ UNCHANGED <<stale, repaired, histories>>
     \/ Move(p) /\ UNCHANGED <<repaired, histories>>
     \/ Back(p) /\ UNCHANGED <<repaired, died, intruded, spoilt>>
     \/ Drop(p) /\ UNCHANGED <<stale, histories>>
  /\ UNCHANGED <<host, singleton, deaths>>

-----------------------------------------------------------------------------
\* open_instance_lock, open_or_create_lock_file: another owner's file is refused.
OpenLock(p) ==
  LET dir == IF root = None THEN Made("me") ELSE root
  IN
  /\ ComesIn(p)
  /\ IF dir.lock # None /\ dir.lock.owner = "other"
       THEN Goes(p, "open", "ended") /\ root' = dir /\ UNCHANGED file
       ELSE /\ Goes(p, "open", "lock")
            /\ root' = IF dir.lock = None THEN [dir EXCEPT !.lock = [owner |-> "me", id |-> p]]
                       ELSE dir
            /\ file' = [file EXCEPT ![p] = <<root'.lock.id>>]
  /\ UNCHANGED <<host, stale, repaired, locked, heard, bound, failures, deaths, unrestored,
                 died, spoilt>>

\* try_lock_instance, first and again while the process waits.
TryLock(p) ==
  /\ IF \E q \in locked : file[q] = file[p]
       THEN Goes(p, "lock", "ask") /\ UNCHANGED locked
       ELSE Goes(p, "lock", "bind") /\ locked' = locked \cup {p}
  /\ UNCHANGED <<host, root, stale, repaired, file, heard, bound, failures, deaths, histories>>

\* read_instance_record: on Windows a file of another owner is refused.
Readable == root # None /\ root.record # None /\ root.record.owner = "me"

Ask(p) ==
  /\ Goes(p, "ask", "told")
  /\ heard' = [heard EXCEPT ![p] = IF Readable THEN root.record ELSE None]
  /\ UNCHANGED <<host, root, stale, repaired, file, locked, bound, failures, deaths, histories>>

\* notify_existing_instance: the primary answers once commands are ready, to its token.
Answers(record) ==
  /\ record # None /\ bound[record.port] # None
  /\ bound[record.port] = record.token /\ at[record.token] = "ready"

Leave(p) ==
  /\ file' = [file EXCEPT ![p] = None]
  /\ locked' = locked \ {p}
  /\ heard' = [heard EXCEPT ![p] = None]

Told(p) ==
  /\ IF Answers(heard[p]) THEN Goes(p, "told", "ended") /\ Leave(p)
     ELSE \/ /\ Goes(p, "told", "lock") /\ heard' = [heard EXCEPT ![p] = None]
             /\ UNCHANGED <<file, locked>>
          \/ Goes(p, "told", "ended") /\ Leave(p)         \* twenty seconds have passed
  /\ UNCHANGED <<host, root, stale, repaired, bound, failures, deaths, histories>>

\* bind_primary_listener: the port of the record, or another one if that is taken.
Bind(p) ==
  /\ Goes(p, "bind", "record")
  /\ \E n \in Ports :
       /\ bound[n] = None
       /\ Readable /\ bound[root.record.port] = None => n = root.record.port
       /\ bound' = [bound EXCEPT ![n] = p]
  /\ UNCHANGED <<host, root, stale, repaired, file, locked, heard, failures, deaths, histories>>

Record(p) ==
  /\ \/ /\ root # None /\ Goes(p, "record", "serving") /\ Works
        /\ root' = [root EXCEPT !.record =
                      [owner |-> "me", port |-> CHOOSE n \in Ports : bound[n] = p, token |-> p]]
        /\ UNCHANGED <<file, locked, heard, bound>>
     \/ /\ Goes(p, "record", "ended") /\ Fails /\ Leave(p)
        /\ bound' = [n \in Ports |-> IF bound[n] = p THEN None ELSE bound[n]]
        /\ UNCHANGED root
  /\ UNCHANGED <<host, stale, repaired, deaths, histories>>

\* handle_ready_resumed
Ready(p) ==
  /\ Goes(p, "serving", "ready")
  /\ UNCHANGED <<host, root, stale, repaired, singleton, failures, deaths, histories>>

\* load_or_create_token creates the file and then fills it; one of another owner, or of
\* another size, is refused.
Token(p) ==
  /\ windows /\ root # None
  /\ \/ /\ root.token = None /\ Goes(p, "ready", "token") /\ Works
        /\ root' = [root EXCEPT !.token = [owner |-> "me", whole |-> FALSE]]
        /\ UNCHANGED spoilt
     \/ /\ Goes(p, "token", "ready") /\ Works
        /\ root' = [root EXCEPT !.token.whole = TRUE]
        /\ UNCHANGED spoilt
     \/ Goes(p, "token", "ready") /\ Fails /\ spoilt' = TRUE /\ UNCHANGED root
  /\ UNCHANGED <<host, stale, repaired, singleton, deaths, unrestored, died, intruded>>

\* shutdown_embedded_server; the lock goes with the process.
CloseServer(p) ==
  /\ Goes(p, "ready", "closed")
  /\ bound' = [n \in Ports |-> IF bound[n] = p THEN None ELSE bound[n]]
  /\ UNCHANGED <<host, root, stale, repaired, file, locked, heard, failures, deaths, histories>>

Ends(p) ==
  /\ Goes(p, "closed", "ended") /\ Leave(p)
  /\ UNCHANGED <<host, root, stale, repaired, bound, failures, deaths, histories>>

Dies(p) ==
  /\ at[p] \notin {"off", "ended"} /\ at' = [at EXCEPT ![p] = "ended"]
  /\ deaths < MaxDeaths /\ deaths' = deaths + 1
  /\ Leave(p)
  /\ bound' = [n \in Ports |-> IF bound[n] = p THEN None ELSE bound[n]]
  /\ died' = (died \/ p \in Rebuilding)
  /\ spoilt' = (spoilt \/ at[p] = "token")
  /\ UNCHANGED <<host, root, stale, repaired, failures, unrestored, intruded>>

Next ==
  \E p \in Starts :
    \/ Begin(p) \/ Repair(p) \/ OpenLock(p) \/ TryLock(p) \/ Ask(p) \/ Told(p) \/ Bind(p)
    \/ Record(p) \/ Ready(p) \/ Token(p) \/ CloseServer(p) \/ Ends(p) \/ Dies(p)

StartupSpec == Init /\ [][Next]_startvars

-----------------------------------------------------------------------------
\* One process at a time is the primary, though the directory of its lock is repaired,
\* rebuilt or put back by another one that starts (open_or_create_lock_file).
OnePrimary == Cardinality(locked) <= 1

\* When nobody rebuilds the directory the user's entries are in it, whichever step has
\* failed; a process that died in between, a restoration that failed and another start
\* that came in meanwhile are excepted (rebuild_root, restore_root).
DataStaysTogether ==
  kept # {} /\ ~died /\ ~unrestored /\ ~intruded /\ Rebuilding = {} =>
    root # None /\ root.data = kept

\* When a repair succeeded the directory and the reserved files are this user's, and the
\* token is one that will be accepted (repair_root_owner, load_or_create_token).
RepairedRootIsOurs ==
  repaired # {} /\ ~died /\ ~unrestored /\ ~intruded /\ Rebuilding = {} /\ root # None =>
    /\ root.owner = "me"
    /\ \A n \in Reserved : ~Theirs(root, n)
    /\ root.token = None \/ spoilt \/ root.token.whole \/ \E p \in Starts : at[p] = "token"
=============================================================================
