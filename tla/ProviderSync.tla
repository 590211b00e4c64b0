------------------------------ MODULE ProviderSync ------------------------------
(***************************************************************************)
(* The copies of provider caches that the application takes from the       *)
(* Service (core::service::providers).  The Core of the Service rewrites   *)
(* its cache in place; queued passes read it chunk by chunk and publish it *)
(* beside the application's own files, while configurations are applied    *)
(* and the Service starts and stops.  One provider; its cache has two      *)
(* chunks, each the URL and the download it came from.                     *)
(***************************************************************************)
EXTENDS Naturals, Sequences

CONSTANTS
  Tasks, Urls, None,
  Settle,           \* RUNTIME_PROVIDER_SETTLE
  Attempts,         \* RUNTIME_PROVIDER_SYNC_ATTEMPTS
  MaxTime,          \* bound: the clock
  MaxDownloads,     \* bound: downloads of the provider
  MaxChanges        \* bound: configurations applied, starts and stops

VARIABLES
  windows,          \* the modification time stays until the writer closes the file
  now,
  declared,         \* the provider's URL in the committed Runtime layer
  core,             \* the Core of the Service: the URL it was given, or None without a Core
  session,          \* the owner session, 0 for none
  sessions,         \* sessions begun
  change,           \* a configuration being applied: None, "applying" or "applied"
  cache,            \* the chunks in the cache
  mtime,
  writer,           \* the Core's download: "none", "writing" or "closed"
  updatedAt,        \* what the Core tells: the load and its time
  downloads, changes,
  target,           \* the application's copy
  queued,           \* PROVIDER_SYNC_QUEUED
  serial,           \* the holder of PROVIDER_SYNC_SERIAL
  passes,           \* [Tasks -> what each task does]
  asked,            \* requests no pass has begun after, and
  taken_back        \* whether the Core was given the URL of a pass under way once more, both
                    \* kept to state a property

pvars == <<windows, now, declared, core, session, sessions, change, cache, mtime, writer,
           updatedAt, downloads, changes, target, queued, serial, passes, asked, taken_back>>
ownership == <<declared, core, session, sessions, change, changes, taken_back>>
file == <<cache, mtime, writer, updatedAt, downloads>>
queue == <<queued, serial, asked>>

NoPass == [step |-> "none", attempt |-> 0, url |-> None, session |-> 0, before |-> 0,
           data |-> <<>>, mtime |-> 0, len |-> 0]
NeverLoaded == [load |-> 0, at |-> 0]

Init ==
  /\ windows \in BOOLEAN
  /\ now = Settle
  /\ declared \in Urls
  /\ core = declared
  /\ session = 1 /\ sessions = 1
  /\ change = None
  /\ cache = <<>> /\ mtime = 0 /\ writer = "none" /\ updatedAt = NeverLoaded
  /\ downloads = 0 /\ changes = 0
  /\ target = <<>>
  /\ queued = FALSE /\ serial = None
  /\ passes = [t \in Tasks |-> NoPass]
  /\ asked = FALSE /\ taken_back = FALSE

\* A write is not held up for as long as Settle.
Tick ==
  /\ now < MaxTime
  /\ writer = "writing" => now < mtime + Settle - 1 \/ windows
  /\ now' = now + 1
  /\ UNCHANGED <<windows, ownership, file, target, queue, passes>>

-----------------------------------------------------------------------------
(* The Core of the Service: mihomo rewrites a cache in place. *)

Touched == mtime' = IF windows THEN mtime ELSE now

Downloads ==
  /\ core # None /\ writer = "none"
  /\ downloads < MaxDownloads
  /\ downloads' = downloads + 1
  /\ writer' = "writing"
  /\ cache' = <<>> /\ Touched
  /\ UNCHANGED <<windows, now, ownership, updatedAt, target, queue, passes>>

Writes ==
  /\ writer = "writing"
  /\ IF Len(cache) < 2
     THEN cache' = Append(cache, [url |-> core, download |-> downloads]) /\ Touched
          /\ UNCHANGED writer
     ELSE writer' = "closed" /\ mtime' = (IF windows THEN now ELSE mtime) /\ UNCHANGED cache
  /\ UNCHANGED <<windows, now, ownership, updatedAt, downloads, target, queue, passes>>

Loads ==
  /\ writer = "closed"
  /\ writer' = "none"
  /\ updatedAt' = [load |-> downloads, at |-> now]
  /\ UNCHANGED <<windows, now, ownership, cache, mtime, downloads, target, queue, passes>>

-----------------------------------------------------------------------------
(* request_runtime_provider_sync *)

\* What a call of it does to the queue and to the tasks; `rest` is a pass that goes on.
Request ==
  /\ asked' = TRUE
  /\ IF queued THEN UNCHANGED <<queued, passes>>
     ELSE /\ queued' = TRUE
          /\ \E t \in Tasks :
               /\ passes[t] = NoPass
               /\ passes' = [passes EXCEPT ![t].step = "waits", ![t].attempt = 1]
  /\ UNCHANGED serial

Asks == Request /\ UNCHANGED <<windows, now, ownership, file, target>>

-----------------------------------------------------------------------------
(* What changes under lifecycle_lock: apply_config, start and stop of the Service. *)

Unlocked == change # "applying"

Emptied == cache' = <<>> /\ mtime' = now /\ writer' = "none" /\ updatedAt' = NeverLoaded

\* The Service drops a cache of another URL.  A replaced Core has a new session.
Applies ==
  /\ change = None /\ core # None
  /\ changes < MaxChanges /\ changes' = changes + 1
  /\ change' = "applying"
  /\ core' \in Urls
  /\ IF core' # core THEN Emptied ELSE UNCHANGED <<cache, mtime, writer, updatedAt>>
  /\ taken_back' = (taken_back \/ \E t \in Tasks : core' # core /\ passes[t].url = core')
  /\ \/ UNCHANGED <<session, sessions>>
     \/ sessions' = sessions + 1 /\ session' = sessions'
  /\ UNCHANGED <<windows, now, declared, downloads, target, queue, passes>>

Applied ==
  /\ change = "applying"
  /\ change' = "applied"
  /\ Request
  /\ UNCHANGED <<windows, now, declared, core, session, sessions, changes, taken_back, file, target>>

\* The Runtime layer is committed after lifecycle_lock was freed.
Commits ==
  /\ change = "applied"
  /\ change' = None
  /\ declared' = core
  /\ UNCHANGED <<windows, now, core, session, sessions, changes, taken_back, file, target, queue,
                 passes>>

Stops ==
  /\ change = None /\ core # None
  /\ changes < MaxChanges /\ changes' = changes + 1
  /\ core' = None /\ session' = 0 /\ Emptied
  /\ UNCHANGED <<windows, now, declared, sessions, change, taken_back, downloads, target, queue,
                 passes>>

Begins ==
  /\ change = None /\ core = None
  /\ core' = declared
  /\ sessions' = sessions + 1 /\ session' = sessions'
  /\ Request
  /\ UNCHANGED <<windows, now, declared, change, changes, taken_back, file, target>>

-----------------------------------------------------------------------------
(* sync_runtime_providers_by_service *)

At(t, step) == passes[t].step = step
Goes(t, step) == passes' = [passes EXCEPT ![t].step = step]

\* Mutation of PassBegins: the flag is cleared when the pass has ended.
PassBeginsQueued(t) ==
  /\ At(t, "waits") /\ serial = None
  /\ asked' = FALSE
  /\ UNCHANGED queued
  /\ serial' = t
  /\ passes' = [passes EXCEPT ![t] = [@ EXCEPT !.step = IF session = 0 THEN "done" ELSE "reads",
                    !.url = declared, !.session = session, !.before = updatedAt.load,
                    !.data = <<>>, !.len = 0]]
  /\ UNCHANGED <<windows, now, ownership, file, target>>

PassBegins(t) ==
  /\ At(t, "waits") /\ serial = None
  /\ asked' = FALSE
  /\ queued' = (queued /\ passes[t].attempt > 1)
  /\ serial' = t
  /\ passes' = [passes EXCEPT ![t] = [@ EXCEPT !.step = IF session = 0 THEN "done" ELSE "reads",
                    !.url = declared, !.session = session, !.before = updatedAt.load,
                    !.data = <<>>, !.len = 0]]
  /\ UNCHANGED <<windows, now, ownership, file, target>>

HasSettled == now - mtime >= Settle

\* What a pass holds once a chunk has come, or the empty one at the end.
Fetched(p) ==
  [p EXCEPT !.len = Len(cache), !.mtime = mtime,
            !.data = IF Len(p.data) < Len(cache) THEN Append(p.data, cache[Len(p.data) + 1])
                     ELSE p.data,
            !.step = IF Len(p.data) < Len(cache) THEN "reads" ELSE "looks"]

\* fetch_runtime_file
Reads(t) ==
  /\ At(t, "reads")
  /\ LET p == passes[t]
     IN IF p.session # session THEN Goes(t, "done")
        ELSE IF \/ cache = <<>> \/ ~HasSettled
                \/ p.data # <<>> /\ <<p.len, p.mtime>> # <<Len(cache), mtime>>
        THEN Goes(t, "pending")
        ELSE passes' = [passes EXCEPT ![t] = Fetched(p)]
  /\ UNCHANGED <<windows, now, ownership, file, target, queue>>

\* finished_loading
FinishedLoading(p) == updatedAt = NeverLoaded \/ p.mtime <= updatedAt.at + Settle

\* The Core may not answer.  On Windows a write under way has been closed by then.
LooksAgain(t) ==
  /\ At(t, "looks")
  /\ windows => writer # "writing"
  /\ \/ Goes(t, IF passes[t].before = updatedAt.load /\ FinishedLoading(passes[t])
                THEN "rechecks" ELSE "pending")
     \/ Goes(t, "pending")
  /\ UNCHANGED <<windows, now, ownership, file, target, queue>>

RechecksIdentity(t) ==
  /\ At(t, "rechecks")
  /\ Goes(t, IF passes[t].session # session THEN "done"
             ELSE IF <<passes[t].len, passes[t].mtime>> = <<Len(cache), mtime>>
             THEN "publishes" ELSE "pending")
  /\ UNCHANGED <<windows, now, ownership, file, target, queue>>

\* Mutation of Publishes: a change of the configuration meanwhile is not noticed.
PublishesUnchecked(t) ==
  /\ At(t, "publishes") /\ Unlocked
  /\ IF core # None /\ passes[t].session = session
     THEN target' = passes[t].data ELSE UNCHANGED target
  /\ Goes(t, "done")
  /\ UNCHANGED <<windows, now, ownership, file, queue>>

\* publish_fetched, under lifecycle_lock; the rename may fail.
Publishes(t) ==
  /\ At(t, "publishes") /\ Unlocked
  /\ IF core # None /\ passes[t].session = session /\ passes[t].url = declared
     THEN target' \in {passes[t].data, target} ELSE UNCHANGED target
  /\ Goes(t, "done")
  /\ UNCHANGED <<windows, now, ownership, file, queue>>

PassEnds(t) ==
  /\ At(t, "pending") \/ At(t, "done")
  /\ serial' = None
  /\ passes' = [passes EXCEPT ![t] =
       IF At(t, "pending") /\ passes[t].attempt < Attempts
       THEN [NoPass EXCEPT !.step = "waits", !.attempt = passes[t].attempt + 1] ELSE NoPass]
  /\ UNCHANGED <<windows, now, ownership, file, target, queued, asked>>

Pass(t) ==
  \/ PassBegins(t) \/ Reads(t) \/ LooksAgain(t) \/ RechecksIdentity(t) \/ Publishes(t)
  \/ PassEnds(t)

Next ==
  \/ Tick \/ Downloads \/ Writes \/ Loads
  \/ Asks \/ Applies \/ Applied \/ Commits \/ Stops \/ Begins
  \/ \E t \in Tasks : Pass(t)

ProviderSpec == Init /\ [][Next]_pvars

-----------------------------------------------------------------------------
\* A copy that is published is one whole download of the provider the Core was given,
\* though the cache is rewritten while it is read; between the end of an application
\* and its commit the provider may be the earlier one, and a pass under way does not see
\* that a configuration was replaced if the next one takes the Core back to the URL it
\* began with (sync_runtime_providers_by_service, publish_fetched).
PublishesLoaded ==
  target' # target =>
    /\ core # None
    /\ Len(target') = 2 /\ target'[1] = target'[2]
    /\ change = None /\ ~taken_back => target'[1].url = core

\* A request is not swallowed by a pass that had begun before: a pass begins after it
\* (request_runtime_provider_sync).
RequestsAreServed == asked => \E t \in Tasks : At(t, "waits")
=============================================================================
