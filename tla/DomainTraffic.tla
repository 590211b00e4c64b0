---------------------------- MODULE DomainTraffic ----------------------------
(***************************************************************************)
(* The traffic of the Core's connections, counted per day (module::        *)
(* domain_traffic).  One loop polls the connections and saves what has     *)
(* changed; the user's clearing calls save under the io lock, which the    *)
(* loop does not take.  The domain of a connection is left out, its        *)
(* counter is one number, and it goes through the proxy, goes direct or is *)
(* not counted.  The application may end at any moment and start again.    *)
(***************************************************************************)
EXTENDS Naturals, Functions

CONSTANTS
  Conns,            \* connections, each opened at most once
  None,
  MaxDay,           \* bound: days
  MaxBytes,         \* bound: traffic of all connections
  MaxClears         \* bound: clearing calls

VARIABLES
  kind,             \* [Conns -> how the Core routes it]
  moved,            \* [Conns -> its traffic]
  opened, closed,   \* connections
  today,
  days, seen, dirty,            \* CollectorState
  file,             \* domain-traffic.yaml
  loop,             \* [step, list or snapshot] of the loop
  clear,            \* the same of the clearing call
  clears,
  before,           \* [Conns -> its traffic before the last clear_all that succeeded], and
  overtaken         \* whether a save of the loop was under way then or a save has failed, both
                    \* kept to state a property

trafficvars == <<kind, moved, opened, closed, today, days, seen, dirty, file, loop, clear,
                 clears, before, overtaken>>
core == <<kind, moved, opened, closed>>
histories == <<before, overtaken>>

Days == 1..MaxDay
Counted == {"direct", "proxy"}
Nothing == [d \in Days |-> [k \in Counted |-> 0]]
Idle == [step |-> "idle", data |-> None]

Init ==
  /\ kind \in [Conns -> Counted \cup {"ignored"}]           \* classify_direct
  /\ moved = [c \in Conns |-> 0] /\ opened = {} /\ closed = {}
  /\ today = 1
  /\ days = Nothing /\ file = Nothing
  /\ seen = [c \in Conns |-> None]
  /\ dirty = FALSE
  /\ loop = Idle /\ clear = Idle
  /\ clears = 0
  /\ before = [c \in Conns |-> 0] /\ overtaken = FALSE

Open == opened \ closed
Of(k) == {c \in Conns : kind[c] = k}
Traffic(k) == SumFunctionOnSet(moved, Of(k))

-----------------------------------------------------------------------------
(* The Core and the clock. *)

Opens ==
  /\ \E c \in Conns \ opened : opened' = opened \cup {c}
  /\ UNCHANGED <<kind, moved, closed, today, days, seen, dirty, file, loop, clear, clears, histories>>

Transfers ==
  /\ SumFunctionOnSet(moved, Conns) < MaxBytes
  /\ \E c \in Open : moved' = [moved EXCEPT ![c] = @ + 1]
  /\ UNCHANGED <<kind, opened, closed, today, days, seen, dirty, file, loop, clear, clears, histories>>

\* One connection ends, or all of them with the Core.
Closes ==
  /\ Open # {}
  /\ \E some \in {{c} : c \in Open} \cup {Open} : closed' = closed \cup some
  /\ UNCHANGED <<kind, moved, opened, today, days, seen, dirty, file, loop, clear, clears, histories>>

NextDay ==
  /\ today' \in Days \ {today}
  /\ UNCHANGED <<core, days, seen, dirty, file, loop, clear, clears, histories>>

-----------------------------------------------------------------------------
(* ensure_runner: the loop polls or saves, one at a time. *)

Fetch ==
  /\ loop.step = "idle"
  /\ loop' = [step |-> "fetched", data |-> [c \in Open |-> moved[c]]]
  /\ UNCHANGED <<core, today, days, seen, dirty, file, clear, clears, histories>>

\* Mutation of Baseline: a connection that is new to the collector counts from its start.
BaselineZero(c) == IF seen[c] = None THEN 0 ELSE seen[c]

Baseline(c) == IF seen[c] = None THEN loop.data[c] ELSE seen[c]

\* poll_once: the first sight of a connection only sets where it counts from.
Poll ==
  LET listed == {c \in DOMAIN loop.data : kind[c] \in Counted}
      more == [c \in Conns |-> IF c \in listed THEN loop.data[c] - Baseline(c) ELSE 0]
  IN
  /\ loop.step = "fetched"
  /\ days' = [days EXCEPT ![today] = [k \in Counted |-> @[k] + SumFunctionOnSet(more, Of(k))]]
  /\ dirty' = (dirty \/ days' # days)
  /\ seen' = [c \in Conns |-> IF c \in listed THEN loop.data[c] ELSE None]
  /\ loop' = Idle
  /\ UNCHANGED <<core, today, file, clear, clears, histories>>

\* persist_if_dirty
SaveBegins ==
  /\ loop.step = "idle" /\ dirty
  /\ dirty' = FALSE
  /\ loop' = [step |-> "saves", data |-> days]
  /\ UNCHANGED <<core, today, days, seen, file, clear, clears, histories>>

\* save_yaml replaces the file as a whole; a save that failed is not repeated.
SaveEnds ==
  /\ loop.step = "saves" /\ loop' = Idle
  /\ \/ file' = loop.data /\ UNCHANGED overtaken
     \/ overtaken' = TRUE /\ UNCHANGED file
  /\ UNCHANGED <<core, today, days, seen, dirty, clear, clears, before>>

-----------------------------------------------------------------------------
(* clear_before and clear_all. *)

ClearBefore ==
  /\ clear.step = "idle" /\ clears < MaxClears /\ clears' = clears + 1
  /\ \E cutoff \in Days :
       days' = [d \in Days |-> IF d < cutoff THEN Nothing[d] ELSE days[d]]
  /\ dirty' = (dirty \/ days' # days)
  /\ clear' = IF days' # days THEN [step |-> "waits", data |-> None] ELSE Idle
  /\ UNCHANGED <<core, today, seen, file, loop, histories>>

\* What has moved by now, of a connection of a list on its way what the list says.
ByNow ==
  [c \in Conns |-> IF loop.step = "fetched" /\ c \in DOMAIN loop.data
                   THEN loop.data[c] ELSE moved[c]]

\* Mutation of ClearAll: the cleared days are left to the loop to save.
ClearAllInMemory ==
  /\ clear.step = "idle" /\ clears < MaxClears /\ clears' = clears + 1
  /\ days' = Nothing
  /\ seen' = [c \in Conns |-> None]
  /\ dirty' = TRUE
  /\ before' = ByNow
  /\ UNCHANGED <<core, today, file, loop, clear, overtaken>>

ClearAll ==
  /\ clear.step = "idle" /\ clears < MaxClears /\ clears' = clears + 1
  /\ days' = Nothing
  /\ seen' = [c \in Conns |-> None]
  /\ dirty' = TRUE
  /\ clear' = [step |-> "waits-all", data |-> ByNow]
  /\ UNCHANGED <<core, today, file, loop, histories>>

\* persist_now, under the io lock.
PersistBegins ==
  /\ clear.step \in {"waits", "waits-all"}
  /\ dirty' = FALSE
  /\ overtaken' = (overtaken \/ loop.step = "saves")
  /\ clear' = [step |-> IF clear.step = "waits" THEN "saves" ELSE "saves-all",
               data |-> [days |-> days, moved |-> clear.data]]
  /\ UNCHANGED <<core, today, days, seen, file, loop, clears, before>>

\* A save of the loop that began meanwhile knows of the clearing, but may end first.
PersistEnds ==
  /\ clear.step \in {"saves", "saves-all"} /\ clear' = Idle
  /\ \/ /\ file' = clear.data.days
        /\ before' = IF clear.step = "saves-all" THEN clear.data.moved ELSE before
        /\ UNCHANGED overtaken
     \/ overtaken' = TRUE /\ UNCHANGED <<file, before>>
  /\ UNCHANGED <<core, today, days, seen, dirty, loop, clears>>

-----------------------------------------------------------------------------
\* The application ends and starts: init loads the file, or nothing if it cannot be read.
Restart ==
  /\ days' \in {file, Nothing}
  /\ seen' = [c \in Conns |-> None]
  /\ dirty' = FALSE
  /\ loop' = Idle /\ clear' = Idle
  /\ UNCHANGED <<core, today, file, clears, histories>>

Next ==
  \/ Opens \/ Transfers \/ Closes \/ NextDay
  \/ Fetch \/ Poll \/ SaveBegins \/ SaveEnds
  \/ ClearBefore \/ ClearAll \/ PersistBegins \/ PersistEnds
  \/ Restart

TrafficSpec == Init /\ [][Next]_trafficvars

-----------------------------------------------------------------------------
\* aggregate_stats
Stats(k) == SumFunctionOnSet([d \in Days |-> days[d][k]], Days)

\* No traffic is counted twice, whatever restarts, clearings and lost saves come between
\* (poll_once, init).
CountedOnce == \A k \in Counted : Stats(k) <= Traffic(k)

\* What clear_all has removed does not come back, not even with a restart, unless a save of
\* the loop was under way or a save has failed (clear_all, persist_now, persist_if_dirty).
ClearedStaysCleared ==
  ~overtaken => \A k \in Counted :
    Stats(k) + SumFunctionOnSet(before, Of(k)) <= Traffic(k)
=============================================================================
