----------------------------- MODULE OwnerWatch -----------------------------
(***************************************************************************)
(* How the owner monitor judges the samples it takes of the Service that   *)
(* runs our Core (core::runstate::owner): which are a blip, and which of   *)
(* them end the trust in the Service.  What a recovery then does, and the  *)
(* generations of the monitors, are in CoreLifecycle.                      *)
(***************************************************************************)
EXTENDS Naturals

CONSTANTS
  None,
  MaxRun            \* how far the runs of samples are counted

Sustained == 3      \* SUSTAINED_SAMPLES

VARIABLES
  unreadable, missing,  \* OwnerWatch
  recovered,            \* the reason of the recovery that ended the monitor, or None
  lost_run,             \* for how many samples the Core has been gone
  bad_run,              \* for how many samples it has been gone or the status silent
  disowned              \* the Service said at the last sample that it does not run it for us;
                        \* these three are kept to state the properties

watchvars == <<unreadable, missing, recovered, lost_run, bad_run, disowned>>

Init ==
  /\ unreadable = 0 /\ missing = 0
  /\ recovered = None
  /\ lost_run = 0 /\ bad_run = 0
  /\ disowned = FALSE

(* What there is to see at a sample: the Core is up, "settling" (the Service starts it, or   *)
(* starts it again) or gone; the status answers or is silent; the controller of the Core     *)
(* answers or not; the Service runs the Core for us, or no more, or has failed for good.     *)
Worlds ==
  {w \in [core : {"up", "settling", "gone"}, silent : BOOLEAN, endpoint : BOOLEAN,
          owner : {"ours", "not active", "another", "unwanted", "fatal"}] :
     w.endpoint => w.core = "up"}

UpTo(n) == IF n > MaxRun THEN MaxRun ELSE n

-----------------------------------------------------------------------------
\* Mutation of ReadsNothing: a status that cannot be read says the Core may be there.
ReadsNothingAndForgets(w) ==
  /\ missing' = 0
  /\ IF unreadable + 1 < Sustained
     THEN unreadable' = unreadable + 1 /\ UNCHANGED recovered
     ELSE IF w.endpoint THEN unreadable' = 0 /\ UNCHANGED recovered
     ELSE unreadable' = unreadable + 1 /\ recovered' = "TransportFailure"

\* Unreadable; when that lasts, resolve_transport asks the Core itself.
ReadsNothing(w) ==
  /\ UNCHANGED missing
  /\ IF unreadable + 1 < Sustained
     THEN unreadable' = unreadable + 1 /\ UNCHANGED recovered
     ELSE IF w.endpoint THEN unreadable' = 0 /\ UNCHANGED recovered
     ELSE unreadable' = unreadable + 1 /\ recovered' = "TransportFailure"

ReadsNotActive ==
  /\ recovered' = "Displaced"
  /\ UNCHANGED <<unreadable, missing>>

\* Mutation of Missing: only a Core that is there ends a run.
MissingWhileSettling(w) == IF w.core = "up" THEN 0 ELSE missing + 1

\* is_settling
Missing(w) == IF w.core = "gone" THEN missing + 1 ELSE 0

\* recovery_reason
ReadsStatus(w) ==
  /\ unreadable' = 0
  /\ missing' = Missing(w)
  /\ recovered' = IF w.owner = "another" THEN "Displaced"
                  ELSE IF w.owner \in {"unwanted", "fatal"} \/ missing' >= Sustained
                  THEN "SameOwnerFailure"
                  ELSE None

\* A sample is taken every OWNER_MONITOR_INTERVAL, until one of them asks to recover.
Sample ==
  /\ recovered = None
  /\ \E w \in Worlds :
       /\ IF w.silent THEN ReadsNothing(w)
          ELSE IF w.owner = "not active" THEN ReadsNotActive
          ELSE ReadsStatus(w)
       /\ lost_run' = IF w.core = "gone" THEN UpTo(lost_run + 1) ELSE 0
       /\ bad_run' = IF w.silent \/ w.core = "gone" THEN UpTo(bad_run + 1) ELSE 0
       /\ disowned' = (~w.silent /\ w.owner # "ours")

Next == Sample

WatchSpec == Init /\ [][Next]_watchvars

-----------------------------------------------------------------------------
\* A Core that is gone is given up within nine samples, however the status channel comes and
\* goes meanwhile: what was seen missing before a silence is not forgotten by it
\* (OwnerWatch::observe).
LostCoreIsGivenUp == lost_run >= 9 => recovered # None

\* A blip is not a failure: unless the Service says itself that it does not run the Core for
\* us, it is trusted until three samples in a row were bad, whatever was wrong with each, and
\* a Core that the Service is starting again is not missing (SUSTAINED_SAMPLES, is_settling).
BlipsAreTolerated == recovered # None => disowned \/ bad_run >= Sustained
=============================================================================
