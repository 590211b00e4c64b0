----------------------------- MODULE RuntimeBundle -----------------------------
(***************************************************************************)
(* What the application hands to the Service with a configuration          *)
(* (core::runtime_bundle): the local files to copy and the remote          *)
(* providers the Core downloads, each with its destination in the runtime  *)
(* directory of the Service.  A path stands for its canonical form below   *)
(* the configuration root.                                                 *)
(***************************************************************************)
EXTENDS Sequences, FiniteSets, SequencesExt

CONSTANTS
  Paths, BundleUrls,
  Geo,              \* GEO_ASSETS, some of Paths
  Outside,          \* a path outside of the root
  MaxProviders      \* bound: providers of a configuration

VARIABLES
  todo,             \* providers not yet looked at: proxy-providers, then rule-providers
  present,          \* files below the root
  destinations, assets, remotes,
  rewritten,        \* providers whose path is now a destination
  outcome           \* "collecting", "bundled" or "refused"

bundlevars == <<todo, present, destinations, assets, remotes, rewritten, outcome>>

Providers ==
  [kind : {"remote"}, url : BundleUrls, path : Paths \cup {Outside}]
    \cup [kind : {"remote-without-url", "local"}, path : Paths \cup {Outside}]

Init ==
  /\ todo \in SeqOf(Providers, MaxProviders)
  /\ present \in SUBSET Paths
  /\ destinations = {} /\ assets = {} /\ remotes = {} /\ rewritten = {}
  /\ outcome = "collecting"

Collecting == outcome = "collecting" /\ todo # <<>>
Provider == Head(todo)
Rewrites == rewritten' = rewritten \cup {Provider} /\ todo' = Tail(todo)

\* A destination is for one source.
Taken ==
  IF \E r \in remotes : r.path = Provider.path
  THEN [path |-> Provider.path, url |-> Provider.url] \notin remotes
  ELSE Provider.path \in destinations

\* Mutation of Remote: what is downloaded does not reserve its destination.
RemoteUnreserved ==
  /\ Collecting /\ Provider.kind = "remote"
  /\ IF Provider.path = Outside \/ Taken
     THEN outcome' = "refused" /\ UNCHANGED <<todo, remotes, rewritten>>
     ELSE /\ remotes' = remotes \cup {[path |-> Provider.path, url |-> Provider.url]}
          /\ Rewrites /\ UNCHANGED outcome
  /\ UNCHANGED <<present, assets, destinations>>

\* A remote provider reserves its destination; the same source may name it twice.
Remote ==
  /\ Collecting /\ Provider.kind = "remote"
  /\ IF Provider.path = Outside \/ Taken
     THEN outcome' = "refused" /\ UNCHANGED <<todo, destinations, remotes, rewritten>>
     ELSE /\ destinations' = destinations \cup {Provider.path}
          /\ remotes' = remotes \cup {[path |-> Provider.path, url |-> Provider.url]}
          /\ Rewrites /\ UNCHANGED outcome
  /\ UNCHANGED <<present, assets>>

Skip ==
  /\ Collecting
  /\ \/ Provider.kind = "remote-without-url"
     \/ Provider.kind = "local" /\ Provider.path \notin present
  /\ todo' = Tail(todo)
  /\ UNCHANGED <<present, destinations, assets, remotes, rewritten, outcome>>

Copies(paths) ==
  /\ assets' = assets \cup (paths \ destinations)
  /\ destinations' = destinations \cup paths

Local ==
  /\ Collecting /\ Provider.kind = "local" /\ Provider.path \in present
  /\ Copies({Provider.path})
  /\ Rewrites
  /\ UNCHANGED <<present, remotes, outcome>>

Bundle ==
  /\ outcome = "collecting" /\ todo = <<>>
  /\ Copies(Geo \cap present)
  /\ outcome' = "bundled"
  /\ UNCHANGED <<todo, present, remotes, rewritten>>

Next == Remote \/ Skip \/ Local \/ Bundle

BundleSpec == Init /\ [][Next]_bundlevars

-----------------------------------------------------------------------------
\* In a bundle each destination has one source, a file to copy or one URL, and every
\* provider that names a destination finds it there (collect_runtime_parts).
DestinationsAreExact ==
  outcome = "bundled" =>
    /\ \A r \in remotes : r.path \notin assets /\ \A s \in remotes : s.path = r.path => s = r
    /\ \A p \in rewritten : p.path \in assets \cup {r.path : r \in remotes}
=============================================================================
