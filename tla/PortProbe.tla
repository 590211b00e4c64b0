------------------------------- MODULE PortProbe -------------------------------
(***************************************************************************)
(* The probe that says whether the proxy ports a user saves are free       *)
(* (core::listener): the claims of the new configuration are bound one     *)
(* after the other and held until the end, while other programs open and   *)
(* close sockets.  Claims are probed in any order; current and new         *)
(* configuration listen on the same addresses, only their ports differ.    *)
(* At most one other program is there before the probe.                    *)
(***************************************************************************)
EXTENDS Naturals

CONSTANTS
  Platforms,        \* some of "linux", "macos" and "windows"
  Listeners,        \* the keys of PROXY_LISTENERS this instance uses
  Numbers,          \* port numbers
  None,
  MaxEvents         \* bound: sockets they open or close during the probe

VARIABLES
  platform,
  enumerated,       \* the addresses of the interfaces could be listed
  scope,            \* proxy_bind_addresses of both configurations
  current,          \* [Listeners -> number or None], None for a Core that does not run
  candidate,        \* [Listeners -> number or None]
  sockets,          \* of other programs and of the Core
  todo,             \* claims not yet probed, or None before the probe
  held,             \* claims bound so far
  outcome,          \* None, "available" or "conflict"
  events

probevars == <<platform, enumerated, scope, current, candidate, sockets, todo, held, outcome,
               events>>

V4 == {"any4", "loop4", "lan4"}
Addresses == V4 \cup {"any6", "loop6"}
Unspecified == {"any4", "any6"}

\* ipv6, allow-lan and bind-address
Scopes == {{"loop4"}, {"any4"}, {"any4", "any6"}, {"lan4"}}

Transports(key) ==
  IF key \in {"mixed-port", "socks-port", "tproxy-port"} THEN {"tcp", "udp"} ELSE {"tcp"}

Claim(x, number, t) == [address |-> x, port |-> number, transport |-> t]

\* proxy_claims; the redirecting listeners do not exist on Windows.
Configured(ports) ==
  {key \in Listeners : ports[key] # None
                       /\ ~(platform = "windows" /\ key \in {"redir-port", "tproxy-port"})}

ClaimsOf(key, ports) == {Claim(x, ports[key], t) : x \in scope, t \in Transports(key)}
Claims(ports) == UNION {ClaimsOf(key, ports) : key \in Configured(ports)}

\* claims_overlap
Overlap(c, d) ==
  /\ c.port = d.port /\ c.transport = d.transport
  /\ (c.address \in V4) = (d.address \in V4)
  /\ c.address = d.address \/ {c.address, d.address} \cap Unspecified # {}

InternalConflict(ports) ==
  \E j, k \in Configured(ports) :
    j # k /\ \E c \in ClaimsOf(j, ports), d \in ClaimsOf(k, ports) : Overlap(c, d)

\* A running Core frees its sockets when it restarts.
Probed ==
  {c \in Claims(candidate) : \A d \in Claims(current) : ~Overlap(d, c)}

-----------------------------------------------------------------------------
\* What the OS refuses a claim for (bind_socket): on macOS and Linux SO_REUSEADDR, on
\* Windows SO_EXCLUSIVEADDRUSE.  A socket that is not live is a closed connection of
\* another user's listener, which only macOS minds.
Refuses(s, c) ==
  /\ Overlap(s, c)
  /\ \/ c.transport = "udp"
     \/ platform = "linux"
     \/ s.address = c.address
     \/ platform = "windows" /\ c.address \in Unspecified

Taken == sockets \cup held
Refused(c) == \E s \in Taken : Refuses(s, c)

Socket(c, live, owner) ==
  [address |-> c.address, port |-> c.port, transport |-> c.transport, live |-> live,
   owner |-> owner]

AllClaims == {Claim(x, n, t) : x \in Addresses, n \in Numbers, t \in {"tcp", "udp"}}

Others ==
  {Socket(c, TRUE, "before") : c \in AllClaims}
  \cup (IF platform # "macos" THEN {}
        ELSE {Socket(c, FALSE, "before") :
                c \in {d \in AllClaims : d.transport = "tcp" /\ d.address \notin Unspecified}})

\* ProxyPortSettings: only the mixed port cannot be switched off.
PortSettings ==
  {ports \in [Listeners -> Numbers \cup {None}] : ports["mixed-port"] # None}

Init ==
  /\ platform \in Platforms
  /\ enumerated \in BOOLEAN /\ (platform = "macos" \/ enumerated)
  /\ scope \in Scopes
  /\ candidate \in PortSettings
  /\ current \in PortSettings \cup {[key \in Listeners |-> None]}
  /\ ~InternalConflict(current)
  /\ \E others \in {{}} \cup {{s} : s \in Others} :
       /\ \A s \in others, c \in Claims(current) : ~Refuses(s, c)
       /\ sockets = others \cup {Socket(c, TRUE, "core") : c \in Claims(current)}
  /\ todo = None
  /\ held = {}
  /\ outcome = None
  /\ events = 0

OtherOpens ==
  /\ todo # None /\ outcome = None /\ events < MaxEvents
  /\ \E c \in AllClaims :
       /\ ~Refused(c)
       /\ sockets' = sockets \cup {Socket(c, TRUE, "since")}
  /\ events' = events + 1
  /\ UNCHANGED <<platform, enumerated, scope, current, candidate, todo, held, outcome>>

OtherCloses ==
  /\ todo # None /\ outcome = None /\ events < MaxEvents
  /\ \E s \in sockets :
       /\ s.live /\ s.owner # "core"
       /\ \/ sockets' = sockets \ {s}
          \/ /\ platform = "macos" /\ s.transport = "tcp" /\ s.address \notin Unspecified
             /\ sockets' = (sockets \ {s}) \cup {[s EXCEPT !.live = FALSE]}
  /\ events' = events + 1
  /\ UNCHANGED <<platform, enumerated, scope, current, candidate, todo, held, outcome>>

-----------------------------------------------------------------------------
\* nothing_is_serving: only a refused connection shows that nobody serves the claim.
NothingIsServing(c) ==
  /\ c.transport = "tcp" /\ c.address \notin Unspecified
  /\ ~\E s \in sockets : s.live /\ Overlap(s, c)

\* bind_claim holds the overlapping addresses as well on macOS.
NoGuards(c) == {}

Guards(c) ==
  IF platform # "macos" \/ c.transport = "udp" THEN {}
  ELSE {Claim(x, c.port, "tcp") :
          x \in IF c.address = "any4" THEN {"loop4"} \cup (IF enumerated THEN {"lan4"} ELSE {})
                ELSE IF c.address = "any6" THEN {"loop6"}
                ELSE IF c.address \in V4 THEN {"any4"} ELSE {"any6"}}

\* windows_wildcard_tcp_listener_exists
Shadowed(c) ==
  /\ platform = "windows" /\ c.transport = "tcp" /\ c.address \notin Unspecified
  /\ \E s \in sockets : s.live /\ Overlap(s, c) /\ s.address \in Unspecified

\* The claims to hold for c, or None: bind_claim fails for a conflict.
Bound(c) ==
  LET free == {x \in Guards(c) : ~Refused(x)}
  IN  IF \E x \in Guards(c) \ free : ~NothingIsServing(x) THEN None
      ELSE IF free # Guards(c) THEN <<free>>
      ELSE IF Refused(c) \/ Shadowed(c) THEN None
      ELSE <<free \cup {c}>>

\* probe_proxy_port_change
Begin ==
  /\ todo = None
  /\ todo' = Probed
  /\ outcome' = IF InternalConflict(candidate) THEN "conflict" ELSE None
  /\ UNCHANGED <<platform, enumerated, scope, current, candidate, sockets, held, events>>

\* probe_claims
ProbeClaim ==
  /\ todo # None /\ outcome = None
  /\ \E c \in todo :
       /\ todo' = todo \ {c}
       /\ \/ /\ Bound(c) # None
             /\ held' = held \cup {Socket(x, TRUE, "probe") : x \in Bound(c)[1]}
             /\ UNCHANGED outcome
          \/ Bound(c) = None /\ NothingIsServing(c) /\ UNCHANGED <<held, outcome>>
          \/ Bound(c) = None /\ ~NothingIsServing(c) /\ outcome' = "conflict" /\ UNCHANGED held
  /\ UNCHANGED <<platform, enumerated, scope, current, candidate, sockets, events>>

Finish ==
  /\ todo = {} /\ outcome = None
  /\ outcome' = "available"
  /\ UNCHANGED <<platform, enumerated, scope, current, candidate, sockets, todo, held, events>>

Next == OtherOpens \/ OtherCloses \/ Begin \/ ProbeClaim \/ Finish

ProbeSpec == Init /\ [][Next]_probevars

-----------------------------------------------------------------------------
\* Ports that are said to be available are not served by a program that was there before,
\* in any overlapping form of the address, nor claimed twice; and a conflict that is told
\* has a cause, not only connections that have ended.  A macOS host whose interfaces
\* cannot be listed is excepted (probe_proxy_port_change, bind_claim, nothing_is_serving).
ProbeTellsTruth ==
  /\ outcome = "available" /\ enumerated =>
       /\ ~InternalConflict(candidate)
       /\ \A c \in Probed, s \in sockets : ~(s.live /\ s.owner = "before" /\ Overlap(s, c))
  /\ outcome = "conflict" =>
       \/ InternalConflict(candidate)
       \/ \E c \in Probed, s \in sockets : s.live /\ Overlap(s, c)
=============================================================================
