-------------------------------- MODULE Enhance --------------------------------
(***************************************************************************)
(* The pipeline that makes a Runtime configuration (enhance): the profile, *)
(* its sequence edits, the application's own settings, the built-in        *)
(* scripts, TUN, the DNS page, the user's merges and scripts, and what the *)
(* application takes back after them.  A configuration is a function of    *)
(* its fields ("user" is any value a profile, a merge or a script gives),  *)
(* and beside it the names its proxy groups refer to.  A behaviour looks   *)
(* at the fields of one scope; a merge or a script touches one of them, or *)
(* drops them all.                                                         *)
(***************************************************************************)
EXTENDS FiniteSets

CONSTANTS
  None,
  Names, Providers, Groups   \* proxies, proxy providers and proxy groups

VARIABLES
  stage,            \* the next step of enhance
  scope,            \* the fields this behaviour looks at
  on,               \* switches of the settings (ConfigValues), a saved stack included
  page,             \* dns_config.yaml
  config,           \* [fields of the scope -> value or None]
  owned,            \* AuthoritativeFields: [some fields -> value]
  graph             \* names, providers and groups of the configuration

evars == <<stage, scope, on, page, config, owned, graph>>

Fields == [ports |-> {"port", "external-controller", "mode"},
           lan |-> {"allow-lan", "bind-address"},
           tun |-> {"tun.enable", "tun.stack", "dns.enable", "dns.enhanced-mode"},
           dns |-> {"dns.enable", "dns.nameserver", "hosts"},
           groups |-> {}]

Switches == [ports |-> {"http", "controller", "script mode", "builtin"},
             lan |-> {"lan"},
             tun |-> {"tun", "stack", "page"},
             dns |-> {"tun", "page"},
             groups |-> {}]

Control == {"port", "external-controller", "mode", "allow-lan"}
Paged == {"dns.enable", "dns.enhanced-mode", "dns.nameserver", "hosts"}

\* What a profile, a merge or a script may write into a field.
Values(f) ==
  IF f \in {"allow-lan", "tun.enable", "dns.enable"} THEN {"on", "off"}
  ELSE IF f = "bind-address" THEN {"loopback", "other"}
  ELSE IF f = "dns.enhanced-mode" THEN {"fake-ip", "redir-host"}
  ELSE {"user"}

Switched(s) == IF s \in on THEN "on" ELSE "off"
Over(f, g) == [x \in DOMAIN f |-> IF x \in DOMAIN g THEN g[x] ELSE f[x]]
Only(f, S) == [x \in DOMAIN f \cap S |-> f[x]]

Configs(fields) == {c \in [fields -> UNION {Values(f) : f \in fields} \cup {None}] :
                      \A f \in fields : c[f] \in Values(f) \cup {None}}

Graphs == [names : SUBSET Names, providers : SUBSET Providers,
           refs : [Groups -> SUBSET (Names \cup {"DIRECT"})], uses : [Groups -> SUBSET Providers]]
NoGraph == [names |-> {}, providers |-> {}, refs |-> [g \in Groups |-> {}], uses |-> [g \in Groups |-> {}]]

Init ==
  /\ stage = "seq"
  /\ scope \in DOMAIN Fields
  /\ on \in SUBSET Switches[scope]
  /\ page \in Configs(Fields[scope] \cap Paged)
  /\ "page" \notin on => \A f \in DOMAIN page : page[f] = None
  /\ config \in Configs(Fields[scope])
  /\ owned = [f \in {} |-> None]
  /\ IF scope = "groups" THEN graph \in Graphs ELSE graph = NoGraph

Step(from, to) == stage = from /\ stage' = to /\ UNCHANGED <<scope, on, page>>

-----------------------------------------------------------------------------
(* Sequence edits (process_seq_items, use_seq) *)

\* The proxies a profile adds go to its first selector group as well, those it deletes
\* leave every group.  The additions are not filtered by the deletions.
UseSeq ==
  /\ Step("seq", "default")
  /\ IF scope # "groups" THEN UNCHANGED graph
     ELSE \E added, deleted \in SUBSET Names, selector \in Groups \cup {None} :
            graph' = [graph EXCEPT
                        !.names = (@ \ deleted) \cup added,
                        !.refs = [g \in Groups |-> (@[g] \ deleted) \cup IF g = selector THEN added ELSE {}]]
  /\ UNCHANGED <<config, owned>>

-----------------------------------------------------------------------------
(* What the application sets *)

\* The Clash settings hold each control key; a disabled port is removed.
AppValue(f) ==
  CASE f = "port" -> IF "http" \in on THEN "app" ELSE None
    [] f = "external-controller" -> IF "controller" \in on THEN "app" ELSE "blank"
    [] f = "mode" -> IF "script mode" \in on THEN "script" ELSE "app"
    [] f = "allow-lan" -> Switched("lan")
    [] f = "tun.stack" -> "app"

GuiTun == IF "stack" \in on THEN {"tun.stack"} ELSE {}

MergeDefault ==
  /\ Step("default", "builtin")
  /\ config' = Over(config, [f \in Control \cup GuiTun |-> AppValue(f)])
  /\ UNCHANGED <<owned, graph>>

\* meta_guard: the Core has no mode "script".
Guarded(value) == IF value = "script" THEN "rule" ELSE value

BuiltinScripts ==
  /\ Step("builtin", "tun")
  /\ config' = IF "builtin" \in on /\ scope = "ports" THEN [config EXCEPT !["mode"] = Guarded(@)]
               ELSE config
  /\ UNCHANGED <<owned, graph>>

\* use_tun: TUN needs the fake-ip DNS unless the profile has chosen another mode.
FakeIp == "dns.enhanced-mode" \notin DOMAIN config \/ config["dns.enhanced-mode"] \in {None, "fake-ip"}

FakeIpDns == [f \in {"dns.enable", "dns.enhanced-mode"} |-> IF f = "dns.enable" THEN "on" ELSE "fake-ip"]

UseTun ==
  /\ Step("tun", "page")
  /\ config' = LET switched == Over(config, [f \in {"tun.enable"} |-> Switched("tun")])
               IN IF "tun" \in on /\ FakeIp THEN Over(switched, FakeIpDns) ELSE switched
  /\ UNCHANGED <<owned, graph>>

\* is_set: what is off or empty on the page leaves the profile its value.
Applied == Only(page, {f \in DOMAIN page : page[f] \notin {None, "off"}})

DnsSettings ==
  /\ Step("page", "capture")
  /\ config' = Over(config, Applied)
  /\ UNCHANGED <<owned, graph>>

-----------------------------------------------------------------------------
(* What the user overrides, and what the application takes back *)

Present(c, S) == Only(c, {f \in DOMAIN c \cap S : c[f] # None})

Captured == Over(Present(config, Control \cup {"tun.enable"} \cup GuiTun \cup DOMAIN Applied), Applied)

\* Mutation of Capture: what the DNS page has set is left to the overrides.
CaptureForgetsPage ==
  /\ Step("capture", "global merge")
  /\ owned' = Present(config, Control \cup {"tun.enable"} \cup GuiTun)
  /\ UNCHANGED <<config, graph>>

Capture ==
  /\ Step("capture", "global merge")
  /\ owned' = Captured
  /\ UNCHANGED <<config, graph>>

Rewrites == IF scope = "groups" THEN graph' \in Graphs ELSE UNCHANGED graph

\* use_merge: it sets fields; a section it replaces by something else has none left.
Merge(from, to) ==
  /\ Step(from, to)
  /\ \/ UNCHANGED config
     \/ \E f \in DOMAIN config : \E v \in Values(f) : config' = [config EXCEPT ![f] = v]
     \/ config' = [f \in DOMAIN config |-> IF f \in {"tun.enable", "tun.stack"} THEN None ELSE config[f]]
  /\ Rewrites
  /\ UNCHANGED owned

\* use_script: one that fails, or times out, changes nothing; what it returns replaces all.
Script(from, to) ==
  /\ Step(from, to)
  /\ \/ UNCHANGED config
     \/ \E f \in DOMAIN config : \E v \in Values(f) \cup {None} : config' = [config EXCEPT ![f] = v]
     \/ config' = [f \in DOMAIN config |-> None]
  /\ Rewrites
  /\ UNCHANGED owned

\* Mutation of Enforce: a key the application left out is not removed.
EnforceKeepsKeys ==
  /\ Step("enforce", "lan")
  /\ config' = Over(config, owned)
  /\ UNCHANGED <<owned, graph>>

Enforce ==
  /\ Step("enforce", "lan")
  /\ config' = [f \in DOMAIN config |-> IF f \in DOMAIN owned THEN owned[f]
                                        ELSE IF f \in Control THEN None ELSE config[f]]
  /\ UNCHANGED <<owned, graph>>

LanBindAddress ==
  /\ Step("lan", "groups")
  /\ config' = IF scope = "lan" /\ config["allow-lan"] = "on" /\ config["bind-address"] = "loopback"
               THEN [config EXCEPT !["bind-address"] = "any"] ELSE config
  /\ UNCHANGED <<owned, graph>>

Allowed == graph.names \cup graph.providers \cup Groups \cup {"DIRECT"}

\* Mutation of CleanGroups: a group with a provider keeps its providers as they are.
CleanKeepsProviders ==
  /\ Step("groups", "done")
  /\ graph' = [graph EXCEPT !.refs = [g \in Groups |-> IF graph.uses[g] # {} THEN @[g] ELSE @[g] \cap Allowed]]
  /\ UNCHANGED <<config, owned>>

\* cleanup_proxy_groups; a group with a provider may name what the provider brings.
CleanGroups ==
  /\ Step("groups", "done")
  /\ graph' = [graph EXCEPT
                 !.uses = [g \in Groups |-> @[g] \cap graph.providers],
                 !.refs = [g \in Groups |-> IF graph.uses[g] \cap graph.providers # {} THEN @[g]
                                            ELSE @[g] \cap Allowed]]
  /\ UNCHANGED <<config, owned>>

-----------------------------------------------------------------------------
Next ==
  \/ UseSeq \/ MergeDefault \/ BuiltinScripts \/ UseTun \/ DnsSettings \/ Capture
  \/ Merge("global merge", "global script") \/ Script("global script", "merge")
  \/ Merge("merge", "script") \/ Script("script", "enforce")
  \/ Enforce \/ LanBindAddress \/ CleanGroups

EnhanceSpec == Init /\ [][Next]_evars

-----------------------------------------------------------------------------
Holds(f, v) == f \in DOMAIN config => config[f] = v

\* Whatever the profile, two merges and two scripts do, the configuration the Core gets
\* has the application's ports, controller, mode and LAN switch, the TUN switch and a
\* saved stack, what the DNS page has set, and no loopback address for an open LAN
\* (AuthoritativeFields, ensure_lan_bind_address).
OwnedFieldsStand ==
  stage = "done" =>
    /\ \A f \in (Control \ {"mode"}) \cup GuiTun : Holds(f, AppValue(f))
    /\ Holds("mode", IF "builtin" \in on THEN Guarded(AppValue("mode")) ELSE AppValue("mode"))
    /\ Holds("tun.enable", Switched("tun"))
    /\ \A f \in DOMAIN page : page[f] \notin {None, "off"} => Holds(f, page[f])
    /\ scope = "lan" /\ "lan" \in on => config["bind-address"] # "loopback"

\* No group names a proxy or a provider that is not there, unless a provider that is
\* there may bring it (cleanup_proxy_groups).
NothingDangles ==
  stage = "done" =>
    \A g \in Groups :
      /\ graph.uses[g] \subseteq graph.providers
      /\ graph.uses[g] = {} => graph.refs[g] \subseteq Allowed
=============================================================================
