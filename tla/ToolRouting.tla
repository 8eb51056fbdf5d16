---------------------------- MODULE ToolRouting ----------------------------
(***************************************************************************)
(* Which upstream a tool name leads to: the names tools/list and the       *)
(* broker.search_tools facade give out, the tool broker.describe_tool      *)
(* shows under a name, and the upstream a call of the name reaches         *)
(* (broker.py, tool_namespace.py, catalog.py, daemon.py,                   *)
(* daemon_tool_calls.py), for every loadable configuration (config.py).    *)
(* A name is the sequence of its parts between namespace separators.       *)
(***************************************************************************)
EXTENDS Naturals, SequencesExt

CONSTANTS
  Upstreams,      \* the upstreams a configuration may list, as records
  MaxUpstreams,   \* bound: upstreams in a configuration
  ProfileNames,   \* names of the profiles, in sorted order
  NoProfile,
  Budgets         \* values of max_tools

\* A part may be empty, but nothing gives out a tool whose name is.
NoName == <<"">>

ASSUME RoutingAssumption ==
  /\ Upstreams \subseteq [prefix : Seq(STRING) \ {<<>>},
                          tools : SUBSET (Seq(STRING) \ {<<>>, NoName}), enabled : BOOLEAN,
                          mutating : BOOLEAN, profiles : SUBSET Range(ProfileNames)]
  /\ MaxUpstreams \in Nat /\ Budgets \subseteq Nat
  /\ NoProfile \notin Range(ProfileNames)

VARIABLES
  config,      \* the broker configuration
  profile,     \* the effective profile of the session
  told,        \* what the client was last told: pairs of a name and the upstream listing it
  contacted,   \* upstreams the last request reached
  answer       \* how the last request ended, and for which upstream

routingVars == <<config, profile, told, contacted, answer>>

\* A position in the configuration stands for the upstream's name.
Names(c) == DOMAIN c.upstreams

------------------------------------------------------------------------------
(* Loading: what BrokerConfig.__post_init__ lets through.                  *)

UniquePrefixes(c) ==
  \A i, j \in Names(c) :
    /\ i # j /\ c.upstreams[i].enabled /\ c.upstreams[j].enabled
    /\ c.upstreams[i].prefix = c.upstreams[j].prefix
    => c.upstreams[i].profiles \cap c.upstreams[j].profiles = {}

MutatingAllowed(c) ==
  \A i \in Names(c) :
    LET u == c.upstreams[i] IN u.enabled /\ u.mutating /\ u.profiles # {} => i \in c.allow

Loadable(c) == UniquePrefixes(c) /\ MutatingAllowed(c)

\* select_profile_for_cwd: the first profile, by name, whose root holds the
\* client's directory; else the requested one.
SelectProfile(requested, matching) ==
  LET routed == SelectSeq(ProfileNames, LAMBDA p : p \in matching) IN
  IF routed = <<>> THEN requested ELSE Head(routed)

RoutingInit ==
  \* The profiles' allowlists are taken to be alike.
  /\ \E us \in UNION {[1 .. n -> Upstreams] : n \in 1 .. MaxUpstreams} :
       /\ config \in [upstreams : {us}, allow : SUBSET DOMAIN us,
                      compact : BOOLEAN, max_tools : Budgets, dotted : BOOLEAN]
       /\ Loadable(config)
  /\ \E requested \in Range(ProfileNames) \cup {NoProfile}, matching \in SUBSET Range(ProfileNames) :
       profile = SelectProfile(requested, matching)
  /\ told = {}
  /\ contacted = {}
  /\ answer = [code |-> "none", upstream |-> 0]

------------------------------------------------------------------------------
(* Who may be reached, and under which names.                              *)

Enabled(i) == config.upstreams[i].enabled

InProfile(i) == profile = NoProfile \/ profile \in config.upstreams[i].profiles

MayMutate(i) ==
  config.upstreams[i].mutating /\ profile # NoProfile => i \in config.allow

Prefix(i) == config.upstreams[i].prefix

ToolNames(i) == {Prefix(i) \o tool : tool \in config.upstreams[i].tools}

Entries(is) == UNION {ToolNames(i) \X {i} : i \in is}

\* upstream_owns_tool_name
Owns(i, name) == IsStrictPrefix(Prefix(i), name)

CompactTools == profile # NoProfile /\ config.compact

------------------------------------------------------------------------------
(* tools/list                                                              *)

Visible == {i \in Names(config) : Enabled(i) /\ InProfile(i)}

\* The listing goes through the upstreams in order and ends at the first one that
\* is down or may not be exposed.
Blocking(up) == {i \in Visible : ~MayMutate(i) \/ i \notin up}

\* advertise_all_tools refuses a prefix or a name given out twice, and too many.
Advertised(is) ==
  /\ \A i, j \in is : i # j => Prefix(i) # Prefix(j) /\ ToolNames(i) \cap ToolNames(j) = {}
  /\ profile # NoProfile => Cardinality(Entries(is)) <= config.max_tools

Answers(code, upstream) == answer' = [code |-> code, upstream |-> upstream]

ListTools ==
  /\ UNCHANGED <<config, profile>>
  /\ IF CompactTools THEN Answers("compact", 0) /\ contacted' = {} /\ UNCHANGED told
     ELSE \E up \in SUBSET Visible :
            LET last == Min(Blocking(up)) IN
            IF Blocking(up) # {}
            THEN /\ contacted' = {i \in Visible : i < last \/ (i = last /\ MayMutate(i))}
                 /\ Answers("error", 0) /\ UNCHANGED told
            ELSE /\ contacted' = Visible
                 /\ IF Advertised(Visible)
                    THEN Answers("listed", 0) /\ told' = Entries(Visible)
                    ELSE Answers("error", 0) /\ UNCHANGED told

------------------------------------------------------------------------------
(* The catalog facade.                                                     *)

CatalogIgnoresProfile == {i \in Names(config) : Enabled(i) /\ MayMutate(i)}

\* _catalog_upstreams without a query.
Catalog == {i \in Names(config) : Enabled(i) /\ InProfile(i) /\ MayMutate(i)}

\* A tool name selects the upstreams that own it, a specific query those whose
\* metadata matches; either selects them all when it selects none.
Selected(is) == IF is = {} THEN Catalog ELSE is

\* An upstream that cannot list is skipped; which of the other entries score above
\* zero is up to the query, and one of them stands for the result.
SearchTools ==
  /\ \E matching \in SUBSET Catalog, up \in SUBSET Catalog :
       /\ contacted' = Selected(matching)
       /\ told' \in {{}} \cup {{entry} : entry \in Entries(Selected(matching) \cap up)}
  /\ Answers("matches", 0)
  /\ UNCHANGED <<config, profile>>

Asked(name) == Selected({i \in Catalog : Owns(i, name)})

Described(name, up) == {i \in up : name \in ToolNames(i)}

DescribeTool(name) ==
  /\ \E up \in SUBSET Asked(name) :
       IF Described(name, up) = {} THEN Answers("not_found", 0)
       ELSE Answers("described", Min(Described(name, up)))
  /\ contacted' = Asked(name)
  /\ UNCHANGED <<config, profile, told>>

\* _status_exposes_upstream decides which health is shown and which exited
\* upstreams a status request restarts.
Status ==
  /\ contacted' = Catalog
  /\ Answers("status", 0)
  /\ UNCHANGED <<config, profile, told>>

------------------------------------------------------------------------------
(* tools/call and broker.call_tool.                                        *)

\* The first upstream in the configuration's order with the prefix.
FirstWith(prefix) == {i \in Names(config) : Prefix(i) = prefix /\ \A j \in 1 .. i - 1 : Prefix(j) # prefix}

AllowedRoute(i) ==
  CASE ~Enabled(i) -> "disabled_prefix"
    [] Enabled(i) /\ ~InProfile(i) -> "profile_denied"
    [] Enabled(i) /\ InProfile(i) /\ ~MayMutate(i) -> "mutating_not_allowed"
    [] OTHER -> "routed"

RouteAtLastSeparator(name) ==
  IF Len(name) < 2 THEN [code |-> "invalid_tool_name", upstream |-> 0]
  ELSE LET owner == FirstWith(Front(name)) IN
       IF owner = {} THEN [code |-> "unknown_tool_prefix", upstream |-> 0]
       ELSE LET i == CHOOSE i \in owner : TRUE IN [code |-> AllowedRoute(i), upstream |-> i]

\* _resolve_call_route: the part before the first separator is the prefix.
Route(name) ==
  IF Len(name) < 2 THEN [code |-> "invalid_tool_name", upstream |-> 0]
  ELSE LET owner == FirstWith(<<Head(name)>>) IN
       IF owner = {} THEN [code |-> "unknown_tool_prefix", upstream |-> 0]
       ELSE LET i == CHOOSE i \in owner : TRUE IN [code |-> AllowedRoute(i), upstream |-> i]

Reached(route) == IF route.code = "routed" THEN {route.upstream} ELSE {}

\* A direct call of a name that starts with "broker." is for the facade.
ForFacade(name) == config.dotted /\ Head(name) = "broker"

DirectRoute(name) ==
  IF ForFacade(name) THEN [code |-> "unknown_broker_tool", upstream |-> 0] ELSE Route(name)

CallTool(name) ==
  /\ answer' = DirectRoute(name)
  /\ contacted' = Reached(DirectRoute(name))
  /\ UNCHANGED <<config, profile, told>>

CallManagedTool(name) ==
  /\ answer' = Route(name)
  /\ contacted' = Reached(Route(name))
  /\ UNCHANGED <<config, profile, told>>

\* A client may ask for any tool there is, exposed to it or not.
RoutingNext ==
  \/ ListTools \/ SearchTools \/ Status
  \/ \E i \in Names(config) : \E name \in ToolNames(i) :
       DescribeTool(name) \/ CallTool(name) \/ CallManagedTool(name)

RoutingSpec == RoutingInit /\ [][RoutingNext]_routingVars

------------------------------------------------------------------------------
(* Properties.                                                             *)

\* What the source resolves otherwise than it lists: an upstream earlier in the
\* configuration has the same prefix (though disabled or of another profile), or
\* the prefix holds the separator, or it is the facade's own.
Shadowed(i) ==
  \/ Len(Prefix(i)) # 1
  \/ \E j \in 1 .. i - 1 : Prefix(j) = Prefix(i)
  \/ config.dotted /\ Head(Prefix(i)) = "broker"

LeadsTo(name, i) == DirectRoute(name) = [code |-> "routed", upstream |-> i]

\* Every name tools/list or broker.search_tools gave out leads to the upstream that
\* listed it, directly and through broker.call_tool, and broker.describe_tool asks
\* that upstream for it and no other unshadowed one, unless its prefix is shadowed.
ListedIsCallable ==
  \A entry \in told :
    ~Shadowed(entry[2]) =>
      /\ LeadsTo(entry[1], entry[2]) /\ Route(entry[1]) = DirectRoute(entry[1])
      /\ {i \in Described(entry[1], Asked(entry[1])) : ~Shadowed(i)} = {entry[2]}

\* No request of a profile reaches an upstream that is disabled, not exposed to the
\* profile, or mutating and not on its allowlist: not by listing, searching or
\* describing, not by a call under any name, not by a status that restarts it.
ContactAllowed ==
  \A i \in contacted :
    /\ config.upstreams[i].enabled
    /\ profile # NoProfile =>
         /\ profile \in config.upstreams[i].profiles
         /\ config.upstreams[i].mutating => i \in config.allow
=============================================================================
