-------------------------- MODULE MCBrokerOperations --------------------------
\* One instance of each of the smaller components, checked in a single run: Init
\* chooses a part, that part's module takes its steps, and the others rest.
\* The parts share no state, so the states are those of the parts, added up.
EXTENDS BrokerParts, ToolProjection, TLC

CONSTANTS t1, t2, v1, v2   \* the threads of a remote upstream, the published bundles

VARIABLE part

Parts == {"http", "repair", "supervisor", "routing", "sharing", "rollout", "bypass",
          "projection", "layers", "loading", "clients", "import"}

-----------------------------------------------------------------------------
\* The instances

\* Threads are interchangeable, and so are bundles.  A state of one part names nothing
\* of the other, so a single exchange of both pairs will do.
Interchangeable ==
    {f \in Permutations({t1, t2, v1, v2}) :
        {f[t1], f[t2]} = {t1, t2} /\ (f[t1] = t2 <=> f[v1] = v2)}

\* Upstreams with a plain prefix, enabled or not, in one profile or both; with a
\* prefix that holds the separator, or is the facade's own; and a mutating one.  A
\* tool's name may hold the separator.
Exposed(prefixes, tools, enabled, mutating, profiles) ==
    [prefix : prefixes, tools : {tools}, enabled : enabled, mutating : {mutating},
     profiles : profiles]
GetTools == {<<"get">>, <<"x", "get">>}
MCUpstreams ==
    Exposed({<<"gh">>}, GetTools, BOOLEAN, FALSE, {{"p"}, {"q"}, {"p", "q"}})
    \cup Exposed({<<"gh", "x">>, <<"broker">>}, GetTools, {TRUE}, FALSE, {{"p"}})
    \cup Exposed({<<"gh">>}, {<<"get">>}, {TRUE}, TRUE, {{"p"}, {"q"}})

MCProfiles == <<"p", "q">>

\* Answers of a tool: objects and lists, nested up to three deep.
One == Scalar(1)
Inner ==
    {One, Dict([b |-> One, c |-> One]), Dict([c |-> One]),
     List(<<Dict([b |-> One]), Dict([b |-> Scalar(2), c |-> One])>>),
     List(<<One, Scalar(2), One>>), List(<<List(<<One, One>>), One>>),
     Dict([b |-> List(<<Dict([d |-> One]), One>>)])}
MCPayloads ==
    {One, List(<<One, Dict([a |-> One])>>)}
    \cup {Dict([a |-> x]) : x \in Inner}
    \cup {Dict([a |-> x, b |-> y]) : x \in Inner, y \in {One, List(<<One, One>>)}}
MCPaths ==
    {ps \in SUBSET {<<"a">>, <<"a", "b">>, <<"a", "c">>, <<"b">>, <<"a", "b", "d">>} :
        Cardinality(ps) <= 3}

\* Layer documents: a key that holds a scalar, a mapping, or a mapping of a mapping,
\* with or without a secret_ref beside the rest; and documents that leave it alone, one
\* with secret_ref as its only key, where it is a key like any other.  Beside a
\* secret_ref nothing is looked at: there one may hold a mapping.
Key(k) == <<"a", k>>
BelowB == [{} -> {"1"}]
          \cup {Key("b") :> v : v \in {"1", "2"}}
          \cup {Key("b") :> Mapping, (Key("b") :> Mapping) @@ (<<"a", "b", "e">> :> "1")}
BelowC == [{} -> {"1"}] \cup {Key("c") :> "1"}
Refs == [{} -> {"1"}] \cup {Key("secret_ref") :> v : v \in {"1", "2"}}
UnderA == {<<"a">> :> "1"}
          \cup {(<<"a">> :> Mapping) @@ b @@ c @@ r : b \in BelowB, c \in BelowC, r \in Refs}
Unchecked == (<<"a">> :> Mapping) @@ (Key("secret_ref") :> "1") @@ (Key("b") :> Mapping)
             @@ (<<"a", "b", "secret_ref">> :> Mapping) @@ (<<"a", "b", "secret_ref", "e">> :> "1")
Others == {<<"d">> :> "2", <<"secret_ref">> :> "1", Unchecked}
MCDocuments == {(Root :> Mapping) @@ tree : tree \in UnderA \cup Others}

\* A client with a further file to back up, which a render may also name and whose
\* base name is that of its configuration.
MCBackupPaths == <<"other">>
MCCaches == <<"directory", "tools">>
MCBaseName == [f \in {"main", "other", "directory", "tools"} |->
                  IF f = "other" THEN "main" ELSE f]

\* A project with a .mcp.json file, and two that Claude's configuration lists.
MCEntries == <<"file", "claude1", "claude2">>
MCPathOf == [e \in {"file", "claude1", "claude2"} |-> IF e = "file" THEN "mcp" ELSE "claude"]
MCConvertible == {<<"file", "a">>, <<"claude1", "a">>, <<"file", "b">>, <<"claude1", "b">>,
                  <<"claude2", "b">>}

-----------------------------------------------------------------------------
\* The sum

\* A part that rests has one initial state, some admissible one.
RestingRepair ==
    /\ options = [serialize |-> TRUE, retry |-> FALSE]
    /\ RepairInit

RestingRouting ==
    /\ config = [upstreams |-> <<CHOOSE u \in Upstreams : u.enabled /\ ~u.mutating>>,
                 allow |-> {}, compact |-> FALSE,
                 max_tools |-> CHOOSE n \in Budgets : TRUE, dotted |-> FALSE]
    /\ profile = NoProfile
    /\ told = {}
    /\ contacted = {}
    /\ answer = [code |-> "none", upstream |-> 0]

RestingSharing ==
    /\ call = [stateless |-> TRUE, shared_worker |-> TRUE, shared_mode |-> TRUE,
               mutating |-> FALSE, local_state |-> FALSE, tenant |-> "absent",
               team |-> "absent", has_snapshot |-> FALSE, tool |-> "known",
               name |-> "dotted", quota |-> <<>>]
    /\ outcome = Resting

RestingProjection ==
    /\ received = CHOOSE form \in AnswerForms : TRUE
    /\ asked = [paths |-> {}, cap |-> NoCap]
    /\ seen = NoNote

RestingClients ==
    /\ strict = TRUE
    /\ ClientInit

RestingImport ==
    /\ declares = [e \in EntryNames |-> {}]
    /\ brokerConfig = [covers |-> {}, loads |-> TRUE, key |-> "alone"]
    /\ ImportInit

OperationsInit ==
    /\ part \in Parts
    /\ IF part = "repair" THEN RepairInit ELSE RestingRepair
    /\ IF part = "routing" THEN RoutingInit ELSE RestingRouting
    /\ IF part = "sharing" THEN SharingInit ELSE RestingSharing
    /\ IF part = "projection" THEN ProjectionInit ELSE RestingProjection
    /\ IF part = "clients" THEN ClientInit ELSE RestingClients
    /\ IF part = "import" THEN ImportInit ELSE RestingImport
    /\ HttpInit /\ SupervisorInit /\ RolloutInit /\ BypassInit /\ LayersInit /\ LoadInit

\* The chosen part takes a step.
OperationsNext ==
    /\ UNCHANGED part
    /\ IF part = "http" THEN HttpNext ELSE UNCHANGED httpVars
    /\ IF part = "repair" THEN RepairNext ELSE UNCHANGED repairVars
    /\ IF part = "supervisor" THEN SupervisorNext ELSE UNCHANGED supervisorVars
    /\ IF part = "routing" THEN RoutingNext ELSE UNCHANGED routingVars
    /\ IF part = "sharing" THEN SharingNext ELSE UNCHANGED sharingVars
    /\ IF part = "rollout" THEN RolloutNext ELSE UNCHANGED rolloutVars
    /\ IF part = "bypass" THEN BypassNext ELSE UNCHANGED bypassVars
    /\ IF part = "projection" THEN ApplyProjection ELSE UNCHANGED projectionVars
    /\ IF part = "layers" THEN LayersNext ELSE UNCHANGED layerVars
    /\ IF part = "loading" THEN LoadNext ELSE UNCHANGED loadVars
    /\ IF part = "clients" THEN ClientNext ELSE UNCHANGED clientVars
    /\ IF part = "import" THEN ImportNext ELSE UNCHANGED importVars

operationsVars == <<part, httpVars, repairVars, supervisorVars, routingVars, sharingVars,
                    rolloutVars, bypassVars, projectionVars, layerVars, loadVars,
                    clientVars, importVars>>

OperationsSpec == OperationsInit /\ [][OperationsNext]_operationsVars

=============================================================================
