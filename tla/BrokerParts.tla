----------------------------- MODULE BrokerParts -----------------------------
\* What the smaller parts of the broker promise together.  The parts share no state:
\* a behaviour of the broker is one of each of their specifications.
EXTENDS HttpUpstream, AuthRepair, UpstreamSupervisor, ToolRouting, SharedRouting,
        RolloutControl, BreakGlass, ClientConfigs, ProjectImport, ConfigLayers, ConfigLoading

\* A remote tool call is only sent under a completed handshake (unless two of them
\* overlap on the client) and executed at most once per post (upstream_http.py); a
\* call repairs its upstream's authentication at most once, and is counted
\* (daemon_upstreams.py); a process is restarted within its circuit and back-off, and
\* what is said of it agrees with what it is (upstream_process.py).
RetriesSafe == CallsFollowHandshake /\ ExecutionsBounded /\ RepairsSafe /\ SupervisorSafe

\* The names given out lead where they were listed, no request reaches an upstream
\* its profile may not, and what the shared worker runs is within quota (broker.py,
\* catalog.py, hybrid_router.py).
ToolCallsRouted == ListedIsCallable /\ ContactAllowed /\ SharingSafe

\* What the rollout and the break-glass commands leave on disk agrees with what they
\* decided, and every write is accounted for; nothing in a client's or a project's file
\* is lost to a command that rewrites it (governance_*.py, break_glass.py,
\* config_render.py, codex_app_policy.py, project_mcp.py).
RecordsSafe == RolloutSafe /\ BypassAccounted /\ ClientFilesKept /\ ImportAccounted

\* An accepted configuration can be used as it stands, and the layers one is composed of
\* are accounted for (config.py, config_layers.py).
ConfigSafe == AcceptedIsUsable /\ LayersAccounted
=============================================================================
