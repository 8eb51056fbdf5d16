----------------------------- MODULE ConfigLoading -----------------------------
\* Loading one upstream's configuration and using what was loaded.  The loader reads
\* the sections in the order of UpstreamConfig.from_mapping and refuses the whole
\* file at the first one that is wrong; an accepted configuration is used later, with
\* the environment, the secret files and the session the broker then has.
EXTENDS Integers, FiniteSets

CONSTANTS EnvTargets,   \* environment variables an upstream's process may be given
          TimedTools,
          Numbers       \* values a policy field may hold in the file

Modes == {"shared", "per_session", "per_call", "disabled"}
Transports == {"stdio", "http", "sse"}
Isolated == {"per_session", "per_call"}
MaxCallTimeout == 300

VARIABLES section,   \* the next section to read; "accepted" or "refused" at the end
          loaded,    \* the fields read so far
          use        \* what became of the last use of the loaded configuration

loadVars == <<section, loaded, use>>

NotUsed == [env |-> {}, meta |-> {}, cwd |-> FALSE, outcome |-> "none"]

LoadInit ==
    /\ section = "environment"
    /\ loaded = [env |-> {}, envFiles |-> {}, mode |-> "shared", transport |-> "stdio",
                 sessionEnv |-> FALSE, forwards |-> FALSE, relay |-> FALSE, meta |-> {},
                 callTimeout |-> 60, toolTimeout |-> [t \in {} |-> 0],
                 repairs |-> FALSE]
    /\ use = NotUsed

\* A section is read, or refuses the configuration.
Reads(this, next, valid, fields) ==
    /\ section = this
    /\ \/ valid /\ section' = next /\ loaded' = fields
       \/ ~valid /\ section' = "refused" /\ UNCHANGED loaded
    /\ UNCHANGED use

\* _parse_upstream_environment: a target has one source.  Names and file paths that
\* are not well formed refuse too, and leave nothing to tell apart.
EnvironmentValid(env, files) == env \cap files = {}

ReadEnvironment ==
    \E env, files \in SUBSET EnvTargets :
        Reads("environment", "modes", EnvironmentValid(env, files),
              [loaded EXCEPT !.env = env, !.envFiles = files])

\* parse_mode, parse_transport, validate_upstream_transport_mode
TransportFits(mode, transport) ==
    /\ mode \in Modes
    /\ transport \in Transports
    /\ mode = "per_call" => transport = "stdio"

ReadModes ==
    \E mode \in Modes \cup {"unknown"}, transport \in Transports \cup {"unknown"} :
        Reads("modes", "session", TransportFits(mode, transport),
              [loaded EXCEPT !.mode = mode, !.transport = transport])

\* _parse_session_env, validate_upstream_session_mode: client_cwd is the one source.
ReadSessionEnv ==
    \E wanted \in BOOLEAN :
        Reads("session", "forwarding", wanted => loaded.mode \in Isolated,
              [loaded EXCEPT !.sessionEnv = wanted])

\* forward_request_meta and parse_relay_elicitation
ReadForwarding ==
    \E forwards, relay \in BOOLEAN :
        Reads("forwarding", "requestMeta",
              /\ forwards => loaded.transport = "stdio"
              /\ relay => loaded.transport = "stdio" /\ loaded.mode \in Isolated,
              [loaded EXCEPT !.forwards = forwards, !.relay = relay])

\* parse_request_meta: every source is a target of env or env_files.
MetaSourcesUnchecked(sources) == sources \subseteq EnvTargets
MetaSourcesValid(sources) == sources \subseteq loaded.env \cup loaded.envFiles

ReadRequestMeta ==
    \E sources \in SUBSET EnvTargets :
        Reads("requestMeta", "policies", MetaSourcesValid(sources),
              [loaded EXCEPT !.meta = sources])

\* HealthPolicy and parse_tool_timeouts: the call timeout is bounded on both sides, a
\* tool's own timeout only has to be positive.  The numbers of RestartPolicy and
\* ResourcePolicy are in their ranges or refuse the configuration.
TimeoutsValid(call, own, tools) ==
    /\ call \in 1..MaxCallTimeout
    /\ tools # {} => own > 0

ReadPolicies ==
    \E call, own \in Numbers, tools \in SUBSET TimedTools, othersValid \in BOOLEAN :
        Reads("policies", "auth", TimeoutsValid(call, own, tools) /\ othersValid,
              [loaded EXCEPT !.callTimeout = call, !.toolTimeout = [t \in tools |-> own]])

\* AuthRepairPolicy: absent, or with a tool, at least one trigger and a positive timeout
ReadAuthPolicies ==
    \E repairs, complete, probeValid \in BOOLEAN :
        Reads("auth", "accepted", (repairs => complete) /\ probeValid,
              [loaded EXCEPT !.repairs = repairs])

-----------------------------------------------------------------------------
\* Use.  present: the host environment and the non-empty secret files that exist.

\* resolve_environment
Resolved(present) == (loaded.env \cup loaded.envFiles) \cap present

Missing(present) == (loaded.env \cup loaded.envFiles) \ present

\* A process is started: resolve_environment and, for a session, its own variables
StartWith(present, hasCwd) ==
    /\ section = "accepted"
    /\ use' = [NotUsed EXCEPT !.outcome =
                  IF Missing(present) # {} \/ (loaded.sessionEnv /\ ~hasCwd)
                  THEN "missing" ELSE "started",
                !.env = Resolved(present),
                !.cwd = loaded.sessionEnv /\ hasCwd]
    /\ UNCHANGED <<section, loaded>>

\* resolve_request_meta: without any field the environment is not looked at.
ResolveRequestMeta(present) ==
    /\ section = "accepted"
    /\ use' = [NotUsed EXCEPT
                !.outcome = IF loaded.meta = {} THEN "sent"
                            ELSE IF Missing(present) # {} THEN "missing"
                            ELSE IF loaded.meta \subseteq Resolved(present) THEN "sent"
                            ELSE "KeyError",
                !.meta = loaded.meta \cap Resolved(present)]
    /\ UNCHANGED <<section, loaded>>

LoadNext ==
    \/ ReadEnvironment \/ ReadModes \/ ReadSessionEnv \/ ReadForwarding
    \/ ReadRequestMeta \/ ReadPolicies \/ ReadAuthPolicies
    \/ \E present \in SUBSET EnvTargets :
          \/ ResolveRequestMeta(present)
          \/ \E hasCwd \in BOOLEAN : StartWith(present, hasCwd)

LoadSpec == LoadInit /\ [][LoadNext]_loadVars

\* call_timeout_for_tool
TimeoutFor(tool) == IF tool \in DOMAIN loaded.toolTimeout THEN loaded.toolTimeout[tool]
                    ELSE loaded.callTimeout

-----------------------------------------------------------------------------
\* Property

\* What the loader accepted can be used as it stands: a use fails only by naming what
\* the host lacks, request metadata is complete when it is sent, a process gets all its
\* variables or does not start, no client shared between sessions gets a session's
\* directory or relays questions, and every tool has a time limit.
AcceptedIsUsable ==
    section = "accepted" =>
        /\ use.outcome # "KeyError"
        /\ use.outcome = "sent" => use.meta = loaded.meta
        /\ use.outcome = "started" => use.env = loaded.env \cup loaded.envFiles
        /\ use.cwd \/ loaded.relay => loaded.mode \in Isolated
        /\ loaded.relay \/ loaded.forwards \/ loaded.mode = "per_call" => loaded.transport = "stdio"
        /\ loaded.env \cap loaded.envFiles = {}
        /\ \A tool \in TimedTools : TimeoutFor(tool) > 0
=============================================================================
