---------------------------- MODULE HttpUpstream ----------------------------
(***************************************************************************)
(* One remote upstream as the daemon's connection threads use it           *)
(* (upstream_http.py, daemon_upstreams.py): the client object they share   *)
(* without a lock, its handshake, its session id and its retries, against  *)
(* a server that may execute a request and lose the answer.                *)
(***************************************************************************)
EXTENDS Naturals, FiniteSets

CONSTANTS
  HttpThreads,    \* connection threads of the daemon
  HttpClients,    \* client objects that may come into being
  HttpSessions,   \* session ids the server may issue
  NoHttp,
  RetryAttempts,  \* health.http_retry_attempts
  MaxHttpCalls    \* bound: requests of all threads

ASSUME HttpAssumption ==
  /\ RetryAttempts \in Nat /\ MaxHttpCalls \in Nat
  /\ NoHttp \notin HttpClients \cup HttpSessions

VARIABLES
  registered,   \* _http_upstreams[name]
  clients,      \* per client object: _initialized, _session_id
  thread,       \* per thread: where it is in its request
  server,       \* what the server knows of a session id
  executed,     \* how often the thread's tool call has been executed
  requests,     \* requests begun
  overlapped    \* clients on which two handshakes ran at the same time

httpVars == <<registered, clients, thread, server, executed, requests, overlapped>>

IdleThread == [at |-> "idle", client |-> NoHttp, method |-> "none", sent |-> NoHttp,
               reply |-> "none", header |-> NoHttp, left |-> 0, result |-> "none"]

HttpInit ==
  /\ registered = NoHttp
  /\ clients = [c \in HttpClients |-> [made |-> FALSE, initialized |-> FALSE, session |-> NoHttp]]
  /\ thread = [t \in HttpThreads |-> IdleThread]
  /\ server = [s \in HttpSessions |-> "unused"]
  /\ executed = [t \in HttpThreads |-> 0]
  /\ requests = 0
  /\ overlapped = {}

Handshaking(t, c) ==
  thread[t].client = c /\ thread[t].method \in {"initialize", "notify"}

------------------------------------------------------------------------------
(* _http_client: get or create, with no lock around the two.               *)

LookUp(t) ==
  /\ thread[t].at = "idle" /\ requests < MaxHttpCalls
  /\ requests' = requests + 1
  /\ thread' = [thread EXCEPT ![t] = [IdleThread EXCEPT
                  !.at = IF registered = NoHttp THEN "create" ELSE "check",
                  !.client = registered]]
  /\ executed' = [executed EXCEPT ![t] = 0]
  /\ UNCHANGED <<registered, clients, server, overlapped>>

Create(t) ==
  /\ thread[t].at = "create"
  /\ \E c \in HttpClients : ~clients[c].made
  \* Any new object is as good as any other.
  /\ LET c == CHOOSE c \in HttpClients : ~clients[c].made IN
       /\ clients' = [clients EXCEPT ![c].made = TRUE]
       /\ registered' = c
       /\ thread' = [thread EXCEPT ![t].at = "check", ![t].client = c]
  /\ UNCHANGED <<server, executed, overlapped, requests>>

------------------------------------------------------------------------------
(* _jsonrpc_request, _initialize and _http_post.                           *)

\* Each _http_post starts with all its retries.
Post(t, method) == [thread[t] EXCEPT !.at = "send", !.method = method, !.left = RetryAttempts]

CheckInitialized(t) ==
  LET c == thread[t].client IN
  /\ thread[t].at = "check"
  /\ thread' = [thread EXCEPT ![t] =
                  Post(t, IF clients[c].initialized THEN "call" ELSE "initialize")]
  /\ overlapped' = IF ~clients[c].initialized /\ \E o \in HttpThreads \ {t} : Handshaking(o, c)
                   THEN overlapped \cup {c} ELSE overlapped
  /\ UNCHANGED <<registered, clients, server, executed, requests>>

Fails(t, result) ==
  thread' = [thread EXCEPT ![t] = [IdleThread EXCEPT !.result = result]]

\* The environment or a secret file is missing: no headers, nothing is sent.
SendRefused(t) ==
  /\ thread[t].at = "send"
  /\ Fails(t, "upstream_error")
  /\ UNCHANGED <<registered, clients, server, executed, overlapped, requests>>

\* Any session id the server has not issued is as good as any other.
FreshSessions ==
  LET unused == {x \in HttpSessions : server[x] = "unused"} IN
  IF unused = {} THEN {} ELSE {CHOOSE x \in unused : TRUE}

\* The session header is read here.  The server answers, with or without a
\* session header, or the answer is an error status, a time-out or lost.
Send(t) ==
  LET r == thread[t]
      s == clients[r.client].session IN
  /\ r.at = "send"
  /\ \E reply \in {"ok", "retryable", "error", "timeout"}, header \in HttpSessions \cup {NoHttp} :
       /\ thread' = [thread EXCEPT ![t].at = "wait", ![t].sent = s,
                                   ![t].reply = reply, ![t].header = header]
       /\ reply # "ok" => header = NoHttp
       /\ CASE r.method = "initialize" ->
                 /\ header \in FreshSessions \cup {NoHttp}
                 /\ server' = [x \in HttpSessions |-> IF x = header THEN "open" ELSE server[x]]
                 /\ UNCHANGED executed
            [] r.method = "notify" ->
                 /\ header \in {s, NoHttp}
                 /\ server' = [x \in HttpSessions |->
                                 IF x = s /\ server[x] = "open" /\ reply # "error"
                                 THEN "ready" ELSE server[x]]
                 /\ UNCHANGED executed
            [] OTHER ->
                 /\ header \in {s, NoHttp}
                 /\ (s # NoHttp /\ server[s] = "lost") => reply # "ok"
                 /\ \E runs \in (IF reply = "ok" THEN {1} ELSE {0, 1}) :
                      executed' = [executed EXCEPT ![t] = @ + runs]
                 /\ UNCHANGED server
  /\ UNCHANGED <<registered, clients, overlapped, requests>>

\* The server forgets a session.
ForgetSession(s) ==
  /\ server[s] \in {"open", "ready"}
  /\ server' = [server EXCEPT ![s] = "lost"]
  /\ UNCHANGED <<registered, clients, thread, executed, overlapped, requests>>

RetriesOnceMore(r) == r.reply = "retryable" /\ r.left >= 0

\* _is_retryable_http_error: only the statuses 429, 500, 502, 503, 504.
Retries(r) == r.reply = "retryable" /\ r.left > 0

Retry(t) ==
  /\ thread[t].at = "wait" /\ Retries(thread[t])
  /\ thread' = [thread EXCEPT ![t].at = "send", ![t].left = @ - 1]
  /\ UNCHANGED <<registered, clients, server, executed, overlapped, requests>>

GiveUp(t) ==
  /\ thread[t].at = "wait" /\ thread[t].reply # "ok" /\ ~Retries(thread[t])
  /\ Fails(t, IF thread[t].reply = "timeout" THEN "upstream_timeout" ELSE "upstream_error")
  /\ UNCHANGED <<registered, clients, server, executed, overlapped, requests>>

\* Any answer's session header replaces the session id; then the handshake goes
\* on, or the call returns.  A body that is no fitting JSON-RPC answer fails it.
Answered(t) ==
  LET r == thread[t]
      c == r.client
      session == IF r.header = NoHttp THEN clients[c].session ELSE r.header IN
  /\ r.at = "wait" /\ r.reply = "ok"
  /\ \/ /\ r.method = "initialize"
        /\ clients' = [clients EXCEPT ![c].session = session]
        /\ thread' = [thread EXCEPT ![t] = Post(t, "notify")]
     \/ /\ r.method = "notify"
        /\ clients' = [clients EXCEPT ![c].session = session, ![c].initialized = TRUE]
        /\ thread' = [thread EXCEPT ![t] = Post(t, "call")]
     \/ /\ r.method = "call"
        /\ clients' = [clients EXCEPT ![c].session = session]
        /\ Fails(t, "ok")
     \/ /\ clients' = [clients EXCEPT ![c].session = session]
        /\ Fails(t, "upstream_error")
  /\ UNCHANGED <<registered, server, executed, overlapped, requests>>

HttpNext ==
  \/ \E t \in HttpThreads :
       LookUp(t) \/ Create(t) \/ CheckInitialized(t) \/ SendRefused(t) \/ Send(t)
       \/ Retry(t) \/ GiveUp(t) \/ Answered(t)
  \/ \E s \in HttpSessions : ForgetSession(s)

HttpSpec == HttpInit /\ [][HttpNext]_httpVars

------------------------------------------------------------------------------
(* Properties.                                                             *)

\* Unless two threads handshake at the same time on one client, a call is only
\* ever sent under a session whose handshake the client has completed.
CallsFollowHandshake ==
  \A t \in HttpThreads :
    LET r == thread[t] IN
    r.at = "wait" /\ r.method = "call" /\ r.sent # NoHttp /\ r.client \notin overlapped =>
      server[r.sent] # "open"

\* A tool is executed once per post: at most 1 + http_retry_attempts times, and at
\* least once when the caller gets a result; each execution uses up a post.
ExecutionsBounded ==
  \A t \in HttpThreads :
    /\ executed[t] <= RetryAttempts + 1
    /\ thread[t].result = "ok" => executed[t] >= 1
    /\ thread[t].at = "wait" => executed[t] <= RetryAttempts + 1 - thread[t].left
=============================================================================
