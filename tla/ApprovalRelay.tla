---------------------------- MODULE ApprovalRelay ----------------------------
(***************************************************************************)
(* A tool call from the host to an upstream and back, with the approval    *)
(* questions the upstream asks on the way: the client shim that            *)
(* multiplexes calls (client_relay.py), the connection thread of the       *)
(* daemon that holds the upstream client's lock (upstream_stdio.py) and    *)
(* relays questions (elicitation.py), and the upstream process.            *)
(*                                                                         *)
(* A write to the upstream's stdin takes effect at once: the upstream      *)
(* reacts to what it has read whenever it likes.  Its stdout is a queue,   *)
(* and so are both directions of each call's socket and the shim's stdin.  *)
(* Auth repair and the eviction of clients are in UpstreamLifecycle.       *)
(***************************************************************************)
EXTENDS Naturals, Sequences

CONSTANTS
  Calls,      \* tools/call and tools/list requests, each with its own socket
  Hosts,      \* hosts, each with its shim
  Capable,    \* the hosts that announced the elicitation capability
  Clients,    \* upstream client objects with relay_elicitation
  Questions,
  None, Error, Dropped,
  MaxNoise,   \* bound on stray stdout lines, invalid replies and deaths
  MaxReplies  \* bound on a host's replies to one question

ASSUME RelayAssumption ==
  /\ Capable \subseteq Hosts
  /\ None \notin Calls \cup Clients \cup Questions \cup {Error, Dropped}
  /\ Error \notin Calls \cup Questions /\ Dropped \notin Questions \cup {Error}
  /\ MaxNoise \in Nat /\ MaxReplies \in Nat

VARIABLES
  host,         \* the host of each call
  client,       \* the upstream client each call goes to
  phase,        \* where the daemon's thread for a call is
  expected,     \* the request id it waits for
  asking,       \* the question it relays
  \* the StdioUpstreamProcess objects
  nextId,
  known,        \* the capability initialize was sent with, or None before it
  \* their processes
  alive,
  work,         \* the requests it has not answered
  told,         \* the capability its initialize named, or None
  lines,        \* stdout lines the daemon has not read
  \* the questions: the call served when it was asked, the connection it was
  \* shown on, the host's replies, what the upstream heard
  askedFor, shownOn, replies, heard,
  \* sockets, to and from the shim
  down, up,
  \* shims
  answer,       \* what the host got for each call
  pending,      \* the questions it waits for replies to, with their sockets
  stdin,        \* replies it has not read
  eof,          \* it has seen the end of its input
  gone,         \* it died
  noise,
  fouled        \* history: a call failed and left its request with the process

calls == <<host, client, phase, expected, asking>>
objects == <<nextId, known>>
processes == <<alive, work, told, lines>>
questions == <<askedFor, shownOn, replies, heard>>
shims == <<answer, pending, stdin, eof, gone>>
vars == <<calls, objects, processes, questions, down, up, shims, noise, fouled>>

Phases == {"new", "queued", "initializing", "calling", "ended"}
Initialize == "initialize"

\* Upstream stdout, socket and stdin lines.
Lines ==
  [type : {"answer"}, id : Nat, about : Calls \cup {Initialize}, uninit : BOOLEAN]
    \cup [type : {"ask"}, question : Questions] \cup [type : {"garbage"}]
Replies == [id : Questions, about : Questions \cup {Error}, valid : BOOLEAN]
Downs == [type : {"ask"}, question : Questions]
           \cup [type : {"final"}, about : Calls \cup {Initialize, Error}]

TypeOK ==
  /\ host \in [Calls -> Hosts] /\ client \in [Calls -> Clients]
  /\ phase \in [Calls -> Phases] /\ expected \in [Calls -> Nat]
  /\ asking \in [Calls -> Questions \cup {None}]
  /\ nextId \in [Clients -> Nat] /\ known \in [Clients -> BOOLEAN \cup {None}]
  /\ alive \in [Clients -> BOOLEAN] /\ told \in [Clients -> BOOLEAN \cup {None}]
  /\ \A u \in Clients : work[u] \subseteq [id : Nat, for : Calls \cup {Initialize}]
  /\ lines \in [Clients -> Seq(Lines)]
  /\ askedFor \in [Questions -> Calls \cup {None}]
  /\ shownOn \in [Questions -> Calls \cup {None}]
  /\ replies \in [Questions -> 0..MaxReplies]
  /\ heard \in [Questions -> Questions \cup {None, Error, Dropped}]
  /\ down \in [Calls -> Seq(Downs)] /\ up \in [Calls -> {<<>>} \cup {<<reply>> : reply \in Replies}]
  /\ answer \in [Calls -> Calls \cup {None, Initialize, Error}]
  /\ \A h \in Hosts : pending[h] \subseteq [id : Questions, call : Calls]
  /\ stdin \in [Hosts -> Seq(Replies)]
  /\ eof \in [Hosts -> BOOLEAN] /\ gone \in [Hosts -> BOOLEAN]
  /\ noise \in 0..MaxNoise /\ fouled \in [Clients -> BOOLEAN]

Init ==
  /\ host \in [Calls -> Hosts] /\ client \in [Calls -> Clients]
  /\ phase = [c \in Calls |-> "new"] /\ expected = [c \in Calls |-> 0]
  /\ asking = [c \in Calls |-> None]
  /\ nextId = [u \in Clients |-> 0]
  /\ known = [u \in Clients |-> None] /\ told = [u \in Clients |-> None]
  /\ alive = [u \in Clients |-> FALSE] /\ work = [u \in Clients |-> {}]
  /\ lines = [u \in Clients |-> <<>>]
  /\ askedFor = [q \in Questions |-> None] /\ shownOn = [q \in Questions |-> None]
  /\ replies = [q \in Questions |-> 0] /\ heard = [q \in Questions |-> None]
  /\ down = [c \in Calls |-> <<>>] /\ up = [c \in Calls |-> <<>>]
  /\ answer = [c \in Calls |-> None] /\ pending = [h \in Hosts |-> {}]
  /\ stdin = [h \in Hosts |-> <<>>]
  /\ eof = [h \in Hosts |-> FALSE] /\ gone = [h \in Hosts |-> FALSE]
  /\ noise = 0 /\ fouled = [u \in Clients |-> FALSE]

-----------------------------------------------------------------------------
(* The daemon: one thread per call, one call at a time per client.         *)

Has(c) == host[c] \in Capable
LockFree(u) == \A c \in Calls : client[c] = u => phase[c] \notin {"initializing", "calling"}

\* client_capabilities: a process must not keep another host's capabilities.
CapabilitiesKept(c) == FALSE
CapabilitiesDiffer(c) == known[client[c]] # None /\ known[client[c]] # Has(c)

\* The questions of a process that is gone stay without a reply.
HeardAfterEnd(u) ==
  [q \in Questions |->
     IF heard[q] = None /\ askedFor[q] # None /\ client[askedFor[q]] = u
     THEN Dropped ELSE heard[q]]

\* The next id and the request it goes with.
Send(c, what, kept) ==
  LET u == client[c] IN
  /\ expected' = [expected EXCEPT ![c] = nextId[u]]
  /\ nextId' = [nextId EXCEPT ![u] = @ + 1]
  /\ work' = [work EXCEPT ![u] = kept \cup {[id |-> nextId[u], for |-> what]}]
  /\ phase' = [phase EXCEPT ![c] = IF what = c THEN "calling" ELSE "initializing"]

SendInitialize(c, kept) ==
  /\ Send(c, Initialize, kept)
  /\ told' = [told EXCEPT ![client[c]] = Has(c)]

\* The call gets the lock and, when the process is gone or knows another
\* host's capabilities, a new process; tools/list and strict_initialization
\* initialize it first.
Begin(c) ==
  LET u == client[c]
      same == alive[u] /\ ~CapabilitiesDiffer(c)
      kept == IF same THEN work[u] ELSE {} IN
  /\ phase[c] = "queued" /\ LockFree(u)
  /\ \/ /\ ~same \/ known[u] = None
        /\ SendInitialize(c, kept)
     \/ /\ Send(c, c, kept)
        /\ told' = [told EXCEPT ![u] = IF same THEN @ ELSE None]
  /\ alive' = [alive EXCEPT ![u] = TRUE]
  /\ known' = [known EXCEPT ![u] = IF same THEN @ ELSE None]
  /\ lines' = [lines EXCEPT ![u] = IF same THEN @ ELSE <<>>]
  /\ heard' = IF same THEN heard ELSE HeardAfterEnd(u)
  /\ fouled' = [fouled EXCEPT ![u] = @ /\ same]
  /\ UNCHANGED <<host, client, asking, askedFor, shownOn, replies, down, up, shims, noise>>

\* The thread answers the call and closes its socket.
Finish(c, about) ==
  /\ phase' = [phase EXCEPT ![c] = "ended"]
  /\ asking' = [asking EXCEPT ![c] = None]
  /\ down' = [down EXCEPT ![c] = Append(@, [type |-> "final", about |-> about])]

\* _reset_after_timeout_locked: kill the process and forget what it wrote.
ProcessKept(u) == UNCHANGED <<alive, known, told, work, lines, heard, fouled>>
ResetProcess(u) ==
  /\ alive' = [alive EXCEPT ![u] = FALSE]
  /\ known' = [known EXCEPT ![u] = None]
  /\ told' = [told EXCEPT ![u] = None]
  /\ work' = [work EXCEPT ![u] = {}]
  /\ lines' = [lines EXCEPT ![u] = <<>>]
  /\ heard' = HeardAfterEnd(u)
  /\ fouled' = [fouled EXCEPT ![u] = FALSE]

Waiting(c) == phase[c] \in {"initializing", "calling"} /\ asking[c] = None

\* The upstream is silent until the deadline.
TimeOut(c) ==
  /\ Waiting(c) /\ alive[client[c]] /\ lines[client[c]] = <<>>
  /\ Finish(c, Error) /\ ResetProcess(client[c])
  /\ UNCHANGED <<host, client, expected, nextId, askedFor, shownOn, replies, up, shims, noise>>

\* End of file on the upstream's stdout: the process stays as it is.
ReadEnd(c) ==
  /\ Waiting(c) /\ ~alive[client[c]] /\ lines[client[c]] = <<>>
  /\ Finish(c, Error)
  /\ UNCHANGED <<host, client, expected, objects, processes, questions, up, shims, noise, fouled>>

-----------------------------------------------------------------------------
(* _read_response: the next line of the upstream's stdout.                 *)

NextLine(c, type) == Waiting(c) /\ lines[client[c]] # <<>> /\ Head(lines[client[c]]).type = type
LineRead(u) == lines' = [lines EXCEPT ![u] = Tail(@)]

\* A line that is no JSON object fails the call.  The process is not reset,
\* although it still works on the request.
ReadGarbage(c) ==
  LET u == client[c] IN
  /\ NextLine(c, "garbage") /\ LineRead(u)
  /\ Finish(c, Error)
  /\ fouled' = [fouled EXCEPT ![u] = TRUE]
  /\ UNCHANGED <<host, client, expected, objects, alive, work, told, questions, up, shims, noise>>

IdIgnored(c, line) == TRUE
IdMatches(c, line) == line.id = expected[c]

\* An answer to initialize.
Initialized(c, line) == phase[c] = "initializing" /\ IdMatches(c, line) /\ ~line.uninit

\* "not initialized", whatever request it answers.
Uninitialized(c, line) == phase[c] = "calling" /\ line.uninit /\ known[client[c]] = None

\* Send the request that initialize was for.
ReadInitialized(c) ==
  LET u == client[c] IN
  /\ NextLine(c, "answer") /\ Initialized(c, Head(lines[u])) /\ LineRead(u)
  /\ alive[u]
  /\ known' = [known EXCEPT ![u] = Has(c)]
  /\ Send(c, c, work[u])
  /\ UNCHANGED <<host, client, asking, alive, told, questions, down, up, shims, noise, fouled>>

\* Initialize and send the request again.
ReadUninitialized(c) ==
  LET u == client[c] IN
  /\ NextLine(c, "answer") /\ Uninitialized(c, Head(lines[u])) /\ LineRead(u)
  /\ alive[u]
  /\ SendInitialize(c, work[u])
  /\ UNCHANGED <<host, client, asking, known, alive, questions, down, up, shims, noise, fouled>>

\* Any other answer ends the call, with an error if it is for another id.
ReadAnswer(c) ==
  LET u == client[c]
      line == Head(lines[u]) IN
  /\ NextLine(c, "answer") /\ LineRead(u)
  /\ ~Initialized(c, line) /\ ~Uninitialized(c, line)
  /\ Finish(c, IF IdMatches(c, line) /\ ~line.uninit THEN line.about ELSE Error)
  /\ UNCHANGED <<host, client, expected, objects, alive, work, told, questions, up, shims, noise, fouled>>

Supported(c) == Has(c)

\* relay_request: the relay puts the question to the host of this call, under
\* an id of its own.
UpstreamId(q) == CHOOSE x \in Questions : TRUE
RelayId(q) == q

ReadAsk(c) ==
  LET u == client[c]
      q == Head(lines[u]).question IN
  /\ NextLine(c, "ask") /\ LineRead(u)
  /\ \/ /\ Supported(c)
        /\ asking' = [asking EXCEPT ![c] = q]
        /\ down' = [down EXCEPT ![c] = Append(@, [type |-> "ask", question |-> q])]
        /\ UNCHANGED heard
     \/ /\ ~Supported(c) /\ alive[u]
        /\ heard' = [heard EXCEPT ![q] = Error]
        /\ UNCHANGED <<asking, down>>
  /\ UNCHANGED <<host, client, phase, expected, objects, alive, work, told, askedFor, shownOn,
                 replies, up, shims, noise, fouled>>

\* The process is gone when the daemon writes to it: the call fails.
WriteFails(c) ==
  LET u == client[c]
      line == Head(lines[u]) IN
  /\ ~alive[u]
  /\ \/ NextLine(c, "answer") /\ (Initialized(c, line) \/ Uninitialized(c, line))
     \/ NextLine(c, "ask") /\ ~Supported(c)
  /\ LineRead(u)
  /\ Finish(c, Error)
  /\ UNCHANGED <<host, client, expected, objects, alive, work, told, questions, up, shims, noise, fouled>>

-----------------------------------------------------------------------------
(* SocketElicitationRelay.request: the host's reply, within the deadline.  *)

ValidReply(c, reply) == reply.valid /\ reply.id = RelayId(asking[c])

ReplyRead(c) ==
  LET reply == Head(up[c]) IN
  /\ asking[c] # None /\ up[c] # <<>> /\ ValidReply(c, reply)
  /\ alive[client[c]]
  /\ heard' = [heard EXCEPT ![asking[c]] = reply.about]
  /\ asking' = [asking EXCEPT ![c] = None]
  /\ up' = [up EXCEPT ![c] = Tail(@)]
  /\ UNCHANGED <<host, client, phase, expected, objects, processes, askedFor, shownOn, replies,
                 down, shims, noise, fouled>>

\* The process that asked has exited.
ReplyLost(c) ==
  /\ asking[c] # None /\ up[c] # <<>> /\ ValidReply(c, Head(up[c]))
  /\ ~alive[client[c]]
  /\ Finish(c, Error)
  /\ up' = [up EXCEPT ![c] = Tail(@)]
  /\ UNCHANGED <<host, client, expected, objects, processes, questions, shims, noise, fouled>>

\* An invalid reply, the deadline or a closed socket: the process waits for
\* this reply and is reset.
RelayFails(c) ==
  /\ asking[c] # None
  /\ Finish(c, Error) /\ ResetProcess(client[c])
  /\ UNCHANGED <<host, client, expected, nextId, askedFor, shownOn, replies, up, shims, noise>>

-----------------------------------------------------------------------------
(* The upstream process: it answers requests in any order, asks about a    *)
(* call it works on, prints a stray line, exits.                           *)

Write(u, line) == lines' = [lines EXCEPT ![u] = Append(@, line)]

\* It refuses calls before initialize, if it likes.
Respond(u, request) ==
  /\ alive[u] /\ request \in work[u]
  /\ \A q \in Questions : askedFor[q] = request.for => heard[q] # None
  /\ work' = [work EXCEPT ![u] = @ \ {request}]
  /\ \E uninit \in {FALSE, told[u] = None \/ request.for = Initialize} :
       Write(u, [type |-> "answer", id |-> request.id, about |-> request.for, uninit |-> uninit])
  /\ UNCHANGED <<calls, objects, alive, told, questions, down, up, shims, noise, fouled>>

AskHost(u, request, q) ==
  /\ alive[u] /\ request \in work[u] /\ request.for # Initialize
  /\ askedFor[q] = None
  /\ askedFor' = [askedFor EXCEPT ![q] = request.for]
  /\ Write(u, [type |-> "ask", question |-> q])
  /\ UNCHANGED <<calls, objects, alive, work, told, shownOn, replies, heard, down, up, shims, noise, fouled>>

Stray(u) ==
  /\ alive[u] /\ noise < MaxNoise
  /\ noise' = noise + 1
  /\ Write(u, [type |-> "garbage"])
  /\ UNCHANGED <<calls, objects, alive, work, told, questions, down, up, shims, fouled>>

Exit(u) ==
  /\ alive[u] /\ noise < MaxNoise
  /\ noise' = noise + 1
  /\ alive' = [alive EXCEPT ![u] = FALSE]
  /\ heard' = HeardAfterEnd(u)
  /\ UNCHANGED <<calls, objects, work, told, lines, askedFor, shownOn, replies, down, up, shims, fouled>>

-----------------------------------------------------------------------------
(* The shim and its host.                                                  *)

Pending(c) == phase[c] # "new" /\ answer[c] = None

\* Without the capability the shim forwards calls one by one and reads no
\* input meanwhile.
Blocked(h) == h \notin Capable /\ \E c \in Calls : host[c] = h /\ Pending(c)

Submit(c) ==
  LET h == host[c] IN
  /\ phase[c] = "new" /\ ~eof[h] /\ ~gone[h] /\ ~Blocked(h)
  /\ phase' = [phase EXCEPT ![c] = "queued"]
  /\ UNCHANGED <<host, client, expected, asking, objects, processes, questions, down, up, shims,
                 noise, fouled>>

\* A reply written on a socket the daemon has closed is lost.
Sent(c, reply) == IF phase[c] = "ended" THEN up[c] ELSE Append(up[c], reply)
Closed(id) == [id |-> id, about |-> Error, valid |-> TRUE]

EofUnseen(h) == FALSE
InputClosed(h) == eof[h]

\* _receive: a question goes to the host, or back if the host can no longer
\* reply.
ShowQuestion(c) ==
  LET h == host[c]
      q == Head(down[c]).question IN
  /\ ~gone[h] /\ down[c] # <<>> /\ Head(down[c]).type = "ask"
  /\ down' = [down EXCEPT ![c] = Tail(@)]
  /\ \/ /\ InputClosed(h)
        /\ up' = [up EXCEPT ![c] = Sent(c, Closed(RelayId(q)))]
        /\ UNCHANGED <<pending, shownOn>>
     \/ /\ ~InputClosed(h)
        /\ pending' = [pending EXCEPT ![h] =
             {p \in @ : p.id # RelayId(q)} \cup {[id |-> RelayId(q), call |-> c]}]
        /\ shownOn' = [shownOn EXCEPT ![q] = c]
        /\ UNCHANGED up
  /\ UNCHANGED <<calls, objects, processes, askedFor, replies, heard, answer, stdin, eof, gone,
                 noise, fouled>>

\* The final line of a call goes to the host; its questions are forgotten.
GiveAnswer(c) ==
  LET h == host[c] IN
  /\ ~gone[h] /\ down[c] # <<>> /\ Head(down[c]).type = "final"
  /\ down' = [down EXCEPT ![c] = Tail(@)]
  /\ answer' = [answer EXCEPT ![c] = Head(down[c]).about]
  /\ pending' = [pending EXCEPT ![h] = {p \in @ : p.call # c}]
  /\ UNCHANGED <<calls, objects, processes, questions, up, stdin, eof, gone, noise, fouled>>

\* The host decides a question it was shown, perhaps late or again.
HostReplies(q) ==
  LET h == host[shownOn[q]] IN
  /\ shownOn[q] # None /\ ~eof[h] /\ ~gone[h] /\ replies[q] < MaxReplies
  /\ replies' = [replies EXCEPT ![q] = @ + 1]
  /\ \E valid \in BOOLEAN :
       /\ valid \/ noise < MaxNoise
       /\ stdin' = [stdin EXCEPT ![h] = Append(@, [id |-> RelayId(q), about |-> q, valid |-> valid])]
       /\ noise' = IF valid THEN noise ELSE noise + 1
  /\ UNCHANGED <<calls, objects, processes, askedFor, shownOn, heard, down, up, answer, pending,
                 eof, gone, fouled>>

\* _reply: only the socket that waits for this id gets it, and only once.
ReplyKept(h, p) == pending[h]
ReplyTaken(h, p) == pending[h] \ {p}

ForwardReply(h) ==
  LET reply == Head(stdin[h]) IN
  /\ ~gone[h] /\ stdin[h] # <<>> /\ ~Blocked(h)
  /\ stdin' = [stdin EXCEPT ![h] = Tail(@)]
  /\ \/ \E p \in pending[h] :
          /\ p.id = reply.id
          /\ pending' = [pending EXCEPT ![h] = ReplyTaken(h, p)]
          /\ up' = [up EXCEPT ![p.call] = Sent(p.call, reply)]
     \/ /\ \A p \in pending[h] : p.id # reply.id
        /\ UNCHANGED <<pending, up>>
  /\ UNCHANGED <<calls, objects, processes, questions, down, answer, eof, gone, noise, fouled>>

\* End of input: every socket that waits for a reply gets an error.
HostCloses(h) ==
  /\ ~eof[h] /\ ~gone[h] /\ stdin[h] = <<>> /\ ~Blocked(h) /\ \E c \in Calls : host[c] = h
  /\ eof' = [eof EXCEPT ![h] = TRUE]
  /\ up' = [c \in Calls |->
       IF \E p \in pending[h] : p.call = c
       THEN Sent(c, Closed((CHOOSE p \in pending[h] : p.call = c).id)) ELSE up[c]]
  /\ pending' = [pending EXCEPT ![h] = {}]
  /\ UNCHANGED <<calls, objects, processes, questions, down, answer, stdin, gone, noise, fouled>>

\* The shim dies and its sockets with it; the daemon notices only when it
\* relays a question.
ShimDies(h) ==
  /\ ~gone[h] /\ noise < MaxNoise
  /\ noise' = noise + 1
  /\ gone' = [gone EXCEPT ![h] = TRUE]
  /\ UNCHANGED <<calls, objects, processes, questions, down, up, answer, pending, stdin, eof, fouled>>

-----------------------------------------------------------------------------
Read(c) ==
  \/ ReadGarbage(c) \/ ReadInitialized(c) \/ ReadUninitialized(c) \/ ReadAnswer(c)
  \/ ReadAsk(c) \/ ReadEnd(c) \/ WriteFails(c)
Thread(c) == Begin(c) \/ Read(c) \/ TimeOut(c) \/ ReplyRead(c) \/ ReplyLost(c) \/ RelayFails(c)
Exchange(c) == ShowQuestion(c) \/ GiveAnswer(c)
Upstream(u) ==
  \/ \E request \in work[u] :
       Respond(u, request) \/ \E q \in Questions : AskHost(u, request, q)
  \/ Stray(u) \/ Exit(u)

Next ==
  \/ \E c \in Calls : Submit(c) \/ Thread(c) \/ Exchange(c)
  \/ \E u \in Clients : Upstream(u)
  \/ \E q \in Questions : HostReplies(q)
  \/ \E h \in Hosts : ForwardReply(h) \/ HostCloses(h) \/ ShimDies(h)

Spec == Init /\ [][Next]_vars

-----------------------------------------------------------------------------
(* Properties.                                                             *)

\* A call is never answered with another call's result, whatever stray lines,
\* time-outs and exits came before (upstream_stdio.py, _result_from_response).
OwnAnswer == \A c \in Calls : answer[c] \in {None, Error, c}

\* The upstream hears a decision only on the question the host decided, also
\* when replies come late, twice or for several questions at once.
DecisionsFit == \A q \in Questions : heard[q] \in {None, Error, Dropped, q}

\* A host is only asked what it said it can be asked, and a process that was
\* initialized for one host serves no host with other capabilities.
CapabilitiesHonoured ==
  /\ \A q \in Questions : shownOn[q] # None => host[shownOn[q]] \in Capable
  /\ \A c \in Calls :
       phase[c] = "calling" /\ known[client[c]] # None =>
         known[client[c]] = Has(c) /\ told[client[c]] = Has(c)

\* No socket waits for a reply of a host whose input has ended, whichever way
\* the end of input and the question raced.
NoQuestionAfterEof == \A h \in Hosts : eof[h] => pending[h] = {}

\* Unless an earlier call failed and left its request with the process, a
\* question is relayed on the socket of the call it was asked for.
CleanQuestionsOnOwnCall ==
  \A c \in Calls : asking[c] # None /\ ~fouled[client[c]] => askedFor[asking[c]] = c

\* docs/auth-recipes.md: each question is relayed on the original call's socket.
QuestionsOnOwnCall == \A c \in Calls : asking[c] # None => askedFor[asking[c]] = c

\* What happened to a question, for the abstract specification.
StageOf(q) ==
  CASE heard[q] = Error -> "refused"
    [] heard[q] = Dropped -> "dropped"
    [] heard[q] \in Questions -> "delivered"
    [] heard[q] = None /\ replies[q] > 0 -> "decided"
    [] heard[q] = None /\ replies[q] = 0 /\ shownOn[q] # None -> "shown"
    [] heard[q] = None /\ shownOn[q] = None /\ askedFor[q] # None -> "asked"
    [] OTHER -> "new"

Promise == INSTANCE Approvals WITH stage <- [q \in Questions |-> StageOf(q)]
PromiseKept == Promise!Spec
=============================================================================
