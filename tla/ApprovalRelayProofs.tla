------------------------- MODULE ApprovalRelayProofs -------------------------
(***************************************************************************)
(* Proofs about ApprovalRelay, for any numbers of calls, hosts, clients    *)
(* and questions: decisions reach the question they were made on, no       *)
(* socket waits for a host whose input has ended, and a call gets its own  *)
(* answer, because request ids never repeat on a process.                  *)
(***************************************************************************)
EXTENDS ApprovalRelay, TLAPS

\* Replies that carry the host's decision on the question they name.
HonestReplies == {r \in Replies : r.about \in {r.id, Error}}

\* The types DecisionsFit rests on.
Types ==
  /\ host \in [Calls -> Hosts]
  /\ asking \in [Calls -> Questions \cup {None}]
  /\ lines \in [Clients -> Seq(Lines)] /\ client \in [Calls -> Clients]
  /\ shownOn \in [Questions -> Calls \cup {None}]
  /\ heard \in [Questions -> Questions \cup {None, Error, Dropped}]
  /\ down \in [Calls -> Seq(Downs)]
  /\ pending \in [Hosts -> SUBSET [id : Questions, call : Calls]]
  /\ work \in [Clients -> SUBSET [id : Nat, for : Calls \cup {Initialize}]]
  /\ nextId \in [Clients -> Nat] /\ expected \in [Calls -> Nat]

HonestInv ==
  /\ up \in [Calls -> Seq(HonestReplies)]
  /\ stdin \in [Hosts -> Seq(HonestReplies)]

DInv == Types /\ HonestInv /\ DecisionsFit

LEMMA DInit == Init => DInv
<1> SUFFICES ASSUME Init PROVE DInv
  OBVIOUS
<1>1. Types
  BY DEF Init, Types
<1>2. HonestInv
  BY DEF Init, HonestInv
<1>3. DecisionsFit
  BY DEF Init, DecisionsFit
<1> QED BY <1>1, <1>2, <1>3 DEF DInv

\* What happens when a process is gone.
LEMMA EndHeard ==
  ASSUME DInv, NEW u \in Clients
  PROVE  /\ HeardAfterEnd(u) \in [Questions -> Questions \cup {None, Error, Dropped}]
         /\ \A q \in Questions : HeardAfterEnd(u)[q] \in {None, Error, Dropped, q}
BY DEF DInv, Types, DecisionsFit, HeardAfterEnd

\* A request that is sent.
LEMMA SendTypes ==
  ASSUME DInv, NEW c \in Calls, NEW what \in {c, Initialize}, NEW kept,
         kept = {} \/ kept = work[client[c]], Send(c, what, kept)
  PROVE  /\ work' \in [Clients -> SUBSET [id : Nat, for : Calls \cup {Initialize}]]
         /\ nextId' \in [Clients -> Nat] /\ expected' \in [Calls -> Nat]
<1>1. client[c] \in Clients /\ nextId[client[c]] \in Nat
  BY DEF DInv, Types
<1>2. [id |-> nextId[client[c]], for |-> what] \in [id : Nat, for : Calls \cup {Initialize}]
  BY <1>1
<1>3. kept \in SUBSET [id : Nat, for : Calls \cup {Initialize}]
  BY <1>1 DEF DInv, Types
<1> QED BY <1>1, <1>2, <1>3 DEF Send, DInv, Types

LEMMA FinishTypes ==
  ASSUME DInv, NEW c \in Calls, NEW about \in Calls \cup {Initialize, Error}, Finish(c, about)
  PROVE  /\ down' \in [Calls -> Seq(Downs)]
         /\ asking' \in [Calls -> Questions \cup {None}]
<1>1. [type |-> "final", about |-> about] \in Downs
  BY DEF Downs
<1> QED BY <1>1 DEF Finish, DInv, Types

\* The next line of a client's output.
LEMMA LineTypes ==
  ASSUME DInv, NEW c \in Calls, NEW type, NextLine(c, type)
  PROVE  /\ client[c] \in Clients
         /\ Head(lines[client[c]]) \in Lines
         /\ Head(lines[client[c]]).type = type
         /\ LineRead(client[c]) => lines' \in [Clients -> Seq(Lines)]
<1>1. client[c] \in Clients /\ lines[client[c]] \in Seq(Lines) /\ lines[client[c]] # <<>>
  BY DEF DInv, Types, NextLine
<1>2. Head(lines[client[c]]) \in Lines /\ Tail(lines[client[c]]) \in Seq(Lines)
  BY <1>1
<1> QED BY <1>1, <1>2 DEF NextLine, LineRead, DInv, Types

\* A step of a daemon thread.
LEMMA ThreadKeeps ==
  ASSUME DInv, NEW c \in Calls, Thread(c)
  PROVE  DInv'
<1> DEFINE u == client[c]
<1>u. u \in Clients
  BY DEF DInv, Types
<1>s. UNCHANGED <<host, client, shownOn, pending, stdin>>
  BY DEF Thread, Begin, Read, TimeOut, ReplyRead, ReplyLost, RelayFails, ReadGarbage, ReadInitialized,
         ReadUninitialized, ReadAnswer, ReadAsk, ReadEnd, WriteFails, calls, questions, shims
\* It is enough to look at what threads change.
<1>d. ASSUME /\ asking' \in [Calls -> Questions \cup {None}]
             /\ lines' \in [Clients -> Seq(Lines)]
             /\ heard' \in [Questions -> Questions \cup {None, Error, Dropped}]
             /\ \A q \in Questions : heard'[q] \in {None, Error, Dropped, q}
             /\ down' \in [Calls -> Seq(Downs)]
             /\ work' \in [Clients -> SUBSET [id : Nat, for : Calls \cup {Initialize}]]
             /\ nextId' \in [Clients -> Nat] /\ expected' \in [Calls -> Nat]
             /\ up' \in [Calls -> Seq(HonestReplies)]
      PROVE  DInv'
  BY <1>d, <1>s DEF DInv, Types, HonestInv, DecisionsFit
<1>e. Error \in Calls \cup {Initialize, Error}
  OBVIOUS
<1>1. CASE Begin(c)
  <2> DEFINE same == alive[u] /\ ~CapabilitiesDiffer(c)
             kept == IF same THEN work[u] ELSE {}
  <2>1. Send(c, Initialize, kept) \/ Send(c, c, kept)
    BY <1>1 DEF Begin, SendInitialize
  <2>2. /\ work' \in [Clients -> SUBSET [id : Nat, for : Calls \cup {Initialize}]]
        /\ nextId' \in [Clients -> Nat] /\ expected' \in [Calls -> Nat]
    <3>1. kept = {} \/ kept = work[client[c]]
      OBVIOUS
    <3> HIDE DEF kept
    <3> QED BY <2>1, <3>1, SendTypes
  <2>3. heard' = heard \/ heard' = HeardAfterEnd(u)
    BY <1>1 DEF Begin
  <2>4. lines' \in [Clients -> Seq(Lines)]
    <3>1. lines' = [lines EXCEPT ![u] = IF same THEN @ ELSE <<>>]
      BY <1>1 DEF Begin
    <3> HIDE DEF same
    <3> QED BY <1>u, <3>1 DEF DInv, Types
  <2>5. UNCHANGED <<asking, down, up>>
    BY <1>1 DEF Begin
  <2>6. /\ heard' \in [Questions -> Questions \cup {None, Error, Dropped}]
        /\ \A q \in Questions : heard'[q] \in {None, Error, Dropped, q}
    BY <1>u, <2>3, EndHeard DEF DInv, Types, DecisionsFit
  <2>7. /\ asking' \in [Calls -> Questions \cup {None}] /\ down' \in [Calls -> Seq(Downs)]
        /\ up' \in [Calls -> Seq(HonestReplies)]
    BY <2>5 DEF DInv, Types, HonestInv
  <2> QED BY <1>d, <2>2, <2>4, <2>6, <2>7
<1>2. ASSUME Finish(c, Error), ResetProcess(u), UNCHANGED <<expected, nextId, up>>
      PROVE  DInv'
  <2>1. heard' = HeardAfterEnd(u)
    BY <1>2 DEF ResetProcess
  <2>2. lines' \in [Clients -> Seq(Lines)]
    BY <1>2 DEF ResetProcess, DInv, Types
  <2>3. work' \in [Clients -> SUBSET [id : Nat, for : Calls \cup {Initialize}]]
    BY <1>2 DEF ResetProcess, DInv, Types
  <2> QED
    BY <1>d, <1>e, <1>u, <1>2, <2>1, <2>2, <2>3, EndHeard, FinishTypes DEF DInv, Types, HonestInv
<1>3. ASSUME NEW about \in Calls \cup {Initialize, Error}, Finish(c, about),
             UNCHANGED <<expected, nextId, heard, work>>,
             lines' \in [Clients -> Seq(Lines)], up' \in [Calls -> Seq(HonestReplies)]
      PROVE  DInv'
  BY <1>d, <1>3, FinishTypes DEF DInv, Types, DecisionsFit
<1>4. CASE TimeOut(c) \/ RelayFails(c)
  BY <1>2, <1>4 DEF TimeOut, RelayFails
<1>5. CASE ReadEnd(c)
  BY <1>3, <1>5 DEF ReadEnd, objects, processes, questions, DInv, Types, HonestInv
<1>6. CASE ReadGarbage(c)
  BY <1>3, <1>6, LineTypes DEF ReadGarbage, objects, questions, DInv, HonestInv
<1>7. CASE WriteFails(c)
  BY <1>3, <1>7, LineTypes DEF WriteFails, objects, questions, DInv, HonestInv
<1>8. CASE ReadAnswer(c)
  <2> DEFINE line == Head(lines[u])
             about == IF IdMatches(c, line) /\ ~line.uninit THEN line.about ELSE Error
  <2>1. line \in Lines /\ line.type = "answer" /\ lines' \in [Clients -> Seq(Lines)]
    BY <1>8, LineTypes DEF ReadAnswer
  <2>2. about \in Calls \cup {Initialize, Error}
    BY <2>1 DEF Lines
  <2>3. Finish(c, about) /\ UNCHANGED <<expected, nextId, heard, work, up>>
    BY <1>8 DEF ReadAnswer, objects, questions
  <2> HIDE DEF about
  <2> QED BY <1>3, <2>1, <2>2, <2>3 DEF DInv, HonestInv
<1>9. CASE ReadInitialized(c) \/ ReadUninitialized(c)
  <2>1. Send(c, Initialize, work[u]) \/ Send(c, c, work[u])
    BY <1>9 DEF ReadInitialized, ReadUninitialized, SendInitialize
  <2>2. /\ work' \in [Clients -> SUBSET [id : Nat, for : Calls \cup {Initialize}]]
        /\ nextId' \in [Clients -> Nat] /\ expected' \in [Calls -> Nat]
    BY <2>1, SendTypes
  <2>3. lines' \in [Clients -> Seq(Lines)]
    BY <1>9, LineTypes DEF ReadInitialized, ReadUninitialized
  <2>4. UNCHANGED <<asking, heard, down, up>>
    BY <1>9 DEF ReadInitialized, ReadUninitialized, questions
  <2> QED BY <1>d, <2>2, <2>3, <2>4 DEF DInv, Types, HonestInv, DecisionsFit
<1>10. CASE ReadAsk(c)
  <2> DEFINE q == Head(lines[u]).question
  <2>1. q \in Questions /\ lines' \in [Clients -> Seq(Lines)]
    BY <1>10, LineTypes DEF ReadAsk, Lines
  <2>2. [type |-> "ask", question |-> q] \in Downs
    BY <2>1 DEF Downs
  <2>3. UNCHANGED <<expected, nextId, work, up>>
    BY <1>10 DEF ReadAsk, objects
  <2>4. /\ asking' \in [Calls -> Questions \cup {None}]
        /\ down' \in [Calls -> Seq(Downs)]
    <3>1. asking' = [asking EXCEPT ![c] = q] \/ UNCHANGED asking
      BY <1>10 DEF ReadAsk
    <3>2. down' = [down EXCEPT ![c] = Append(@, [type |-> "ask", question |-> q])] \/ UNCHANGED down
      BY <1>10 DEF ReadAsk
    <3>3. Append(down[c], [type |-> "ask", question |-> q]) \in Seq(Downs)
      BY <2>2 DEF DInv, Types
    <3> QED BY <2>1, <3>1, <3>2, <3>3 DEF DInv, Types
  <2>5. /\ heard' \in [Questions -> Questions \cup {None, Error, Dropped}]
        /\ \A x \in Questions : heard'[x] \in {None, Error, Dropped, x}
    BY <1>10, <2>1 DEF ReadAsk, DInv, Types, DecisionsFit
  <2> QED BY <1>d, <2>1, <2>3, <2>4, <2>5 DEF DInv, Types, HonestInv
<1>11. ASSUME asking[c] # None, up[c] # <<>>, ValidReply(c, Head(up[c]))
       PROVE  /\ Head(up[c]) \in HonestReplies /\ Tail(up[c]) \in Seq(HonestReplies)
              /\ asking[c] \in Questions /\ Head(up[c]).about \in {asking[c], Error}
  <2>1. up[c] \in Seq(HonestReplies)
    BY DEF DInv, HonestInv
  <2>2. Head(up[c]) \in HonestReplies /\ Tail(up[c]) \in Seq(HonestReplies)
    BY <1>11, <2>1
  <2> QED BY <1>11, <2>2 DEF HonestReplies, ValidReply, RelayId, DInv, Types
<1>12. CASE ReplyRead(c)
  <2>1. /\ asking[c] \in Questions /\ Head(up[c]).about \in {asking[c], Error}
        /\ up' \in [Calls -> Seq(HonestReplies)]
    BY <1>11, <1>12 DEF ReplyRead, DInv, HonestInv
  <2>2. heard' = [heard EXCEPT ![asking[c]] = Head(up[c]).about]
    BY <1>12 DEF ReplyRead
  <2>3. /\ heard' \in [Questions -> Questions \cup {None, Error, Dropped}]
        /\ \A x \in Questions : heard'[x] \in {None, Error, Dropped, x}
    BY <2>1, <2>2 DEF DInv, Types, DecisionsFit
  <2>4. asking' \in [Calls -> Questions \cup {None}]
    BY <1>12 DEF ReplyRead, DInv, Types
  <2>5. UNCHANGED <<lines, down, work, nextId, expected>>
    BY <1>12 DEF ReplyRead, objects, processes
  <2> QED BY <1>d, <2>1, <2>3, <2>4, <2>5 DEF DInv, Types
<1>13. CASE ReplyLost(c)
  <2>1. up' \in [Calls -> Seq(HonestReplies)]
    BY <1>11, <1>13 DEF ReplyLost, DInv, HonestInv
  <2> QED BY <1>3, <1>13, <2>1 DEF ReplyLost, objects, processes, questions, DInv, Types
<1> QED
  BY <1>1, <1>4, <1>5, <1>6, <1>7, <1>8, <1>9, <1>10, <1>12, <1>13 DEF Thread, Read

\* A step of a shim or its host.
LEMMA SentHonest ==
  ASSUME DInv, NEW c \in Calls, NEW reply \in HonestReplies
  PROVE  Sent(c, reply) \in Seq(HonestReplies)
BY DEF DInv, HonestInv, Sent

LEMMA ClosedHonest ==
  ASSUME NEW id \in Questions
  PROVE  Closed(id) \in HonestReplies
BY DEF Closed, HonestReplies, Replies

LEMMA ShimKeeps ==
  ASSUME DInv,
         \/ \E c \in Calls : Submit(c) \/ Exchange(c)
         \/ \E q \in Questions : HostReplies(q)
         \/ \E h \in Hosts : ForwardReply(h) \/ HostCloses(h) \/ ShimDies(h)
  PROVE  DInv'
<1>s. UNCHANGED <<host, client, expected, asking, nextId, work, lines, heard>>
  BY DEF Submit, Exchange, ShowQuestion, GiveAnswer, HostReplies, ForwardReply, HostCloses, ShimDies,
         calls, objects, processes, questions
<1>d. ASSUME /\ shownOn' \in [Questions -> Calls \cup {None}]
             /\ down' \in [Calls -> Seq(Downs)]
             /\ pending' \in [Hosts -> SUBSET [id : Questions, call : Calls]]
             /\ up' \in [Calls -> Seq(HonestReplies)]
             /\ stdin' \in [Hosts -> Seq(HonestReplies)]
      PROVE  DInv'
  BY <1>d, <1>s DEF DInv, Types, HonestInv, DecisionsFit
<1>1. ASSUME NEW c \in Calls, Submit(c) PROVE DInv'
  BY <1>d, <1>1 DEF Submit, questions, shims, DInv, Types, HonestInv
<1>2. ASSUME NEW c \in Calls, ShowQuestion(c) PROVE DInv'
  <2> DEFINE h == host[c]
             q == Head(down[c]).question
             entry == [id |-> RelayId(q), call |-> c]
  <2>1. h \in Hosts /\ down[c] \in Seq(Downs) /\ down[c] # <<>>
    BY <1>2 DEF ShowQuestion, DInv, Types
  <2>2. Head(down[c]) \in Downs /\ Tail(down[c]) \in Seq(Downs) /\ Head(down[c]).type = "ask"
    BY <1>2, <2>1 DEF ShowQuestion
  <2>3. q \in Questions /\ RelayId(q) = q
    BY <2>2 DEF Downs, RelayId
  <2>4. entry \in [id : Questions, call : Calls] /\ Closed(RelayId(q)) \in HonestReplies
    BY <2>3, ClosedHonest
  <2>5. down' \in [Calls -> Seq(Downs)] /\ UNCHANGED stdin
    BY <1>2, <2>2 DEF ShowQuestion, DInv, Types
  <2>6. up' \in [Calls -> Seq(HonestReplies)]
    <3>1. Sent(c, Closed(RelayId(q))) \in Seq(HonestReplies)
      BY <2>4, SentHonest
    <3>2. up' = [up EXCEPT ![c] = Sent(c, Closed(RelayId(q)))] \/ UNCHANGED up
      BY <1>2 DEF ShowQuestion
    <3> QED BY <3>1, <3>2 DEF DInv, HonestInv
  <2>7. pending' \in [Hosts -> SUBSET [id : Questions, call : Calls]]
    <3>1. \/ UNCHANGED pending
          \/ pending' = [pending EXCEPT ![h] = {p \in @ : p.id # RelayId(q)} \cup {entry}]
      BY <1>2 DEF ShowQuestion
    <3> HIDE DEF entry
    <3>2. pending[h] \in SUBSET [id : Questions, call : Calls]
      BY <2>1 DEF DInv, Types
    <3>3. {p \in pending[h] : p.id # RelayId(q)} \cup {entry} \in SUBSET [id : Questions, call : Calls]
      BY <2>4, <3>2
    <3> QED BY <2>1, <3>1, <3>3 DEF DInv, Types
  <2>8. shownOn' \in [Questions -> Calls \cup {None}]
    BY <1>2, <2>3 DEF ShowQuestion, DInv, Types
  <2> QED BY <1>d, <2>5, <2>6, <2>7, <2>8 DEF DInv, HonestInv
<1>3. ASSUME NEW c \in Calls, GiveAnswer(c) PROVE DInv'
  <2>1. host[c] \in Hosts /\ down[c] \in Seq(Downs) /\ down[c] # <<>>
    BY <1>3 DEF GiveAnswer, DInv, Types
  <2>2. Tail(down[c]) \in Seq(Downs)
    BY <2>1
  <2>3. down' \in [Calls -> Seq(Downs)]
    BY <1>3, <2>2 DEF GiveAnswer, DInv, Types
  <2>4. pending' \in [Hosts -> SUBSET [id : Questions, call : Calls]]
    BY <1>3, <2>1 DEF GiveAnswer, DInv, Types
  <2> QED BY <1>d, <1>3, <2>3, <2>4 DEF GiveAnswer, questions, DInv, Types, HonestInv
<1>4. ASSUME NEW q \in Questions, HostReplies(q) PROVE DInv'
  <2> DEFINE h == host[shownOn[q]]
  <2>1. h \in Hosts
    BY <1>4 DEF HostReplies, DInv, Types
  <2>2. PICK valid \in BOOLEAN :
          stdin' = [stdin EXCEPT ![h] = Append(@, [id |-> RelayId(q), about |-> q, valid |-> valid])]
    BY <1>4 DEF HostReplies
  <2>3. [id |-> RelayId(q), about |-> q, valid |-> valid] \in HonestReplies
    BY DEF HonestReplies, Replies, RelayId
  <2>4. stdin' \in [Hosts -> Seq(HonestReplies)]
    BY <2>1, <2>2, <2>3 DEF DInv, HonestInv
  <2> QED BY <1>d, <1>4, <2>4 DEF HostReplies, DInv, Types, HonestInv
<1>5. ASSUME NEW h \in Hosts, ForwardReply(h) PROVE DInv'
  <2>1. stdin[h] \in Seq(HonestReplies) /\ stdin[h] # <<>>
    BY <1>5 DEF ForwardReply, DInv, HonestInv
  <2>2. Head(stdin[h]) \in HonestReplies /\ Tail(stdin[h]) \in Seq(HonestReplies)
    BY <2>1
  <2>3. stdin' \in [Hosts -> Seq(HonestReplies)]
    BY <1>5, <2>2 DEF ForwardReply, DInv, HonestInv
  <2>4. /\ pending' \in [Hosts -> SUBSET [id : Questions, call : Calls]]
        /\ up' \in [Calls -> Seq(HonestReplies)]
    <3>1. CASE UNCHANGED <<pending, up>>
      BY <3>1 DEF DInv, Types, HonestInv
    <3>2. ASSUME NEW p \in pending[h],
                 pending' = [pending EXCEPT ![h] = ReplyTaken(h, p)],
                 up' = [up EXCEPT ![p.call] = Sent(p.call, Head(stdin[h]))]
          PROVE  /\ pending' \in [Hosts -> SUBSET [id : Questions, call : Calls]]
                 /\ up' \in [Calls -> Seq(HonestReplies)]
      <4>1. p.call \in Calls
        BY DEF DInv, Types
      <4>2. Sent(p.call, Head(stdin[h])) \in Seq(HonestReplies)
        BY <2>2, <4>1, SentHonest
      <4>3. ReplyTaken(h, p) \in SUBSET [id : Questions, call : Calls]
        BY DEF ReplyTaken, DInv, Types
      <4> QED BY <3>2, <4>1, <4>2, <4>3 DEF DInv, Types, HonestInv
    <3> QED BY <1>5, <3>1, <3>2 DEF ForwardReply
  <2> QED BY <1>d, <1>5, <2>3, <2>4 DEF ForwardReply, questions, DInv, Types
<1>6. ASSUME NEW h \in Hosts, HostCloses(h) PROVE DInv'
  <2>1. up' \in [Calls -> Seq(HonestReplies)]
    <3>1. SUFFICES ASSUME NEW c \in Calls PROVE up'[c] \in Seq(HonestReplies)
      BY <1>6 DEF HostCloses
    <3>2. CASE \E p \in pending[h] : p.call = c
      <4> DEFINE chosen == CHOOSE p \in pending[h] : p.call = c
      <4>1. chosen \in pending[h]
        BY <3>2
      <4>2. chosen.id \in Questions
        BY <4>1 DEF DInv, Types
      <4>3. up'[c] = Sent(c, Closed(chosen.id))
        BY <1>6, <3>2 DEF HostCloses
      <4> HIDE DEF chosen
      <4> QED BY <4>2, <4>3, ClosedHonest, SentHonest
    <3>3. CASE ~ \E p \in pending[h] : p.call = c
      BY <1>6, <3>3 DEF HostCloses, DInv, HonestInv
    <3> QED BY <3>2, <3>3
  <2>2. pending' \in [Hosts -> SUBSET [id : Questions, call : Calls]]
    BY <1>6 DEF HostCloses, DInv, Types
  <2> QED BY <1>d, <1>6, <2>1, <2>2 DEF HostCloses, questions, DInv, Types, HonestInv
<1>7. ASSUME NEW h \in Hosts, ShimDies(h) PROVE DInv'
  BY <1>d, <1>7 DEF ShimDies, questions, DInv, Types, HonestInv
<1> QED BY <1>1, <1>2, <1>3, <1>4, <1>5, <1>6, <1>7 DEF Exchange

\* A step of an upstream process.
LEMMA UpstreamKeeps ==
  ASSUME DInv, NEW u \in Clients, Upstream(u)
  PROVE  DInv'
<1>s. UNCHANGED <<host, client, expected, asking, nextId, shownOn, down, up, pending, stdin>>
  BY DEF Upstream, Respond, AskHost, Stray, Exit, calls, objects, questions, shims
<1>d. ASSUME /\ lines' \in [Clients -> Seq(Lines)]
             /\ work' \in [Clients -> SUBSET [id : Nat, for : Calls \cup {Initialize}]]
             /\ heard' \in [Questions -> Questions \cup {None, Error, Dropped}]
             /\ \A q \in Questions : heard'[q] \in {None, Error, Dropped, q}
      PROVE  DInv'
  BY <1>d, <1>s DEF DInv, Types, HonestInv, DecisionsFit
<1>w. ASSUME NEW line \in Lines, Write(u, line)
      PROVE  lines' \in [Clients -> Seq(Lines)]
  BY <1>w DEF Write, DInv, Types
<1>1. ASSUME NEW request \in work[u], Respond(u, request) PROVE DInv'
  <2>1. request \in [id : Nat, for : Calls \cup {Initialize}]
    BY DEF DInv, Types
  <2>2. PICK uninit \in {FALSE, told[u] = None \/ request.for = Initialize} :
          Write(u, [type |-> "answer", id |-> request.id, about |-> request.for, uninit |-> uninit])
    BY <1>1 DEF Respond
  <2>3. [type |-> "answer", id |-> request.id, about |-> request.for, uninit |-> uninit] \in Lines
    BY <2>1 DEF Lines
  <2>4. lines' \in [Clients -> Seq(Lines)]
    BY <1>w, <2>2, <2>3
  <2>5. work' \in [Clients -> SUBSET [id : Nat, for : Calls \cup {Initialize}]]
    BY <1>1 DEF Respond, DInv, Types
  <2> QED BY <1>d, <1>1, <2>4, <2>5 DEF Respond, questions, DInv, Types, DecisionsFit
<1>2. ASSUME NEW request \in work[u], NEW q \in Questions, AskHost(u, request, q) PROVE DInv'
  <2>1. [type |-> "ask", question |-> q] \in Lines
    BY DEF Lines
  <2>2. lines' \in [Clients -> Seq(Lines)]
    BY <1>2, <1>w, <2>1 DEF AskHost
  <2> QED BY <1>d, <1>2, <2>2 DEF AskHost, DInv, Types, DecisionsFit
<1>3. CASE Stray(u)
  <2>1. [type |-> "garbage"] \in Lines
    BY DEF Lines
  <2>2. lines' \in [Clients -> Seq(Lines)]
    BY <1>3, <1>w, <2>1 DEF Stray
  <2> QED BY <1>d, <1>3, <2>2 DEF Stray, questions, DInv, Types, DecisionsFit
<1>4. CASE Exit(u)
  BY <1>d, <1>4, EndHeard DEF Exit, DInv, Types
<1> QED BY <1>1, <1>2, <1>3, <1>4 DEF Upstream

LEMMA DStep ==
  ASSUME DInv, [Next]_vars
  PROVE  DInv'
<1>1. CASE Next
  BY <1>1, ThreadKeeps, ShimKeeps, UpstreamKeeps DEF Next
<1>2. CASE UNCHANGED vars
  BY <1>2 DEF vars, calls, objects, processes, questions, shims, DInv, Types, HonestInv, DecisionsFit
<1> QED BY <1>1, <1>2

\* Every reply on its way still carries the decision its host made on the
\* question it names, and what a question has heard agrees with it: the
\* invariant DecisionsFit rests on (elicitation.py, relay_request).
THEOREM RepliesStayHonest == Spec => []DInv
BY DInit, DStep, PTL DEF Spec

\* The upstream hears a decision only on the question the host decided, for
\* any number of hosts, calls and questions and however late or often the
\* hosts reply (elicitation.py, relay_request and _valid_reply).
THEOREM DecisionsReachTheirQuestion == Spec => []DecisionsFit
<1>1. DInv => DecisionsFit
  BY DEF DInv
<1> QED BY <1>1, RepliesStayHonest, PTL

-----------------------------------------------------------------------------
(* The end of a host's input.                                              *)

EofInv == DInv /\ eof \in [Hosts -> BOOLEAN] /\ NoQuestionAfterEof

LEMMA EofStep ==
  ASSUME EofInv, [Next]_vars
  PROVE  EofInv'
<1>i. DInv'
  BY DStep DEF EofInv
<1>h. /\ host \in [Calls -> Hosts] /\ eof \in [Hosts -> BOOLEAN] /\ NoQuestionAfterEof
      /\ pending \in [Hosts -> SUBSET [id : Questions, call : Calls]]
  BY DEF EofInv, DInv, Types
<1>1. ASSUME UNCHANGED <<eof, pending>> PROVE EofInv'
  BY <1>1, <1>i, <1>h DEF EofInv, NoQuestionAfterEof
<1>2. ASSUME NEW c \in Calls, Thread(c) \/ Submit(c) PROVE EofInv'
  BY <1>1, <1>2 DEF Thread, Begin, Read, TimeOut, ReplyRead, ReplyLost, RelayFails, ReadGarbage,
       ReadInitialized, ReadUninitialized, ReadAnswer, ReadAsk, ReadEnd, WriteFails, Submit, shims
<1>3. ASSUME NEW u \in Clients, Upstream(u) PROVE EofInv'
  BY <1>1, <1>3 DEF Upstream, Respond, AskHost, Stray, Exit, shims
<1>4. ASSUME NEW c \in Calls, ShowQuestion(c) PROVE EofInv'
  <2>1. CASE UNCHANGED pending
    BY <1>1, <1>4, <2>1 DEF ShowQuestion
  <2>2. CASE ~InputClosed(host[c])
    <3>1. ~eof[host[c]] /\ UNCHANGED eof
      BY <1>4, <2>2 DEF ShowQuestion, InputClosed
    <3>2. \A h \in Hosts : h # host[c] => pending'[h] = pending[h]
      BY <1>4, <1>h DEF ShowQuestion
    <3> QED BY <1>i, <1>h, <3>1, <3>2 DEF EofInv, NoQuestionAfterEof
  <2> QED BY <1>4, <2>1, <2>2 DEF ShowQuestion
<1>5. ASSUME NEW c \in Calls, GiveAnswer(c) PROVE EofInv'
  <2>1. UNCHANGED eof
    BY <1>5 DEF GiveAnswer
  <2>2. \A h \in Hosts : pending'[h] \subseteq pending[h]
    BY <1>5, <1>h DEF GiveAnswer
  <2> QED BY <1>i, <1>h, <2>1, <2>2 DEF EofInv, NoQuestionAfterEof
<1>6. ASSUME NEW q \in Questions, HostReplies(q) PROVE EofInv'
  BY <1>1, <1>6 DEF HostReplies
<1>7. ASSUME NEW h \in Hosts, ForwardReply(h) PROVE EofInv'
  <2>1. UNCHANGED eof
    BY <1>7 DEF ForwardReply
  <2>2. \A x \in Hosts : pending'[x] \subseteq pending[x]
    BY <1>7, <1>h DEF ForwardReply, ReplyTaken
  <2> QED BY <1>i, <1>h, <2>1, <2>2 DEF EofInv, NoQuestionAfterEof
<1>8. ASSUME NEW h \in Hosts, HostCloses(h) PROVE EofInv'
  BY <1>8, <1>i, <1>h DEF HostCloses, EofInv, NoQuestionAfterEof
<1>9. ASSUME NEW h \in Hosts, ShimDies(h) PROVE EofInv'
  BY <1>1, <1>9 DEF ShimDies
<1>10. CASE UNCHANGED vars
  BY <1>1, <1>10 DEF vars, shims
<1> QED
  BY <1>2, <1>3, <1>4, <1>5, <1>6, <1>7, <1>8, <1>9, <1>10 DEF Next, Exchange

\* No socket waits for a reply of a host whose input has ended, for any number
\* of hosts and calls (client_relay.py, run and _receive).
THEOREM NoSocketWaitsAfterEof == Spec => []NoQuestionAfterEof
<1>1. Init => EofInv
  BY DInit DEF Init, EofInv, NoQuestionAfterEof
<1>2. EofInv => NoQuestionAfterEof
  BY DEF EofInv
<1> QED BY <1>1, <1>2, EofStep, PTL DEF Spec

-----------------------------------------------------------------------------
(* Request ids: an id is never used twice for a client, so an answer with  *)
(* the id a thread waits for is an answer to the request it sent last,     *)
(* whatever other calls left in the process's output.                      *)

WorkIds(requests) == {<<r.id, r.for>> : r \in requests}
LineIds(s) == {<<s[i].id, s[i].about>> : i \in {j \in 1..Len(s) : s[j].type = "answer"}}

\* The ids the process still has, or has answered, with what they are for.
Used(u) == WorkIds(work[u]) \cup LineIds(lines[u])

IdsFit ==
  /\ \A u \in Clients : \A n \in Used(u) : n[1] < nextId[u]
  /\ \A c \in Calls : phase[c] = "calling" =>
       /\ expected[c] < nextId[client[c]]
       /\ \A n \in Used(client[c]) : n[1] = expected[c] => n[2] = c

FinalsFit(c, s) == \A i \in 1..Len(s) : s[i].type = "final" => s[i].about \in {c, Error}

AnswersFit ==
  /\ \A c \in Calls : FinalsFit(c, down[c])
  /\ answer \in [Calls -> Calls \cup {None, Initialize, Error}]
  /\ OwnAnswer

IdInv == DInv /\ phase \in [Calls -> Phases] /\ IdsFit /\ AnswersFit

LEMMA LineIdsTail ==
  ASSUME NEW s \in Seq(Lines), s # <<>>
  PROVE  /\ LineIds(Tail(s)) \subseteq LineIds(s)
         /\ Head(s).type = "answer" => <<Head(s).id, Head(s).about>> \in LineIds(s)
<1>1. Len(s) \in Nat \ {0} /\ Head(s) = s[1] /\ 1 \in 1..Len(s)
  BY DEF Lines
<1>2. Len(Tail(s)) = Len(s) - 1 /\ \A i \in 1..Len(Tail(s)) : Tail(s)[i] = s[i + 1] /\ i + 1 \in 1..Len(s)
  OBVIOUS
<1> QED BY <1>1, <1>2 DEF LineIds

LEMMA LineIdsAppend ==
  ASSUME NEW s \in Seq(Lines), NEW line \in Lines
  PROVE  /\ line.type # "answer" => LineIds(Append(s, line)) \subseteq LineIds(s)
         /\ line.type = "answer" =>
              LineIds(Append(s, line)) \subseteq LineIds(s) \cup {<<line.id, line.about>>}
<1>1. Len(Append(s, line)) = Len(s) + 1 /\ Append(s, line)[Len(s) + 1] = line
  OBVIOUS
<1>2. \A i \in 1..Len(s) : Append(s, line)[i] = s[i]
  OBVIOUS
<1>3. Len(s) \in Nat
  OBVIOUS
<1>4. \A i \in 1..Len(Append(s, line)) : i = Len(s) + 1 \/ i \in 1..Len(s)
  BY <1>1, <1>3
<1> QED BY <1>1, <1>2, <1>4 DEF LineIds

\* A step that sends nothing: no id is new.
LEMMA NothingSent ==
  ASSUME IdInv, UNCHANGED <<client, nextId, expected>>,
         \A u \in Clients : Used(u)' \subseteq Used(u),
         \A c \in Calls : phase'[c] = "calling" => phase[c] = "calling"
  PROVE  IdsFit'
<1>1. \A c \in Calls : client[c] \in Clients
  BY DEF IdInv, DInv, Types
<1> QED BY <1>1 DEF IdInv, IdsFit

\* A step that sends a request under the next id.
LEMMA RequestSent ==
  ASSUME IdInv, NEW c \in Calls, NEW what \in {c, Initialize}, NEW kept,
         kept = {} \/ kept = work[client[c]], Send(c, what, kept), UNCHANGED client,
         LineIds(lines'[client[c]]) \subseteq LineIds(lines[client[c]]),
         \A u \in Clients \ {client[c]} : lines'[u] = lines[u]
  PROVE  IdsFit'
<1> DEFINE u == client[c]
<1>1. /\ u \in Clients /\ nextId \in [Clients -> Nat] /\ nextId[u] \in Nat
      /\ expected \in [Calls -> Nat] /\ work \in [Clients -> SUBSET [id : Nat, for : Calls \cup {Initialize}]]
  BY DEF IdInv, DInv, Types
<1>2. Used(u)' \subseteq Used(u) \cup {<<nextId[u], what>>}
  <2>1. work'[u] = kept \cup {[id |-> nextId[u], for |-> what]}
    BY <1>1 DEF Send
  <2>2. WorkIds(work'[u]) \subseteq WorkIds(work[u]) \cup {<<nextId[u], what>>}
    BY <2>1 DEF WorkIds
  <2> QED BY <2>2 DEF Used
<1>3. \A x \in Clients \ {u} : Used(x)' = Used(x) /\ nextId'[x] = nextId[x]
  BY <1>1 DEF Send, Used
<1>4. nextId'[u] = nextId[u] + 1
  BY <1>1 DEF Send
<1>5. \A x \in Clients : \A n \in Used(x)' : n[1] < nextId'[x]
  <2>1. SUFFICES ASSUME NEW x \in Clients, NEW n \in Used(x)' PROVE n[1] < nextId'[x]
    OBVIOUS
  <2>2. CASE x # u
    BY <1>3, <2>2 DEF IdInv, IdsFit
  <2>3. CASE x = u /\ n = <<nextId[u], what>>
    BY <1>1, <1>4, <2>3
  <2>4. CASE x = u /\ n \in Used(u)
    <3>1. n[1] < nextId[u] /\ n[1] \in Nat
      <4>1. \A r \in work[u] : r.id \in Nat
        BY <1>1
      <4>2. \A i \in 1..Len(lines[u]) : lines[u][i].type = "answer" => lines[u][i].id \in Nat
        <5>1. lines[u] \in Seq(Lines)
          BY <1>1 DEF IdInv, DInv, Types
        <5> QED BY <5>1 DEF Lines
      <4> QED BY <1>1, <2>4, <4>1, <4>2 DEF IdInv, IdsFit, Used, WorkIds, LineIds
    <3> QED BY <1>1, <1>4, <2>4, <3>1
  <2> QED BY <1>2, <2>2, <2>3, <2>4
<1>6. ASSUME NEW x \in Calls, phase'[x] = "calling"
      PROVE  /\ expected'[x] < nextId'[client'[x]]
             /\ \A n \in Used(client[x])' : n[1] = expected'[x] => n[2] = x
  <2>1. client'[x] = client[x] /\ client[x] \in Clients /\ expected[x] \in Nat
    BY <1>1 DEF IdInv, DInv, Types
  <2>2. CASE x = c
    <3>1. what = c
      BY <1>6, <2>2 DEF Send, IdInv
    <3>2. expected'[x] = nextId[u]
      BY <1>1, <2>2 DEF Send
    <3>3. \A n \in Used(u) : n[1] < nextId[u] /\ n[1] # nextId[u]
      BY <1>1 DEF IdInv, IdsFit
    <3> QED BY <1>1, <1>2, <1>4, <2>1, <2>2, <3>1, <3>2, <3>3
  <2>3. CASE x # c
    <3>1. phase[x] = "calling" /\ expected'[x] = expected[x]
      BY <1>1, <1>6, <2>3 DEF Send, IdInv
    <3>2. expected[x] < nextId[client[x]] /\ \A n \in Used(client[x]) : n[1] = expected[x] => n[2] = x
      BY <3>1 DEF IdInv, IdsFit
    <3>3. CASE client[x] # u
      BY <1>3, <2>1, <3>1, <3>2, <3>3
    <3>4. CASE client[x] = u
      <4>1. expected[x] < nextId[u] /\ expected[x] # nextId[u]
        BY <1>1, <2>1, <3>2, <3>4
      <4> QED BY <1>1, <1>2, <1>4, <2>1, <3>1, <3>2, <3>4, <4>1
    <3> QED BY <3>3, <3>4
  <2> QED BY <2>2, <2>3
<1> QED BY <1>5, <1>6 DEF IdsFit

LEMMA FinalsFitTail ==
  ASSUME NEW c \in Calls, NEW s \in Seq(Downs), s # <<>>, FinalsFit(c, s)
  PROVE  /\ FinalsFit(c, Tail(s))
         /\ Head(s).type = "final" => Head(s).about \in {c, Error}
<1>1. Len(s) \in Nat \ {0} /\ Head(s) = s[1] /\ 1 \in 1..Len(s)
  OBVIOUS
<1>2. Len(Tail(s)) = Len(s) - 1 /\ \A i \in 1..Len(Tail(s)) : Tail(s)[i] = s[i + 1] /\ i + 1 \in 1..Len(s)
  OBVIOUS
<1> QED BY <1>1, <1>2 DEF FinalsFit

LEMMA FinalsFitAppend ==
  ASSUME NEW c \in Calls, NEW s \in Seq(Downs), NEW line \in Downs, FinalsFit(c, s),
         line.type = "final" => line.about \in {c, Error}
  PROVE  FinalsFit(c, Append(s, line))
<1>1. Len(Append(s, line)) = Len(s) + 1 /\ Append(s, line)[Len(s) + 1] = line
  OBVIOUS
<1>2. \A i \in 1..Len(s) : Append(s, line)[i] = s[i]
  OBVIOUS
<1>3. \A i \in 1..Len(Append(s, line)) : i = Len(s) + 1 \/ i \in 1..Len(s)
  BY <1>1
<1> QED BY <1>1, <1>2, <1>3 DEF FinalsFit

\* The end of a call: its own result or an error.
LEMMA FinishFits ==
  ASSUME IdInv, NEW c \in Calls, NEW about \in {c, Error}, Finish(c, about), UNCHANGED answer
  PROVE  /\ AnswersFit' /\ phase' \in [Calls -> Phases]
         /\ \A x \in Calls : phase'[x] = "calling" => phase[x] = "calling"
<1>1. down \in [Calls -> Seq(Downs)] /\ phase \in [Calls -> Phases] /\ AnswersFit
  BY DEF IdInv, DInv, Types
<1>2. [type |-> "final", about |-> about] \in Downs
  BY DEF Downs
<1>3. \A x \in Calls : FinalsFit(x, down'[x])
  BY <1>1, <1>2, FinalsFitAppend DEF Finish, AnswersFit
<1>4. AnswersFit'
  BY <1>1, <1>3 DEF AnswersFit, OwnAnswer
<1>5. phase' = [phase EXCEPT ![c] = "ended"] /\ "ended" \in Phases
  BY DEF Finish, Phases
<1> QED BY <1>1, <1>4, <1>5

\* Reading a line takes nothing but that line away.
LEMMA LineReadUsed ==
  ASSUME IdInv, NEW c \in Calls, NEW type, NextLine(c, type), LineRead(client[c])
  PROVE  /\ \A u \in Clients : LineIds(lines'[u]) \subseteq LineIds(lines[u])
         /\ \A u \in Clients \ {client[c]} : lines'[u] = lines[u]
         /\ type = "answer" =>
              <<Head(lines[client[c]]).id, Head(lines[client[c]]).about>> \in Used(client[c])
<1>1. /\ client[c] \in Clients /\ lines \in [Clients -> Seq(Lines)]
      /\ lines[client[c]] # <<>> /\ Head(lines[client[c]]).type = type
  BY DEF IdInv, DInv, Types, NextLine
<1>2. /\ LineIds(Tail(lines[client[c]])) \subseteq LineIds(lines[client[c]])
      /\ type = "answer" =>
           <<Head(lines[client[c]]).id, Head(lines[client[c]]).about>> \in LineIds(lines[client[c]])
  BY <1>1, LineIdsTail
<1>3. lines' = [lines EXCEPT ![client[c]] = Tail(lines[client[c]])]
  BY DEF LineRead
<1> QED BY <1>1, <1>2, <1>3 DEF Used

LEMMA ThreadKeepsIds ==
  ASSUME IdInv, NEW c \in Calls, Thread(c)
  PROVE  IdInv'
<1> DEFINE u == client[c]
<1>d. DInv'
  BY ThreadKeeps DEF IdInv
<1>u. /\ u \in Clients /\ work \in [Clients -> SUBSET [id : Nat, for : Calls \cup {Initialize}]]
      /\ phase \in [Calls -> Phases] /\ lines \in [Clients -> Seq(Lines)]
      /\ down \in [Calls -> Seq(Downs)]
  BY DEF IdInv, DInv, Types
<1>s. UNCHANGED <<host, client, answer>>
  BY DEF Thread, Begin, Read, TimeOut, ReplyRead, ReplyLost, RelayFails, ReadGarbage, ReadInitialized,
         ReadUninitialized, ReadAnswer, ReadAsk, ReadEnd, WriteFails, calls, shims
\* Steps that end the call.
<1>e. ASSUME NEW about \in {c, Error}, Finish(c, about), UNCHANGED <<nextId, expected>>,
             \A x \in Clients : Used(x)' \subseteq Used(x)
      PROVE  IdInv'
  BY <1>d, <1>s, <1>e, FinishFits, NothingSent DEF IdInv
\* Steps that send a request.
<1>f. ASSUME NEW what \in {c, Initialize}, NEW kept, kept = {} \/ kept = work[u],
             Send(c, what, kept), UNCHANGED down,
             LineIds(lines'[u]) \subseteq LineIds(lines[u]),
             \A x \in Clients \ {u} : lines'[x] = lines[x]
      PROVE  IdInv'
  <2>1. IdsFit'
    BY <1>f, <1>s, RequestSent
  <2>2. phase' \in [Calls -> Phases]
    BY <1>f, <1>u DEF Send, Phases
  <2>3. AnswersFit'
    BY <1>f, <1>s DEF IdInv, AnswersFit, OwnAnswer
  <2> QED BY <1>d, <2>1, <2>2, <2>3 DEF IdInv
\* A line read while nothing else of the process changes.
<1>r. ASSUME NEW type, NextLine(c, type), LineRead(u), UNCHANGED work
      PROVE  \A x \in Clients : Used(x)' \subseteq Used(x)
  BY <1>r, LineReadUsed DEF Used
<1>1. CASE Begin(c)
  <2> DEFINE same == alive[u] /\ ~CapabilitiesDiffer(c)
             kept == IF same THEN work[u] ELSE {}
  <2>1. (Send(c, Initialize, kept) \/ Send(c, c, kept)) /\ UNCHANGED down
    BY <1>1 DEF Begin, SendInitialize
  <2>2. lines' = [lines EXCEPT ![u] = IF same THEN @ ELSE <<>>]
    BY <1>1 DEF Begin
  <2>3. kept = {} \/ kept = work[u]
    OBVIOUS
  <2> HIDE DEF same, kept
  <2>4. lines'[u] \in {lines[u], <<>>} /\ \A x \in Clients \ {u} : lines'[x] = lines[x]
    BY <1>u, <2>2
  <2>5. LineIds(<<>>) = {}
    BY DEF LineIds
  <2> QED BY <1>f, <2>1, <2>3, <2>4, <2>5
<1>2. CASE TimeOut(c) \/ RelayFails(c)
  <2>1. Finish(c, Error) /\ ResetProcess(u) /\ UNCHANGED <<nextId, expected>>
    BY <1>2 DEF TimeOut, RelayFails
  <2>2. work'[u] = {} /\ lines'[u] = <<>> /\ \A x \in Clients \ {u} : work'[x] = work[x] /\ lines'[x] = lines[x]
    BY <1>u, <2>1 DEF ResetProcess
  <2>3. LineIds(<<>>) = {} /\ WorkIds({}) = {}
    BY DEF LineIds, WorkIds
  <2> QED BY <1>e, <2>1, <2>2, <2>3 DEF Used
<1>3. CASE ReadEnd(c)
  BY <1>3, <1>e DEF ReadEnd, objects, processes, Used
<1>4. CASE ReadGarbage(c)
  BY <1>4, <1>e, <1>r DEF ReadGarbage, objects
<1>5. CASE WriteFails(c)
  BY <1>5, <1>e, <1>r DEF WriteFails, objects
<1>6. CASE ReadAnswer(c)
  <2> DEFINE line == Head(lines[u])
             about == IF IdMatches(c, line) /\ ~line.uninit THEN line.about ELSE Error
  <2>1. NextLine(c, "answer") /\ LineRead(u) /\ UNCHANGED <<nextId, expected, work>> /\ Finish(c, about)
    BY <1>6 DEF ReadAnswer, objects
  <2>2. about \in {c, Error}
    <3>1. SUFFICES ASSUME line.id = expected[c], ~line.uninit PROVE line.about = c
      BY DEF IdMatches
    <3>2. phase[c] = "calling"
      BY <1>6, <3>1 DEF ReadAnswer, Initialized, IdMatches, NextLine, Waiting
    <3>3. <<line.id, line.about>> \in Used(u)
      BY <2>1, LineReadUsed
    <3> QED BY <3>1, <3>2, <3>3 DEF IdInv, IdsFit
  <2> HIDE DEF about
  <2> QED BY <1>e, <1>r, <2>1, <2>2
<1>7. CASE ReadInitialized(c) \/ ReadUninitialized(c)
  <2>1. Send(c, Initialize, work[u]) \/ Send(c, c, work[u])
    BY <1>7 DEF ReadInitialized, ReadUninitialized, SendInitialize
  <2>2. NextLine(c, "answer") /\ LineRead(u) /\ UNCHANGED down
    BY <1>7 DEF ReadInitialized, ReadUninitialized
  <2> QED BY <1>f, <1>u, <2>1, <2>2, LineReadUsed
\* Steps that neither send nor end.
<1>n. ASSUME UNCHANGED <<nextId, expected, phase>>, AnswersFit',
             \A x \in Clients : Used(x)' \subseteq Used(x)
      PROVE  IdInv'
  BY <1>d, <1>s, <1>n, NothingSent DEF IdInv
<1>8. CASE ReadAsk(c)
  <2> DEFINE line == [type |-> "ask", question |-> Head(lines[u]).question]
  <2>1. NextLine(c, "ask") /\ LineRead(u) /\ UNCHANGED <<nextId, expected, phase, work>>
    BY <1>8 DEF ReadAsk, objects
  <2>2. line \in Downs
    BY <2>1, LineTypes DEF IdInv, Lines, Downs
  <2>3. down' = [down EXCEPT ![c] = Append(@, line)] \/ UNCHANGED down
    BY <1>8 DEF ReadAsk
  <2>4. line.type # "final" /\ FinalsFit(c, down[c]) /\ down[c] \in Seq(Downs)
    BY <1>u DEF IdInv, AnswersFit
  <2> HIDE DEF line
  <2>5. FinalsFit(c, Append(down[c], line))
    BY <2>2, <2>4, FinalsFitAppend
  <2>6. AnswersFit'
    BY <1>s, <1>u, <2>3, <2>5 DEF IdInv, AnswersFit, OwnAnswer
  <2> QED BY <1>n, <1>r, <2>1, <2>6
<1>9. CASE ReplyRead(c)
  BY <1>9, <1>n, <1>s DEF ReplyRead, objects, processes, Used, IdInv, AnswersFit, OwnAnswer
<1>10. CASE ReplyLost(c)
  BY <1>10, <1>e DEF ReplyLost, objects, processes, Used
<1> QED
  BY <1>1, <1>2, <1>3, <1>4, <1>5, <1>6, <1>7, <1>8, <1>9, <1>10 DEF Thread, Read

LEMMA IdStep ==
  ASSUME IdInv, [Next]_vars
  PROVE  IdInv'
<1>d. DInv'
  BY DStep DEF IdInv
\* Steps that neither send, end a call, nor give an answer.
<1>n. ASSUME UNCHANGED <<client, nextId, expected, answer>>,
             phase' \in [Calls -> Phases],
             \A x \in Calls : phase'[x] = "calling" => phase[x] = "calling",
             \A x \in Calls : FinalsFit(x, down'[x]),
             \A x \in Clients : Used(x)' \subseteq Used(x)
      PROVE  IdInv'
  <2>1. IdsFit'
    BY <1>n, NothingSent
  <2>2. AnswersFit'
    BY <1>n DEF IdInv, AnswersFit, OwnAnswer
  <2> QED BY <1>d, <1>n, <2>1, <2>2 DEF IdInv
<1>k. /\ \A x \in Calls : FinalsFit(x, down[x])
      /\ phase \in [Calls -> Phases] /\ down \in [Calls -> Seq(Downs)]
  BY DEF IdInv, AnswersFit, DInv, Types
\* Steps of which the process and the answers see nothing.
<1>q. ASSUME UNCHANGED <<calls, objects, work, lines, down, answer>> PROVE IdInv'
  BY <1>k, <1>n, <1>q DEF calls, objects, Used
<1>1. ASSUME NEW c \in Calls, Thread(c) PROVE IdInv'
  BY <1>1, ThreadKeepsIds
<1>2. ASSUME NEW c \in Calls, Submit(c) PROVE IdInv'
  <2>1. phase' = [phase EXCEPT ![c] = "queued"]
    BY <1>2 DEF Submit
  <2>2. /\ phase' \in [Calls -> Phases]
        /\ \A x \in Calls : phase'[x] = "calling" => phase[x] = "calling"
    BY <1>k, <2>1 DEF Phases
  <2> QED BY <1>2, <1>k, <1>n, <2>2 DEF Submit, objects, processes, shims, Used
<1>3. ASSUME NEW c \in Calls, ShowQuestion(c) PROVE IdInv'
  <2>1. down[c] # <<>> /\ down' = [down EXCEPT ![c] = Tail(@)]
    BY <1>3 DEF ShowQuestion
  <2>2. \A x \in Calls : FinalsFit(x, down'[x])
    BY <1>k, <2>1, FinalsFitTail
  <2> QED BY <1>3, <1>k, <1>n, <2>2 DEF ShowQuestion, calls, objects, processes, Used
<1>4. ASSUME NEW c \in Calls, GiveAnswer(c) PROVE IdInv'
  <2>1. /\ down[c] # <<>> /\ down' = [down EXCEPT ![c] = Tail(@)] /\ Head(down[c]).type = "final"
        /\ answer' = [answer EXCEPT ![c] = Head(down[c]).about]
        /\ UNCHANGED <<calls, objects, processes>>
    BY <1>4 DEF GiveAnswer
  <2>2. \A x \in Calls : FinalsFit(x, down'[x])
    BY <1>k, <2>1, FinalsFitTail
  <2>3. Head(down[c]).about \in {c, Error}
    BY <1>k, <2>1, FinalsFitTail
  <2>4. AnswersFit'
    BY <2>1, <2>2, <2>3 DEF IdInv, AnswersFit, OwnAnswer
  <2>5. IdsFit'
    BY <2>1, NothingSent DEF calls, objects, processes, Used
  <2> QED BY <1>d, <1>k, <2>1, <2>4, <2>5 DEF IdInv, calls
<1>5. ASSUME NEW u \in Clients, Upstream(u) PROVE IdInv'
  <2>t. /\ lines \in [Clients -> Seq(Lines)] /\ lines[u] \in Seq(Lines)
        /\ work \in [Clients -> SUBSET [id : Nat, for : Calls \cup {Initialize}]]
    BY DEF IdInv, DInv, Types
  <2>1. ASSUME NEW request \in work[u], Respond(u, request) PROVE IdInv'
    <3>1. request \in [id : Nat, for : Calls \cup {Initialize}]
      BY <2>t
    <3>2. PICK uninit \in {FALSE, told[u] = None \/ request.for = Initialize} :
            Write(u, [type |-> "answer", id |-> request.id, about |-> request.for, uninit |-> uninit])
      BY <2>1 DEF Respond
    <3> DEFINE line == [type |-> "answer", id |-> request.id, about |-> request.for, uninit |-> uninit]
    <3>3. line \in Lines /\ line.type = "answer" /\ line.id = request.id /\ line.about = request.for
      BY <3>1 DEF Lines
    <3>4. lines' = [lines EXCEPT ![u] = Append(@, line)]
      BY <3>2 DEF Write
    <3> HIDE DEF line
    <3>5. LineIds(Append(lines[u], line)) \subseteq LineIds(lines[u]) \cup {<<request.id, request.for>>}
      BY <2>t, <3>3, LineIdsAppend
    <3>6. work' = [work EXCEPT ![u] = @ \ {request}]
      BY <2>1 DEF Respond
    <3>7. \A x \in Clients : WorkIds(work'[x]) \subseteq WorkIds(work[x])
      BY <2>t, <3>6 DEF WorkIds
    <3>8. <<request.id, request.for>> \in WorkIds(work[u])
      BY DEF WorkIds
    <3>9. \A x \in Clients : Used(x)' \subseteq Used(x)
      BY <2>t, <3>4, <3>5, <3>7, <3>8 DEF Used
    <3> QED BY <1>k, <1>n, <2>1, <3>9 DEF Respond, calls, objects, shims
  <2>2. ASSUME NEW line \in Lines, line.type # "answer", Write(u, line),
               UNCHANGED <<calls, objects, work, down, answer>>
        PROVE  IdInv'
    <3>1. LineIds(Append(lines[u], line)) \subseteq LineIds(lines[u])
      BY <2>t, <2>2, LineIdsAppend
    <3>2. \A x \in Clients : Used(x)' \subseteq Used(x)
      BY <2>t, <2>2, <3>1 DEF Write, Used
    <3> QED BY <1>k, <1>n, <2>2, <3>2 DEF calls, objects
  <2>3. ASSUME NEW request \in work[u], NEW q \in Questions, AskHost(u, request, q) PROVE IdInv'
    <3>1. [type |-> "ask", question |-> q] \in Lines
      BY DEF Lines
    <3> QED BY <2>2, <2>3, <3>1 DEF AskHost, shims
  <2>4. CASE Stray(u)
    <3>1. [type |-> "garbage"] \in Lines
      BY DEF Lines
    <3> QED BY <2>2, <2>4, <3>1 DEF Stray, shims
  <2>5. CASE Exit(u)
    BY <1>q, <2>5 DEF Exit, shims
  <2> QED BY <1>5, <2>1, <2>3, <2>4, <2>5 DEF Upstream
<1>6. ASSUME NEW q \in Questions, HostReplies(q) PROVE IdInv'
  BY <1>6, <1>q DEF HostReplies, processes
<1>7. ASSUME NEW h \in Hosts, ForwardReply(h) \/ HostCloses(h) \/ ShimDies(h) PROVE IdInv'
  BY <1>7, <1>q DEF ForwardReply, HostCloses, ShimDies, processes
<1>8. CASE UNCHANGED vars
  BY <1>8, <1>q DEF vars, processes, shims
<1> QED
  BY <1>1, <1>2, <1>3, <1>4, <1>5, <1>6, <1>7, <1>8 DEF Next, Exchange

LEMMA IdInit == Init => IdInv
<1> SUFFICES ASSUME Init PROVE IdInv
  OBVIOUS
<1>1. IdsFit
  BY DEF Init, IdsFit, Used, WorkIds, LineIds
<1>2. AnswersFit
  BY DEF Init, AnswersFit, FinalsFit, OwnAnswer
<1>3. phase \in [Calls -> Phases]
  BY DEF Init, Phases
<1> QED BY DInit, <1>1, <1>2, <1>3 DEF IdInv

\* A call gets its own result or an error, for any numbers of calls, hosts and
\* clients and whatever stray lines, time-outs and exits came before
\* (upstream_stdio.py, request ids and _result_from_response).
THEOREM CallsGetTheirOwnAnswer == Spec => []OwnAnswer
<1>1. IdInv => OwnAnswer
  BY DEF IdInv, AnswersFit
<1> QED BY <1>1, IdInit, IdStep, PTL DEF Spec
=============================================================================
