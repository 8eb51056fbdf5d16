------------------------ MODULE ApprovalPromiseProofs ------------------------
(***************************************************************************)
(* More proofs about ApprovalRelay, for any numbers of calls, hosts,       *)
(* clients and questions: hosts are asked only what they announced, a      *)
(* question is relayed on the socket of its call, and the relay keeps the  *)
(* promise of Approvals to every question; at last, type correctness.      *)
(***************************************************************************)
EXTENDS ApprovalRelayProofs

Working(c) == phase[c] \in {"initializing", "calling"}

\* A client serves one call at a time, and only a call that is served relays.
TurnInv ==
  /\ \A c, d \in Calls : client[c] = client[d] /\ Working(c) /\ Working(d) => c = d
  /\ \A c \in Calls : asking[c] # None => Working(c)

\* What the daemon remembers of a process is what initialize told it, and fits
\* the host of the call the process works for.
KnownInv ==
  /\ \A u \in Clients : known[u] # None => told[u] = known[u]
  /\ \A c \in Calls : phase[c] = "calling" => known[client[c]] \in {None, Has(c)}
  /\ \A c \in Calls : phase[c] = "initializing" => known[client[c]] = None /\ told[client[c]] = Has(c)

\* The questions among the lines of a process or a socket, each once.
AskSet(s) == {s[i].question : i \in {j \in 1..Len(s) : s[j].type = "ask"}}
Distinct(s) ==
  \A i, j \in 1..Len(s) :
    s[i].type = "ask" /\ s[j].type = "ask" /\ s[i].question = s[j].question => i = j

\* Questions are shown to hosts that announced the capability.
AskedInv ==
  /\ \A c \in Calls : AskSet(down[c]) # {} => Has(c)
  /\ \A q \in Questions : shownOn[q] # None => host[shownOn[q]] \in Capable

\* Where a question is: among the lines of the process that asked it, with one
\* call of that process, on one socket, or shown, in this order.
Begun(q) ==
  /\ heard[q] # None \/ shownOn[q] # None => askedFor[q] # None
  /\ replies[q] # 0 => shownOn[q] # None
Asks(u, q) == askedFor[q] \in Calls /\ client[askedFor[q]] = u /\ (alive[u] => heard[q] = None)
Unread(u, q) ==
  /\ Asks(u, q) /\ shownOn[q] = None
  /\ \A c \in Calls : q \notin AskSet(down[c]) /\ asking[c] # q
Unshown(c, q) ==
  /\ askedFor[q] \in Calls /\ client[askedFor[q]] = client[c] /\ shownOn[q] = None
  /\ \A d \in Calls \ {c} : q \notin AskSet(down[d]) /\ asking[d] # q

JourneyInv ==
  /\ \A q \in Questions : Begun(q)
  /\ \A u \in Clients : \A r \in work[u] : r.for # Initialize => client[r.for] = u
  /\ \A u \in Clients : Distinct(lines[u]) /\ \A q \in AskSet(lines[u]) : Unread(u, q)
  /\ \A c \in Calls : Distinct(down[c]) /\ \A q \in AskSet(down[c]) : Unshown(c, q)
  /\ \A c \in Calls : asking[c] # None => Asks(client[c], asking[c])

\* Where a host's reply is.
Elems(s) == {s[i] : i \in 1..Len(s)}
Decided(q) == replies[q] # 0
Refusable(q) ==
  /\ replies[q] = 0 /\ askedFor[q] # None
  /\ IF shownOn[q] = None
     THEN /\ \A u \in Clients : q \notin AskSet(lines[u])
          /\ \A c \in Calls : q \notin AskSet(down[c])
     ELSE eof[host[shownOn[q]]]

Fits(r) == IF r.about = Error THEN Refusable(r.id) ELSE Decided(r.id)
Heeded(h, p) ==
  /\ shownOn[p.id] = p.call /\ host[p.call] = h
  /\ replies[p.id] # 0 => \E r \in Elems(stdin[h]) : r.id = p.id

ReplyInv ==
  /\ \A c \in Calls : \A r \in Elems(up[c]) : Fits(r)
  /\ \A h \in Hosts : \A r \in Elems(stdin[h]) : r.about = r.id /\ Decided(r.id)
  /\ \A h \in Hosts : \A p \in pending[h] : Heeded(h, p)

\* As long as no call left its request behind, a process has one request at
\* most, that of the call it works for, and its questions are about that call.
Duty(u) == ~fouled[u] /\ (alive[u] \/ \E c \in Calls : client[c] = u /\ Working(c))
Mine(c, id, what) ==
  Working(c) /\ id = expected[c] /\ what = (IF phase[c] = "calling" THEN c ELSE Initialize)
Serves(u, id, what) == \E c \in Calls : client[c] = u /\ Mine(c, id, what)
Single(s) == \A i, j \in 1..Len(s) : s[i].type = "answer" /\ s[j].type = "answer" => i = j
CleanAt(u) ==
  /\ \A n \in Used(u) : Serves(u, n[1], n[2])
  /\ LineIds(lines[u]) # {} => work[u] = {} /\ AskSet(lines[u]) = {}
  /\ Single(lines[u])
  /\ \A q \in AskSet(lines[u]) : phase[askedFor[q]] = "calling"
CleanInv == (\A u \in Clients : Duty(u) => CleanAt(u)) /\ CleanQuestionsOnOwnCall

\* The types the proofs of this module need besides those of DInv.
MoreTypes ==
  /\ phase \in [Calls -> Phases]
  /\ known \in [Clients -> BOOLEAN \cup {None}] /\ told \in [Clients -> BOOLEAN \cup {None}]
  /\ alive \in [Clients -> BOOLEAN] /\ fouled \in [Clients -> BOOLEAN]
  /\ askedFor \in [Questions -> Calls \cup {None}]
  /\ replies \in [Questions -> Nat] /\ eof \in [Hosts -> BOOLEAN]

-----------------------------------------------------------------------------
(* Types.                                                                  *)

LEMMA HasType == \A c \in Calls : Has(c) \in BOOLEAN
BY DEF Has

LEMMA HasKept == UNCHANGED host => \A c \in Calls : Has(c)' = Has(c)
BY DEF Has

\* No step moves a call to another host or client.
LEMMA Placed == [Next]_vars => UNCHANGED <<host, client>>
<1>1. ASSUME NEW c \in Calls, Thread(c) PROVE UNCHANGED <<host, client>>
  BY <1>1 DEF Thread, Begin, Read, TimeOut, ReplyRead, ReplyLost, RelayFails, ReadGarbage,
       ReadInitialized, ReadUninitialized, ReadAnswer, ReadAsk, ReadEnd, WriteFails
<1>2. ASSUME NEW c \in Calls, Submit(c) \/ Exchange(c) PROVE UNCHANGED <<host, client>>
  BY <1>2 DEF Submit, Exchange, ShowQuestion, GiveAnswer, calls
<1>3. ASSUME NEW u \in Clients, Upstream(u) PROVE UNCHANGED <<host, client>>
  BY <1>3 DEF Upstream, Respond, AskHost, Stray, Exit, calls
<1>4. ASSUME NEW q \in Questions, HostReplies(q) PROVE UNCHANGED <<host, client>>
  BY <1>4 DEF HostReplies, calls
<1>5. ASSUME NEW h \in Hosts, ForwardReply(h) \/ HostCloses(h) \/ ShimDies(h)
      PROVE  UNCHANGED <<host, client>>
  BY <1>5 DEF ForwardReply, HostCloses, ShimDies, calls
<1> QED BY <1>1, <1>2, <1>3, <1>4, <1>5 DEF Next, vars, calls

LEMMA MoreTypesStep ==
  ASSUME DInv, MoreTypes, [Next]_vars
  PROVE  MoreTypes'
<1> USE HasType DEF MoreTypes, Phases
<1>t. \A c \in Calls : client[c] \in Clients
  BY DEF DInv, Types
<1>e. ASSUME NEW u \in Clients, ResetProcess(u) PROVE
        /\ known' \in [Clients -> BOOLEAN \cup {None}] /\ told' \in [Clients -> BOOLEAN \cup {None}]
        /\ alive' \in [Clients -> BOOLEAN] /\ fouled' \in [Clients -> BOOLEAN]
  BY <1>e DEF ResetProcess
<1>f. ASSUME NEW c \in Calls, NEW about, Finish(c, about) PROVE phase' \in [Calls -> Phases]
  BY <1>f DEF Finish
<1>g. ASSUME NEW c \in Calls, NEW what, NEW kept, Send(c, what, kept) PROVE phase' \in [Calls -> Phases]
  BY <1>g DEF Send
<1>1. ASSUME NEW c \in Calls, Begin(c) PROVE MoreTypes'
  <2> DEFINE u == client[c]
             same == alive[u] /\ ~CapabilitiesDiffer(c)
             kept == IF same THEN work[u] ELSE {}
  <2>1. /\ \/ SendInitialize(c, kept)
           \/ Send(c, c, kept) /\ told' = [told EXCEPT ![u] = IF same THEN @ ELSE None]
        /\ alive' = [alive EXCEPT ![u] = TRUE]
        /\ known' = [known EXCEPT ![u] = IF same THEN @ ELSE None]
        /\ fouled' = [fouled EXCEPT ![u] = @ /\ same]
        /\ UNCHANGED <<askedFor, replies, eof>>
    BY <1>1 DEF Begin, shims
  <2>2. same \in BOOLEAN
    BY <1>t DEF CapabilitiesDiffer
  <2> HIDE DEF same, kept
  <2>3. phase' \in [Calls -> Phases]
    BY <1>g, <2>1 DEF SendInitialize
  <2>4. told' \in [Clients -> BOOLEAN \cup {None}]
    BY <1>t, <2>1 DEF SendInitialize
  <2> QED BY <1>t, <2>1, <2>2, <2>3, <2>4
<1>2. ASSUME NEW c \in Calls, TimeOut(c) \/ RelayFails(c) PROVE MoreTypes'
  BY <1>2, <1>t, <1>e, <1>f DEF TimeOut, RelayFails, shims
<1>3. ASSUME NEW c \in Calls, ReadGarbage(c) PROVE MoreTypes'
  BY <1>3, <1>f, <1>t DEF ReadGarbage, objects, questions, shims
<1>4. ASSUME NEW c \in Calls, ReadEnd(c) \/ WriteFails(c) \/ ReadAnswer(c) \/ ReplyLost(c) PROVE MoreTypes'
  BY <1>4, <1>f DEF ReadEnd, WriteFails, ReadAnswer, ReplyLost, objects, processes, questions, shims
<1>5. ASSUME NEW c \in Calls, ReadInitialized(c) PROVE MoreTypes'
  BY <1>5, <1>g, <1>t DEF ReadInitialized, questions, shims
<1>6. ASSUME NEW c \in Calls, ReadUninitialized(c) PROVE MoreTypes'
  BY <1>6, <1>g, <1>t DEF ReadUninitialized, SendInitialize, questions, shims
<1>7. ASSUME NEW c \in Calls, ReadAsk(c) \/ ReplyRead(c) PROVE MoreTypes'
  BY <1>7 DEF ReadAsk, ReplyRead, objects, processes, shims
<1>8. ASSUME NEW c \in Calls, Submit(c) \/ Exchange(c) PROVE MoreTypes'
  BY <1>8 DEF Submit, Exchange, ShowQuestion, GiveAnswer, calls, objects, processes, questions, shims
<1>9. ASSUME NEW u \in Clients, Upstream(u) PROVE MoreTypes'
  <2>1. ASSUME NEW request \in work[u], NEW q \in Questions, AskHost(u, request, q) PROVE MoreTypes'
    <3>1. request.for \in Calls
      BY <2>1 DEF DInv, Types, AskHost
    <3> QED BY <2>1, <3>1 DEF AskHost, calls, objects, shims
  <2>2. ASSUME NEW request \in work[u], Respond(u, request) PROVE MoreTypes'
    BY <2>2 DEF Respond, calls, objects, questions, shims
  <2>3. CASE Stray(u) \/ Exit(u)
    BY <2>3 DEF Stray, Exit, calls, objects, questions, shims
  <2> QED BY <1>9, <2>1, <2>2, <2>3 DEF Upstream
<1>10. ASSUME NEW q \in Questions, HostReplies(q) PROVE MoreTypes'
  BY <1>10 DEF HostReplies, calls, objects, processes
<1>11. ASSUME NEW h \in Hosts, ForwardReply(h) \/ HostCloses(h) \/ ShimDies(h) PROVE MoreTypes'
  BY <1>11 DEF ForwardReply, HostCloses, ShimDies, calls, objects, processes, questions
<1>12. CASE UNCHANGED vars
  BY <1>12 DEF vars, calls, objects, processes, questions, shims
<1> QED
  BY <1>1, <1>2, <1>3, <1>4, <1>5, <1>6, <1>7, <1>8, <1>9, <1>10, <1>11, <1>12
  DEF Next, Thread, Read

-----------------------------------------------------------------------------
(* Capabilities.                                                           *)

LEMMA TurnStep ==
  ASSUME DInv, MoreTypes, TurnInv, [Next]_vars
  PROVE  TurnInv'
<1> USE DEF TurnInv, Working, MoreTypes, Phases
<1>t. client \in [Calls -> Clients] /\ asking \in [Calls -> Questions \cup {None}]
  BY DEF DInv, Types
<1>p. UNCHANGED client
  BY Placed
<1>1. ASSUME UNCHANGED <<phase, asking>> PROVE TurnInv'
  BY <1>1, <1>p
<1>f. ASSUME NEW c \in Calls, NEW about, Finish(c, about) PROVE TurnInv'
  BY <1>f, <1>p, <1>t DEF Finish
<1>g. ASSUME NEW c \in Calls, NEW what, NEW kept, Send(c, what, kept), UNCHANGED asking,
             Working(c) \/ LockFree(client[c])
      PROVE  TurnInv'
  BY <1>g, <1>p, <1>t DEF Send, LockFree
<1>2. ASSUME NEW c \in Calls, Begin(c) PROVE TurnInv'
  BY <1>2, <1>g DEF Begin, SendInitialize
<1>3. ASSUME NEW c \in Calls, TimeOut(c) \/ RelayFails(c) \/ ReadGarbage(c) \/ ReadEnd(c) \/ WriteFails(c)
                               \/ ReadAnswer(c) \/ ReplyLost(c)
      PROVE  TurnInv'
  BY <1>3, <1>f DEF TimeOut, RelayFails, ReadGarbage, ReadEnd, WriteFails, ReadAnswer, ReplyLost
<1>4. ASSUME NEW c \in Calls, ReadInitialized(c) \/ ReadUninitialized(c) PROVE TurnInv'
  BY <1>4, <1>g DEF ReadInitialized, ReadUninitialized, SendInitialize, NextLine, Waiting
<1>5. ASSUME NEW c \in Calls, ReadAsk(c) PROVE TurnInv'
  BY <1>5, <1>p, <1>t DEF ReadAsk, NextLine, Waiting
<1>6. ASSUME NEW c \in Calls, ReplyRead(c) PROVE TurnInv'
  BY <1>6, <1>p, <1>t DEF ReplyRead
<1>7. ASSUME NEW c \in Calls, Submit(c) PROVE TurnInv'
  BY <1>7, <1>p, <1>t DEF Submit
<1>8. ASSUME NEW c \in Calls, Exchange(c) PROVE TurnInv'
  BY <1>8, <1>1 DEF Exchange, ShowQuestion, GiveAnswer, calls
<1>9. ASSUME NEW u \in Clients, Upstream(u) PROVE TurnInv'
  BY <1>9, <1>1 DEF Upstream, Respond, AskHost, Stray, Exit, calls
<1>10. ASSUME NEW q \in Questions, HostReplies(q) PROVE TurnInv'
  BY <1>10, <1>1 DEF HostReplies, calls
<1>11. ASSUME NEW h \in Hosts, ForwardReply(h) \/ HostCloses(h) \/ ShimDies(h) PROVE TurnInv'
  BY <1>11, <1>1 DEF ForwardReply, HostCloses, ShimDies, calls
<1>12. CASE UNCHANGED vars
  BY <1>12, <1>1 DEF vars, calls
<1> QED
  BY <1>2, <1>3, <1>4, <1>5, <1>6, <1>7, <1>8, <1>9, <1>10, <1>11, <1>12 DEF Next, Thread, Read

LEMMA KnownStep ==
  ASSUME DInv, MoreTypes, TurnInv, KnownInv, [Next]_vars
  PROVE  KnownInv'
<1> USE DEF TurnInv, KnownInv, Working, MoreTypes
<1>t. client \in [Calls -> Clients]
  BY DEF DInv, Types
<1>p. UNCHANGED client /\ \A c \in Calls : Has(c)' = Has(c)
  BY Placed, HasKept
<1>1. ASSUME UNCHANGED <<phase, known, told>> PROVE KnownInv'
  BY <1>1, <1>p
<1>f. ASSUME NEW c \in Calls, NEW about, Finish(c, about), UNCHANGED <<known, told>> PROVE KnownInv'
  BY <1>f, <1>p DEF Finish
<1>r. ASSUME NEW c \in Calls, Working(c), Finish(c, Error), ResetProcess(client[c]) PROVE KnownInv'
  BY <1>r, <1>p, <1>t DEF Finish, ResetProcess
<1>2. ASSUME NEW c \in Calls, Begin(c) PROVE KnownInv'
  <2> DEFINE u == client[c]
             same == alive[u] /\ ~CapabilitiesDiffer(c)
             kept == IF same THEN work[u] ELSE {}
  <2>1. /\ LockFree(u)
        /\ \/ SendInitialize(c, kept) /\ (~same \/ known[u] = None)
           \/ Send(c, c, kept) /\ told' = [told EXCEPT ![u] = IF same THEN @ ELSE None]
        /\ known' = [known EXCEPT ![u] = IF same THEN @ ELSE None]
    BY <1>2 DEF Begin
  <2>2. same => known[u] \in {None, Has(c)}
    BY DEF CapabilitiesDiffer
  <2> HIDE DEF same, kept
  <2>3. known'[u] = None \/ (same /\ known'[u] = known[u])
    BY <1>t, <2>1
  <2>4. \A x \in Clients \ {u} : known'[x] = known[x] /\ told'[x] = told[x]
    BY <1>t, <2>1 DEF SendInitialize
  <2>5. \A x \in Calls \ {c} : phase'[x] = phase[x]
    BY <2>1 DEF Send, SendInitialize
  <2>6. CASE SendInitialize(c, kept) /\ (~same \/ known[u] = None)
    <3>1. told'[u] = Has(c) /\ known'[u] = None
      BY <1>t, <2>1, <2>6 DEF SendInitialize
    <3>2. phase'[c] \in {"calling", "initializing"}
      BY <2>6 DEF SendInitialize, Send
    <3> QED BY <1>p, <1>t, <2>1, <2>4, <2>5, <3>1, <3>2 DEF LockFree
  <2>7. CASE Send(c, c, kept) /\ told' = [told EXCEPT ![u] = IF same THEN @ ELSE None]
    <3>1. phase'[c] = "calling"
      BY <2>7 DEF Send
    <3>2. same => told'[u] = told[u]
      BY <1>t, <2>7
    <3> QED BY <1>p, <1>t, <2>1, <2>2, <2>3, <2>4, <2>5, <3>1, <3>2 DEF LockFree
  <2> QED BY <2>1, <2>6, <2>7
<1>3. ASSUME NEW c \in Calls, TimeOut(c) \/ RelayFails(c) PROVE KnownInv'
  BY <1>3, <1>r DEF TimeOut, RelayFails, Waiting
<1>4. ASSUME NEW c \in Calls, ReadGarbage(c) \/ ReadEnd(c) \/ WriteFails(c) \/ ReadAnswer(c) \/ ReplyLost(c)
      PROVE  KnownInv'
  BY <1>4, <1>f DEF ReadGarbage, ReadEnd, WriteFails, ReadAnswer, ReplyLost, objects, processes
<1>5. ASSUME NEW c \in Calls, ReadInitialized(c) PROVE KnownInv'
  <2>1. /\ phase[c] = "initializing" /\ known' = [known EXCEPT ![client[c]] = Has(c)]
        /\ UNCHANGED told /\ Send(c, c, work[client[c]])
    BY <1>5 DEF ReadInitialized, Initialized
  <2>2. phase'[c] = "calling" /\ \A x \in Calls \ {c} : phase'[x] = phase[x]
    BY <2>1 DEF Send
  <2> QED BY <1>p, <1>t, <2>1, <2>2
<1>6. ASSUME NEW c \in Calls, ReadUninitialized(c) PROVE KnownInv'
  <2>1. /\ phase[c] = "calling" /\ known[client[c]] = None /\ UNCHANGED known
        /\ told' = [told EXCEPT ![client[c]] = Has(c)] /\ Send(c, Initialize, work[client[c]])
    BY <1>6 DEF ReadUninitialized, Uninitialized, SendInitialize
  <2>2. phase'[c] \in {"calling", "initializing"} /\ \A x \in Calls \ {c} : phase'[x] = phase[x]
    BY <2>1 DEF Send
  <2> QED BY <1>p, <1>t, <2>1, <2>2
<1>7. ASSUME NEW c \in Calls, ReadAsk(c) \/ ReplyRead(c) PROVE KnownInv'
  BY <1>7, <1>1 DEF ReadAsk, ReplyRead, objects, processes
<1>8. ASSUME NEW c \in Calls, Submit(c) PROVE KnownInv'
  BY <1>8, <1>p DEF Submit, objects, processes
<1>9. ASSUME NEW c \in Calls, Exchange(c) PROVE KnownInv'
  BY <1>9, <1>1 DEF Exchange, ShowQuestion, GiveAnswer, calls, objects, processes
<1>10. ASSUME NEW u \in Clients, Upstream(u) PROVE KnownInv'
  BY <1>10, <1>1 DEF Upstream, Respond, AskHost, Stray, Exit, calls, objects
<1>11. ASSUME NEW q \in Questions, HostReplies(q) PROVE KnownInv'
  BY <1>11, <1>1 DEF HostReplies, calls, objects, processes
<1>12. ASSUME NEW h \in Hosts, ForwardReply(h) \/ HostCloses(h) \/ ShimDies(h) PROVE KnownInv'
  BY <1>12, <1>1 DEF ForwardReply, HostCloses, ShimDies, calls, objects, processes
<1>13. CASE UNCHANGED vars
  BY <1>13, <1>1 DEF vars, calls, objects, processes
<1> QED
  BY <1>2, <1>3, <1>4, <1>5, <1>6, <1>7, <1>8, <1>9, <1>10, <1>11, <1>12, <1>13
  DEF Next, Thread, Read

-----------------------------------------------------------------------------
(* Questions in sequences of lines.                                        *)

LEMMA AsksTail ==
  ASSUME NEW T, NEW s \in Seq(T), s # <<>>
  PROVE  /\ AskSet(Tail(s)) \subseteq AskSet(s)
         /\ Distinct(s) => Distinct(Tail(s))
         /\ Head(s).type = "ask" => /\ Head(s).question \in AskSet(s)
                                    /\ Distinct(s) => Head(s).question \notin AskSet(Tail(s))
<1>1. Len(s) \in Nat \ {0} /\ Head(s) = s[1] /\ 1 \in 1..Len(s)
  OBVIOUS
<1>2. /\ Len(Tail(s)) = Len(s) - 1
      /\ \A i \in 1..Len(Tail(s)) : Tail(s)[i] = s[i + 1] /\ i + 1 \in 1..Len(s) /\ i + 1 # 1
  OBVIOUS
<1>3. \A i, j \in 1..Len(Tail(s)) : i + 1 = j + 1 => i = j
  BY <1>1, <1>2
<1> DEFINE t == Tail(s)
<1> HIDE DEF t
<1>4. AskSet(t) \subseteq AskSet(s)
  BY <1>2 DEF t, AskSet
<1>5. Distinct(s) => Distinct(t)
  BY <1>2, <1>3 DEF t, Distinct
<1>6. ASSUME Head(s).type = "ask" PROVE Head(s).question \in AskSet(s)
  BY <1>1, <1>6 DEF AskSet
<1>7. ASSUME Head(s).type = "ask", Distinct(s) PROVE Head(s).question \notin AskSet(t)
  BY <1>1, <1>2, <1>7 DEF t, AskSet, Distinct
<1> QED BY <1>4, <1>5, <1>6, <1>7 DEF t

LEMMA AsksAppend ==
  ASSUME NEW T, NEW s \in Seq(T), NEW line \in T
  PROVE  /\ line.type # "ask" => AskSet(Append(s, line)) = AskSet(s) /\ (Distinct(s) => Distinct(Append(s, line)))
         /\ line.type = "ask" =>
              /\ AskSet(Append(s, line)) = AskSet(s) \cup {line.question}
              /\ Distinct(s) /\ line.question \notin AskSet(s) => Distinct(Append(s, line))
<1>1. Len(Append(s, line)) = Len(s) + 1 /\ Append(s, line)[Len(s) + 1] = line
  OBVIOUS
<1>2. \A i \in 1..Len(s) : Append(s, line)[i] = s[i] /\ i # Len(s) + 1
  OBVIOUS
<1>3. Len(s) \in Nat
  OBVIOUS
<1>4. \A i : i \in 1..(Len(s) + 1) <=> i = Len(s) + 1 \/ i \in 1..Len(s)
  BY <1>3
<1> DEFINE t == Append(s, line)
           n == Len(s)
<1>5. /\ Len(t) = n + 1 /\ t[n + 1] = line
      /\ \A i \in 1..n : t[i] = s[i] /\ i # n + 1
      /\ \A i : i \in 1..(n + 1) <=> i = n + 1 \/ i \in 1..n
  BY <1>1, <1>2, <1>4
<1> HIDE DEF t, n
<1>6. AskSet(s) = {s[i].question : i \in {j \in 1..n : s[j].type = "ask"}}
  BY DEF AskSet, n
<1>7. AskSet(t) = {t[i].question : i \in {j \in 1..(n + 1) : t[j].type = "ask"}}
  BY <1>5 DEF AskSet
<1>8. line.type # "ask" => AskSet(t) = AskSet(s)
  BY <1>5, <1>6, <1>7
<1>9. line.type = "ask" => AskSet(t) = AskSet(s) \cup {line.question}
  BY <1>5, <1>6, <1>7
<1>10. Distinct(s) /\ (line.type = "ask" => line.question \notin AskSet(s)) => Distinct(t)
  BY <1>5, <1>6 DEF Distinct, n
<1> QED BY <1>8, <1>9, <1>10 DEF t

LEMMA AsksEmpty == AskSet(<<>>) = {} /\ Distinct(<<>>)
BY DEF AskSet, Distinct

\* The final line of a call is no question.
LEMMA FinishAsks ==
  ASSUME DInv, NEW c \in Calls, NEW about \in Calls \cup {Initialize, Error}, Finish(c, about)
  PROVE  \A x \in Calls : /\ AskSet(down'[x]) = AskSet(down[x])
                          /\ Distinct(down[x]) => Distinct(down'[x])
<1> DEFINE line == [type |-> "final", about |-> about]
<1>1. line \in Downs /\ line.type # "ask"
  BY DEF Downs
<1>2. down \in [Calls -> Seq(Downs)] /\ down' = [down EXCEPT ![c] = Append(@, line)]
  BY DEF DInv, Types, Finish
<1> HIDE DEF line
<1>3. /\ AskSet(Append(down[c], line)) = AskSet(down[c])
      /\ Distinct(down[c]) => Distinct(Append(down[c], line))
  BY <1>1, <1>2, AsksAppend
<1> QED BY <1>2, <1>3

\* The shim takes the first line of a socket.
LEMMA TakenAsks ==
  ASSUME DInv, NEW c \in Calls, down[c] # <<>>, down' = [down EXCEPT ![c] = Tail(@)]
  PROVE  /\ \A x \in Calls : /\ AskSet(down'[x]) \subseteq AskSet(down[x])
                             /\ Distinct(down[x]) => Distinct(down'[x])
         /\ Head(down[c]).type = "ask" =>
              /\ Head(down[c]).question \in AskSet(down[c]) /\ Head(down[c]).question \in Questions
              /\ Distinct(down[c]) => Head(down[c]).question \notin AskSet(down'[c])
<1>1. down \in [Calls -> Seq(Downs)] /\ down[c] \in Seq(Downs)
  BY DEF DInv, Types
<1>2. down'[c] = Tail(down[c]) /\ \A x \in Calls \ {c} : down'[x] = down[x]
  BY <1>1
<1>3. Head(down[c]) \in Downs
  BY <1>1
<1>4. Head(down[c]).type = "ask" => Head(down[c]).question \in Questions
  BY <1>3 DEF Downs
<1> QED BY <1>1, <1>2, <1>4, AsksTail

LEMMA AskedStep ==
  ASSUME DInv, AskedInv, [Next]_vars
  PROVE  AskedInv'
<1> USE DEF AskedInv
<1>t. /\ shownOn \in [Questions -> Calls \cup {None}] /\ down \in [Calls -> Seq(Downs)]
      /\ \A c \in Calls : AskSet(down[c]) \subseteq Questions
  <2>1. \A c \in Calls : down[c] \in Seq(Downs)
    BY DEF DInv, Types
  <2>2. \A c \in Calls : AskSet(down[c]) \subseteq Questions
    BY <2>1 DEF AskSet, Downs
  <2> QED BY <2>2 DEF DInv, Types
<1>p. UNCHANGED host /\ \A c \in Calls : Has(c)' = Has(c)
  BY Placed, HasKept
<1>e. Error \in Calls \cup {Initialize, Error}
  OBVIOUS
<1>1. ASSUME UNCHANGED shownOn, \A x \in Calls : AskSet(down'[x]) \subseteq AskSet(down[x])
      PROVE  AskedInv'
  BY <1>1, <1>p
<1>f. ASSUME NEW c \in Calls, NEW about \in Calls \cup {Initialize, Error}, Finish(c, about), UNCHANGED shownOn
      PROVE  AskedInv'
  BY <1>f, <1>1, FinishAsks
<1>2. ASSUME NEW c \in Calls, TimeOut(c) \/ RelayFails(c) \/ ReadGarbage(c) \/ ReadEnd(c) \/ WriteFails(c)
                               \/ ReplyLost(c)
      PROVE  AskedInv'
  BY <1>2, <1>e, <1>f DEF TimeOut, RelayFails, ReadGarbage, ReadEnd, WriteFails, ReplyLost, questions
<1>3. ASSUME NEW c \in Calls, ReadAnswer(c) PROVE AskedInv'
  <2> DEFINE line == Head(lines[client[c]])
             about == IF IdMatches(c, line) /\ ~line.uninit THEN line.about ELSE Error
  <2>1. line \in Lines /\ line.type = "answer"
    BY <1>3, LineTypes DEF ReadAnswer
  <2>2. about \in Calls \cup {Initialize, Error}
    BY <2>1 DEF Lines
  <2>3. Finish(c, about) /\ UNCHANGED shownOn
    BY <1>3 DEF ReadAnswer, questions
  <2> HIDE DEF about
  <2> QED BY <1>f, <2>2, <2>3
<1>4. ASSUME NEW c \in Calls, ReadAsk(c) PROVE AskedInv'
  <2> DEFINE q == Head(lines[client[c]]).question
             line == [type |-> "ask", question |-> q]
  <2>1. q \in Questions
    BY <1>4, LineTypes DEF ReadAsk, Lines
  <2>2. line \in Downs /\ line.type = "ask" /\ line.question = q
    BY <2>1 DEF Downs
  <2>3. UNCHANGED shownOn /\ (UNCHANGED down \/ (Has(c) /\ down' = [down EXCEPT ![c] = Append(@, line)]))
    BY <1>4 DEF ReadAsk, Supported
  <2> HIDE DEF line
  <2>4. \A x \in Calls \ {c} : down'[x] = down[x]
    BY <1>t, <2>3
  <2> QED BY <1>p, <2>3, <2>4
<1>5. ASSUME NEW c \in Calls, ShowQuestion(c) PROVE AskedInv'
  <2> DEFINE q == Head(down[c]).question
  <2>1. /\ down[c] # <<>> /\ down' = [down EXCEPT ![c] = Tail(@)] /\ Head(down[c]).type = "ask"
        /\ shownOn' = [shownOn EXCEPT ![q] = c] \/ UNCHANGED shownOn
    BY <1>5 DEF ShowQuestion
  <2>2. /\ \A x \in Calls : AskSet(down'[x]) \subseteq AskSet(down[x])
        /\ q \in AskSet(down[c]) /\ q \in Questions
    BY <2>1, TakenAsks
  <2>3. host[c] \in Capable
    BY <2>2 DEF Has
  <2> HIDE DEF q
  <2> QED BY <1>1, <1>p, <1>t, <2>1, <2>2, <2>3
<1>6. ASSUME NEW c \in Calls, GiveAnswer(c) PROVE AskedInv'
  BY <1>6, <1>1, TakenAsks DEF GiveAnswer, questions
<1>7. ASSUME UNCHANGED <<shownOn, down>> PROVE AskedInv'
  BY <1>7, <1>1
<1>8. ASSUME NEW c \in Calls, Begin(c) \/ ReadInitialized(c) \/ ReadUninitialized(c) \/ ReplyRead(c)
                               \/ Submit(c)
      PROVE  AskedInv'
  BY <1>7, <1>8 DEF Begin, ReadInitialized, ReadUninitialized, ReplyRead, Submit, questions
<1>9. ASSUME NEW u \in Clients, Upstream(u) PROVE AskedInv'
  BY <1>7, <1>9 DEF Upstream, Respond, AskHost, Stray, Exit, questions
<1>10. ASSUME NEW q \in Questions, HostReplies(q) PROVE AskedInv'
  BY <1>7, <1>10 DEF HostReplies
<1>11. ASSUME NEW h \in Hosts, ForwardReply(h) \/ HostCloses(h) \/ ShimDies(h) PROVE AskedInv'
  BY <1>7, <1>11 DEF ForwardReply, HostCloses, ShimDies, questions
<1>12. CASE UNCHANGED vars
  BY <1>7, <1>12 DEF vars, questions
<1> QED
  BY <1>2, <1>3, <1>4, <1>5, <1>6, <1>8, <1>9, <1>10, <1>11, <1>12 DEF Next, Thread, Read, Exchange

\* A host is asked only what it announced, and a process initialized for one
\* host works for no host with other capabilities (upstream_stdio.py 375-378,
\* elicitation.py): any process a call finds was told what the call's host has,
\* because a call with other capabilities replaces it under the client's lock.
THEOREM HostsAreAskedWhatTheyAnnounced == Spec => []CapabilitiesHonoured
<1> DEFINE Inv == DInv /\ MoreTypes /\ TurnInv /\ KnownInv /\ AskedInv
<1>1. Init => Inv
  <2> SUFFICES ASSUME Init PROVE Inv
    OBVIOUS
  <2>1. MoreTypes
    BY DEF Init, MoreTypes, Phases
  <2>2. TurnInv /\ KnownInv
    BY DEF Init, TurnInv, KnownInv, Working
  <2>3. AskedInv
    BY AsksEmpty DEF Init, AskedInv
  <2> QED BY <2>1, <2>2, <2>3, DInit
<1>2. Inv /\ [Next]_vars => Inv'
  BY DStep, MoreTypesStep, TurnStep, KnownStep, AskedStep
<1>3. Inv => CapabilitiesHonoured
  <2> SUFFICES ASSUME Inv PROVE CapabilitiesHonoured
    OBVIOUS
  <2>1. \A c \in Calls : client[c] \in Clients
    BY DEF DInv, Types
  <2> QED BY <2>1 DEF CapabilitiesHonoured, KnownInv, AskedInv
<1> QED BY <1>1, <1>2, <1>3, PTL DEF Spec

-----------------------------------------------------------------------------
(* The journey of a question.                                              *)

LEMMA AskTypes ==
  ASSUME DInv
  PROVE  /\ \A u \in Clients : AskSet(lines[u]) \subseteq Questions /\ lines[u] \in Seq(Lines)
         /\ \A c \in Calls : AskSet(down[c]) \subseteq Questions /\ down[c] \in Seq(Downs)
<1>1. ASSUME NEW u \in Clients PROVE AskSet(lines[u]) \subseteq Questions /\ lines[u] \in Seq(Lines)
  <2>1. lines[u] \in Seq(Lines)
    BY DEF DInv, Types
  <2> QED BY <2>1 DEF AskSet, Lines
<1>2. ASSUME NEW c \in Calls PROVE AskSet(down[c]) \subseteq Questions /\ down[c] \in Seq(Downs)
  <2>1. down[c] \in Seq(Downs)
    BY DEF DInv, Types
  <2> QED BY <2>1 DEF AskSet, Downs
<1> QED BY <1>1, <1>2

\* A question stays where it is.
LEMMA StaysPut ==
  ASSUME NEW q \in Questions, UNCHANGED <<client, askedFor, shownOn>>,
         \A c \in Calls : q \in AskSet(down'[c]) => q \in AskSet(down[c]),
         \A c \in Calls : asking'[c] \in {asking[c], None}
  PROVE  /\ \A u \in Clients : Unread(u, q) /\ (alive'[u] => heard'[q] = None) => Unread(u, q)'
         /\ \A c \in Calls : Unshown(c, q) => Unshown(c, q)'
<1>1. q # None
  BY RelayAssumption
<1>2. ASSUME NEW u \in Clients, Unread(u, q), alive'[u] => heard'[q] = None PROVE Unread(u, q)'
  BY <1>1, <1>2 DEF Unread, Asks
<1>3. ASSUME NEW c \in Calls, Unshown(c, q) PROVE Unshown(c, q)'
  BY <1>1, <1>3 DEF Unshown
<1> QED BY <1>2, <1>3

LinesWane == \A u \in Clients : /\ AskSet(lines'[u]) \subseteq AskSet(lines[u])
                                /\ Distinct(lines[u]) => Distinct(lines'[u])
DownWanes == \A c \in Calls : /\ AskSet(down'[c]) \subseteq AskSet(down[c])
                              /\ Distinct(down[c]) => Distinct(down'[c])

\* A step that moves no question forward.
LEMMA JourneyKept ==
  ASSUME DInv, JourneyInv, UNCHANGED <<client, askedFor, shownOn, replies>>,
         LinesWane, DownWanes, \A c \in Calls : asking'[c] \in {asking[c], None},
         \A u \in Clients : \A r \in work'[u] : r \in work[u] \/ r.for = Initialize \/ client[r.for] = u,
         \A q \in Questions : heard'[q] # heard[q] => askedFor[q] # None,
         \A u \in Clients : \A q \in AskSet(lines'[u]) : Unread(u, q) => (alive'[u] => heard'[q] = None),
         \A c \in Calls : asking'[c] # None /\ Asks(client[c], asking[c]) =>
           (alive'[client[c]] => heard'[asking[c]] = None)
  PROVE  JourneyInv'
<1>1. \A q \in Questions : Begun(q)'
  BY DEF Begun, JourneyInv
<1>2. \A u \in Clients : \A r \in work'[u] : r.for # Initialize => client'[r.for] = u
  BY DEF JourneyInv
<1>3. ASSUME NEW u \in Clients PROVE Distinct(lines'[u]) /\ \A q \in AskSet(lines'[u]) : Unread(u, q)'
  <2>1. Distinct(lines'[u]) /\ AskSet(lines'[u]) \subseteq AskSet(lines[u])
    BY DEF LinesWane, JourneyInv
  <2>2. ASSUME NEW q \in AskSet(lines'[u]) PROVE Unread(u, q)'
    <3>1. Unread(u, q) /\ q \in Questions
      BY <2>1, <2>2, AskTypes DEF JourneyInv
    <3>2. alive'[u] => heard'[q] = None
      BY <2>2, <3>1
    <3>3. \A c \in Calls : q \in AskSet(down'[c]) => q \in AskSet(down[c])
      BY DEF DownWanes
    <3> QED BY <3>1, <3>2, <3>3, StaysPut
  <2> QED BY <2>1, <2>2
<1>4. ASSUME NEW c \in Calls PROVE Distinct(down'[c]) /\ \A q \in AskSet(down'[c]) : Unshown(c, q)'
  <2>1. Distinct(down'[c]) /\ AskSet(down'[c]) \subseteq AskSet(down[c])
    BY DEF DownWanes, JourneyInv
  <2>2. ASSUME NEW q \in AskSet(down'[c]) PROVE Unshown(c, q)'
    <3>1. Unshown(c, q) /\ q \in Questions
      BY <2>1, <2>2, AskTypes DEF JourneyInv
    <3>2. \A d \in Calls : q \in AskSet(down'[d]) => q \in AskSet(down[d])
      BY DEF DownWanes
    <3> QED BY <3>1, <3>2, StaysPut
  <2> QED BY <2>1, <2>2
<1>5. ASSUME NEW c \in Calls, asking'[c] # None PROVE Asks(client[c], asking[c])'
  <2>1. asking'[c] = asking[c] /\ Asks(client[c], asking[c])
    BY <1>5 DEF JourneyInv
  <2>2. alive'[client[c]] => heard'[asking[c]] = None
    BY <1>5, <2>1
  <2> QED BY <2>1, <2>2 DEF Asks
<1> QED BY <1>1, <1>2, <1>3, <1>4, <1>5 DEF JourneyInv


\* The daemon reads the first line of a process.
LEMMA ReadAsks ==
  ASSUME DInv, NEW u \in Clients, lines[u] # <<>>, LineRead(u)
  PROVE  /\ LinesWane
         /\ Head(lines[u]).type = "ask" =>
              /\ Head(lines[u]).question \in AskSet(lines[u]) /\ Head(lines[u]).question \in Questions
              /\ Distinct(lines[u]) => Head(lines[u]).question \notin AskSet(lines'[u])
<1>1. lines \in [Clients -> Seq(Lines)] /\ lines[u] \in Seq(Lines)
  BY DEF DInv, Types
<1>2. lines'[u] = Tail(lines[u]) /\ \A x \in Clients \ {u} : lines'[x] = lines[x]
  BY <1>1 DEF LineRead
<1>3. Head(lines[u]).type = "ask" => Head(lines[u]).question \in Questions
  BY <1>1 DEF Lines
<1> QED BY <1>1, <1>2, <1>3, AsksTail DEF LinesWane

\* The questions of other processes hear nothing of a process that goes.
LEMMA GoneHeard ==
  ASSUME NEW u \in Clients, NEW q \in Questions
  PROVE  /\ HeardAfterEnd(u)[q] # heard[q] =>
              /\ askedFor[q] # None /\ client[askedFor[q]] = u
              /\ heard[q] = None /\ HeardAfterEnd(u)[q] = Dropped
         /\ askedFor[q] # None /\ client[askedFor[q]] = u => HeardAfterEnd(u)[q] # None
BY RelayAssumption DEF HeardAfterEnd

\* A step of a daemon thread that ends its call.
LEMMA JourneyEnds ==
  ASSUME DInv, MoreTypes, JourneyInv, NEW c \in Calls,
         NEW about \in Calls \cup {Initialize, Error}, Finish(c, about),
         UNCHANGED <<client, askedFor, shownOn, replies>>,
         \/ UNCHANGED <<alive, heard, work>> /\ LinesWane
         \/ ResetProcess(client[c])
  PROVE  JourneyInv'
<1>t. /\ client \in [Calls -> Clients] /\ asking \in [Calls -> Questions \cup {None}]
      /\ heard \in [Questions -> Questions \cup {None, Error, Dropped}]
      /\ work \in [Clients -> SUBSET [id : Nat, for : Calls \cup {Initialize}]]
      /\ lines \in [Clients -> Seq(Lines)]
  BY DEF DInv, Types
<1>1. DownWanes
  BY FinishAsks DEF DownWanes
<1>2. \A x \in Calls : asking'[x] \in {asking[x], None}
  BY <1>t DEF Finish
<1>3. CASE UNCHANGED <<alive, heard, work>> /\ LinesWane
  <2>1. \A x \in Clients : \A r \in work'[x] : r \in work[x]
    BY <1>3
  <2>2. \A x \in Clients : \A q \in AskSet(lines'[x]) : Unread(x, q) => (alive'[x] => heard'[q] = None)
    BY <1>3 DEF Unread, Asks
  <2>3. \A x \in Calls : asking'[x] # None /\ Asks(client[x], asking[x]) =>
          (alive'[client[x]] => heard'[asking[x]] = None)
    BY <1>3 DEF Asks
  <2> QED BY <1>1, <1>2, <1>3, <2>1, <2>2, <2>3, JourneyKept
<1>4. CASE ResetProcess(client[c])
  <2> DEFINE u == client[c]
  <2>1. /\ u \in Clients /\ work'[u] = {} /\ lines'[u] = <<>> /\ heard' = HeardAfterEnd(u)
        /\ \A x \in Clients \ {u} : work'[x] = work[x] /\ lines'[x] = lines[x] /\ alive'[x] = alive[x]
    BY <1>4, <1>t DEF ResetProcess
  <2>2. LinesWane
    BY <2>1, AsksEmpty DEF LinesWane
  <2>3. \A x \in Clients : \A r \in work'[x] : r \in work[x]
    BY <2>1
  <2>4. \A q \in Questions : heard'[q] # heard[q] => askedFor[q] # None
    BY <2>1, GoneHeard
  <2>5. ASSUME NEW x \in Clients, NEW q \in AskSet(lines'[x]), Unread(x, q), alive'[x]
        PROVE  heard'[q] = None
    <3>1. x # u /\ q \in Questions
      BY <2>1, <2>2, <2>5, AsksEmpty, AskTypes DEF LinesWane
    <3> QED BY <2>1, <2>5, <3>1, GoneHeard DEF Unread, Asks
  <2>6. ASSUME NEW x \in Calls, asking'[x] # None, Asks(client[x], asking[x]), alive'[client[x]]
        PROVE  heard'[asking[x]] = None
    <3>1. x # c /\ asking[x] # None
      BY <1>2, <1>t, <2>6 DEF Finish
    <3>2. client[x] # u
      BY <1>4, <1>t, <2>6 DEF ResetProcess, MoreTypes
    <3> QED BY <1>t, <2>1, <2>6, <3>1, <3>2, GoneHeard DEF Asks
  <2> QED BY <1>1, <1>2, <2>2, <2>3, <2>4, <2>5, <2>6, JourneyKept
<1> QED BY <1>3, <1>4

LEMMA JourneyBegins ==
  ASSUME DInv, MoreTypes, TurnInv, JourneyInv, NEW c \in Calls, Begin(c)
  PROVE  JourneyInv'
<1> DEFINE u == client[c]
           same == alive[u] /\ ~CapabilitiesDiffer(c)
           kept == IF same THEN work[u] ELSE {}
<1>t. /\ client \in [Calls -> Clients] /\ asking \in [Calls -> Questions \cup {None}] /\ u \in Clients
      /\ work \in [Clients -> SUBSET [id : Nat, for : Calls \cup {Initialize}]]
      /\ lines \in [Clients -> Seq(Lines)] /\ alive \in [Clients -> BOOLEAN]
  BY DEF DInv, Types, MoreTypes
<1>1. /\ LockFree(u) /\ (Send(c, Initialize, kept) \/ Send(c, c, kept))
      /\ alive' = [alive EXCEPT ![u] = TRUE] /\ lines' = [lines EXCEPT ![u] = IF same THEN @ ELSE <<>>]
      /\ heard' = IF same THEN heard ELSE HeardAfterEnd(u)
      /\ UNCHANGED <<client, asking, askedFor, shownOn, replies, down>>
  BY DEF Begin, SendInitialize
<1>0. LockFree(u)
  BY DEF Begin
<1>2. same => alive[u]
  OBVIOUS
<1>3. kept \subseteq work[u]
  OBVIOUS
<1> HIDE DEF same, kept
<1>4. DownWanes
  BY <1>1 DEF DownWanes
<1>5. LinesWane
  BY <1>1, <1>t, AsksEmpty DEF LinesWane
<1>6. ASSUME NEW x \in Clients, NEW r \in work'[x]
      PROVE  r \in work[x] \/ r.for = Initialize \/ client[r.for] = x
  <2>1. PICK what \in {c, Initialize} : Send(c, what, kept)
    BY <1>1
  <2>2. \/ x # u /\ work'[x] = work[x]
        \/ x = u /\ work'[x] = kept \cup {[id |-> nextId[u], for |-> what]}
    BY <1>t, <2>1 DEF Send
  <2>3. r \in work[x] \/ (x = u /\ r.for = what)
    BY <1>3, <2>2
  <2> QED BY <2>3
<1>7. \A q \in Questions : heard'[q] # heard[q] => askedFor[q] # None
  BY <1>1, <1>t, GoneHeard
<1>8. ASSUME NEW x \in Clients, NEW q \in AskSet(lines'[x]), Unread(x, q), alive'[x]
      PROVE  heard'[q] = None
  <2>1. q \in Questions /\ (x = u => same)
    BY <1>1, <1>5, <1>8, <1>t, AsksEmpty, AskTypes DEF LinesWane
  <2>2. alive[x] /\ (x # u \/ heard'[q] = heard[q])
    BY <1>1, <1>2, <1>8, <1>t, <2>1
  <2> QED BY <1>1, <1>8, <1>t, <2>1, <2>2, GoneHeard DEF Unread, Asks
<1>9. ASSUME NEW x \in Calls, asking'[x] # None, Asks(client[x], asking[x]), alive'[client[x]]
      PROVE  heard'[asking[x]] = None
  <2>1. asking[x] # None /\ client[x] # u
    BY <1>0, <1>1, <1>9 DEF TurnInv, Working, LockFree
  <2>2. alive[client[x]] /\ asking[x] \in Questions
    BY <1>1, <1>9, <1>t, <2>1
  <2> QED BY <1>1, <1>9, <1>t, <2>1, <2>2, GoneHeard DEF Asks
<1> QED BY <1>1, <1>4, <1>5, <1>6, <1>7, <1>8, <1>9, JourneyKept

\* A question goes from the process to the call that relays it.
LEMMA JourneyReadAsk ==
  ASSUME DInv, MoreTypes, TurnInv, JourneyInv, NEW c \in Calls, ReadAsk(c)
  PROVE  JourneyInv'
<1> DEFINE u == client[c]
<1>t. /\ client \in [Calls -> Clients] /\ asking \in [Calls -> Questions \cup {None}] /\ u \in Clients
      /\ heard \in [Questions -> Questions \cup {None, Error, Dropped}] /\ down \in [Calls -> Seq(Downs)]
  BY DEF DInv, Types
<1>1. /\ lines[u] # <<>> /\ LineRead(u) /\ Head(lines[u]).type = "ask"
      /\ UNCHANGED <<client, alive, work, askedFor, shownOn, replies>>
  BY Placed DEF ReadAsk, NextLine, Next, Thread, Read
<1>h. PICK q \in Questions : q = Head(lines[u]).question
  BY <1>1, <1>t, ReadAsks
<1>2. LinesWane /\ q \in AskSet(lines[u]) /\ q \notin AskSet(lines'[u])
  BY <1>1, <1>h, <1>t, ReadAsks DEF JourneyInv
<1>3. Unread(u, q)
  BY <1>2, <1>t DEF JourneyInv
<1>4. \A x \in Clients : q \notin AskSet(lines'[x])
  BY <1>2, <1>3 DEF LinesWane, JourneyInv, Unread, Asks
<1>5. CASE /\ heard' = [heard EXCEPT ![q] = Error] /\ UNCHANGED <<asking, down>>
  <2>1. DownWanes
    BY <1>5 DEF DownWanes
  <2>2. \A x \in Questions : heard'[x] # heard[x] => x = q
    BY <1>5, <1>t
  <2>3. \A x \in Questions : heard'[x] # heard[x] => askedFor[x] # None
    BY <2>2, <1>3, RelayAssumption DEF Unread, Asks
  <2>4. ASSUME NEW x \in Clients, NEW y \in AskSet(lines'[x]), Unread(x, y), alive'[x]
        PROVE  heard'[y] = None
    <3>1. y \in Questions /\ y # q
      BY <1>2, <1>4, <2>4, AskTypes DEF LinesWane
    <3> QED BY <1>1, <2>2, <2>4, <3>1 DEF Unread, Asks
  <2>5. ASSUME NEW x \in Calls, asking'[x] # None, Asks(client[x], asking[x]), alive'[client[x]]
        PROVE  heard'[asking[x]] = None
    <3>1. asking[x] \in Questions /\ asking[x] # q
      BY <1>3, <1>5, <1>t, <2>5 DEF Unread
    <3> QED BY <1>1, <2>2, <2>5, <3>1 DEF Asks
  <2> QED BY <1>1, <1>2, <1>5, <2>1, <2>3, <2>4, <2>5, JourneyKept
<1>6. CASE /\ asking' = [asking EXCEPT ![c] = q] /\ UNCHANGED heard
           /\ down' = [down EXCEPT ![c] = Append(@, [type |-> "ask", question |-> q])]
  <2> DEFINE line == [type |-> "ask", question |-> q]
  <2>1. line \in Downs /\ line.type = "ask" /\ line.question = q
    BY <1>2 DEF Downs
  <2>2. down' = [down EXCEPT ![c] = Append(@, line)] /\ down[c] \in Seq(Downs)
    BY <1>6, <1>t
  <2>n. q \notin AskSet(down[c])
    BY <1>3 DEF Unread
  <2> HIDE DEF line
  <2>3. AskSet(Append(down[c], line)) = AskSet(down[c]) \cup {q} /\ Distinct(Append(down[c], line))
    BY <2>1, <2>2, <2>n, AsksAppend DEF JourneyInv
  <2>4. /\ AskSet(down'[c]) = AskSet(down[c]) \cup {q} /\ Distinct(down'[c])
        /\ \A x \in Calls \ {c} : down'[x] = down[x] /\ asking'[x] = asking[x]
        /\ asking'[c] = q
    BY <1>6, <1>t, <2>2, <2>3
  <2>5. \A x \in Questions : Begun(x)'
    BY <1>1, <1>6 DEF Begun, JourneyInv
  <2>6. ASSUME NEW x \in Clients PROVE Distinct(lines'[x]) /\ \A y \in AskSet(lines'[x]) : Unread(x, y)'
    <3>1. ASSUME NEW y \in AskSet(lines'[x]) PROVE Unread(x, y)'
      <4>1. y # q /\ Unread(x, y)
        BY <1>2, <1>4, <3>1 DEF LinesWane, JourneyInv
      <4> QED BY <1>1, <1>6, <2>4, <4>1 DEF Unread, Asks
    <3> QED BY <1>2, <3>1 DEF LinesWane, JourneyInv
  <2>7. ASSUME NEW x \in Calls PROVE Distinct(down'[x]) /\ \A y \in AskSet(down'[x]) : Unshown(x, y)'
    <3>1. Unshown(c, q)'
      <4>1. askedFor'[q] \in Calls /\ client'[askedFor'[q]] = client'[c] /\ shownOn'[q] = None
        BY <1>1, <1>3 DEF Unread, Asks
      <4>2. \A d \in Calls \ {c} : q \notin AskSet(down'[d]) /\ asking'[d] # q
        BY <1>3, <2>4 DEF Unread
      <4> QED BY <4>1, <4>2 DEF Unshown
    <3>2. ASSUME NEW y \in AskSet(down[x]) PROVE Unshown(x, y)'
      <4>1. y # q /\ Unshown(x, y)
        BY <1>3, <3>2 DEF Unread, JourneyInv
      <4> QED BY <1>1, <2>4, <4>1 DEF Unshown
    <3>3. \A y \in AskSet(down'[x]) : y \in AskSet(down[x]) \/ (x = c /\ y = q)
      BY <2>4
    <3>4. Distinct(down'[x])
      BY <2>4 DEF JourneyInv
    <3>5. ASSUME NEW y \in AskSet(down'[x]) PROVE Unshown(x, y)'
      <4>1. CASE y \in AskSet(down[x])
        BY <3>2, <4>1
      <4>2. CASE x = c /\ y = q
        BY <3>1, <4>2 DEF Unshown
      <4> QED BY <3>3, <4>1, <4>2
    <3> QED BY <3>4, <3>5
  <2>8. ASSUME NEW x \in Calls, asking'[x] # None PROVE Asks(client[x], asking[x])'
    BY <1>1, <1>3, <1>6, <2>4, <2>8 DEF Unread, Asks, JourneyInv
  <2>9. \A x \in Clients : \A r \in work'[x] : r.for # Initialize => client'[r.for] = x
    BY <1>1 DEF JourneyInv
  <2> QED BY <2>5, <2>6, <2>7, <2>8, <2>9 DEF JourneyInv
<1> QED BY <1>5, <1>6, <1>h DEF ReadAsk

\* A process asks, about a call it works on.
LEMMA JourneyAsks ==
  ASSUME DInv, MoreTypes, JourneyInv, NEW u \in Clients, NEW request \in work[u], NEW q \in Questions,
         AskHost(u, request, q)
  PROVE  JourneyInv'
<1>1. /\ askedFor[q] = None /\ askedFor' = [askedFor EXCEPT ![q] = request.for]
      /\ Write(u, [type |-> "ask", question |-> q])
      /\ UNCHANGED <<client, asking, alive, work, shownOn, replies, heard, down>>
  BY DEF AskHost, calls
<1>t. /\ asking \in [Calls -> Questions \cup {None}] /\ lines \in [Clients -> Seq(Lines)]
      /\ askedFor \in [Questions -> Calls \cup {None}]
  BY DEF DInv, Types, MoreTypes
<1>2. request.for \in Calls /\ client[request.for] = u
  BY DEF DInv, Types, JourneyInv, AskHost
<1>3. askedFor'[q] = request.for /\ \A x \in Questions \ {q} : askedFor'[x] = askedFor[x]
  BY <1>1, <1>t
<1>n. None \notin Calls
  BY RelayAssumption
<1>4. /\ heard[q] = None /\ shownOn[q] = None
      /\ \A x \in Clients : q \notin AskSet(lines[x])
      /\ \A x \in Calls : q \notin AskSet(down[x]) /\ asking[x] # q
  BY <1>1, <1>n, RelayAssumption DEF JourneyInv, Begun, Unread, Unshown, Asks
<1> DEFINE line == [type |-> "ask", question |-> q]
<1>5. line \in Lines /\ line.type = "ask" /\ line.question = q
  BY DEF Lines
<1>6. lines' = [lines EXCEPT ![u] = Append(@, line)] /\ lines[u] \in Seq(Lines)
  BY <1>1, <1>t DEF Write
<1> HIDE DEF line
<1>7. AskSet(Append(lines[u], line)) = AskSet(lines[u]) \cup {q} /\ Distinct(Append(lines[u], line))
  BY <1>4, <1>5, <1>6, AsksAppend DEF JourneyInv
<1>8. /\ AskSet(lines'[u]) = AskSet(lines[u]) \cup {q} /\ Distinct(lines'[u])
      /\ \A x \in Clients \ {u} : lines'[x] = lines[x]
  BY <1>6, <1>7, <1>t
<1>9. \A x \in Questions : Begun(x)'
  BY <1>1, <1>2, <1>3, <1>4, <1>n DEF Begun, JourneyInv
<1>10. ASSUME NEW x \in Clients PROVE Distinct(lines'[x]) /\ \A y \in AskSet(lines'[x]) : Unread(x, y)'
  <2>1. Unread(u, q)'
    BY <1>1, <1>2, <1>3, <1>4 DEF Unread, Asks
  <2>2. ASSUME NEW y \in AskSet(lines[x]) PROVE Unread(x, y)'
    <3>1. y \in Questions /\ y # q /\ Unread(x, y)
      BY <1>4, <2>2, AskTypes DEF JourneyInv
    <3> QED BY <1>1, <1>3, <3>1 DEF Unread, Asks
  <2>3. ASSUME NEW y \in AskSet(lines'[x]) PROVE Unread(x, y)'
    <3>1. CASE y \in AskSet(lines[x])
      BY <2>2, <3>1
    <3>2. CASE x = u /\ y = q
      BY <2>1, <3>2
    <3> QED BY <1>8, <2>3, <3>1, <3>2
  <2> QED BY <1>8, <2>3 DEF JourneyInv
<1>11. ASSUME NEW x \in Calls PROVE Distinct(down'[x]) /\ \A y \in AskSet(down'[x]) : Unshown(x, y)'
  <2>1. ASSUME NEW y \in AskSet(down'[x]) PROVE Unshown(x, y)'
    <3>1. y \in Questions /\ y # q /\ Unshown(x, y)
      BY <1>1, <1>4, <2>1, AskTypes DEF JourneyInv
    <3> QED BY <1>1, <1>3, <3>1 DEF Unshown
  <2> QED BY <1>1, <2>1 DEF JourneyInv
<1>12. ASSUME NEW x \in Calls, asking'[x] # None PROVE Asks(client[x], asking[x])'
  BY <1>1, <1>3, <1>4, <1>12, <1>t DEF Asks, JourneyInv
<1>13. \A x \in Clients : \A r \in work'[x] : r.for # Initialize => client'[r.for] = x
  BY <1>1 DEF JourneyInv
<1> QED BY <1>9, <1>10, <1>11, <1>12, <1>13 DEF JourneyInv

\* The shim shows a question on the socket of the call that relays it.
LEMMA JourneyShows ==
  ASSUME DInv, JourneyInv, NEW c \in Calls, ShowQuestion(c)
  PROVE  JourneyInv'
<1>1. /\ down[c] # <<>> /\ Head(down[c]).type = "ask" /\ down' = [down EXCEPT ![c] = Tail(@)]
      /\ UNCHANGED <<client, asking, alive, work, lines, askedFor, replies, heard>>
  BY DEF ShowQuestion, calls, processes
<1>t. shownOn \in [Questions -> Calls \cup {None}] /\ asking \in [Calls -> Questions \cup {None}]
  BY DEF DInv, Types
<1>h. PICK q \in Questions : q = Head(down[c]).question
  BY <1>1, TakenAsks
<1>2. DownWanes /\ q \in AskSet(down[c]) /\ q \notin AskSet(down'[c])
  BY <1>1, <1>h, TakenAsks DEF DownWanes, JourneyInv
<1>3. LinesWane
  BY <1>1 DEF LinesWane
<1>4. CASE UNCHANGED shownOn
  BY <1>1, <1>2, <1>3, <1>4, JourneyKept DEF Unread, Asks
<1>5. CASE shownOn' = [shownOn EXCEPT ![q] = c]
  <2>1. shownOn'[q] = c /\ \A x \in Questions \ {q} : shownOn'[x] = shownOn[x]
    BY <1>5, <1>t
  <2>2. Unshown(c, q)
    BY <1>2 DEF JourneyInv
  <2>3. \A x \in Clients : q \notin AskSet(lines[x])
    BY <1>2 DEF JourneyInv, Unread
  <2>4. \A x \in Calls : q \notin AskSet(down'[x])
    BY <1>2, <2>2 DEF DownWanes, Unshown
  <2>5. \A x \in Questions : Begun(x)'
    BY <1>1, <2>1, <2>2, RelayAssumption DEF Begun, Unshown, JourneyInv
  <2>6. ASSUME NEW x \in Clients, NEW y \in AskSet(lines'[x]) PROVE Unread(x, y)'
    <3>1. y \in Questions /\ y # q /\ Unread(x, y)
      BY <1>1, <2>3, <2>6, AskTypes DEF JourneyInv
    <3> QED BY <1>1, <1>2, <2>1, <3>1 DEF DownWanes, Unread, Asks
  <2>7. ASSUME NEW x \in Calls, NEW y \in AskSet(down'[x]) PROVE Unshown(x, y)'
    <3>1. y \in Questions /\ y # q /\ Unshown(x, y)
      BY <1>2, <2>4, <2>7, AskTypes DEF DownWanes, JourneyInv
    <3> QED BY <1>1, <1>2, <2>1, <3>1 DEF DownWanes, Unshown
  <2>8. /\ \A x \in Clients : Distinct(lines'[x]) /\ \A r \in work'[x] : r.for # Initialize => client'[r.for] = x
        /\ \A x \in Calls : Distinct(down'[x])
        /\ \A x \in Calls : asking'[x] # None => Asks(client[x], asking[x])'
    BY <1>1, <1>2 DEF DownWanes, JourneyInv, Asks
  <2> QED BY <2>5, <2>6, <2>7, <2>8 DEF JourneyInv
<1> QED BY <1>4, <1>5, <1>h DEF ShowQuestion

\* An upstream appends a line that is no question.
LEMMA WrittenAsks ==
  ASSUME DInv, NEW u \in Clients, NEW line \in Lines, line.type # "ask", Write(u, line)
  PROVE  \A x \in Clients : AskSet(lines'[x]) = AskSet(lines[x]) /\ (Distinct(lines[x]) => Distinct(lines'[x]))
<1>1. lines \in [Clients -> Seq(Lines)] /\ lines[u] \in Seq(Lines) /\ lines' = [lines EXCEPT ![u] = Append(@, line)]
  BY DEF DInv, Types, Write
<1>2. /\ AskSet(Append(lines[u], line)) = AskSet(lines[u])
      /\ Distinct(lines[u]) => Distinct(Append(lines[u], line))
  BY <1>1, AsksAppend
<1> QED BY <1>1, <1>2

\* The line an upstream answers a request with.
LEMMA AnswerTypes ==
  ASSUME DInv, NEW u \in Clients, NEW request \in work[u], Respond(u, request)
  PROVE  \E line \in Lines :
           line.type = "answer" /\ line.id = request.id /\ line.about = request.for /\ Write(u, line)
<1>1. PICK uninit \in {FALSE, told[u] = None \/ request.for = Initialize} :
        Write(u, [type |-> "answer", id |-> request.id, about |-> request.for, uninit |-> uninit])
  BY DEF Respond
<1>2. request \in [id : Nat, for : Calls \cup {Initialize}]
  BY DEF DInv, Types
<1>3. uninit \in BOOLEAN
  OBVIOUS
<1> DEFINE line == [type |-> "answer", id |-> request.id, about |-> request.for, uninit |-> uninit]
<1>4. line \in Lines
  BY <1>2, <1>3 DEF Lines
<1> QED BY <1>1, <1>4

LEMMA JourneyStep ==
  ASSUME DInv, MoreTypes, TurnInv, JourneyInv, [Next]_vars
  PROVE  JourneyInv'
<1>p. UNCHANGED client
  BY Placed
<1>t. /\ client \in [Calls -> Clients] /\ asking \in [Calls -> Questions \cup {None}]
      /\ heard \in [Questions -> Questions \cup {None, Error, Dropped}]
      /\ work \in [Clients -> SUBSET [id : Nat, for : Calls \cup {Initialize}]]
      /\ alive \in [Clients -> BOOLEAN]
  BY DEF DInv, Types, MoreTypes
<1>e. Error \in Calls \cup {Initialize, Error}
  OBVIOUS
<1>1. ASSUME NEW c \in Calls, Begin(c) PROVE JourneyInv'
  BY <1>1, JourneyBegins
<1>2. ASSUME NEW c \in Calls, TimeOut(c) \/ RelayFails(c) PROVE JourneyInv'
  BY <1>2, <1>e, <1>p, JourneyEnds DEF TimeOut, RelayFails
<1>l. ASSUME NEW c \in Calls, NEW type, NextLine(c, type), LineRead(client[c]) PROVE LinesWane
  BY <1>l, <1>t, ReadAsks DEF NextLine
<1>3. ASSUME NEW c \in Calls, ReadGarbage(c) \/ WriteFails(c) PROVE JourneyInv'
  <2>1. LinesWane
    BY <1>3, <1>l DEF ReadGarbage, WriteFails
  <2>2. Finish(c, Error) /\ UNCHANGED <<alive, heard, work, askedFor, shownOn, replies>>
    BY <1>3 DEF ReadGarbage, WriteFails, questions
  <2> QED BY <1>e, <1>p, <2>1, <2>2, JourneyEnds
<1>4. ASSUME NEW c \in Calls, ReadEnd(c) \/ ReplyLost(c) PROVE JourneyInv'
  <2>1. Finish(c, Error) /\ UNCHANGED <<alive, heard, work, lines, askedFor, shownOn, replies>>
    BY <1>4 DEF ReadEnd, ReplyLost, processes, questions
  <2>2. LinesWane
    BY <2>1 DEF LinesWane
  <2> QED BY <1>e, <1>p, <2>1, <2>2, JourneyEnds
<1>5. ASSUME NEW c \in Calls, ReadAnswer(c) PROVE JourneyInv'
  <2> DEFINE line == Head(lines[client[c]])
             about == IF IdMatches(c, line) /\ ~line.uninit THEN line.about ELSE Error
  <2>1. line \in Lines /\ line.type = "answer" /\ LinesWane
    BY <1>5, <1>l, LineTypes DEF ReadAnswer
  <2>2. about \in Calls \cup {Initialize, Error}
    BY <2>1 DEF Lines
  <2>3. Finish(c, about) /\ UNCHANGED <<alive, heard, work, askedFor, shownOn, replies>>
    BY <1>5 DEF ReadAnswer, questions
  <2> HIDE DEF about
  <2> QED BY <1>p, <2>1, <2>2, <2>3, JourneyEnds
\* Steps after which every process lives and every question stays as before.
<1>k. ASSUME UNCHANGED <<asking, alive, askedFor, shownOn, replies, heard>>, LinesWane, DownWanes,
             \A u \in Clients : \A r \in work'[u] : r \in work[u] \/ r.for = Initialize \/ client[r.for] = u
      PROVE  JourneyInv'
  BY <1>k, <1>p, JourneyKept DEF Unread, Asks
<1>6. ASSUME NEW c \in Calls, ReadInitialized(c) \/ ReadUninitialized(c) PROVE JourneyInv'
  <2>1. PICK what \in {c, Initialize} : Send(c, what, work[client[c]])
    BY <1>6 DEF ReadInitialized, ReadUninitialized, SendInitialize
  <2>2. LinesWane
    BY <1>6, <1>l DEF ReadInitialized, ReadUninitialized
  <2>3. UNCHANGED <<asking, alive, askedFor, shownOn, replies, heard, down>>
    BY <1>6 DEF ReadInitialized, ReadUninitialized, questions
  <2>4. \A u \in Clients : \A r \in work'[u] : r \in work[u] \/ r.for = Initialize \/ client[r.for] = u
    BY <1>t, <2>1 DEF Send
  <2>5. DownWanes
    BY <2>3 DEF DownWanes
  <2> QED BY <1>k, <2>2, <2>3, <2>4, <2>5
<1>7. ASSUME NEW c \in Calls, ReadAsk(c) PROVE JourneyInv'
  BY <1>7, JourneyReadAsk
<1>8. ASSUME NEW c \in Calls, ReplyRead(c) PROVE JourneyInv'
  <2>1. /\ asking[c] # None /\ asking' = [asking EXCEPT ![c] = None]
        /\ heard' = [heard EXCEPT ![asking[c]] = Head(up[c]).about]
        /\ UNCHANGED <<alive, work, lines, down, askedFor, shownOn, replies>>
    BY <1>8 DEF ReplyRead, processes
  <2>2. PICK q \in Questions : q = asking[c]
    BY <1>t, <2>1
  <2>3. Asks(client[c], q)
    BY <2>1, <2>2 DEF JourneyInv
  <2>4. LinesWane /\ DownWanes
    BY <2>1 DEF LinesWane, DownWanes
  <2>5. \A x \in Questions : heard'[x] # heard[x] => x = q
    BY <1>t, <2>1, <2>2
  <2>6. \A x \in Questions : heard'[x] # heard[x] => askedFor[x] # None
    BY <2>3, <2>5, RelayAssumption DEF Asks
  <2>7. ASSUME NEW x \in Clients, NEW y \in AskSet(lines'[x]), Unread(x, y), alive'[x]
        PROVE  heard'[y] = None
    BY <2>1, <2>2, <2>5, <2>7, AskTypes DEF Unread, Asks
  <2>8. ASSUME NEW x \in Calls, asking'[x] # None, Asks(client[x], asking[x]), alive'[client[x]]
        PROVE  heard'[asking[x]] = None
    <3>1. asking[x] # None /\ x # c
      BY <1>t, <2>1, <2>8
    <3>2. asking[x] \in Questions /\ asking[x] # q
      BY <1>t, <2>1, <2>2, <2>3, <2>8, <3>1 DEF TurnInv, Asks
    <3> QED BY <2>1, <2>5, <2>8, <3>2 DEF Asks
  <2>9. \A x \in Calls : asking'[x] \in {asking[x], None}
    BY <1>t, <2>1
  <2> QED BY <1>p, <2>1, <2>4, <2>6, <2>7, <2>8, <2>9, JourneyKept
<1>9. ASSUME NEW c \in Calls, Submit(c) PROVE JourneyInv'
  BY <1>9, <1>k DEF Submit, processes, questions, LinesWane, DownWanes
<1>10. ASSUME NEW c \in Calls, GiveAnswer(c) PROVE JourneyInv'
  BY <1>10, <1>k, TakenAsks DEF GiveAnswer, calls, processes, questions, LinesWane, DownWanes
<1>11. ASSUME NEW c \in Calls, ShowQuestion(c) PROVE JourneyInv'
  BY <1>11, JourneyShows
<1>12. ASSUME NEW u \in Clients, NEW request \in work[u], Respond(u, request) PROVE JourneyInv'
  <2>1. LinesWane
    BY <1>12, AnswerTypes, WrittenAsks DEF LinesWane
  <2>2. \A x \in Clients : work'[x] \subseteq work[x]
    BY <1>12, <1>t DEF Respond
  <2> QED BY <1>12, <1>k, <2>1, <2>2 DEF Respond, calls, questions, DownWanes
<1>13. ASSUME NEW u \in Clients, NEW request \in work[u], NEW q \in Questions, AskHost(u, request, q)
       PROVE  JourneyInv'
  BY <1>13, JourneyAsks
<1>14. ASSUME NEW u \in Clients, Stray(u) PROVE JourneyInv'
  <2>1. [type |-> "garbage"] \in Lines /\ [type |-> "garbage"].type # "ask"
    BY DEF Lines
  <2>2. LinesWane
    BY <1>14, <2>1, WrittenAsks DEF Stray, LinesWane
  <2> QED BY <1>14, <1>k, <2>2 DEF Stray, calls, questions, DownWanes
<1>15. ASSUME NEW u \in Clients, Exit(u) PROVE JourneyInv'
  <2>1. /\ alive' = [alive EXCEPT ![u] = FALSE] /\ heard' = HeardAfterEnd(u)
        /\ UNCHANGED <<asking, work, lines, down, askedFor, shownOn, replies>>
    BY <1>15 DEF Exit, calls
  <2>2. LinesWane /\ DownWanes
    BY <2>1 DEF LinesWane, DownWanes
  <2>3. \A q \in Questions : heard'[q] # heard[q] => askedFor[q] # None
    BY <2>1, GoneHeard
  <2>4. ASSUME NEW x \in Clients, NEW y \in Questions, Asks(x, y), alive'[x]
        PROVE  heard'[y] = None
    BY <1>t, <2>1, <2>4, GoneHeard DEF Asks
  <2>5. \A x \in Clients : \A y \in AskSet(lines'[x]) : Unread(x, y) => (alive'[x] => heard'[y] = None)
    BY <2>1, <2>4, AskTypes DEF Unread
  <2>6. \A x \in Calls : asking'[x] # None /\ Asks(client[x], asking[x]) =>
          (alive'[client[x]] => heard'[asking[x]] = None)
    BY <1>t, <2>1, <2>4
  <2> QED BY <1>p, <2>1, <2>2, <2>3, <2>5, <2>6, JourneyKept
<1>16. ASSUME NEW q \in Questions, HostReplies(q) PROVE JourneyInv'
  <2>1. /\ shownOn[q] # None /\ replies' = [replies EXCEPT ![q] = @ + 1]
        /\ UNCHANGED <<asking, alive, work, lines, down, askedFor, shownOn, heard>>
    BY <1>16 DEF HostReplies, calls, processes
  <2>2. \A x \in Questions : Begun(x)'
    BY <2>1 DEF Begun, JourneyInv, MoreTypes
  <2> QED BY <1>p, <2>1, <2>2 DEF JourneyInv, Unread, Unshown, Asks
<1>17. ASSUME NEW h \in Hosts, ForwardReply(h) \/ HostCloses(h) \/ ShimDies(h) PROVE JourneyInv'
  BY <1>17, <1>k DEF ForwardReply, HostCloses, ShimDies, calls, processes, questions, LinesWane, DownWanes
<1>18. CASE UNCHANGED vars
  BY <1>18, <1>k DEF vars, calls, processes, questions, LinesWane, DownWanes
<1> QED
  BY <1>1, <1>2, <1>3, <1>4, <1>5, <1>6, <1>7, <1>8, <1>9, <1>10, <1>11, <1>12, <1>13, <1>14, <1>15,
     <1>16, <1>17, <1>18
  DEF Next, Thread, Read, Exchange, Upstream

-----------------------------------------------------------------------------
(* Questions are relayed on the socket of their call.                      *)

LEMMA SingleTail ==
  ASSUME NEW s \in Seq(Lines), s # <<>>, Single(s)
  PROVE  /\ Single(Tail(s))
         /\ Head(s).type = "answer" => LineIds(Tail(s)) = {}
<1>1. Len(s) \in Nat \ {0} /\ Head(s) = s[1] /\ 1 \in 1..Len(s)
  OBVIOUS
<1>2. /\ Len(Tail(s)) = Len(s) - 1
      /\ \A i \in 1..Len(Tail(s)) : Tail(s)[i] = s[i + 1] /\ i + 1 \in 1..Len(s) /\ i + 1 # 1
  OBVIOUS
<1>3. \A i, j \in 1..Len(Tail(s)) : i + 1 = j + 1 => i = j
  BY <1>1, <1>2
<1> DEFINE t == Tail(s)
<1>4. \A i \in 1..Len(t) : t[i] = s[i + 1] /\ i + 1 \in 1..Len(s) /\ i + 1 # 1
  BY <1>2
<1>5. \A i, j \in 1..Len(t) : i + 1 = j + 1 => i = j
  BY <1>3
<1> HIDE DEF t
<1>6. Single(t)
  BY <1>4, <1>5 DEF Single
<1>7. Head(s).type = "answer" => LineIds(t) = {}
  BY <1>1, <1>4 DEF Single, LineIds
<1> QED BY <1>6, <1>7 DEF t

LEMMA SingleAppend ==
  ASSUME NEW s \in Seq(Lines), NEW line \in Lines, Single(s),
         line.type = "answer" => LineIds(s) = {}
  PROVE  Single(Append(s, line))
<1>1. Len(Append(s, line)) = Len(s) + 1 /\ Append(s, line)[Len(s) + 1] = line
  OBVIOUS
<1>2. \A i \in 1..Len(s) : Append(s, line)[i] = s[i]
  OBVIOUS
<1>3. \A i \in 1..Len(Append(s, line)) : i = Len(s) + 1 \/ i \in 1..Len(s)
  BY <1>1
<1>4. line.type = "answer" => \A i \in 1..Len(s) : s[i].type # "answer"
  BY DEF LineIds
<1> DEFINE t == Append(s, line)
           n == Len(s) + 1
<1>5. /\ t[n] = line /\ \A i \in 1..Len(s) : t[i] = s[i]
      /\ \A i \in 1..Len(t) : i = n \/ i \in 1..Len(s)
  BY <1>1, <1>2, <1>3
<1> HIDE DEF t, n
<1>6. Single(t)
  BY <1>4, <1>5 DEF Single
<1> QED BY <1>6 DEF t

\* A process of which a step only takes something away.
LEMMA CleanKept ==
  ASSUME DInv, JourneyInv, NEW u \in Clients, Duty(u) => CleanAt(u), UNCHANGED client,
         Duty(u)' => Duty(u),
         work'[u] \subseteq work[u], LineIds(lines'[u]) \subseteq LineIds(lines[u]),
         AskSet(lines'[u]) \subseteq AskSet(lines[u]), Single(lines[u]) => Single(lines'[u]),
         \A c \in Calls : client[c] = u => phase'[c] = phase[c] /\ expected'[c] = expected[c],
         \A q \in AskSet(lines[u]) : askedFor'[q] = askedFor[q]
  PROVE  Duty(u)' => CleanAt(u)'
<1> SUFFICES ASSUME Duty(u)' PROVE CleanAt(u)'
  OBVIOUS
<1>1. CleanAt(u)
  OBVIOUS
<1>2. ASSUME NEW n \in Used(u)' PROVE Serves(u, n[1], n[2])'
  <2>1. n \in Used(u)
    BY <1>2 DEF Used, WorkIds
  <2> QED BY <1>1, <2>1 DEF CleanAt, Serves, Mine, Working
<1>3. LineIds(lines'[u]) # {} => work'[u] = {} /\ AskSet(lines'[u]) = {}
  BY <1>1 DEF CleanAt
<1>4. ASSUME NEW q \in AskSet(lines'[u]) PROVE phase'[askedFor'[q]] = "calling"
  BY <1>1, <1>4 DEF CleanAt, JourneyInv, Unread, Asks
<1> QED BY <1>1, <1>2, <1>3, <1>4 DEF CleanAt

\* A request is the only one of its process.
LEMMA CleanSent ==
  ASSUME DInv, NEW c \in Calls, NEW what \in {c, Initialize}, Send(c, what, {}), UNCHANGED client,
         phase \in [Calls -> Phases],
         LineIds(lines'[client[c]]) = {}, AskSet(lines'[client[c]]) = {}, Single(lines'[client[c]])
  PROVE  CleanAt(client[c])'
<1>1. PICK u \in Clients : u = client[c]
  BY DEF DInv, Types
<1>n. PICK id \in Nat : id = nextId[u]
  BY DEF DInv, Types
<1>2. /\ work'[u] = {[id |-> id, for |-> what]} /\ expected'[c] = id
      /\ phase'[c] = IF what = c THEN "calling" ELSE "initializing"
  BY <1>1, <1>n DEF Send, DInv, Types
<1>3. Used(u)' = {<<id, what>>}
  BY <1>1, <1>2 DEF Used, WorkIds
<1>4. Mine(c, id, what)'
  BY <1>2 DEF Mine, Working
<1>5. \A n \in Used(u)' : Serves(u, n[1], n[2])'
  BY <1>1, <1>3, <1>4 DEF Serves
<1> QED BY <1>1, <1>5 DEF CleanAt

\* A step of the thread of a call, at the other processes.
LEMMA CleanElsewhere ==
  ASSUME DInv, JourneyInv, CleanInv, UNCHANGED <<client, askedFor>>,
         NEW c \in Calls, \A x \in Calls \ {c} : phase'[x] = phase[x] /\ expected'[x] = expected[x],
         NEW u \in Clients, u # client[c],
         alive'[u] = alive[u], fouled'[u] = fouled[u], work'[u] = work[u], lines'[u] = lines[u]
  PROVE  Duty(u)' => CleanAt(u)'
<1>1. \A x \in Calls : client[x] = u => phase'[x] = phase[x] /\ expected'[x] = expected[x]
  OBVIOUS
<1>2. Duty(u)' => Duty(u)
  BY <1>1 DEF Duty, Working
<1>3. Duty(u) => CleanAt(u)
  BY DEF CleanInv
<1> QED BY <1>1, <1>2, <1>3, CleanKept

\* A step that ends a call.
LEMMA CleanEnds ==
  ASSUME DInv, MoreTypes, TurnInv, JourneyInv, CleanInv, UNCHANGED <<client, askedFor, expected>>,
         NEW c \in Calls, NEW u \in Clients, u = client[c], Working(c), NEW about, Finish(c, about),
         \A x \in Clients \ {u} : /\ alive'[x] = alive[x] /\ fouled'[x] = fouled[x]
                                  /\ work'[x] = work[x] /\ lines'[x] = lines[x],
         alive'[u] /\ ~fouled'[u] => Used(u)' = {} /\ AskSet(lines'[u]) = {} /\ Single(lines'[u])
  PROVE  CleanInv'
<1>1. /\ \A x \in Calls \ {c} : phase'[x] = phase[x] /\ asking'[x] = asking[x]
      /\ phase'[c] = "ended" /\ asking'[c] = None
  BY DEF Finish, MoreTypes, DInv, Types
<1>2. \A x \in Calls : client[x] = u => ~Working(x)'
  BY <1>1 DEF TurnInv, Working
<1>3. Duty(u)' => CleanAt(u)'
  BY <1>2 DEF Duty, CleanAt, Used
<1>4. \A x \in Clients \ {u} : Duty(x)' => CleanAt(x)'
  BY <1>1, CleanElsewhere
<1>5. ASSUME NEW x \in Calls, asking'[x] # None, ~fouled'[client'[x]] PROVE askedFor'[asking'[x]] = x
  <2>1. x # c /\ asking[x] # None /\ asking'[x] = asking[x]
    BY <1>1, <1>5
  <2>2. client[x] # u /\ client[x] \in Clients
    BY <2>1 DEF TurnInv, DInv, Types
  <2> QED BY <1>5, <2>1, <2>2 DEF CleanInv, CleanQuestionsOnOwnCall
<1> QED BY <1>3, <1>4, <1>5 DEF CleanInv, CleanQuestionsOnOwnCall

\* A step that sends the only request of a process.
LEMMA CleanBegins ==
  ASSUME DInv, MoreTypes, TurnInv, JourneyInv, CleanInv,
         UNCHANGED <<client, askedFor, asking>>,
         NEW c \in Calls, NEW u \in Clients, u = client[c], NEW what \in {c, Initialize},
         NEW kept, Send(c, what, kept), fouled[u] => fouled'[u] \/ \A x \in Calls : client[x] = u => asking[x] = None,
         \A x \in Clients \ {u} : /\ alive'[x] = alive[x] /\ fouled'[x] = fouled[x]
                                  /\ lines'[x] = lines[x],
         ~fouled'[u] => /\ kept = {} /\ LineIds(lines'[u]) = {} /\ AskSet(lines'[u]) = {}
                        /\ Single(lines'[u])
  PROVE  CleanInv'
<1>1. /\ \A x \in Calls \ {c} : phase'[x] = phase[x] /\ expected'[x] = expected[x]
      /\ \A x \in Clients \ {u} : work'[x] = work[x]
  BY DEF Send, MoreTypes, DInv, Types
<1>2. Duty(u)' => CleanAt(u)'
  <2>1. CASE fouled'[u]
    BY <2>1 DEF Duty
  <2>2. CASE ~fouled'[u]
    <3>1. Send(c, what, {}) /\ phase \in [Calls -> Phases]
      BY <2>2 DEF MoreTypes
    <3>2. CleanAt(client[c])'
      BY <2>2, <3>1, CleanSent
    <3> QED BY <3>2 DEF CleanAt
  <2> QED BY <2>1, <2>2
<1>3. \A x \in Clients \ {u} : Duty(x)' => CleanAt(x)'
  BY <1>1, CleanElsewhere
<1>4. ASSUME NEW x \in Calls, asking'[x] # None, ~fouled'[client'[x]] PROVE askedFor'[asking'[x]] = x
  <2>1. ~fouled[client[x]]
    BY <1>4 DEF DInv, Types
  <2> QED BY <1>4, <2>1 DEF CleanInv, CleanQuestionsOnOwnCall
<1> QED BY <1>2, <1>3, <1>4 DEF CleanInv, CleanQuestionsOnOwnCall

\* The requests of a process in order are the one of the call it works for.
LEMMA CleanDuty ==
  ASSUME DInv, TurnInv, JourneyInv, CleanInv, NEW u \in Clients, Duty(u)
  PROVE  /\ CleanAt(u) /\ \A r \in work[u] : Serves(u, r.id, r.for)
         /\ LockFree(u) => Used(u) = {} /\ AskSet(lines[u]) = {}
         /\ \A c \in Calls : client[c] = u /\ Working(c) =>
              /\ \A r \in work[u] : Mine(c, r.id, r.for)
              /\ \A q \in AskSet(lines[u]) : askedFor[q] = c
<1>1. CleanAt(u)
  BY DEF CleanInv
<1>2. \A q \in AskSet(lines[u]) : askedFor[q] \in Calls /\ client[askedFor[q]] = u /\ Working(askedFor[q])
  BY <1>1 DEF JourneyInv, Unread, Asks, CleanAt, Working
<1>3. ASSUME LockFree(u) PROVE Used(u) = {} /\ AskSet(lines[u]) = {}
  BY <1>1, <1>2, <1>3 DEF LockFree, CleanAt, Serves, Mine, Working
<1>4. \A r \in work[u] : Serves(u, r.id, r.for)
  <2>1. \A r \in work[u] : <<r.id, r.for>> \in Used(u)
    BY DEF Used, WorkIds
  <2> QED BY <1>1, <2>1 DEF CleanAt
<1>5. ASSUME NEW c \in Calls, client[c] = u, Working(c)
      PROVE  /\ \A r \in work[u] : Mine(c, r.id, r.for)
             /\ \A q \in AskSet(lines[u]) : askedFor[q] = c
  BY <1>2, <1>4, <1>5 DEF Serves, Mine, TurnInv
<1> QED BY <1>1, <1>3, <1>4, <1>5

LEMMA CleanBegin ==
  ASSUME DInv, MoreTypes, TurnInv, JourneyInv, CleanInv, NEW c \in Calls, Begin(c)
  PROVE  CleanInv'
<1> DEFINE same == alive[client[c]] /\ ~CapabilitiesDiffer(c)
           kept == IF same THEN work[client[c]] ELSE {}
<1>1. PICK u \in Clients : u = client[c]
  BY DEF DInv, Types
<1>2. PICK what \in {c, Initialize} : Send(c, what, kept)
  BY DEF Begin, SendInitialize
<1>3. /\ LockFree(u) /\ UNCHANGED <<client, asking, askedFor>>
      /\ alive' = [alive EXCEPT ![u] = TRUE] /\ lines' = [lines EXCEPT ![u] = IF same THEN @ ELSE <<>>]
      /\ fouled' = [fouled EXCEPT ![u] = @ /\ same]
  BY <1>1 DEF Begin
<1>4. same => alive[u]
  BY <1>1
<1>5. kept = IF same THEN work[u] ELSE {}
  BY <1>1
<1>t. alive \in [Clients -> BOOLEAN] /\ fouled \in [Clients -> BOOLEAN] /\ lines \in [Clients -> Seq(Lines)]
  BY DEF DInv, Types, MoreTypes
<1> HIDE DEF same, kept
<1>6. \A x \in Calls : client[x] = u => asking[x] = None
  BY <1>3 DEF LockFree, TurnInv, Working
<1>7. \A x \in Clients \ {u} : alive'[x] = alive[x] /\ fouled'[x] = fouled[x] /\ lines'[x] = lines[x]
  BY <1>3, <1>t
<1>8. ASSUME ~fouled'[u]
      PROVE  kept = {} /\ LineIds(lines'[u]) = {} /\ AskSet(lines'[u]) = {} /\ Single(lines'[u])
  <2>1. CASE ~same
    <3>1. lines'[u] = <<>> /\ kept = {}
      BY <1>3, <1>5, <1>t, <2>1
    <3> QED BY <3>1, AsksEmpty DEF LineIds, Single
  <2>2. CASE same
    <3>1. Duty(u) /\ lines'[u] = lines[u] /\ kept = work[u]
      BY <1>3, <1>4, <1>5, <1>8, <1>t, <2>2 DEF Duty
    <3>2. Used(u) = {} /\ AskSet(lines[u]) = {} /\ Single(lines[u])
      BY <1>3, <3>1, CleanDuty DEF CleanAt
    <3> QED BY <3>1, <3>2 DEF Used, WorkIds
  <2> QED BY <2>1, <2>2
<1> QED BY <1>1, <1>2, <1>3, <1>6, <1>7, <1>8, CleanBegins

\* The daemon reads a line of the process a call waits for.
LEMMA CleanRead ==
  ASSUME DInv, MoreTypes, TurnInv, JourneyInv, CleanInv,
         NEW c \in Calls, NEW u \in Clients, u = client[c], NEW type, NextLine(c, type), LineRead(u)
  PROVE  /\ Working(c) /\ LinesWane
         /\ \A x \in Clients : LineIds(lines'[x]) \subseteq LineIds(lines[x])
         /\ \A x \in Clients : Single(lines[x]) => Single(lines'[x])
         /\ \A x \in Clients \ {u} : lines'[x] = lines[x]
         /\ type = "answer" /\ ~fouled[u] =>
              work[u] = {} /\ LineIds(lines'[u]) = {} /\ AskSet(lines'[u]) = {} /\ Single(lines'[u])
<1>1. Working(c) /\ lines[u] # <<>> /\ Head(lines[u]).type = type
  BY DEF NextLine, Waiting, Working
<1>2. /\ lines \in [Clients -> Seq(Lines)] /\ lines[u] \in Seq(Lines)
      /\ lines'[u] = Tail(lines[u]) /\ \A x \in Clients \ {u} : lines'[x] = lines[x]
  BY DEF DInv, Types, LineRead
<1>3. LinesWane
  BY <1>1, ReadAsks
<1>4. /\ LineIds(lines'[u]) \subseteq LineIds(lines[u])
      /\ Single(lines[u]) => Single(lines'[u])
      /\ type = "answer" => LineIds(lines[u]) # {} /\ (Single(lines[u]) => LineIds(lines'[u]) = {})
  <2>1. /\ LineIds(Tail(lines[u])) \subseteq LineIds(lines[u])
        /\ type = "answer" => LineIds(lines[u]) # {}
    BY <1>1, <1>2, LineIdsTail
  <2>2. Single(lines[u]) => Single(Tail(lines[u])) /\ (type = "answer" => LineIds(Tail(lines[u])) = {})
    BY <1>1, <1>2, SingleTail
  <2> QED BY <1>2, <2>1, <2>2
<1>5. ASSUME type = "answer", ~fouled[u]
      PROVE  work[u] = {} /\ LineIds(lines'[u]) = {} /\ AskSet(lines'[u]) = {} /\ Single(lines'[u])
  <2>1. CleanAt(u)
    BY <1>1, <1>5 DEF CleanInv, Duty
  <2> QED BY <1>3, <1>4, <1>5, <2>1 DEF CleanAt, LinesWane
<1> QED BY <1>1, <1>2, <1>3, <1>4, <1>5

LEMMA CleanReads ==
  ASSUME DInv, MoreTypes, TurnInv, JourneyInv, CleanInv, NEW c \in Calls,
         ReadGarbage(c) \/ ReadAnswer(c) \/ WriteFails(c) \/ ReadInitialized(c) \/ ReadUninitialized(c)
  PROVE  CleanInv'
<1>1. PICK u \in Clients : u = client[c]
  BY DEF DInv, Types
<1>t. fouled \in [Clients -> BOOLEAN]
  BY DEF MoreTypes
<1>2. CASE ReadGarbage(c)
  <2>1. /\ NextLine(c, "garbage") /\ LineRead(u) /\ Finish(c, Error)
        /\ fouled' = [fouled EXCEPT ![u] = TRUE]
        /\ UNCHANGED <<client, askedFor, expected, alive, work>>
    BY <1>1, <1>2 DEF ReadGarbage, questions
  <2>2. fouled'[u] /\ \A x \in Clients \ {u} : fouled'[x] = fouled[x]
    BY <1>t, <2>1
  <2>3. Working(c) /\ \A x \in Clients \ {u} : lines'[x] = lines[x]
    BY <1>1, <2>1, CleanRead
  <2> QED BY <1>1, <2>1, <2>2, <2>3, CleanEnds
<1>3. CASE WriteFails(c)
  <2>1. /\ ~alive[u] /\ LineRead(u) /\ Finish(c, Error) /\ (NextLine(c, "answer") \/ NextLine(c, "ask"))
        /\ UNCHANGED <<client, askedFor, expected, alive, work, fouled>>
    BY <1>1, <1>3 DEF WriteFails, questions
  <2>2. Working(c) /\ \A x \in Clients \ {u} : lines'[x] = lines[x]
    BY <1>1, <2>1, CleanRead
  <2> QED BY <1>1, <2>1, <2>2, CleanEnds
<1>4. CASE ReadAnswer(c)
  <2>1. PICK about : /\ NextLine(c, "answer") /\ LineRead(u) /\ Finish(c, about)
                     /\ UNCHANGED <<client, askedFor, expected, alive, work, fouled>>
    BY <1>1, <1>4 DEF ReadAnswer, questions
  <2>2. /\ Working(c) /\ \A x \in Clients \ {u} : lines'[x] = lines[x]
        /\ ~fouled[u] =>
             work[u] = {} /\ LineIds(lines'[u]) = {} /\ AskSet(lines'[u]) = {} /\ Single(lines'[u])
    BY <1>1, <2>1, CleanRead
  <2>3. ~fouled'[u] => Used(u)' = {} /\ AskSet(lines'[u]) = {} /\ Single(lines'[u])
    BY <2>1, <2>2 DEF Used, WorkIds
  <2> QED BY <1>1, <2>1, <2>2, <2>3, CleanEnds
<1>5. CASE ReadInitialized(c) \/ ReadUninitialized(c)
  <2>1. PICK what \in {c, Initialize} : Send(c, what, work[client[c]])
    BY <1>5 DEF ReadInitialized, ReadUninitialized, SendInitialize
  <2>2. /\ NextLine(c, "answer") /\ LineRead(u) /\ UNCHANGED <<client, asking, askedFor, alive, fouled>>
    BY <1>1, <1>5 DEF ReadInitialized, ReadUninitialized, questions
  <2>3. /\ \A x \in Clients \ {u} : lines'[x] = lines[x]
        /\ ~fouled[u] =>
             work[u] = {} /\ LineIds(lines'[u]) = {} /\ AskSet(lines'[u]) = {} /\ Single(lines'[u])
    BY <1>1, <2>2, CleanRead
  <2>4. PICK kept : kept = work[u]
    OBVIOUS
  <2> QED BY <1>1, <2>1, <2>2, <2>3, <2>4, CleanBegins
<1> QED BY <1>2, <1>3, <1>4, <1>5

LEMMA CleanReadAsk ==
  ASSUME DInv, MoreTypes, TurnInv, JourneyInv, CleanInv, NEW c \in Calls, ReadAsk(c)
  PROVE  CleanInv'
<1>1. PICK u \in Clients : u = client[c]
  BY DEF DInv, Types
<1>2. /\ NextLine(c, "ask") /\ LineRead(u) /\ lines[u] # <<>> /\ Head(lines[u]).type = "ask"
      /\ UNCHANGED <<client, phase, expected, alive, work, askedFor, fouled>>
  BY <1>1 DEF ReadAsk, NextLine, objects
<1>3. PICK q \in Questions : q = Head(lines[u]).question
  BY <1>2, ReadAsks
<1>4. /\ Working(c) /\ LinesWane /\ q \in AskSet(lines[u])
      /\ \A x \in Clients : LineIds(lines'[x]) \subseteq LineIds(lines[x])
      /\ \A x \in Clients : Single(lines[x]) => Single(lines'[x])
  BY <1>1, <1>2, <1>3, CleanRead, ReadAsks
<1>5. ASSUME NEW x \in Clients PROVE Duty(x)' => CleanAt(x)'
  <2>1. Duty(x)' => Duty(x)
    BY <1>2 DEF Duty, Working
  <2>2. Duty(x) => CleanAt(x)
    BY DEF CleanInv
  <2>3. AskSet(lines'[x]) \subseteq AskSet(lines[x])
    BY <1>4 DEF LinesWane
  <2> QED BY <1>2, <1>4, <2>1, <2>2, <2>3, CleanKept
<1>6. ASSUME NEW x \in Calls, asking'[x] # None, ~fouled'[client'[x]] PROVE askedFor'[asking'[x]] = x
  <2>1. CASE asking'[x] = asking[x]
    BY <1>2, <1>6, <2>1 DEF CleanInv, CleanQuestionsOnOwnCall
  <2>2. CASE asking'[x] # asking[x]
    <3>1. x = c /\ asking'[x] = q
      BY <1>1, <1>3, <2>2 DEF ReadAsk, DInv, Types
    <3>2. Duty(u)
      BY <1>1, <1>2, <1>4, <1>6, <3>1 DEF Duty
    <3>3. askedFor[q] = c
      BY <1>1, <1>4, <3>2, CleanDuty
    <3> QED BY <1>2, <3>1, <3>3
  <2> QED BY <2>1, <2>2
<1> QED BY <1>5, <1>6 DEF CleanInv, CleanQuestionsOnOwnCall

\* Steps of an upstream process.
LEMMA CleanUpstream ==
  ASSUME DInv, MoreTypes, TurnInv, JourneyInv, CleanInv, NEW u \in Clients, Upstream(u)
  PROVE  CleanInv'
<1>1. UNCHANGED <<client, phase, expected, asking, fouled>>
  BY DEF Upstream, Respond, AskHost, Stray, Exit, calls
<1>t. /\ lines \in [Clients -> Seq(Lines)] /\ lines[u] \in Seq(Lines)
      /\ work \in [Clients -> SUBSET [id : Nat, for : Calls \cup {Initialize}]]
      /\ alive \in [Clients -> BOOLEAN] /\ askedFor \in [Questions -> Calls \cup {None}]
  BY DEF DInv, Types, MoreTypes
\* What a step leaves to show: the process that acts, and who asked what.
<1>k. ASSUME \A x \in Clients \ {u} : alive'[x] = alive[x] /\ work'[x] = work[x] /\ lines'[x] = lines[x],
             \A q \in Questions : askedFor[q] # None => askedFor'[q] = askedFor[q],
             Duty(u)' => CleanAt(u)'
      PROVE  CleanInv'
  <2>1. ASSUME NEW x \in Clients \ {u} PROVE Duty(x)' => CleanAt(x)'
    <3>1. Duty(x)' => Duty(x)
      BY <1>1, <1>k DEF Duty, Working
    <3>2. \A q \in AskSet(lines[x]) : askedFor'[q] = askedFor[q]
      BY <1>k, AskTypes, RelayAssumption DEF JourneyInv, Unread, Asks
    <3>3. Duty(x) => CleanAt(x)
      BY DEF CleanInv
    <3> QED BY <1>1, <1>k, <3>1, <3>2, <3>3, CleanKept
  <2>2. ASSUME NEW x \in Calls, asking[x] # None PROVE askedFor'[asking[x]] = askedFor[asking[x]]
    BY <1>k, <2>2, RelayAssumption DEF JourneyInv, Asks, DInv, Types
  <2> QED BY <1>1, <1>k, <2>1, <2>2 DEF CleanInv, CleanQuestionsOnOwnCall
<1>2. ASSUME NEW request \in work[u], Respond(u, request) PROVE CleanInv'
  <2>1. PICK line \in Lines :
          line.type = "answer" /\ line.id = request.id /\ line.about = request.for /\ Write(u, line)
    BY <1>2, AnswerTypes
  <2>2. /\ alive[u] /\ work' = [work EXCEPT ![u] = @ \ {request}] /\ UNCHANGED <<alive, askedFor>>
        /\ \A q \in Questions : askedFor[q] = request.for => heard[q] # None
    BY <1>2 DEF Respond, questions
  <2>3. lines' = [lines EXCEPT ![u] = Append(@, line)]
    BY <2>1 DEF Write
  <2>4. ASSUME Duty(u)' PROVE CleanAt(u)'
    <3>1. Duty(u)
      BY <1>1, <2>2, <2>4 DEF Duty
    <3>2. PICK c \in Calls : client[c] = u /\ Mine(c, request.id, request.for)
      BY <3>1, CleanDuty DEF Serves
    <3>3. work[u] = {request}
      <4>1. \A r \in work[u] : Mine(c, r.id, r.for)
        BY <3>1, <3>2, CleanDuty DEF Mine
      <4>2. \A r \in work[u] : r.id = request.id /\ r.for = request.for
        BY <3>2, <4>1 DEF Mine
      <4>3. \A r \in work[u] : r = [id |-> r.id, for |-> r.for]
        BY <1>t
      <4> QED BY <4>2, <4>3
    <3>4. AskSet(lines[u]) = {}
      <4>1. SUFFICES ASSUME NEW q \in AskSet(lines[u]) PROVE FALSE
        OBVIOUS
      <4>2. q \in Questions /\ heard[q] = None
        BY <2>2, AskTypes DEF JourneyInv, Unread, Asks
      <4>3. askedFor[q] = c /\ phase[c] = "calling"
        BY <3>1, <3>2, CleanDuty DEF CleanAt, Mine
      <4> QED BY <2>2, <3>2, <4>2, <4>3 DEF Mine
    <3>5. LineIds(lines[u]) = {} /\ Single(lines[u])
      BY <3>1, <3>3, CleanDuty DEF CleanAt
    <3>6. work'[u] = {} /\ lines'[u] = Append(lines[u], line)
      BY <1>t, <2>2, <2>3, <3>3
    <3>7. /\ LineIds(lines'[u]) \subseteq {<<request.id, request.for>>} /\ Single(lines'[u])
          /\ AskSet(lines'[u]) = {}
      BY <1>t, <2>1, <3>4, <3>5, <3>6, LineIdsAppend, SingleAppend, AsksAppend
    <3>8. Mine(c, request.id, request.for)'
      BY <1>1, <3>2 DEF Mine, Working
    <3>9. \A n \in Used(u)' : n = <<request.id, request.for>>
      BY <3>6, <3>7 DEF Used, WorkIds
    <3>10. \A n \in Used(u)' : Serves(u, n[1], n[2])'
      BY <1>1, <3>2, <3>8, <3>9 DEF Serves
    <3> QED BY <3>6, <3>7, <3>10 DEF CleanAt
  <2> QED BY <1>k, <1>t, <2>2, <2>3, <2>4
<1>3. ASSUME NEW request \in work[u], NEW q \in Questions, AskHost(u, request, q) PROVE CleanInv'
  <2> DEFINE line == [type |-> "ask", question |-> q]
  <2>1. line \in Lines /\ line.type = "ask" /\ line.question = q
    BY DEF Lines
  <2>2. /\ alive[u] /\ request.for # Initialize /\ askedFor[q] = None
        /\ askedFor' = [askedFor EXCEPT ![q] = request.for]
        /\ lines' = [lines EXCEPT ![u] = Append(@, line)] /\ UNCHANGED <<alive, work>>
    BY <1>3 DEF AskHost, Write
  <2> HIDE DEF line
  <2>3. ASSUME Duty(u)' PROVE CleanAt(u)'
    <3>1. Duty(u)
      BY <1>1, <2>2, <2>3 DEF Duty
    <3>2. PICK c \in Calls : client[c] = u /\ Mine(c, request.id, request.for)
      BY <3>1, CleanDuty DEF Serves
    <3>3. phase[c] = "calling" /\ request.for = c
      BY <2>2, <3>2 DEF Mine
    <3>4. LineIds(lines[u]) = {} /\ Single(lines[u])
      BY <3>1, CleanDuty DEF CleanAt
    <3>5. lines'[u] = Append(lines[u], line) /\ work'[u] = work[u]
      BY <1>t, <2>2
    <3>6. LineIds(lines'[u]) = {} /\ Single(lines'[u]) /\ AskSet(lines'[u]) = AskSet(lines[u]) \cup {q}
      BY <1>t, <2>1, <3>4, <3>5, LineIdsAppend, SingleAppend, AsksAppend
    <3>7. \A y \in AskSet(lines[u]) : y \in Questions /\ askedFor[y] \in Calls
      BY AskTypes DEF JourneyInv, Unread, Asks
    <3>8. \A y \in AskSet(lines'[u]) : phase'[askedFor'[y]] = "calling"
      BY <1>1, <1>t, <2>2, <3>1, <3>3, <3>6, <3>7, CleanDuty, RelayAssumption DEF CleanAt
    <3>9. \A n \in Used(u)' : n \in Used(u)
      BY <3>5, <3>6 DEF Used, WorkIds
    <3>10. \A n \in Used(u)' : Serves(u, n[1], n[2])'
      BY <1>1, <3>1, <3>9, CleanDuty DEF CleanAt, Serves, Mine, Working
    <3> QED BY <3>6, <3>8, <3>10 DEF CleanAt
  <2> QED BY <1>k, <1>t, <2>2, <2>3
\* Steps that add no question and no answer.
<1>n. ASSUME UNCHANGED <<work, askedFor>>, alive'[u] => alive[u],
             \A x \in Clients \ {u} : alive'[x] = alive[x] /\ lines'[x] = lines[x],
             LineIds(lines'[u]) \subseteq LineIds(lines[u]), AskSet(lines'[u]) \subseteq AskSet(lines[u]),
             Single(lines[u]) => Single(lines'[u])
      PROVE  CleanInv'
  <2>1. Duty(u)' => Duty(u)
    BY <1>1, <1>n DEF Duty, Working
  <2>2. Duty(u)' => CleanAt(u)'
    BY <1>1, <1>n, <2>1, CleanKept DEF CleanInv
  <2> QED BY <1>k, <1>n, <2>2
<1>4. CASE Stray(u)
  <2>1. [type |-> "garbage"] \in Lines /\ [type |-> "garbage"].type \notin {"ask", "answer"}
    BY DEF Lines
  <2>2. lines' = [lines EXCEPT ![u] = Append(@, [type |-> "garbage"])] /\ UNCHANGED <<alive, work, askedFor>>
    BY <1>4 DEF Stray, Write, questions
  <2>3. lines'[u] = Append(lines[u], [type |-> "garbage"]) /\ \A x \in Clients \ {u} : lines'[x] = lines[x]
    BY <1>t, <2>2
  <2>4. /\ LineIds(lines'[u]) \subseteq LineIds(lines[u]) /\ AskSet(lines'[u]) = AskSet(lines[u])
        /\ Single(lines[u]) => Single(lines'[u])
    BY <1>t, <2>1, <2>3, LineIdsAppend, AsksAppend, SingleAppend
  <2> QED BY <1>n, <2>2, <2>3, <2>4
<1>5. CASE Exit(u)
  BY <1>5, <1>n, <1>t DEF Exit
<1> QED BY <1>2, <1>3, <1>4, <1>5 DEF Upstream

LEMMA CleanStep ==
  ASSUME DInv, MoreTypes, TurnInv, JourneyInv, CleanInv, [Next]_vars
  PROVE  CleanInv'
<1>p. UNCHANGED client
  BY Placed
<1>t. /\ fouled \in [Clients -> BOOLEAN] /\ alive \in [Clients -> BOOLEAN] /\ client \in [Calls -> Clients]
      /\ asking \in [Calls -> Questions \cup {None}] /\ phase \in [Calls -> Phases]
  BY DEF MoreTypes, DInv, Types
\* Steps the processes see nothing of.
<1>k. ASSUME UNCHANGED <<expected, askedFor, alive, fouled, work, lines>>,
             \A c \in Calls : phase'[c] = phase[c] \/ {phase[c], phase'[c]} \subseteq {"new", "queued"},
             \A c \in Calls : asking'[c] \in {asking[c], None}
      PROVE  CleanInv'
  <2>1. ASSUME NEW u \in Clients, Duty(u)' PROVE CleanAt(u)'
    <3>1. Duty(u)
      BY <1>k, <1>p, <2>1 DEF Duty, Working
    <3>2. CleanAt(u)
      BY <3>1 DEF CleanInv
    <3> QED BY <1>k, <1>p, <3>2 DEF CleanAt, Serves, Mine, Working, Used, JourneyInv, Unread, Asks
  <2>2. CleanQuestionsOnOwnCall'
    BY <1>k, <1>p DEF CleanInv, CleanQuestionsOnOwnCall
  <2> QED BY <2>1, <2>2 DEF CleanInv
<1>1. ASSUME NEW c \in Calls, Begin(c) PROVE CleanInv'
  BY <1>1, CleanBegin
<1>2. ASSUME NEW c \in Calls, TimeOut(c) \/ RelayFails(c) PROVE CleanInv'
  <2>1. Working(c) /\ Finish(c, Error) /\ ResetProcess(client[c]) /\ UNCHANGED <<askedFor, expected>>
    BY <1>2 DEF TimeOut, RelayFails, Waiting, Working, TurnInv
  <2>2. PICK u \in Clients : u = client[c]
    BY <1>t
  <2>3. /\ ~alive'[u]
        /\ \A x \in Clients \ {u} : /\ alive'[x] = alive[x] /\ fouled'[x] = fouled[x]
                                    /\ work'[x] = work[x] /\ lines'[x] = lines[x]
    BY <1>t, <2>1, <2>2 DEF ResetProcess, DInv, Types
  <2> QED BY <1>p, <2>1, <2>2, <2>3, CleanEnds
<1>3. ASSUME NEW c \in Calls, ReadEnd(c) \/ ReplyLost(c) PROVE CleanInv'
  <2>1. /\ Working(c) /\ Finish(c, Error) /\ ~alive[client[c]]
        /\ UNCHANGED <<askedFor, expected, alive, fouled, work, lines>>
    BY <1>3 DEF ReadEnd, ReplyLost, Waiting, Working, TurnInv, processes, questions
  <2>2. PICK u \in Clients : u = client[c]
    BY <1>t
  <2> QED BY <1>p, <2>1, <2>2, CleanEnds
<1>4. ASSUME NEW c \in Calls, ReadGarbage(c) \/ ReadAnswer(c) \/ WriteFails(c) \/ ReadInitialized(c)
                               \/ ReadUninitialized(c)
      PROVE  CleanInv'
  BY <1>4, CleanReads
<1>5. ASSUME NEW c \in Calls, ReadAsk(c) PROVE CleanInv'
  BY <1>5, CleanReadAsk
<1>6. ASSUME NEW c \in Calls, ReplyRead(c) PROVE CleanInv'
  BY <1>6, <1>k, <1>t DEF ReplyRead, processes
<1>7. ASSUME NEW c \in Calls, Submit(c) PROVE CleanInv'
  BY <1>7, <1>k, <1>t DEF Submit, processes, questions
<1>8. ASSUME NEW c \in Calls, Exchange(c) PROVE CleanInv'
  BY <1>8, <1>k DEF Exchange, ShowQuestion, GiveAnswer, calls, processes, questions
<1>9. ASSUME NEW u \in Clients, Upstream(u) PROVE CleanInv'
  BY <1>9, CleanUpstream
<1>10. ASSUME NEW q \in Questions, HostReplies(q) PROVE CleanInv'
  BY <1>10, <1>k DEF HostReplies, calls, processes
<1>11. ASSUME NEW h \in Hosts, ForwardReply(h) \/ HostCloses(h) \/ ShimDies(h) PROVE CleanInv'
  BY <1>11, <1>k DEF ForwardReply, HostCloses, ShimDies, calls, processes, questions
<1>12. CASE UNCHANGED vars
  BY <1>12, <1>k DEF vars, calls, processes, questions
<1> QED
  BY <1>1, <1>2, <1>3, <1>4, <1>5, <1>6, <1>7, <1>8, <1>9, <1>10, <1>11, <1>12 DEF Next, Thread, Read

\* Unless an earlier call failed and left its request with the process, a
\* question is relayed on the socket of the call it was asked for
\* (upstream_stdio.py, _read_response; elicitation.py, relay_request): as long
\* as no request is left behind, a process has one request at a time, and asks
\* nothing after it has answered.
THEOREM QuestionsReachTheirCall == Spec => []CleanQuestionsOnOwnCall
<1> DEFINE Inv == DInv /\ MoreTypes /\ TurnInv /\ JourneyInv /\ CleanInv
<1>1. Init => Inv
  <2> SUFFICES ASSUME Init PROVE Inv
    OBVIOUS
  <2>1. MoreTypes /\ TurnInv
    BY DEF Init, MoreTypes, Phases, TurnInv, Working
  <2>2. JourneyInv
    BY AsksEmpty DEF Init, JourneyInv, Begun
  <2>3. CleanInv
    BY DEF Init, CleanInv, CleanQuestionsOnOwnCall, Duty, Working
  <2> QED BY <2>1, <2>2, <2>3, DInit
<1>2. Inv /\ [Next]_vars => Inv'
  BY DStep, MoreTypesStep, TurnStep, JourneyStep, CleanStep
<1>3. Inv => CleanQuestionsOnOwnCall
  BY DEF CleanInv
<1> QED BY <1>1, <1>2, <1>3, PTL DEF Spec

-----------------------------------------------------------------------------
(* Replies on their way.                                                   *)

LEMMA ElemsTail ==
  ASSUME NEW T, NEW s \in Seq(T), s # <<>>
  PROVE  /\ Head(s) \in Elems(s) /\ Elems(Tail(s)) \subseteq Elems(s)
         /\ \A x \in Elems(s) : x = Head(s) \/ x \in Elems(Tail(s))
<1>1. Len(s) \in Nat \ {0} /\ Head(s) = s[1] /\ 1 \in 1..Len(s)
  OBVIOUS
<1>2. /\ Len(Tail(s)) = Len(s) - 1
      /\ \A i \in 1..Len(Tail(s)) : Tail(s)[i] = s[i + 1] /\ i + 1 \in 1..Len(s)
  OBVIOUS
<1>3. \A i \in 1..Len(s) : i = 1 \/ (i - 1 \in 1..Len(Tail(s)) /\ (i - 1) + 1 = i)
  BY <1>1, <1>2
<1> DEFINE t == Tail(s)
<1>4. /\ \A i \in 1..Len(t) : t[i] = s[i + 1] /\ i + 1 \in 1..Len(s)
      /\ \A i \in 1..Len(s) : i = 1 \/ \E j \in 1..Len(t) : s[i] = t[j]
  <2>1. ASSUME NEW i \in 1..Len(s), i # 1 PROVE \E j \in 1..Len(t) : s[i] = t[j]
    BY <1>2, <1>3, <2>1
  <2> QED BY <1>2, <2>1
<1> HIDE DEF t
<1>5. Elems(t) \subseteq Elems(s)
  BY <1>4 DEF Elems
<1>6. \A x \in Elems(s) : x = Head(s) \/ x \in Elems(t)
  BY <1>1, <1>4 DEF Elems
<1> QED BY <1>1, <1>5, <1>6 DEF t, Elems

LEMMA ElemsAppend ==
  ASSUME NEW T, NEW s \in Seq(T), NEW x \in T
  PROVE  Elems(Append(s, x)) = Elems(s) \cup {x}
<1>1. Len(Append(s, x)) = Len(s) + 1 /\ Append(s, x)[Len(s) + 1] = x /\ Len(s) \in Nat
  OBVIOUS
<1>2. \A i \in 1..Len(s) : Append(s, x)[i] = s[i]
  OBVIOUS
<1> DEFINE t == Append(s, x)
           n == Len(s) + 1
<1>3. \A i : i \in 1..Len(t) <=> i = n \/ i \in 1..Len(s)
  BY <1>1
<1>4. t[n] = x /\ \A i \in 1..Len(s) : t[i] = s[i]
  BY <1>1, <1>2
<1> HIDE DEF t, n
<1>5. Elems(t) = Elems(s) \cup {x}
  BY <1>3, <1>4 DEF Elems
<1> QED BY <1>5 DEF t

\* How a step moves questions.
QuestionsMove ==
  /\ \A u \in Clients : \A q \in AskSet(lines'[u]) : q \in AskSet(lines[u]) \/ askedFor[q] = None
  /\ \A c \in Calls : \A q \in AskSet(down'[c]) :
       q \in AskSet(down[c]) \/ \E u \in Clients : q \in AskSet(lines[u])
  /\ \A q \in Questions : /\ askedFor[q] # None => askedFor'[q] = askedFor[q]
                          /\ shownOn'[q] # shownOn[q] => \E c \in Calls : q \in AskSet(down[c])
                          /\ replies'[q] # replies[q] => /\ shownOn[q] # None /\ ~eof[host[shownOn[q]]]
                                                         /\ replies'[q] = replies[q] + 1
  /\ \A h \in Hosts : eof[h] => eof'[h]

LEMMA QuestionsMoveOn ==
  ASSUME DInv, MoreTypes, JourneyInv, [Next]_vars
  PROVE  QuestionsMove
<1>t. /\ client \in [Calls -> Clients] /\ lines \in [Clients -> Seq(Lines)] /\ down \in [Calls -> Seq(Downs)]
      /\ askedFor \in [Questions -> Calls \cup {None}] /\ shownOn \in [Questions -> Calls \cup {None}]
      /\ replies \in [Questions -> Nat] /\ eof \in [Hosts -> BOOLEAN]
  BY DEF DInv, Types, MoreTypes
<1>e. Error \in Calls \cup {Initialize, Error}
  OBVIOUS
<1>k. ASSUME LinesWane, DownWanes, UNCHANGED <<askedFor, shownOn, replies, eof>> PROVE QuestionsMove
  BY <1>k DEF LinesWane, DownWanes, QuestionsMove
<1>f. ASSUME NEW c \in Calls, NEW about \in Calls \cup {Initialize, Error}, Finish(c, about), LinesWane,
             UNCHANGED <<askedFor, shownOn, replies, eof>>
      PROVE  QuestionsMove
  BY <1>f, <1>k, FinishAsks DEF DownWanes
<1>l. ASSUME NEW c \in Calls, NEW type, NextLine(c, type), LineRead(client[c]) PROVE LinesWane
  BY <1>l, <1>t, ReadAsks DEF NextLine
<1>s. UNCHANGED lines => LinesWane
  BY DEF LinesWane
<1>d. UNCHANGED down => DownWanes
  BY DEF DownWanes
<1>1. ASSUME NEW c \in Calls, Begin(c) PROVE QuestionsMove
  <2> DEFINE same == alive[client[c]] /\ ~CapabilitiesDiffer(c)
  <2>1. lines' = [lines EXCEPT ![client[c]] = IF same THEN @ ELSE <<>>]
    BY <1>1 DEF Begin
  <2> HIDE DEF same
  <2>2. LinesWane
    BY <1>t, <2>1, AsksEmpty DEF LinesWane
  <2> QED BY <1>1, <1>d, <1>k, <2>2 DEF Begin, shims
<1>2. ASSUME NEW c \in Calls, TimeOut(c) \/ RelayFails(c) PROVE QuestionsMove
  <2>1. lines' = [lines EXCEPT ![client[c]] = <<>>]
    BY <1>2 DEF TimeOut, RelayFails, ResetProcess
  <2>2. LinesWane
    BY <1>t, <2>1, AsksEmpty DEF LinesWane
  <2> QED BY <1>2, <1>e, <1>f, <2>2 DEF TimeOut, RelayFails, shims
<1>3. ASSUME NEW c \in Calls, ReadGarbage(c) \/ WriteFails(c) PROVE QuestionsMove
  <2>1. LinesWane
    BY <1>3, <1>l DEF ReadGarbage, WriteFails
  <2> QED BY <1>3, <1>e, <1>f, <2>1 DEF ReadGarbage, WriteFails, questions, shims
<1>4. ASSUME NEW c \in Calls, ReadEnd(c) \/ ReplyLost(c) PROVE QuestionsMove
  BY <1>4, <1>e, <1>f, <1>s DEF ReadEnd, ReplyLost, processes, questions, shims
<1>5. ASSUME NEW c \in Calls, ReadAnswer(c) PROVE QuestionsMove
  <2> DEFINE line == Head(lines[client[c]])
             about == IF IdMatches(c, line) /\ ~line.uninit THEN line.about ELSE Error
  <2>1. line \in Lines /\ line.type = "answer" /\ LinesWane
    BY <1>5, <1>l, LineTypes DEF ReadAnswer
  <2>2. about \in Calls \cup {Initialize, Error}
    BY <2>1 DEF Lines
  <2>3. Finish(c, about) /\ UNCHANGED <<askedFor, shownOn, replies, eof>>
    BY <1>5 DEF ReadAnswer, questions, shims
  <2> HIDE DEF about
  <2> QED BY <1>f, <2>1, <2>2, <2>3
<1>6. ASSUME NEW c \in Calls, ReadInitialized(c) \/ ReadUninitialized(c) PROVE QuestionsMove
  <2>1. LinesWane
    BY <1>6, <1>l DEF ReadInitialized, ReadUninitialized
  <2> QED BY <1>6, <1>d, <1>k, <2>1 DEF ReadInitialized, ReadUninitialized, questions, shims
<1>7. ASSUME NEW c \in Calls, ReadAsk(c) PROVE QuestionsMove
  <2>1. PICK u \in Clients : u = client[c]
    BY <1>t
  <2>2. NextLine(c, "ask") /\ LineRead(u) /\ UNCHANGED <<askedFor, shownOn, replies, eof>>
    BY <1>7, <2>1 DEF ReadAsk, shims
  <2>3. PICK q \in Questions : q = Head(lines[u]).question
    BY <2>1, <2>2, ReadAsks DEF NextLine
  <2>4. LinesWane /\ q \in AskSet(lines[u])
    BY <2>1, <2>2, <2>3, ReadAsks DEF NextLine
  <2> DEFINE line == [type |-> "ask", question |-> q]
  <2>5. line \in Downs /\ line.type = "ask" /\ line.question = q
    BY DEF Downs
  <2>6. UNCHANGED down \/ down' = [down EXCEPT ![c] = Append(@, line)]
    BY <1>7, <2>1, <2>3 DEF ReadAsk
  <2> HIDE DEF line
  <2>7. AskSet(Append(down[c], line)) = AskSet(down[c]) \cup {q}
    BY <1>t, <2>5, AsksAppend
  <2>8. \A x \in Calls : AskSet(down'[x]) \subseteq AskSet(down[x]) \cup {q}
    BY <1>t, <2>6, <2>7
  <2> QED BY <2>2, <2>4, <2>8 DEF LinesWane, QuestionsMove
<1>8. ASSUME NEW c \in Calls, ReplyRead(c) \/ Submit(c) PROVE QuestionsMove
  BY <1>8, <1>k, <1>s, <1>d DEF ReplyRead, Submit, processes, questions, shims
<1>9. ASSUME NEW c \in Calls, GiveAnswer(c) PROVE QuestionsMove
  <2>1. DownWanes
    BY <1>9, TakenAsks DEF GiveAnswer, DownWanes
  <2> QED BY <1>9, <1>k, <1>s, <2>1 DEF GiveAnswer, processes, questions
<1>10. ASSUME NEW c \in Calls, ShowQuestion(c) PROVE QuestionsMove
  <2>1. DownWanes /\ Head(down[c]).question \in AskSet(down[c])
    BY <1>10, TakenAsks DEF ShowQuestion, DownWanes
  <2>2. /\ shownOn' = [shownOn EXCEPT ![Head(down[c]).question] = c] \/ UNCHANGED shownOn
        /\ UNCHANGED <<lines, askedFor, replies, eof>>
    BY <1>10 DEF ShowQuestion, processes
  <2> QED BY <1>t, <2>1, <2>2 DEF DownWanes, QuestionsMove
<1>11. ASSUME NEW u \in Clients, NEW request \in work[u], Respond(u, request) PROVE QuestionsMove
  <2>1. LinesWane
    BY <1>11, AnswerTypes, WrittenAsks DEF LinesWane
  <2> QED BY <1>11, <1>d, <1>k, <2>1 DEF Respond, questions, shims
<1>12. ASSUME NEW u \in Clients, NEW request \in work[u], NEW q \in Questions, AskHost(u, request, q)
       PROVE  QuestionsMove
  <2> DEFINE line == [type |-> "ask", question |-> q]
  <2>1. line \in Lines /\ line.type = "ask" /\ line.question = q
    BY DEF Lines
  <2>2. /\ askedFor[q] = None /\ askedFor' = [askedFor EXCEPT ![q] = request.for]
        /\ lines' = [lines EXCEPT ![u] = Append(@, line)] /\ UNCHANGED <<down, shownOn, replies, eof>>
    BY <1>12 DEF AskHost, Write, shims
  <2> HIDE DEF line
  <2>3. AskSet(Append(lines[u], line)) = AskSet(lines[u]) \cup {q}
    BY <1>t, <2>1, AsksAppend
  <2>4. \A x \in Clients : AskSet(lines'[x]) \subseteq AskSet(lines[x]) \cup {q}
    BY <1>t, <2>2, <2>3
  <2> QED BY <1>t, <2>2, <2>4 DEF QuestionsMove
<1>13. ASSUME NEW u \in Clients, Stray(u) PROVE QuestionsMove
  <2>1. [type |-> "garbage"] \in Lines /\ [type |-> "garbage"].type # "ask"
    BY DEF Lines
  <2>2. LinesWane
    BY <1>13, <2>1, WrittenAsks DEF Stray, LinesWane
  <2> QED BY <1>13, <1>d, <1>k, <2>2 DEF Stray, questions, shims
<1>14. ASSUME NEW u \in Clients, Exit(u) PROVE QuestionsMove
  BY <1>14, <1>k, <1>s, <1>d DEF Exit, shims
<1>15. ASSUME NEW q \in Questions, HostReplies(q) PROVE QuestionsMove
  <2>1. /\ shownOn[q] # None /\ ~eof[host[shownOn[q]]] /\ replies' = [replies EXCEPT ![q] = @ + 1]
        /\ UNCHANGED <<lines, down, askedFor, shownOn, eof>>
    BY <1>15 DEF HostReplies, processes
  <2> QED BY <1>t, <2>1 DEF QuestionsMove
<1>16. ASSUME NEW h \in Hosts, ForwardReply(h) \/ ShimDies(h) PROVE QuestionsMove
  BY <1>16, <1>k, <1>s, <1>d DEF ForwardReply, ShimDies, processes, questions
<1>17. ASSUME NEW h \in Hosts, HostCloses(h) PROVE QuestionsMove
  BY <1>17, <1>t DEF HostCloses, processes, questions, QuestionsMove
<1>18. CASE UNCHANGED vars
  BY <1>18, <1>k, <1>s, <1>d DEF vars, processes, questions, shims
<1> QED
  BY <1>1, <1>2, <1>3, <1>4, <1>5, <1>6, <1>7, <1>8, <1>9, <1>10, <1>11, <1>12, <1>13, <1>14, <1>15,
     <1>16, <1>17, <1>18
  DEF Next, Thread, Read, Exchange, Upstream

\* What a reply on its way rests on stays.
LEMMA RepliesRest ==
  ASSUME DInv, MoreTypes, JourneyInv, [Next]_vars, NEW q \in Questions
  PROVE  /\ Decided(q) => Decided(q)'
         /\ Refusable(q) => Refusable(q)'
<1>m. QuestionsMove /\ UNCHANGED host
  BY QuestionsMoveOn, Placed
<1>t. /\ host \in [Calls -> Hosts] /\ shownOn[q] \in Calls \cup {None} /\ replies[q] \in Nat
      /\ None \notin Calls
  BY RelayAssumption DEF DInv, Types, MoreTypes
<1>1. Decided(q) => Decided(q)'
  BY <1>m, <1>t DEF Decided, QuestionsMove
<1>2. ASSUME Refusable(q) PROVE Refusable(q)'
  <2>1. askedFor'[q] = askedFor[q] /\ askedFor[q] # None
    BY <1>2, <1>m DEF Refusable, QuestionsMove
  <2>2. replies'[q] = 0
    BY <1>2, <1>m DEF Refusable, QuestionsMove
  <2>3. CASE shownOn[q] = None
    <3>1. shownOn'[q] = None
      BY <1>2, <1>m, <2>3 DEF Refusable, QuestionsMove
    <3>2. \A u \in Clients : q \notin AskSet(lines'[u])
      BY <1>2, <1>m, <2>1, <2>3 DEF Refusable, QuestionsMove
    <3>3. \A c \in Calls : q \notin AskSet(down'[c])
      BY <1>2, <1>m, <2>3 DEF Refusable, QuestionsMove
    <3> QED BY <2>1, <2>2, <3>1, <3>2, <3>3 DEF Refusable
  <2>4. CASE shownOn[q] # None
    <3>1. shownOn'[q] = shownOn[q]
      BY <1>m, <2>4 DEF QuestionsMove, JourneyInv, Unshown
    <3>2. eof'[host'[shownOn'[q]]]
      BY <1>2, <1>m, <1>t, <2>4, <3>1 DEF Refusable, QuestionsMove
    <3> QED BY <2>1, <2>2, <2>4, <3>1, <3>2 DEF Refusable
  <2> QED BY <2>3, <2>4
<1> QED BY <1>1, <1>2

LEMMA ReplyTypes ==
  ASSUME DInv
  PROVE  /\ \A c \in Calls : up[c] \in Seq(HonestReplies) /\ Elems(up[c]) \subseteq HonestReplies
         /\ \A h \in Hosts : /\ stdin[h] \in Seq(HonestReplies) /\ Elems(stdin[h]) \subseteq HonestReplies
                             /\ pending[h] \subseteq [id : Questions, call : Calls]
         /\ \A r \in HonestReplies : r.id \in Questions
<1>1. \A c \in Calls : up[c] \in Seq(HonestReplies)
  BY DEF DInv, HonestInv
<1>2. \A h \in Hosts : stdin[h] \in Seq(HonestReplies) /\ pending[h] \subseteq [id : Questions, call : Calls]
  BY DEF DInv, HonestInv, Types
<1>3. \A r \in HonestReplies : r.id \in Questions
  BY DEF HonestReplies, Replies
<1>4. ASSUME NEW c \in Calls PROVE Elems(up[c]) \subseteq HonestReplies
  BY <1>1 DEF Elems
<1>5. ASSUME NEW h \in Hosts PROVE Elems(stdin[h]) \subseteq HonestReplies
  BY <1>2 DEF Elems
<1> QED BY <1>1, <1>2, <1>3, <1>4, <1>5

\* What a step has to show of the replies it puts on their way.
LEMMA RepliesKept ==
  ASSUME DInv, MoreTypes, JourneyInv, ReplyInv, [Next]_vars,
         \A c \in Calls : \A r \in Elems(up'[c]) : r \in Elems(up[c]) \/ Fits(r)',
         \A h \in Hosts : \A r \in Elems(stdin'[h]) :
           r \in Elems(stdin[h]) \/ (r.about = r.id /\ Decided(r.id)'),
         \A h \in Hosts : \A p \in pending'[h] : Heeded(h, p)'
  PROVE  ReplyInv'
<1>1. ASSUME NEW c \in Calls, NEW r \in Elems(up[c]) PROVE Fits(r)'
  <2>1. r.id \in Questions /\ Fits(r)
    BY <1>1, ReplyTypes DEF ReplyInv
  <2> QED BY <2>1, RepliesRest DEF Fits
<1>2. ASSUME NEW h \in Hosts, NEW r \in Elems(stdin[h]) PROVE r.about = r.id /\ Decided(r.id)'
  <2>1. r.id \in Questions /\ r.about = r.id /\ Decided(r.id)
    BY <1>2, ReplyTypes DEF ReplyInv
  <2> QED BY <2>1, RepliesRest
<1> QED BY <1>1, <1>2 DEF ReplyInv

LEMMA HeededKept ==
  ASSUME ReplyInv, UNCHANGED <<host, shownOn, replies>>, NEW h \in Hosts, UNCHANGED stdin, NEW p \in pending[h]
  PROVE  Heeded(h, p)'
BY DEF ReplyInv, Heeded

LEMMA SentElems ==
  ASSUME DInv, NEW c \in Calls, NEW reply \in HonestReplies
  PROVE  Elems(Sent(c, reply)) \subseteq Elems(up[c]) \cup {reply}
BY ReplyTypes, ElemsAppend DEF Sent

LEMMA ReplyShows ==
  ASSUME DInv, MoreTypes, JourneyInv, ReplyInv, [Next]_vars, NEW c \in Calls, ShowQuestion(c)
  PROVE  ReplyInv'
<1>t. /\ host[c] \in Hosts /\ up \in [Calls -> Seq(HonestReplies)]
      /\ shownOn \in [Questions -> Calls \cup {None}]
      /\ pending \in [Hosts -> SUBSET [id : Questions, call : Calls]]
  BY DEF DInv, Types, HonestInv
<1>1. /\ down[c] # <<>> /\ Head(down[c]).type = "ask" /\ down' = [down EXCEPT ![c] = Tail(@)]
      /\ UNCHANGED <<host, client, lines, askedFor, replies, stdin>>
  BY DEF ShowQuestion, calls, processes
<1>2. PICK q \in Questions : q = Head(down[c]).question
  BY <1>1, TakenAsks
<1>3. /\ q \in AskSet(down[c]) /\ q \notin AskSet(down'[c])
      /\ \A x \in Calls : AskSet(down'[x]) \subseteq AskSet(down[x])
  BY <1>1, <1>2, TakenAsks DEF JourneyInv
<1>4. Unshown(c, q) /\ replies[q] = 0 /\ shownOn[q] = None
  BY <1>3 DEF JourneyInv, Unshown, Begun
<1>5. /\ \A u \in Clients : q \notin AskSet(lines'[u])
      /\ \A x \in Calls : q \notin AskSet(down'[x])
  BY <1>1, <1>3, <1>4 DEF JourneyInv, Unread, Unshown
<1>s. \A h \in Hosts : \A r \in Elems(stdin'[h]) : r \in Elems(stdin[h])
  BY <1>1
<1>6. CASE up' = [up EXCEPT ![c] = Sent(c, Closed(q))] /\ UNCHANGED <<pending, shownOn>>
  <2>1. Refusable(q)'
    BY <1>1, <1>4, <1>5, <1>6, RelayAssumption DEF Refusable, Unshown
  <2>2. Fits(Closed(q))'
    BY <2>1 DEF Fits, Closed
  <2>3. ASSUME NEW x \in Calls, NEW r \in Elems(up'[x]) PROVE r \in Elems(up[x]) \/ Fits(r)'
    <3>1. Elems(Sent(c, Closed(q))) \subseteq Elems(up[c]) \cup {Closed(q)}
      BY ClosedHonest, SentElems
    <3>2. r \in Elems(up[x]) \/ r = Closed(q)
      BY <1>6, <1>t, <2>3, <3>1
    <3> QED BY <2>2, <3>2
  <2>4. \A h \in Hosts : \A p \in pending'[h] : Heeded(h, p)'
    BY <1>1, <1>6, HeededKept
  <2> QED BY <1>s, <2>3, <2>4, RepliesKept
<1>7. CASE /\ pending' = [pending EXCEPT ![host[c]] = {p \in @ : p.id # q} \cup {[id |-> q, call |-> c]}]
           /\ shownOn' = [shownOn EXCEPT ![q] = c] /\ UNCHANGED up
  <2>1. shownOn'[q] = c /\ \A x \in Questions \ {q} : shownOn'[x] = shownOn[x]
    BY <1>7, <1>t
  <2>2. ASSUME NEW h \in Hosts, NEW p \in pending'[h] PROVE Heeded(h, p)'
    <3>1. CASE p = [id |-> q, call |-> c] /\ h = host[c]
      BY <1>1, <1>4, <2>1, <3>1 DEF Heeded
    <3>2. CASE p \in pending[h] /\ p.id # q
      BY <1>1, <1>t, <2>1, <3>2 DEF ReplyInv, Heeded
    <3>3. CASE p \in pending[h] /\ p.id = q
      <4>1. shownOn[q] = p.call /\ p.call \in Calls
        BY <1>t, <3>3 DEF ReplyInv, Heeded
      <4> QED BY <1>4, <4>1, RelayAssumption
    <3>4. p \in pending[h] \/ (p = [id |-> q, call |-> c] /\ h = host[c])
      BY <1>7, <1>t, <2>2
    <3> QED BY <3>1, <3>2, <3>3, <3>4
  <2>3. \A x \in Calls : \A r \in Elems(up'[x]) : r \in Elems(up[x])
    BY <1>7
  <2> QED BY <1>s, <2>2, <2>3, RepliesKept
<1> QED BY <1>2, <1>6, <1>7 DEF ShowQuestion, RelayId

LEMMA ReplyStep ==
  ASSUME DInv, MoreTypes, JourneyInv, ReplyInv, [Next]_vars
  PROVE  ReplyInv'
<1>p. UNCHANGED host
  BY Placed
<1>t. /\ host \in [Calls -> Hosts] /\ up \in [Calls -> Seq(HonestReplies)]
      /\ stdin \in [Hosts -> Seq(HonestReplies)] /\ shownOn \in [Questions -> Calls \cup {None}]
      /\ replies \in [Questions -> Nat] /\ pending \in [Hosts -> SUBSET [id : Questions, call : Calls]]
  BY DEF DInv, Types, HonestInv, MoreTypes
\* Steps that take replies and decide nothing.
<1>k. ASSUME UNCHANGED <<stdin, shownOn, replies>>,
             \A h \in Hosts : pending'[h] \subseteq pending[h],
             \A c \in Calls : Elems(up'[c]) \subseteq Elems(up[c])
      PROVE  ReplyInv'
  <2>1. \A h \in Hosts : \A p \in pending'[h] : Heeded(h, p)'
    BY <1>k, <1>p, HeededKept
  <2>2. \A h \in Hosts : \A r \in Elems(stdin'[h]) : r \in Elems(stdin[h])
    BY <1>k
  <2>3. \A c \in Calls : \A r \in Elems(up'[c]) : r \in Elems(up[c])
    BY <1>k
  <2> QED BY <2>1, <2>2, <2>3, RepliesKept
<1>u. ASSUME NEW c \in Calls, up[c] # <<>>, up' = [up EXCEPT ![c] = Tail(@)]
      PROVE  \A x \in Calls : Elems(up'[x]) \subseteq Elems(up[x])
  BY <1>t, <1>u, ElemsTail
<1>1. ASSUME NEW c \in Calls, Begin(c) \/ ReadGarbage(c) \/ ReadEnd(c) \/ WriteFails(c) \/ ReadAnswer(c)
                               \/ ReadInitialized(c) \/ ReadUninitialized(c) \/ ReadAsk(c) \/ TimeOut(c)
                               \/ RelayFails(c) \/ Submit(c)
      PROVE  ReplyInv'
  BY <1>1, <1>k
  DEF Begin, ReadGarbage, ReadEnd, WriteFails, ReadAnswer, ReadInitialized, ReadUninitialized, ReadAsk,
      TimeOut, RelayFails, Submit, questions, shims
<1>2. ASSUME NEW c \in Calls, ReplyRead(c) \/ ReplyLost(c) PROVE ReplyInv'
  BY <1>2, <1>k, <1>u DEF ReplyRead, ReplyLost, questions, shims
<1>3. ASSUME NEW c \in Calls, GiveAnswer(c) PROVE ReplyInv'
  <2>1. \A h \in Hosts : pending'[h] \subseteq pending[h]
    BY <1>3, <1>t DEF GiveAnswer
  <2> QED BY <1>3, <1>k, <2>1 DEF GiveAnswer, questions
<1>4. ASSUME NEW c \in Calls, ShowQuestion(c) PROVE ReplyInv'
  BY <1>4, ReplyShows
<1>5. ASSUME NEW u \in Clients, Upstream(u) PROVE ReplyInv'
  BY <1>5, <1>k DEF Upstream, Respond, AskHost, Stray, Exit, questions, shims
<1>6. ASSUME NEW q \in Questions, HostReplies(q) PROVE ReplyInv'
  <2> DEFINE h == host[shownOn[q]]
  <2>1. /\ shownOn[q] \in Calls /\ h \in Hosts /\ replies' = [replies EXCEPT ![q] = @ + 1]
        /\ UNCHANGED <<up, pending, shownOn>>
    BY <1>6, <1>t DEF HostReplies
  <2>2. PICK valid \in BOOLEAN :
          stdin' = [stdin EXCEPT ![h] = Append(@, [id |-> q, about |-> q, valid |-> valid])]
    BY <1>6 DEF HostReplies, RelayId
  <2> DEFINE reply == [id |-> q, about |-> q, valid |-> valid]
  <2>3. reply \in HonestReplies /\ reply.id = q /\ reply.about = q
    BY DEF HonestReplies, Replies
  <2>4. replies'[q] # 0 /\ \A x \in Questions \ {q} : replies'[x] = replies[x]
    BY <1>t, <2>1
  <2>5. stdin' = [stdin EXCEPT ![h] = Append(@, reply)]
    BY <2>2
  <2> HIDE DEF reply
  <2>6. /\ Elems(stdin'[h]) = Elems(stdin[h]) \cup {reply}
        /\ \A x \in Hosts \ {h} : stdin'[x] = stdin[x]
    BY <1>t, <2>1, <2>3, <2>5, ElemsAppend
  <2>7. ASSUME NEW x \in Hosts, NEW r \in Elems(stdin'[x])
        PROVE  r \in Elems(stdin[x]) \/ (r.about = r.id /\ Decided(r.id)')
    <3>1. r \in Elems(stdin[x]) \/ r = reply
      BY <2>6, <2>7
    <3> QED BY <2>3, <2>4, <3>1 DEF Decided
  <2>8. ASSUME NEW x \in Hosts, NEW p \in pending'[x] PROVE Heeded(x, p)'
    <3>1. Heeded(x, p) /\ p.id \in Questions
      BY <1>t, <2>1, <2>8 DEF ReplyInv
    <3>2. CASE p.id = q
      <4>1. x = h
        BY <3>1, <3>2 DEF Heeded
      <4> QED BY <1>p, <2>1, <2>3, <2>6, <3>1, <3>2, <4>1 DEF Heeded
    <3>3. CASE p.id # q
      <4>1. replies'[p.id] = replies[p.id]
        BY <2>4, <3>1, <3>3
      <4>2. Elems(stdin[x]) \subseteq Elems(stdin'[x])
        BY <2>6
      <4> QED BY <1>p, <2>1, <3>1, <4>1, <4>2 DEF Heeded
    <3> QED BY <3>2, <3>3
  <2>9. \A c \in Calls : \A r \in Elems(up'[c]) : r \in Elems(up[c])
    BY <2>1
  <2> QED BY <2>7, <2>8, <2>9, RepliesKept
<1>7. ASSUME NEW h \in Hosts, ForwardReply(h) PROVE ReplyInv'
  <2>1. /\ stdin[h] # <<>> /\ stdin' = [stdin EXCEPT ![h] = Tail(@)]
        /\ UNCHANGED <<shownOn, replies>>
    BY <1>7 DEF ForwardReply, questions
  <2>2. PICK reply : reply = Head(stdin[h])
    OBVIOUS
  <2>3. /\ stdin'[h] = Tail(stdin[h]) /\ \A x \in Hosts \ {h} : stdin'[x] = stdin[x]
        /\ reply \in Elems(stdin[h]) /\ reply \in HonestReplies
        /\ Elems(stdin'[h]) \subseteq Elems(stdin[h])
        /\ \A r \in Elems(stdin[h]) : r = reply \/ r \in Elems(stdin'[h])
    BY <1>t, <2>1, <2>2, ElemsTail, ReplyTypes
  <2>4. reply.about = reply.id /\ Decided(reply.id)' /\ reply.id \in Questions
    BY <2>3, ReplyTypes, RepliesRest DEF ReplyInv
  <2>5. Fits(reply)'
    BY <2>4, RelayAssumption DEF Fits
  <2>6. ASSUME NEW x \in Hosts, NEW r \in Elems(stdin'[x]) PROVE r \in Elems(stdin[x])
    BY <2>3, <2>6
  <2>7. ASSUME NEW x \in Hosts, NEW p \in pending[x], x # h \/ p.id # reply.id PROVE Heeded(x, p)'
    BY <1>p, <2>1, <2>3, <2>7 DEF ReplyInv, Heeded
  <2>8. CASE UNCHANGED <<pending, up>> /\ \A p \in pending[h] : p.id # reply.id
    <3>1. \A x \in Hosts : \A p \in pending'[x] : Heeded(x, p)'
      BY <2>7, <2>8
    <3>2. \A c \in Calls : \A r \in Elems(up'[c]) : r \in Elems(up[c])
      BY <2>8
    <3> QED BY <2>6, <3>1, <3>2, RepliesKept
  <2>9. ASSUME NEW p \in pending[h], p.id = reply.id, pending' = [pending EXCEPT ![h] = ReplyTaken(h, p)],
               up' = [up EXCEPT ![p.call] = Sent(p.call, reply)]
        PROVE  ReplyInv'
    <3>1. p \in [id : Questions, call : Calls] /\ pending'[h] = pending[h] \ {p}
      BY <1>t, <2>9 DEF ReplyTaken
    <3>2. \A x \in Hosts \ {h} : pending'[x] = pending[x]
      BY <1>t, <2>9
    <3>3. ASSUME NEW y \in pending'[h] PROVE y.id # reply.id
      <4>1. y \in [id : Questions, call : Calls] /\ y \in pending[h] /\ y # p
        BY <1>t, <3>1, <3>3
      <4>2. y.id = p.id => y.call = p.call
        BY <4>1 DEF ReplyInv, Heeded
      <4>3. y = [id |-> y.id, call |-> y.call] /\ p = [id |-> p.id, call |-> p.call]
        BY <3>1, <4>1
      <4> QED BY <2>9, <4>1, <4>2, <4>3
    <3>4. ASSUME NEW x \in Hosts, NEW y \in pending'[x] PROVE Heeded(x, y)'
      <4>1. y \in pending[x]
        BY <3>1, <3>2, <3>4
      <4>2. x # h \/ y.id # reply.id
        BY <3>3, <3>4
      <4> QED BY <2>7, <4>1, <4>2
    <3>5. ASSUME NEW c \in Calls, NEW r \in Elems(up'[c]) PROVE r \in Elems(up[c]) \/ Fits(r)'
      <4>1. Elems(Sent(p.call, reply)) \subseteq Elems(up[p.call]) \cup {reply}
        BY <2>3, <3>1, SentElems
      <4>2. r \in Elems(up[c]) \/ r = reply
        BY <1>t, <2>9, <3>5, <4>1
      <4> QED BY <2>5, <4>2
    <3> QED BY <2>6, <3>4, <3>5, RepliesKept
  <2> QED BY <1>7, <2>2, <2>8, <2>9 DEF ForwardReply
<1>8. ASSUME NEW h \in Hosts, HostCloses(h) PROVE ReplyInv'
  <2>1. /\ stdin[h] = <<>> /\ pending' = [pending EXCEPT ![h] = {}] /\ eof' = [eof EXCEPT ![h] = TRUE]
        /\ UNCHANGED <<stdin, lines, down, askedFor, shownOn, replies>>
    BY <1>8 DEF HostCloses, processes, questions
  <2>2. ASSUME NEW p \in pending[h] PROVE Fits(Closed(p.id))'
    <3>1. p.id \in Questions /\ p.call \in Calls /\ shownOn[p.id] = p.call /\ host[p.call] = h
      BY <1>t, <2>2 DEF ReplyInv, Heeded
    <3>2. Elems(stdin[h]) = {}
      BY <2>1 DEF Elems
    <3>3. replies[p.id] = 0
      BY <2>2, <3>2 DEF ReplyInv, Heeded
    <3>4. askedFor[p.id] # None /\ shownOn[p.id] # None
      BY <3>1, RelayAssumption DEF JourneyInv, Begun
    <3>5. eof'[host'[shownOn'[p.id]]]
      BY <1>p, <2>1, <3>1 DEF MoreTypes
    <3>6. Refusable(p.id)'
      BY <2>1, <3>3, <3>4, <3>5 DEF Refusable
    <3> QED BY <3>6 DEF Fits, Closed
  <2>3. ASSUME NEW c \in Calls, NEW r \in Elems(up'[c]) PROVE r \in Elems(up[c]) \/ Fits(r)'
    <3>1. CASE \E p \in pending[h] : p.call = c
      <4>1. PICK p : p = CHOOSE y \in pending[h] : y.call = c
        OBVIOUS
      <4>2. p \in pending[h] /\ p.id \in Questions
        BY <1>t, <3>1, <4>1
      <4>3. up'[c] = Sent(c, Closed(p.id))
        BY <1>8, <3>1, <4>1 DEF HostCloses
      <4>4. r \in Elems(up[c]) \/ r = Closed(p.id)
        BY <2>3, <4>2, <4>3, ClosedHonest, SentElems
      <4> QED BY <2>2, <4>2, <4>4
    <3>2. CASE ~ \E p \in pending[h] : p.call = c
      BY <1>8, <2>3, <3>2 DEF HostCloses
    <3> QED BY <3>1, <3>2
  <2>4. \A x \in Hosts : pending'[x] \subseteq pending[x]
    BY <1>t, <2>1
  <2>5. \A x \in Hosts : \A p \in pending'[x] : Heeded(x, p)'
    BY <1>p, <2>1, <2>4, HeededKept
  <2>6. \A x \in Hosts : \A r \in Elems(stdin'[x]) : r \in Elems(stdin[x])
    BY <2>1
  <2> QED BY <2>3, <2>5, <2>6, RepliesKept
<1>9. ASSUME NEW h \in Hosts, ShimDies(h) PROVE ReplyInv'
  BY <1>9, <1>k DEF ShimDies, questions
<1>10. CASE UNCHANGED vars
  BY <1>10, <1>k DEF vars, questions, shims
<1> QED
  BY <1>1, <1>2, <1>3, <1>4, <1>5, <1>6, <1>7, <1>8, <1>9, <1>10 DEF Next, Thread, Read, Exchange

-----------------------------------------------------------------------------
(* The promise.                                                            *)

\* What a question has been through, before and after a step.
LEMMA StageNow ==
  ASSUME DInv, MoreTypes, JourneyInv, NEW q \in Questions
  PROVE  /\ heard[q] = Error => StageOf(q) = "refused"
         /\ heard[q] = Dropped => StageOf(q) = "dropped"
         /\ heard[q] = q => StageOf(q) = "delivered"
         /\ heard[q] = None =>
              /\ replies[q] # 0 => StageOf(q) = "decided"
              /\ replies[q] = 0 /\ shownOn[q] # None => StageOf(q) = "shown"
              /\ shownOn[q] = None /\ askedFor[q] # None => StageOf(q) = "asked"
              /\ askedFor[q] = None => StageOf(q) = "new"
<1>1. Begun(q) /\ heard[q] \in {None, Error, Dropped, q} /\ replies[q] \in Nat
  BY DEF DInv, DecisionsFit, MoreTypes, JourneyInv
<1>2. None \notin Questions \cup {Error, Dropped} /\ Error \notin Questions /\ Dropped \notin Questions \cup {Error}
  BY RelayAssumption
<1> QED BY <1>1, <1>2 DEF StageOf, Begun

LEMMA StageNext ==
  ASSUME DInv', MoreTypes', JourneyInv', NEW q \in Questions
  PROVE  /\ heard'[q] = Error => StageOf(q)' = "refused"
         /\ heard'[q] = Dropped => StageOf(q)' = "dropped"
         /\ heard'[q] = q => StageOf(q)' = "delivered"
         /\ heard'[q] = None =>
              /\ replies'[q] # 0 => StageOf(q)' = "decided"
              /\ replies'[q] = 0 /\ shownOn'[q] # None => StageOf(q)' = "shown"
              /\ shownOn'[q] = None /\ askedFor'[q] # None => StageOf(q)' = "asked"
              /\ askedFor'[q] = None => StageOf(q)' = "new"
<1>1. Begun(q)' /\ heard'[q] \in {None, Error, Dropped, q} /\ replies'[q] \in Nat
  BY DEF DInv, DecisionsFit, MoreTypes, JourneyInv
<1>2. None \notin Questions \cup {Error, Dropped} /\ Error \notin Questions /\ Dropped \notin Questions \cup {Error}
  BY RelayAssumption
<1> QED BY <1>1, <1>2 DEF StageOf, Begun

Stages == [q \in Questions |-> StageOf(q)]

\* A step that changes nothing a stage depends on, for one question.
LEMMA StageKept ==
  ASSUME NEW q \in Questions, heard'[q] = heard[q], replies'[q] = replies[q],
         shownOn'[q] = shownOn[q], askedFor'[q] = askedFor[q]
  PROVE  StageOf(q)' = StageOf(q)
BY DEF StageOf

\* Steps of the abstract specification.
LEMMA PromiseMoves ==
  ASSUME NEW q \in Questions, NEW from, NEW to, StageOf(q) \in from, StageOf(q)' = to,
         \A x \in Questions \ {q} : StageOf(x)' = StageOf(x)
  PROVE  Promise!Move(q, from, to)
BY DEF Promise!Move

LEMMA PromiseDrops ==
  ASSUME \A x \in Questions :
           \/ StageOf(x)' = StageOf(x)
           \/ StageOf(x) \in {"asked", "shown", "decided"} /\ StageOf(x)' = "dropped"
  PROVE  Promise!Drop
<1> DEFINE dropped == {x \in Questions : StageOf(x) \in {"asked", "shown", "decided"} /\ StageOf(x)' = "dropped"}
<1>1. dropped \in SUBSET {x \in Questions : Stages[x] \in Promise!Open}
  BY DEF Promise!Open, Stages
<1>2. \A x \in Questions : StageOf(x)' = IF x \in dropped THEN "dropped" ELSE StageOf(x)
  OBVIOUS
<1> HIDE DEF dropped
<1>3. [x \in Questions |-> StageOf(x)'] = [x \in Questions |-> IF x \in dropped THEN "dropped" ELSE Stages[x]]
  BY <1>2 DEF Stages
<1> QED BY <1>1, <1>3 DEF Promise!Drop, Stages

\* What is to show of a step: it moves one question on, drops open ones, or
\* changes nothing the promise sees.
Step(q, from, to) ==
  StageOf(q) \in from /\ StageOf(q)' = to /\ \A x \in Questions \ {q} : StageOf(x)' = StageOf(x)
Kept == \A x \in Questions : StageOf(x)' = StageOf(x)
StepsOn ==
  \/ Kept \/ Promise!Drop
  \/ \E q \in Questions :
       \/ Step(q, {"new"}, "asked") \/ Step(q, {"asked"}, "shown") \/ Step(q, {"shown"}, "decided")
       \/ Step(q, {"decided"}, "delivered") \/ Step(q, {"asked", "shown"}, "refused")

LEMMA PromiseSteps == StepsOn => [Promise!Next]_Stages
<1>1. Kept => UNCHANGED Stages
  BY DEF Kept, Stages
<1>2. ASSUME NEW q \in Questions,
             \/ Step(q, {"new"}, "asked") \/ Step(q, {"asked"}, "shown") \/ Step(q, {"shown"}, "decided")
             \/ Step(q, {"decided"}, "delivered") \/ Step(q, {"asked", "shown"}, "refused")
      PROVE  Promise!Next
  <2>1. \A from, to : Step(q, from, to) => Promise!Move(q, from, to)
    BY PromiseMoves DEF Step
  <2> QED
    BY <1>2, <2>1 DEF Promise!Next, Promise!Ask, Promise!Show, Promise!Decide, Promise!Deliver, Promise!Refuse
<1> QED BY <1>1, <1>2 DEF StepsOn, Promise!Next

\* A process goes, and its open questions with it.
LEMMA PromiseEnds ==
  ASSUME DInv, MoreTypes, JourneyInv, DInv', MoreTypes', JourneyInv',
         NEW u \in Clients, heard' = HeardAfterEnd(u), UNCHANGED <<replies, shownOn, askedFor>>
  PROVE  StepsOn
<1>1. ASSUME NEW q \in Questions
      PROVE  \/ StageOf(q)' = StageOf(q)
             \/ StageOf(q) \in {"asked", "shown", "decided"} /\ StageOf(q)' = "dropped"
  <2>1. CASE heard'[q] = heard[q]
    BY <1>1, <2>1, StageKept
  <2>2. CASE heard'[q] # heard[q]
    <3>1. askedFor[q] # None /\ heard[q] = None /\ heard'[q] = Dropped
      BY <2>2, GoneHeard
    <3>2. StageOf(q)' = "dropped"
      BY <3>1, StageNext
    <3>3. StageOf(q) \in {"asked", "shown", "decided"}
      BY <3>1, StageNow
    <3> QED BY <3>2, <3>3
  <2> QED BY <2>1, <2>2
<1>2. Promise!Drop
  BY <1>1, PromiseDrops
<1> QED BY <1>2 DEF StepsOn

\* Every step of the relay is a step of the promise, or changes nothing in it.
LEMMA PromiseStep ==
  ASSUME DInv, MoreTypes, TurnInv, JourneyInv, ReplyInv, [Next]_vars
  PROVE  StepsOn
<1>i. DInv' /\ MoreTypes' /\ JourneyInv'
  BY DStep, MoreTypesStep, JourneyStep
<1>t. /\ asking \in [Calls -> Questions \cup {None}] /\ replies \in [Questions -> Nat]
      /\ heard \in [Questions -> Questions \cup {None, Error, Dropped}]
      /\ shownOn \in [Questions -> Calls \cup {None}] /\ askedFor \in [Questions -> Calls \cup {None}]
      /\ client \in [Calls -> Clients]
  BY DEF DInv, Types, MoreTypes
<1>n. None \notin Questions \cup Calls \cup {Error, Dropped} /\ Error \notin Questions
  BY RelayAssumption
<1>k. ASSUME UNCHANGED questions PROVE StepsOn
  BY <1>k, StageKept DEF questions, StepsOn, Kept
<1>e. ASSUME NEW c \in Calls, heard' = HeardAfterEnd(client[c]), UNCHANGED <<replies, shownOn, askedFor>>
      PROVE  StepsOn
  BY <1>e, <1>i, <1>t, PromiseEnds
<1>1. ASSUME NEW c \in Calls, Begin(c) \/ TimeOut(c) \/ RelayFails(c) PROVE StepsOn
  BY <1>1, <1>e, <1>k DEF Begin, TimeOut, RelayFails, ResetProcess, questions
<1>2. ASSUME NEW c \in Calls, ReadGarbage(c) \/ ReadEnd(c) \/ WriteFails(c) \/ ReadAnswer(c) \/ ReplyLost(c)
                               \/ ReadInitialized(c) \/ ReadUninitialized(c) \/ Submit(c) \/ GiveAnswer(c)
      PROVE  StepsOn
  BY <1>2, <1>k
  DEF ReadGarbage, ReadEnd, WriteFails, ReadAnswer, ReplyLost, ReadInitialized, ReadUninitialized, Submit,
      GiveAnswer
\* Steps that a single question sees.
<1>o. ASSUME NEW q \in Questions, NEW from, NEW to, StageOf(q) \in from, StageOf(q)' = to,
             \A x \in Questions \ {q} : /\ heard'[x] = heard[x] /\ replies'[x] = replies[x]
                                        /\ shownOn'[x] = shownOn[x] /\ askedFor'[x] = askedFor[x]
      PROVE  Step(q, from, to)
  BY <1>o, StageKept DEF Step
<1>3. ASSUME NEW c \in Calls, ReadAsk(c) PROVE StepsOn
  <2>1. CASE UNCHANGED heard
    BY <1>3, <1>k, <2>1 DEF ReadAsk, questions
  <2>2. CASE ~UNCHANGED heard
    <3>1. PICK u \in Clients : u = client[c]
      BY <1>t
    <3>2. /\ NextLine(c, "ask") /\ LineRead(u) /\ alive[u]
          /\ heard' = [heard EXCEPT ![Head(lines[u]).question] = Error]
          /\ UNCHANGED <<replies, shownOn, askedFor>>
      BY <1>3, <2>2, <3>1 DEF ReadAsk
    <3>3. PICK q \in Questions : q = Head(lines[u]).question /\ q \in AskSet(lines[u])
      BY <3>1, <3>2, ReadAsks DEF NextLine
    <3>4. heard[q] = None /\ shownOn[q] = None /\ askedFor[q] # None
      BY <1>n, <3>2, <3>3 DEF JourneyInv, Unread, Asks
    <3>5. heard'[q] = Error /\ \A x \in Questions \ {q} : heard'[x] = heard[x]
      BY <1>t, <3>2, <3>3
    <3>6. StageOf(q) = "asked" /\ StageOf(q)' = "refused"
      BY <1>i, <3>4, <3>5, StageNow, StageNext
    <3>7. Step(q, {"asked", "shown"}, "refused")
      BY <1>o, <3>2, <3>5, <3>6
    <3> QED BY <3>7 DEF StepsOn
  <2> QED BY <2>1, <2>2
<1>4. ASSUME NEW c \in Calls, ReplyRead(c) PROVE StepsOn
  <2>1. /\ up[c] # <<>> /\ asking[c] # None /\ Head(up[c]).id = asking[c] /\ alive[client[c]]
        /\ heard' = [heard EXCEPT ![asking[c]] = Head(up[c]).about]
        /\ UNCHANGED <<replies, shownOn, askedFor>>
    BY <1>4 DEF ReplyRead, ValidReply, RelayId
  <2>2. PICK q \in Questions : q = asking[c]
    BY <1>t, <2>1
  <2>3. PICK r : r = Head(up[c])
    OBVIOUS
  <2>4. r \in Elems(up[c]) /\ r \in HonestReplies /\ r.id = q
    BY <2>1, <2>2, <2>3, ReplyTypes, ElemsTail
  <2>5. Fits(r) /\ r.about \in {q, Error}
    BY <2>4 DEF ReplyInv, HonestReplies
  <2>6. heard[q] = None
    BY <2>1, <2>2 DEF JourneyInv, Asks
  <2>7. heard'[q] = r.about /\ \A x \in Questions \ {q} : heard'[x] = heard[x]
    BY <1>t, <2>1, <2>2, <2>3
  <2>8. CASE r.about = Error
    <3>1. replies[q] = 0 /\ askedFor[q] # None
      BY <2>4, <2>5, <2>8 DEF Fits, Refusable
    <3>2. StageOf(q) \in {"asked", "shown"} /\ StageOf(q)' = "refused"
      BY <1>i, <2>6, <2>7, <2>8, <3>1, StageNow, StageNext
    <3>3. Step(q, {"asked", "shown"}, "refused")
      BY <1>o, <2>1, <2>7, <3>2
    <3> QED BY <3>3 DEF StepsOn
  <2>9. CASE r.about = q
    <3>1. replies[q] # 0
      BY <1>n, <2>4, <2>5, <2>9 DEF Fits, Decided
    <3>2. StageOf(q) = "decided" /\ StageOf(q)' = "delivered"
      BY <1>i, <2>6, <2>7, <2>9, <3>1, StageNow, StageNext
    <3>3. Step(q, {"decided"}, "delivered")
      BY <1>o, <2>1, <2>7, <3>2
    <3> QED BY <3>3 DEF StepsOn
  <2> QED BY <2>5, <2>8, <2>9
<1>5. ASSUME NEW c \in Calls, ShowQuestion(c) PROVE StepsOn
  <2>1. CASE UNCHANGED shownOn
    BY <1>5, <1>k, <2>1 DEF ShowQuestion, questions
  <2>2. CASE ~UNCHANGED shownOn
    <3>1. /\ down[c] # <<>> /\ Head(down[c]).type = "ask" /\ down' = [down EXCEPT ![c] = Tail(@)]
          /\ shownOn' = [shownOn EXCEPT ![Head(down[c]).question] = c]
          /\ UNCHANGED <<heard, replies, askedFor>>
      BY <1>5, <2>2 DEF ShowQuestion
    <3>2. PICK q \in Questions : q = Head(down[c]).question /\ q \in AskSet(down[c])
      BY <3>1, TakenAsks
    <3>3. Unshown(c, q) /\ shownOn[q] = None /\ askedFor[q] # None /\ replies[q] = 0
      BY <1>n, <3>2 DEF JourneyInv, Unshown, Begun
    <3>4. shownOn'[q] = c /\ \A x \in Questions \ {q} : shownOn'[x] = shownOn[x]
      BY <1>t, <3>1, <3>2
    <3>5. CASE heard[q] = None
      <4>1. StageOf(q) = "asked" /\ StageOf(q)' = "shown"
        BY <1>i, <1>n, <3>1, <3>3, <3>4, <3>5, StageNow, StageNext
      <4>2. Step(q, {"asked"}, "shown")
        BY <1>o, <3>1, <3>4, <4>1
      <4> QED BY <4>2 DEF StepsOn
    <3>6. CASE heard[q] # None
      <4>1. heard[q] \in {Error, Dropped, q}
        BY <3>6 DEF DInv, DecisionsFit
      <4>2. StageOf(q)' = StageOf(q)
        BY <1>i, <3>1, <4>1, StageNow, StageNext
      <4> QED BY <3>1, <3>4, <4>2, StageKept DEF StepsOn, Kept
    <3> QED BY <3>5, <3>6
  <2> QED BY <2>1, <2>2
<1>6. ASSUME NEW q \in Questions, HostReplies(q) PROVE StepsOn
  <2>1. shownOn[q] # None /\ replies' = [replies EXCEPT ![q] = @ + 1] /\ UNCHANGED <<heard, shownOn, askedFor>>
    BY <1>6 DEF HostReplies
  <2>2. replies'[q] = replies[q] + 1 /\ replies'[q] # 0 /\ \A x \in Questions \ {q} : replies'[x] = replies[x]
    BY <1>t, <2>1
  <2>3. CASE heard[q] = None /\ replies[q] = 0
    <3>1. StageOf(q) = "shown" /\ StageOf(q)' = "decided"
      BY <1>i, <2>1, <2>2, <2>3, StageNow, StageNext
    <3>2. Step(q, {"shown"}, "decided")
      BY <1>o, <2>1, <2>2, <3>1
    <3> QED BY <3>2 DEF StepsOn
  <2>4. CASE heard[q] # None \/ replies[q] # 0
    <3>1. heard[q] \in {None, Error, Dropped, q}
      BY DEF DInv, DecisionsFit
    <3>2. StageOf(q)' = StageOf(q)
      BY <1>i, <2>1, <2>2, <2>4, <3>1, StageNow, StageNext
    <3> QED BY <2>1, <2>2, <3>2, StageKept DEF StepsOn, Kept
  <2> QED BY <2>3, <2>4
<1>7. ASSUME NEW u \in Clients, NEW request \in work[u], NEW q \in Questions, AskHost(u, request, q)
      PROVE  StepsOn
  <2>1. /\ askedFor[q] = None /\ askedFor' = [askedFor EXCEPT ![q] = request.for]
        /\ UNCHANGED <<heard, replies, shownOn>>
    BY <1>7 DEF AskHost
  <2>2. request.for \in Calls
    BY <1>7 DEF AskHost, DInv, Types
  <2>3. askedFor'[q] # None /\ \A x \in Questions \ {q} : askedFor'[x] = askedFor[x]
    BY <1>n, <1>t, <2>1, <2>2
  <2>4. heard[q] = None /\ shownOn[q] = None
    BY <2>1 DEF JourneyInv, Begun
  <2>5. StageOf(q) = "new" /\ StageOf(q)' = "asked"
    BY <1>i, <2>1, <2>3, <2>4, StageNow, StageNext
  <2>6. Step(q, {"new"}, "asked")
    BY <1>o, <2>1, <2>3, <2>5
  <2> QED BY <2>6 DEF StepsOn
<1>8. ASSUME NEW u \in Clients, Stray(u) \/ \E request \in work[u] : Respond(u, request) PROVE StepsOn
  BY <1>8, <1>k DEF Stray, Respond
<1>9. ASSUME NEW u \in Clients, Exit(u) PROVE StepsOn
  BY <1>9, <1>i, PromiseEnds DEF Exit
<1>10. ASSUME NEW h \in Hosts, ForwardReply(h) \/ HostCloses(h) \/ ShimDies(h) PROVE StepsOn
  BY <1>10, <1>k DEF ForwardReply, HostCloses, ShimDies
<1>11. CASE UNCHANGED vars
  BY <1>11, <1>k DEF vars
<1> QED
  BY <1>1, <1>2, <1>3, <1>4, <1>5, <1>6, <1>7, <1>8, <1>9, <1>10, <1>11
  DEF Next, Thread, Read, Exchange, Upstream

\* Each question is asked, shown, decided and answered in this order, once:
\* the upstream hears a decision only of a host that was shown the question and
\* decided it, and nothing after it (elicitation.py, relay_request;
\* client_relay.py, _receive and _reply).  The relay implements Approvals.
THEOREM RelayKeepsThePromise == Spec => PromiseKept
<1> DEFINE Inv == DInv /\ MoreTypes /\ TurnInv /\ JourneyInv /\ ReplyInv
<1>1. Init => Inv
  <2> SUFFICES ASSUME Init PROVE Inv
    OBVIOUS
  <2>1. MoreTypes /\ TurnInv
    BY DEF Init, MoreTypes, Phases, TurnInv, Working
  <2>2. JourneyInv
    BY AsksEmpty DEF Init, JourneyInv, Begun
  <2>3. ReplyInv
    BY DEF Init, ReplyInv, Elems
  <2> QED BY <2>1, <2>2, <2>3, DInit
<1>2. Inv /\ [Next]_vars => Inv'
  BY DStep, MoreTypesStep, TurnStep, JourneyStep, ReplyStep
<1>3. Init => Promise!Init
  <2> SUFFICES ASSUME Init PROVE Promise!Init
    OBVIOUS
  <2>1. ASSUME NEW q \in Questions PROVE StageOf(q) = "new"
    BY RelayAssumption DEF Init, StageOf
  <2> QED BY <2>1 DEF Promise!Init
<1>4. Inv /\ [Next]_vars => [Promise!Next]_Stages
  BY PromiseStep, PromiseSteps
<1>5. Inv /\ [Next]_vars => [Promise!Next]_([q \in Questions |-> StageOf(q)])
  BY <1>4 DEF Stages
<1> QED BY <1>1, <1>2, <1>3, <1>5, PTL DEF Spec, PromiseKept, Promise!Spec

-----------------------------------------------------------------------------
(* Types, and one reply at a time on a socket.                             *)

\* The thread of a call waits for the reply to one question, and the question
\* or the reply is in one place: on the socket to the shim, with the shim, or
\* on the socket back.  Of a call that has ended nobody reads the socket.
WaitsAlone(c) ==
  /\ \A q \in AskSet(down[c]) :
       asking[c] = q /\ up[c] = <<>> /\ \A h \in Hosts : \A p \in pending[h] : p.call # c
  /\ \A h \in Hosts : \A p \in pending[h] : p.call = c => asking[c] = p.id /\ up[c] = <<>>
  /\ up[c] # <<>> => asking[c] # None
OneReply(c) == Len(up[c]) <= 1 /\ (phase[c] # "ended" => WaitsAlone(c))
SocketInv == \A c \in Calls : OneReply(c)

\* The bounds of the model.
BoundInv ==
  /\ noise \in 0..MaxNoise /\ replies \in [Questions -> 0..MaxReplies]
  /\ gone \in [Hosts -> BOOLEAN]

LEMMA SingleReply ==
  ASSUME NEW T, NEW s \in Seq(T), s # <<>>, Len(s) <= 1
  PROVE  Tail(s) = <<>>
<1>1. Len(s) \in Nat /\ Len(s) # 0
  OBVIOUS
<1>2. Tail(s) \in Seq(T) /\ Len(Tail(s)) = Len(s) - 1
  OBVIOUS
<1>3. Len(Tail(s)) = 0
  BY <1>1, <1>2
<1> DEFINE t == Tail(s)
<1>4. t \in Seq(T) /\ Len(t) = 0
  BY <1>2, <1>3
<1> HIDE DEF t
<1>5. t = <<>>
  BY <1>4
<1> QED BY <1>5 DEF t

LEMMA OneReplyKept ==
  ASSUME NEW c \in Calls, OneReply(c), up'[c] = up[c],
         phase'[c] # "ended" => phase[c] # "ended" /\ asking'[c] = asking[c],
         AskSet(down'[c]) \subseteq AskSet(down[c]),
         \A h \in Hosts : \A p \in pending'[h] : p.call = c => p \in pending[h]
  PROVE  OneReply(c)'
BY DEF OneReply, WaitsAlone

LEMMA SocketEnds ==
  ASSUME DInv, MoreTypes, SocketInv, NEW c \in Calls, NEW about \in Calls \cup {Initialize, Error},
         Finish(c, about), UNCHANGED pending,
         UNCHANGED up \/ (up[c] # <<>> /\ up' = [up EXCEPT ![c] = Tail(@)])
  PROVE  SocketInv'
<1>1. /\ phase'[c] = "ended" /\ \A x \in Calls \ {c} : phase'[x] = phase[x] /\ asking'[x] = asking[x]
      /\ \A x \in Calls : AskSet(down'[x]) = AskSet(down[x])
  BY FinishAsks DEF Finish, DInv, Types, MoreTypes
<1>2. ASSUME NEW x \in Calls \ {c} PROVE OneReply(x)'
  <2>1. up'[x] = up[x]
    BY DEF DInv, HonestInv
  <2> QED BY <1>1, <2>1, OneReplyKept DEF SocketInv
<1>3. Len(up'[c]) <= 1
  <2>1. CASE UNCHANGED up
    BY <2>1 DEF SocketInv, OneReply
  <2>2. CASE up[c] # <<>> /\ up' = [up EXCEPT ![c] = Tail(@)]
    <3>1. up[c] \in Seq(HonestReplies) /\ up'[c] = Tail(up[c])
      BY <2>2 DEF DInv, HonestInv
    <3>2. Len(Tail(up[c])) = Len(up[c]) - 1 /\ Len(up[c]) \in Nat
      BY <2>2, <3>1
    <3>3. Len(up[c]) <= 1
      BY DEF SocketInv, OneReply
    <3> QED BY <3>1, <3>2, <3>3
  <2> QED BY <2>1, <2>2
<1>4. OneReply(c)'
  BY <1>1, <1>3 DEF OneReply
<1> QED BY <1>2, <1>4 DEF SocketInv

\* A reply put on a socket nothing else is on its way to.
LEMMA SocketSent ==
  ASSUME DInv, NEW c \in Calls, NEW reply \in HonestReplies, Len(up[c]) <= 1,
         phase[c] # "ended" => up[c] = <<>>
  PROVE  Len(Sent(c, reply)) <= 1
<1>1. Len(Append(<<>>, reply)) = 1
  OBVIOUS
<1> QED BY <1>1 DEF Sent

LEMMA SocketShows ==
  ASSUME DInv, MoreTypes, JourneyInv, SocketInv, NEW c \in Calls, ShowQuestion(c)
  PROVE  SocketInv'
<1>t. /\ host[c] \in Hosts /\ up \in [Calls -> Seq(HonestReplies)]
      /\ pending \in [Hosts -> SUBSET [id : Questions, call : Calls]]
  BY DEF DInv, Types, HonestInv
<1>1. /\ down[c] # <<>> /\ Head(down[c]).type = "ask" /\ down' = [down EXCEPT ![c] = Tail(@)]
      /\ UNCHANGED <<phase, asking>>
  BY DEF ShowQuestion, calls
<1>2. PICK q \in Questions : q = Head(down[c]).question
  BY <1>1, TakenAsks
<1>3. /\ q \in AskSet(down[c]) /\ q \notin AskSet(down'[c])
      /\ \A x \in Calls : AskSet(down'[x]) \subseteq AskSet(down[x])
  BY <1>1, <1>2, TakenAsks DEF JourneyInv
<1>4. phase[c] # "ended" =>
        /\ asking[c] = q /\ up[c] = <<>> /\ AskSet(down'[c]) = {}
        /\ \A h \in Hosts : \A p \in pending[h] : p.call # c
  <2> SUFFICES ASSUME phase[c] # "ended"
               PROVE  /\ asking[c] = q /\ up[c] = <<>> /\ AskSet(down'[c]) = {}
                      /\ \A h \in Hosts : \A p \in pending[h] : p.call # c
    OBVIOUS
  <2>1. /\ \A y \in AskSet(down[c]) : asking[c] = y /\ up[c] = <<>>
        /\ AskSet(down[c]) # {} => \A h \in Hosts : \A p \in pending[h] : p.call # c
    BY DEF SocketInv, OneReply, WaitsAlone
  <2>2. \A y \in AskSet(down[c]) : y = q
    BY <1>3, <2>1
  <2>3. AskSet(down'[c]) = {}
    BY <1>3, <2>2
  <2> QED BY <1>3, <2>1, <2>3
<1>5. Len(up[c]) <= 1
  BY DEF SocketInv, OneReply
<1>6. CASE up' = [up EXCEPT ![c] = Sent(c, Closed(q))] /\ UNCHANGED pending
  <2>1. up'[c] = Sent(c, Closed(q)) /\ \A x \in Calls \ {c} : up'[x] = up[x]
    BY <1>6, <1>t
  <2>2. Len(up'[c]) <= 1
    BY <1>4, <1>5, <2>1, ClosedHonest, SocketSent
  <2>3. OneReply(c)'
    BY <1>1, <1>4, <1>6, <2>2, RelayAssumption DEF OneReply, WaitsAlone
  <2>4. \A x \in Calls \ {c} : OneReply(x)'
    BY <1>1, <1>3, <1>6, <2>1, OneReplyKept DEF SocketInv
  <2> QED BY <2>3, <2>4 DEF SocketInv
<1>7. CASE /\ pending' = [pending EXCEPT ![host[c]] = {p \in @ : p.id # q} \cup {[id |-> q, call |-> c]}]
           /\ UNCHANGED up
  <2>1. \A h \in Hosts : \A p \in pending'[h] : p \in pending[h] \/ p = [id |-> q, call |-> c]
    BY <1>7, <1>t
  <2>2. OneReply(c)'
    BY <1>1, <1>4, <1>5, <1>7, <2>1 DEF OneReply, WaitsAlone
  <2>3. ASSUME NEW x \in Calls \ {c} PROVE OneReply(x)'
    <3>1. \A h \in Hosts : \A p \in pending'[h] : p.call = x => p \in pending[h]
      BY <2>1
    <3> QED BY <1>1, <1>3, <1>7, <3>1, OneReplyKept DEF SocketInv
  <2> QED BY <2>2, <2>3 DEF SocketInv
<1> QED BY <1>2, <1>6, <1>7 DEF ShowQuestion, RelayId

\* What goes back on the socket of a call whose question the shim waits for.
LEMMA SocketAnswered ==
  ASSUME DInv, ReplyInv, SocketInv, NEW h \in Hosts, NEW p \in pending[h], NEW reply \in HonestReplies,
         UNCHANGED <<phase, asking, down>>, up'[p.call] = Sent(p.call, reply),
         \A x \in Hosts : pending'[x] \subseteq pending[x], p \notin pending'[h]
  PROVE  OneReply(p.call)'
<1>1. /\ p \in [id : Questions, call : Calls] /\ p.call \in Calls /\ p.id \in Questions
      /\ \A x \in Hosts : \A y \in pending[x] : y \in [id : Questions, call : Calls]
  BY DEF DInv, Types
<1>2. PICK c \in Calls : c = p.call
  BY <1>1
<1>3. phase[c] # "ended" => asking[c] = p.id /\ up[c] = <<>> /\ AskSet(down[c]) = {} /\ asking[c] # None
  BY <1>1, <1>2, RelayAssumption DEF SocketInv, OneReply, WaitsAlone
<1>4. Len(up'[c]) <= 1
  BY <1>2, <1>3, SocketSent DEF SocketInv, OneReply
<1>5. ASSUME phase[c] # "ended", NEW x \in Hosts, NEW y \in pending'[x], y.call = c PROVE FALSE
  <2>1. y \in pending[x] /\ y.id = p.id
    BY <1>1, <1>2, <1>3, <1>5 DEF SocketInv, OneReply, WaitsAlone
  <2>2. x = h
    BY <1>2, <1>5, <2>1 DEF ReplyInv, Heeded
  <2>3. y = [id |-> y.id, call |-> y.call] /\ p = [id |-> p.id, call |-> p.call]
    BY <1>1, <2>1
  <2> QED BY <1>2, <1>5, <2>1, <2>2, <2>3
<1>6. OneReply(c)'
  BY <1>3, <1>4, <1>5 DEF OneReply, WaitsAlone
<1> QED BY <1>2, <1>6

LEMMA SocketStep ==
  ASSUME DInv, MoreTypes, TurnInv, JourneyInv, ReplyInv, SocketInv, [Next]_vars
  PROVE  SocketInv'
<1>t. /\ host \in [Calls -> Hosts] /\ up \in [Calls -> Seq(HonestReplies)]
      /\ asking \in [Calls -> Questions \cup {None}] /\ phase \in [Calls -> Phases]
      /\ pending \in [Hosts -> SUBSET [id : Questions, call : Calls]]
      /\ down \in [Calls -> Seq(Downs)]
  BY DEF DInv, Types, HonestInv, MoreTypes
<1>k. ASSUME UNCHANGED <<asking, up>>, \A c \in Calls : phase'[c] # "ended" => phase[c] # "ended",
             \A c \in Calls : AskSet(down'[c]) \subseteq AskSet(down[c]),
             \A h \in Hosts : pending'[h] \subseteq pending[h]
      PROVE  SocketInv'
  BY <1>k, OneReplyKept DEF SocketInv
<1>e. Error \in Calls \cup {Initialize, Error}
  OBVIOUS
<1>1. ASSUME NEW c \in Calls, Begin(c) \/ ReadInitialized(c) \/ ReadUninitialized(c) PROVE SocketInv'
  <2>1. PICK what, kept : Send(c, what, kept)
    BY <1>1 DEF Begin, ReadInitialized, ReadUninitialized, SendInitialize
  <2>2. phase[c] # "ended"
    BY <1>1 DEF Begin, ReadInitialized, ReadUninitialized, NextLine, Waiting
  <2>3. \A x \in Calls : phase'[x] # "ended" => phase[x] # "ended"
    BY <2>1, <2>2 DEF Send
  <2> QED BY <1>1, <1>k, <2>3 DEF Begin, ReadInitialized, ReadUninitialized, shims
<1>2. ASSUME NEW c \in Calls, ReadGarbage(c) \/ ReadEnd(c) \/ WriteFails(c) \/ TimeOut(c) \/ RelayFails(c)
                               \/ ReplyLost(c)
      PROVE  SocketInv'
  BY <1>2, <1>e, SocketEnds DEF ReadGarbage, ReadEnd, WriteFails, TimeOut, RelayFails, ReplyLost, shims
<1>3. ASSUME NEW c \in Calls, ReadAnswer(c) PROVE SocketInv'
  <2> DEFINE line == Head(lines[client[c]])
             about == IF IdMatches(c, line) /\ ~line.uninit THEN line.about ELSE Error
  <2>1. line \in Lines /\ line.type = "answer"
    BY <1>3, LineTypes DEF ReadAnswer
  <2>2. about \in Calls \cup {Initialize, Error}
    BY <2>1 DEF Lines
  <2>3. Finish(c, about) /\ UNCHANGED <<up, pending>>
    BY <1>3 DEF ReadAnswer, shims
  <2> HIDE DEF about
  <2> QED BY <2>2, <2>3, SocketEnds
<1>4. ASSUME NEW c \in Calls, ReadAsk(c) PROVE SocketInv'
  <2>1. CASE UNCHANGED <<asking, down>>
    BY <1>4, <1>k, <2>1 DEF ReadAsk, shims
  <2>2. CASE ~UNCHANGED <<asking, down>>
    <3>1. PICK q : q = Head(lines[client[c]]).question
      OBVIOUS
    <3> DEFINE line == [type |-> "ask", question |-> q]
    <3>2. /\ asking[c] = None /\ phase[c] # "ended" /\ asking' = [asking EXCEPT ![c] = q]
          /\ down' = [down EXCEPT ![c] = Append(@, line)] /\ UNCHANGED <<phase, up, pending>>
      BY <1>4, <2>2, <3>1 DEF ReadAsk, NextLine, Waiting, shims
    <3>3. q \in Questions
      BY <1>4, <3>1, LineTypes DEF ReadAsk, Lines
    <3>4. line \in Downs /\ line.type = "ask" /\ line.question = q
      BY <3>3 DEF Downs
    <3> HIDE DEF line
    <3>5. AskSet(Append(down[c], line)) = AskSet(down[c]) \cup {q}
      BY <1>t, <3>4, AsksAppend
    <3>6. /\ asking'[c] = q /\ AskSet(down'[c]) = AskSet(down[c]) \cup {q}
          /\ \A x \in Calls \ {c} : asking'[x] = asking[x] /\ down'[x] = down[x]
      BY <1>t, <3>2, <3>5
    <3>7. /\ AskSet(down[c]) = {} /\ up[c] = <<>>
          /\ \A h \in Hosts : \A p \in pending[h] : p.call # c
      <4>1. WaitsAlone(c)
        BY <3>2 DEF SocketInv, OneReply
      <4>2. None \notin Questions /\ \A h \in Hosts : \A p \in pending[h] : p.id \in Questions
        BY <1>t, RelayAssumption
      <4> QED BY <3>2, <4>1, <4>2, AskTypes DEF WaitsAlone
    <3>8. OneReply(c)'
      BY <3>2, <3>6, <3>7 DEF OneReply, WaitsAlone, SocketInv
    <3>9. \A x \in Calls \ {c} : OneReply(x)'
      BY <3>2, <3>6, OneReplyKept DEF SocketInv
    <3> QED BY <3>8, <3>9 DEF SocketInv
  <2> QED BY <2>1, <2>2
<1>5. ASSUME NEW c \in Calls, ReplyRead(c) PROVE SocketInv'
  <2>1. /\ up[c] # <<>> /\ up' = [up EXCEPT ![c] = Tail(@)] /\ asking' = [asking EXCEPT ![c] = None]
        /\ asking[c] # None /\ UNCHANGED <<phase, down, pending>>
    BY <1>5 DEF ReplyRead, shims
  <2>2. /\ up'[c] = Tail(up[c]) /\ asking'[c] = None
        /\ \A x \in Calls \ {c} : up'[x] = up[x] /\ asking'[x] = asking[x]
    BY <1>t, <2>1
  <2>3. up[c] \in Seq(HonestReplies) /\ Len(up[c]) <= 1 /\ WaitsAlone(c)
    BY <1>t, <2>1 DEF SocketInv, OneReply, TurnInv, Working
  <2>4. Len(up'[c]) <= 1 /\ up'[c] = <<>>
    <3>1. Tail(up[c]) = <<>> /\ Len(<<>>) = 0
      BY <2>1, <2>3, SingleReply
    <3>2. up'[c] = <<>>
      BY <2>2, <3>1
    <3> QED BY <3>1, <3>2
  <2>5. OneReply(c)'
    BY <2>1, <2>2, <2>3, <2>4 DEF OneReply, WaitsAlone
  <2>6. \A x \in Calls \ {c} : OneReply(x)'
    BY <2>1, <2>2, OneReplyKept DEF SocketInv
  <2> QED BY <2>5, <2>6 DEF SocketInv
<1>6. ASSUME NEW c \in Calls, Submit(c) PROVE SocketInv'
  BY <1>6, <1>k DEF Submit, shims
<1>7. ASSUME NEW c \in Calls, GiveAnswer(c) PROVE SocketInv'
  <2>1. \A h \in Hosts : pending'[h] \subseteq pending[h]
    BY <1>7, <1>t DEF GiveAnswer
  <2> QED BY <1>7, <1>k, <2>1, TakenAsks DEF GiveAnswer, calls
<1>9. ASSUME NEW u \in Clients, Upstream(u) PROVE SocketInv'
  BY <1>9, <1>k DEF Upstream, Respond, AskHost, Stray, Exit, calls, shims
<1>10. ASSUME NEW q \in Questions, HostReplies(q) PROVE SocketInv'
  BY <1>10, <1>k DEF HostReplies, calls
<1>11. ASSUME NEW h \in Hosts, ShimDies(h) PROVE SocketInv'
  BY <1>11, <1>k DEF ShimDies, calls
<1>12. CASE UNCHANGED vars
  BY <1>12, <1>k DEF vars, calls, shims
<1>8. ASSUME NEW c \in Calls, ShowQuestion(c) PROVE SocketInv'
  BY <1>8, SocketShows
<1>13. ASSUME NEW h \in Hosts, ForwardReply(h) PROVE SocketInv'
  <2>1. UNCHANGED <<phase, asking, down>> /\ stdin[h] # <<>>
    BY <1>13 DEF ForwardReply, calls
  <2>2. CASE UNCHANGED <<pending, up>>
    BY <1>k, <2>1, <2>2
  <2>3. ASSUME NEW p \in pending[h], pending' = [pending EXCEPT ![h] = ReplyTaken(h, p)],
               up' = [up EXCEPT ![p.call] = Sent(p.call, Head(stdin[h]))]
        PROVE  SocketInv'
    <3>1. PICK c \in Calls : c = p.call
      BY <1>t
    <3>2. /\ \A x \in Hosts : pending'[x] \subseteq pending[x]
          /\ p \notin pending'[h]
      BY <1>t, <2>3 DEF ReplyTaken
    <3>3. up'[c] = Sent(c, Head(stdin[h])) /\ \A x \in Calls \ {c} : up'[x] = up[x]
      BY <1>t, <2>3, <3>1
    <3>4. Head(stdin[h]) \in HonestReplies
      BY <2>1, ReplyTypes
    <3>5. OneReply(p.call)'
      BY <2>1, <3>1, <3>2, <3>3, <3>4, SocketAnswered
    <3>6. \A x \in Calls \ {c} : OneReply(x)'
      BY <2>1, <3>2, <3>3, OneReplyKept DEF SocketInv
    <3> QED BY <3>1, <3>5, <3>6 DEF SocketInv
  <2> QED BY <1>13, <2>2, <2>3 DEF ForwardReply
<1>14. ASSUME NEW h \in Hosts, HostCloses(h) PROVE SocketInv'
  <2>1. /\ UNCHANGED <<phase, asking, down>> /\ pending' = [pending EXCEPT ![h] = {}]
        /\ \A c \in Calls : up'[c] = IF \E p \in pending[h] : p.call = c
             THEN Sent(c, Closed((CHOOSE p \in pending[h] : p.call = c).id)) ELSE up[c]
    BY <1>14 DEF HostCloses, calls
  <2>2. /\ \A x \in Hosts : pending'[x] \subseteq pending[x]
        /\ pending'[h] = {}
    BY <1>t, <2>1
  <2>3. ASSUME NEW c \in Calls PROVE OneReply(c)'
    <3>1. CASE \E p \in pending[h] : p.call = c
      <4>1. PICK p : p = CHOOSE y \in pending[h] : y.call = c
        OBVIOUS
      <4>2. p \in pending[h] /\ p.id \in Questions /\ p.call = c
        BY <1>t, <3>1, <4>1
      <4>3. up'[c] = Sent(c, Closed(p.id))
        BY <2>1, <3>1, <4>1
      <4>4. OneReply(p.call)'
        BY <2>1, <2>2, <4>2, <4>3, ClosedHonest, SocketAnswered
      <4> QED BY <4>2, <4>4
    <3>2. CASE ~ \E p \in pending[h] : p.call = c
      <4>1. up'[c] = up[c]
        BY <2>1, <3>2
      <4> QED BY <2>1, <2>2, <4>1, OneReplyKept DEF SocketInv
    <3> QED BY <3>1, <3>2
  <2> QED BY <2>3 DEF SocketInv
<1> QED
  BY <1>1, <1>2, <1>3, <1>4, <1>5, <1>6, <1>7, <1>8, <1>9, <1>10, <1>11, <1>12, <1>13, <1>14
  DEF Next, Thread, Read, Exchange

LEMMA BoundStep ==
  ASSUME DInv, BoundInv, [Next]_vars
  PROVE  BoundInv'
<1> USE RelayAssumption DEF BoundInv
<1>1. ASSUME NEW c \in Calls, Thread(c) PROVE UNCHANGED <<noise, replies, gone>>
  BY <1>1 DEF Thread, Begin, Read, TimeOut, ReplyRead, ReplyLost, RelayFails, ReadGarbage,
       ReadInitialized, ReadUninitialized, ReadAnswer, ReadAsk, ReadEnd, WriteFails,
       questions, shims
<1>2. ASSUME NEW c \in Calls, Submit(c) \/ Exchange(c) PROVE UNCHANGED <<noise, replies, gone>>
  BY <1>2 DEF Submit, Exchange, ShowQuestion, GiveAnswer, questions, shims
<1>3. ASSUME NEW u \in Clients, Upstream(u) PROVE BoundInv'
  <2>1. UNCHANGED <<replies, gone>>
    BY <1>3 DEF Upstream, Respond, AskHost, Stray, Exit, questions, shims
  <2>2. noise' = noise \/ (noise < MaxNoise /\ noise' = noise + 1)
    BY <1>3 DEF Upstream, Respond, AskHost, Stray, Exit
  <2> QED BY <2>1, <2>2
<1>4. ASSUME NEW q \in Questions, HostReplies(q) PROVE BoundInv'
  <2>1. /\ noise' \in {noise, noise + 1} /\ (noise' = noise \/ noise < MaxNoise) /\ UNCHANGED gone
        /\ replies[q] < MaxReplies /\ replies' = [replies EXCEPT ![q] = @ + 1]
    BY <1>4 DEF HostReplies
  <2>2. replies[q] + 1 \in 0..MaxReplies
    BY <2>1
  <2>3. replies' \in [Questions -> 0..MaxReplies]
    BY <2>1, <2>2
  <2>4. noise' \in 0..MaxNoise
    BY <2>1
  <2> QED BY <2>1, <2>3, <2>4
<1>5. ASSUME NEW h \in Hosts, ForwardReply(h) \/ HostCloses(h) \/ ShimDies(h) PROVE BoundInv'
  <2>1. UNCHANGED replies /\ (UNCHANGED gone \/ gone' = [gone EXCEPT ![h] = TRUE])
    BY <1>5 DEF ForwardReply, HostCloses, ShimDies, questions
  <2>2. noise' = noise \/ (noise < MaxNoise /\ noise' = noise + 1)
    BY <1>5 DEF ForwardReply, HostCloses, ShimDies
  <2>3. gone' \in [Hosts -> BOOLEAN]
    BY <2>1
  <2>4. noise' \in 0..MaxNoise
    BY <2>2
  <2> QED BY <2>1, <2>3, <2>4
<1>6. CASE UNCHANGED vars
  BY <1>6 DEF vars, questions, shims
<1> QED BY <1>1, <1>2, <1>3, <1>4, <1>5, <1>6 DEF Next

LEMMA SocketContent ==
  ASSUME NEW s \in Seq(Replies), Len(s) <= 1
  PROVE  s \in {<<>>} \cup {<<reply>> : reply \in Replies}
<1>1. CASE Len(s) = 0
  BY <1>1
<1>2. CASE Len(s) = 1
  <2>1. s[1] \in Replies /\ s = <<s[1]>>
    BY <1>2
  <2> QED BY <2>1
<1>3. Len(s) \in Nat
  OBVIOUS
<1> QED BY <1>1, <1>2, <1>3

\* Whatever the order of questions, late and repeated replies, ends of input and
\* deaths, at most one reply is under way on the socket of a call, every reply
\* and every decision the upstream hears names a question, and every answer a
\* host gets is one the daemon gave (client_relay.py, _reply and
\* _close_pending; elicitation.py, relay_request).
THEOREM TypeCorrect == Spec => []TypeOK
<1> DEFINE Inv == /\ IdInv /\ MoreTypes /\ TurnInv /\ JourneyInv /\ ReplyInv
                  /\ SocketInv /\ BoundInv
<1>1. Init => Inv
  <2> SUFFICES ASSUME Init PROVE Inv
    OBVIOUS
  <2>1. MoreTypes /\ TurnInv
    BY DEF Init, MoreTypes, Phases, TurnInv, Working
  <2>2. JourneyInv
    BY AsksEmpty DEF Init, JourneyInv, Begun
  <2>3. ReplyInv
    BY DEF Init, ReplyInv, Elems
  <2>4. SocketInv
    <3>1. ASSUME NEW c \in Calls PROVE OneReply(c)
      <4>1. up[c] = <<>> /\ down[c] = <<>> /\ \A h \in Hosts : pending[h] = {}
        BY DEF Init
      <4>2. AskSet(down[c]) = {} /\ Len(up[c]) = 0
        BY <4>1, AsksEmpty
      <4>3. WaitsAlone(c)
        BY <4>1, <4>2 DEF WaitsAlone
      <4> QED BY <4>2, <4>3 DEF OneReply
    <3> QED BY <3>1 DEF SocketInv
  <2>5. BoundInv
    BY RelayAssumption DEF Init, BoundInv
  <2> QED BY <2>1, <2>2, <2>3, <2>4, <2>5, IdInit
<1>2. Inv /\ [Next]_vars => Inv'
  BY IdStep, MoreTypesStep, TurnStep, JourneyStep, ReplyStep, SocketStep, BoundStep DEF IdInv
<1>3. Inv => TypeOK
  <2> SUFFICES ASSUME Inv PROVE TypeOK
    OBVIOUS
  <2>1. Types /\ MoreTypes /\ BoundInv /\ answer \in [Calls -> Calls \cup {None, Initialize, Error}]
    BY DEF IdInv, DInv, AnswersFit
  <2>2. Seq(HonestReplies) \subseteq Seq(Replies)
    BY DEF HonestReplies
  <2>3. up \in [Calls -> Seq(Replies)] /\ stdin \in [Hosts -> Seq(Replies)]
    BY <2>2 DEF IdInv, DInv, HonestInv
  <2>4. up \in [Calls -> {<<>>} \cup {<<reply>> : reply \in Replies}]
    <3>1. ASSUME NEW c \in Calls PROVE up[c] \in {<<>>} \cup {<<reply>> : reply \in Replies}
      BY <2>3, SocketContent DEF SocketInv, OneReply
    <3> QED BY <2>3, <3>1
  <2> QED BY <2>1, <2>3, <2>4 DEF TypeOK, Types, MoreTypes, BoundInv
<1> QED BY <1>1, <1>2, <1>3, PTL DEF Spec
=============================================================================
