-------------------------- MODULE HTTPServerProofs --------------------------
(* Proofs about HTTPServer, for every set of clients, of messages and of    *)
(* bytes behind a copy.                                                     *)
EXTENDS HTTPServer, NaturalInduction, SequenceTheorems

\* A type-correct table of routes stays one when a route is inserted.
LEMMA InsertedRoutes ==
    ASSUME DOMAIN routes \subseteq Uris, \A u \in DOMAIN routes : routes[u] \in Functions,
           NEW uri \in Uris, NEW f \in Functions
    PROVE  /\ DOMAIN Inserted(routes, uri, f) \subseteq Uris
           /\ \A u \in DOMAIN Inserted(routes, uri, f) : Inserted(routes, uri, f)[u] \in Functions
BY DEF Inserted

\* What is found is a function or NotFound.
LEMMA FoundType ==
    ASSUME \A u \in DOMAIN routes : routes[u] \in Functions, NEW uri
    PROVE  FindRoute(uri) \in Functions \cup {NotFound}
BY DEF FindRoute

\* The initial states are type-correct.
LEMMA InitTypes == Init => ServerTypes
BY HTTPServerAssumption DEF Init, ServerTypes, Labels, Peers, HTTPServerAssumption

\* The set-up keeps the types.
LEMMA SetUpTypes ==
    ServerTypes /\ (Bind \/ Listen \/ Register \/ Launch) => ServerTypes'
<1> SUFFICES ASSUME ServerTypes, Bind \/ Listen \/ Register \/ Launch PROVE ServerTypes'
  OBVIOUS
<1> USE HTTPServerAssumption DEF HTTPServerAssumption, ServerTypes, Labels, locals, outside, request
<1>1. CASE Bind
  BY <1>1 DEF Bind
<1>2. CASE Listen
  BY <1>2 DEF Listen
<1>3. CASE Register
  BY <1>3, InsertedRoutes DEF Register
<1>4. CASE Launch
  BY <1>4 DEF Launch
<1> QED BY <1>1, <1>2, <1>3, <1>4

\* The steps of handler up to the route keep the types.
LEMMA ParseTypes ==
    ServerTypes /\ ( \/ Accept \/ AcceptFails \/ Read \/ SplitRequest \/ ExtractRequestLine
                \/ PushHeaders \/ ExtractHeader \/ ExtractBody \/ PushField) => ServerTypes'
<1> SUFFICES ASSUME ServerTypes,
                    \/ Accept \/ AcceptFails \/ Read \/ SplitRequest \/ ExtractRequestLine
                    \/ PushHeaders \/ ExtractHeader \/ ExtractBody \/ PushField
             PROVE  ServerTypes'
  OBVIOUS
<1> USE HTTPServerAssumption
    DEF HTTPServerAssumption, ServerTypes, Labels, locals, outside, request, Crash
<1>1. CASE Accept
  BY <1>1 DEF Accept
<1>2. CASE AcceptFails
  BY <1>2 DEF AcceptFails
<1>3. CASE Read
  BY <1>3 DEF Read
<1>4. CASE SplitRequest
  BY <1>4 DEF SplitRequest
<1>5. CASE ExtractRequestLine
  BY <1>5 DEF ExtractRequestLine
<1>6. CASE PushHeaders
  BY <1>6 DEF PushHeaders
<1>7. CASE ExtractHeader
  BY <1>7 DEF ExtractHeader
<1>8. CASE ExtractBody
  BY <1>8 DEF ExtractBody, ExtractForm, ExtractData, Parsed, StartPushing
<1>9. CASE PushField
  BY <1>9 DEF PushField
<1> QED BY <1>1, <1>2, <1>3, <1>4, <1>5, <1>6, <1>7, <1>8, <1>9

\* The search of the route, the answer and the destructor keep the types.
LEMMA AnswerTypes ==
    ServerTypes /\ (Route \/ Write \/ Destroy) => ServerTypes'
<1> SUFFICES ASSUME ServerTypes, Route \/ Write \/ Destroy PROVE ServerTypes'
  OBVIOUS
<1> USE HTTPServerAssumption
    DEF HTTPServerAssumption, ServerTypes, Labels, locals, outside, request, Crash
<1>1. CASE Route
  BY <1>1, FoundType DEF Route
<1>2. CASE Write
  BY <1>2 DEF Write, Close, Return
<1>3. CASE Destroy
  BY <1>3 DEF Destroy
<1> QED BY <1>1, <1>2, <1>3

\* What the clients do keeps the types.
LEMMA ClientTypes ==
    ASSUME ServerTypes, NEW c \in Clients, Connect(c) \/ Send(c) \/ Receive(c) \/ Leave(c)
    PROVE  ServerTypes'
<1> USE HTTPServerAssumption DEF HTTPServerAssumption, ServerTypes, Peers, locals, Messages
<1>1. CASE Connect(c)
  BY <1>1 DEF Connect
<1>2. CASE Send(c)
  BY <1>2 DEF Send
<1>3. CASE Receive(c)
  BY <1>3 DEF Receive
<1>4. CASE Leave(c)
  BY <1>4 DEF Leave
<1> QED BY <1>1, <1>2, <1>3, <1>4

----------------------------------------------------------------------------
\* One answer to a client, and one routed answer in the life of the process

Queued == {backlog[i] : i \in DOMAIN backlog}
Idle == {"bind", "listen", "exited", "register", "accept"}

\* Whoever waits in the kernel's queue, or is being handled, has no answer yet,
\* and nobody is both or waits twice.
Places ==
    /\ pc \in Idle => client = NoClient
    /\ \A i, j \in DOMAIN backlog : backlog[i] = backlog[j] => i = j
    /\ client \notin Queued
    /\ \A c \in Clients : got[c] # NoAnswer \/ peer[c] = "new" => c \notin Queued
    /\ \A c \in Clients : peer[c] = "new" => got[c] = NoAnswer /\ client # c
    /\ pc \notin {"destroy", "crashed"} /\ client # NoClient => got[client] = NoAnswer

\* The process does not outlive its first routed answer: the destructor of the
\* request that follows it frees an entry twice.  Nobody but the client that
\* was being handled has one.
RoutedLast ==
    \A c \in Clients : got[c] \in Functions => pc \in {"destroy", "crashed"} /\ c = client

IInv == ServerTypes /\ Places /\ RoutedLast

LEMMA InitIInv == Init => IInv
BY InitTypes, HTTPServerAssumption
   DEF Init, IInv, Places, RoutedLast, Queued, Idle, HTTPServerAssumption

\* Steps that touch neither the queue nor the clients.
Parsing ==
    \/ Read \/ AcceptFails \/ SplitRequest \/ ExtractRequestLine \/ PushHeaders \/ ExtractHeader
    \/ ExtractBody \/ PushField \/ Route

LEMMA ParsingSteps ==
    Parsing => /\ UNCHANGED <<backlog, client, outside>>
               /\ pc \notin {"destroy", "crashed"}
               /\ pc' \notin Idle
<1> USE DEF Idle, locals, outside, request, Crash
<1>1. Read => pc = "read" /\ pc' = "split" /\ UNCHANGED <<backlog, client, outside>>
  BY DEF Read
<1>2. AcceptFails => pc = "accept" /\ pc' = "split" /\ UNCHANGED <<backlog, client, outside>>
  BY DEF AcceptFails
<1>3. SplitRequest => pc = "split" /\ pc' \in {"crashed", "line"} /\ UNCHANGED <<backlog, client, outside>>
  BY DEF SplitRequest
<1>4. ExtractRequestLine =>
        pc = "line" /\ pc' \in {"crashed", "fields"} /\ UNCHANGED <<backlog, client, outside>>
  BY DEF ExtractRequestLine
<1>5. PushHeaders =>
        pc = "fields" /\ pc' \in {"crashed", "header"} /\ UNCHANGED <<backlog, client, outside>>
  BY DEF PushHeaders
<1>6. ExtractHeader =>
        pc = "header" /\ pc' \in {"header", "body"} /\ UNCHANGED <<backlog, client, outside>>
  BY DEF ExtractHeader
<1>7. ExtractBody =>
        pc = "body" /\ pc' \in {"crashed", "route", "push"} /\ UNCHANGED <<backlog, client, outside>>
  BY DEF ExtractBody, ExtractForm, ExtractData, Parsed, StartPushing
<1>8. PushField =>
        pc = "push" /\ pc' \in {"crashed", "push"} /\ UNCHANGED <<backlog, client, outside>>
  BY DEF PushField
<1>9. Route => pc = "route" /\ pc' \in {"crashed", "write"} /\ UNCHANGED <<backlog, client, outside>>
  BY DEF Route
<1> QED BY <1>1, <1>2, <1>3, <1>4, <1>5, <1>6, <1>7, <1>8, <1>9 DEF Parsing

LEMMA ParsingIInv == IInv /\ ServerTypes' /\ Parsing => IInv'
<1> SUFFICES ASSUME IInv, ServerTypes', Parsing PROVE IInv'
  OBVIOUS
<1>1. UNCHANGED <<backlog, client, peer, got>> /\ pc \notin {"destroy", "crashed"} /\ pc' \notin Idle
  BY ParsingSteps DEF outside
<1>2. Places'
  BY <1>1 DEF IInv, Places, Queued
<1>3. RoutedLast'
  BY <1>1 DEF IInv, RoutedLast
<1> QED BY <1>2, <1>3 DEF IInv

LEMMA SetUpIInv == IInv /\ ServerTypes' /\ (Bind \/ Listen \/ Register \/ Launch) => IInv'
<1> SUFFICES ASSUME IInv, ServerTypes', Bind \/ Listen \/ Register \/ Launch PROVE IInv'
  OBVIOUS
<1>1. UNCHANGED <<backlog, client, peer, got>> /\ pc \in Idle /\ pc' \in Idle
  BY DEF Bind, Listen, Register, Launch, Idle, locals, outside
<1>2. Places'
  BY <1>1 DEF IInv, Places, Queued, Idle
<1>3. RoutedLast'
  BY <1>1 DEF IInv, RoutedLast, Idle
<1> QED BY <1>2, <1>3 DEF IInv

LEMMA AcceptIInv == IInv /\ ServerTypes' /\ Accept => IInv'
<1> SUFFICES ASSUME IInv, ServerTypes', Accept PROVE IInv'
  OBVIOUS
<1> USE DEF outside
<1>1. /\ backlog \in Seq(Clients) /\ backlog # <<>>
      /\ pc = "accept" /\ pc' = "read" /\ client' = backlog[1] /\ backlog' = Tail(backlog)
      /\ UNCHANGED <<peer, got>>
  BY DEF IInv, ServerTypes, Accept
<1>2. DOMAIN backlog = 1..Len(backlog) /\ 1 \in DOMAIN backlog /\ client' \in Queued
  BY <1>1 DEF Queued
<1>3. DOMAIN backlog' = 1..(Len(backlog) - 1) /\ \A i \in DOMAIN backlog' : backlog'[i] = backlog[i + 1]
  BY <1>1
<1>4. \A i \in DOMAIN backlog' : i + 1 \in DOMAIN backlog /\ i + 1 # 1
  BY <1>1, <1>2, <1>3
<1>5. Queued' \subseteq Queued /\ client' \notin Queued'
  <2>1. Queued' \subseteq Queued
    BY <1>3, <1>4 DEF Queued
  <2>2. \A i \in DOMAIN backlog' : backlog'[i] # backlog[1]
    BY <1>2, <1>3, <1>4 DEF IInv, Places
  <2> QED BY <1>1, <2>1, <2>2 DEF Queued
<1>6. \A i, j \in DOMAIN backlog' : backlog'[i] = backlog'[j] => i = j
  <2> SUFFICES ASSUME NEW i \in DOMAIN backlog', NEW j \in DOMAIN backlog', backlog'[i] = backlog'[j]
               PROVE  i = j
    OBVIOUS
  <2>1. i + 1 = j + 1
    BY <1>3, <1>4 DEF IInv, Places
  <2> QED BY <1>1, <1>3, <2>1
<1>7. client' \in Clients /\ got[client'] = NoAnswer /\ peer[client'] # "new"
  BY <1>1, <1>2 DEF IInv, Places
<1>8. Places'
  BY <1>1, <1>5, <1>6, <1>7 DEF IInv, Places, Idle
<1>9. RoutedLast'
  BY <1>1 DEF IInv, RoutedLast
<1> QED BY <1>8, <1>9 DEF IInv

LEMMA WriteIInv == IInv /\ ServerTypes' /\ (Write \/ Destroy) => IInv'
<1> SUFFICES ASSUME IInv, ServerTypes', Write \/ Destroy PROVE IInv'
  OBVIOUS
<1> USE DEF outside, locals, request, Crash, Idle
<1>1. CASE Destroy
  <2>1. UNCHANGED <<backlog, client, peer, got>> /\ pc = "destroy" /\ pc' = "crashed"
    BY <1>1 DEF Destroy
  <2> QED BY <2>1 DEF IInv, Places, RoutedLast, Queued
<1>2. CASE Write /\ pc' = "crashed"
  <2>1. UNCHANGED <<backlog, client, peer, got>> /\ pc = "write"
    BY <1>2 DEF Write, Close, Return
  <2> QED BY <1>2, <2>1 DEF IInv, Places, RoutedLast, Queued
<1>3. CASE Write /\ pc' # "crashed"
  <2>1. /\ pc = "write" /\ UNCHANGED <<backlog, peer>>
        /\ got' = [got EXCEPT ![client] = response]
        /\ \/ response = NotFound /\ pc' = "accept" /\ client' = NoClient
           \/ response # NotFound /\ pc' = "destroy" /\ client' = client
    BY <1>3 DEF Write, Close, Return
  <2>2. /\ client \notin Queued /\ Queued' = Queued
        /\ client \in Clients => peer[client] # "new"
        /\ \A c \in Clients : got[c] \notin Functions
    BY <2>1 DEF IInv, Places, Queued, RoutedLast
  <2>3. \A c \in Clients : c # client => got'[c] = got[c]
    BY <2>1 DEF IInv, ServerTypes
  <2>4. NoClient \notin Queued
    BY HTTPServerAssumption DEF HTTPServerAssumption, IInv, ServerTypes, Queued
  <2>5. Places'
    BY <2>1, <2>2, <2>3, <2>4, HTTPServerAssumption DEF IInv, Places, HTTPServerAssumption
  <2>6. \A c \in Clients : got'[c] \in Functions => c = client /\ response # NotFound
    BY <2>1, <2>2, <2>3, HTTPServerAssumption DEF IInv, ServerTypes, HTTPServerAssumption
  <2>7. RoutedLast'
    BY <2>1, <2>6 DEF RoutedLast
  <2> QED BY <2>5, <2>7 DEF IInv
<1> QED BY <1>1, <1>2, <1>3

LEMMA ClientIInv ==
    ASSUME IInv, ServerTypes', NEW c \in Clients, Connect(c) \/ Send(c) \/ Receive(c) \/ Leave(c)
    PROVE  IInv'
<1> USE DEF locals
<1>1. CASE Connect(c) /\ backlog' # backlog
  <2>1. /\ peer[c] = "new" /\ peer' = [peer EXCEPT ![c] = "connected"]
        /\ backlog' = Append(backlog, c) /\ UNCHANGED <<pc, client, got>>
    BY <1>1 DEF Connect
  <2>2. backlog \in Seq(Clients) /\ c \notin Queued /\ c # client /\ got[c] = NoAnswer
    BY <2>1 DEF IInv, ServerTypes, Places
  <2>3. /\ DOMAIN backlog = 1..Len(backlog) /\ Len(backlog) \in Nat
        /\ DOMAIN backlog' = 1..(Len(backlog) + 1)
        /\ \A i \in DOMAIN backlog : backlog'[i] = backlog[i]
        /\ backlog'[Len(backlog) + 1] = c
    BY <2>1, <2>2
  <2>4. Queued' = Queued \cup {c}
    BY <2>3 DEF Queued
  <2>5. \A i, j \in DOMAIN backlog' : backlog'[i] = backlog'[j] => i = j
    <3> SUFFICES ASSUME NEW i \in DOMAIN backlog', NEW j \in DOMAIN backlog', backlog'[i] = backlog'[j]
                 PROVE  i = j
      OBVIOUS
    <3>1. CASE i \in DOMAIN backlog /\ j \in DOMAIN backlog
      BY <2>3, <3>1 DEF IInv, Places
    <3>2. CASE i \notin DOMAIN backlog /\ j \in DOMAIN backlog
      BY <2>2, <2>3, <3>2 DEF Queued
    <3>3. CASE i \in DOMAIN backlog /\ j \notin DOMAIN backlog
      BY <2>2, <2>3, <3>3 DEF Queued
    <3>4. CASE i \notin DOMAIN backlog /\ j \notin DOMAIN backlog
      BY <2>3, <3>4
    <3> QED BY <3>1, <3>2, <3>3, <3>4
  <2>6. peer \in [Clients -> Peers]
    BY DEF IInv, ServerTypes
  <2>7. Places'
    BY <2>1, <2>2, <2>4, <2>5, <2>6 DEF IInv, Places
  <2> QED BY <2>1, <2>7 DEF IInv, RoutedLast
<1>2. CASE ~(Connect(c) /\ backlog' # backlog)
  <2>1. /\ UNCHANGED <<pc, backlog, client, got>>
        /\ \A d \in Clients : peer'[d] = "new" => peer[d] = "new"
    BY <1>2 DEF Connect, Send, Receive, Leave, IInv, ServerTypes
  <2>2. Places'
    BY <2>1 DEF IInv, Places, Queued
  <2> QED BY <2>1, <2>2 DEF IInv, RoutedLast
<1> QED BY <1>1, <1>2

LEMMA Inductive == Spec => []IInv
<1>1. ASSUME IInv, [Next]_vars PROVE IInv'
  <2>1. CASE UNCHANGED vars
    BY <1>1, <2>1 DEF vars, locals, outside, request, IInv, ServerTypes, Places, RoutedLast, Queued
  <2>2. CASE Next
    <3>1. ServerTypes'
      BY <1>1, <2>2, SetUpTypes, ParseTypes, AnswerTypes, ClientTypes DEF Next, Handle, IInv
    <3> QED BY <1>1, <2>2, <3>1, SetUpIInv, ParsingIInv, AcceptIInv, WriteIInv, ClientIInv
            DEF Next, Handle, Parsing
  <2> QED BY <1>1, <2>1, <2>2
<1> QED BY <1>1, InitIInv, PTL DEF Spec

\* Whatever the clients send and however it arrives, an answer a client has been
\* given is the only one it gets.
THEOREM AnsweredOnce ==
    Spec => [][\A c \in Clients : got[c] # NoAnswer => got'[c] = got[c]]_vars
<1>1. ASSUME IInv, [Next]_vars
      PROVE  [\A c \in Clients : got[c] # NoAnswer => got'[c] = got[c]]_vars
  <2> SUFFICES ASSUME Next, NEW c \in Clients, got[c] # NoAnswer PROVE got'[c] = got[c]
    BY <1>1
  <2>1. CASE Write
    <3>1. client # c
      BY <1>1, <2>1, HTTPServerAssumption DEF Write, IInv, Places, HTTPServerAssumption
    <3> QED BY <1>1, <2>1, <3>1 DEF Write, Crash, outside, IInv, ServerTypes
  <2>2. CASE Parsing
    BY <2>2, ParsingSteps DEF outside
  <2>3. CASE \/ Bind \/ Listen \/ Register \/ Launch \/ Accept \/ Destroy
             \/ \E d \in Clients : Connect(d) \/ Send(d) \/ Receive(d) \/ Leave(d)
    BY <2>3 DEF Bind, Listen, Register, Launch, Accept, Destroy, Connect, Send, Receive, Leave,
                Crash, outside
  <2> QED BY <2>1, <2>2, <2>3 DEF Next, Handle, Parsing
<1> QED BY <1>1, Inductive, PTL DEF Spec

\* The process ends with the first answer of a route function: launch's endless
\* loop (HTTPServer.h promises one) serves one such request.
THEOREM OneRoutedAnswer ==
    Spec => [](\A c, d \in Clients : got[c] \in Functions /\ got[d] \in Functions => c = d)
<1>1. IInv => \A c, d \in Clients : got[c] \in Functions /\ got[d] \in Functions => c = d
  BY DEF IInv, RoutedLast
<1> QED BY <1>1, Inductive, PTL

\* Nobody is both in the kernel's queue and answered or being handled, and
\* nobody is in it twice.
THEOREM PlacesHold == Spec => []Places
<1>1. IInv => Places
  BY DEF IInv
<1> QED BY <1>1, Inductive, PTL

----------------------------------------------------------------------------
\* HTTPServer implements SequentialService

\* s is what one read got of the message of the client that is handled.
Cut(s) ==
    /\ client \in Clients /\ asked[client] \in Messages
    /\ \E n \in 1..Len(Text[asked[client]]) : s = SubSeq(Text[asked[client]], 1, n)

\* Nobody is answered before launch, or asked before it has sent; what is parsed
\* is a part of the client's message, its uri is the message's unless that is cut,
\* and the answer is one for it.
ServiceInv ==
    /\ pc \in {"bind", "listen", "exited", "register"} => \A c \in Clients : got[c] = NoAnswer
    /\ \A c \in Clients : peer[c] \in {"new", "connected", "refused"} => asked[c] = NoMessage
    /\ pc = "read" => client \in Clients
    /\ pc = "split" => received = NULL \/ Cut(received)
    /\ pc = "line" => Cut(received) /\ parts = Split(received)
    /\ pc \in {"fields", "header", "body", "push", "route", "write"} =>
          client \in Clients /\ asked[client] \in Messages
    /\ pc \in {"fields", "header", "body", "push", "route"} /\ Addressed(asked[client]) =>
          request_line.uri = asked[client].uri
    /\ pc = "write" => response \in Service!Answers(asked[client])

LEMMA InitServiceInv == Init => ServiceInv
BY DEF Init, ServiceInv

\* A part of a message is among the strings one read may get.
LEMMA CutReceived ==
    ASSUME NEW s, s = NULL \/ Cut(s)
    PROVE  /\ s \in Received /\ PartsOf[s] = Split(s)
           /\ RequestLineOf[Split(s).line] = RequestLine(Split(s).line)
<1>1. s \in Received
  BY DEF Cut, Received
<1>2. PartsOf[s] = Split(s)
  BY <1>1 DEF PartsOf
<1>3. Split(s).line \in {PartsOf[x].line : x \in Received}
  BY <1>1, <1>2
<1> QED BY <1>1, <1>2, <1>3 DEF RequestLineOf

\* NULL is too short to be split.
LEMMA NullTooShort == TooShort(NULL)
BY DEF TooShort, NULL

\* The steps of the server that neither read, parse nor answer.
LEMMA OutsideServiceInv ==
    ASSUME IInv, ServiceInv, Bind \/ Listen \/ Register \/ Launch \/ Accept \/ AcceptFails \/ Destroy
    PROVE  ServiceInv'
<1> USE DEF locals, outside, request, Crash
<1>1. CASE Bind
  BY <1>1 DEF Bind, ServiceInv
<1>2. CASE Listen
  BY <1>2 DEF Listen, ServiceInv
<1>3. CASE Register
  BY <1>3 DEF Register, ServiceInv
<1>4. CASE Launch
  BY <1>4 DEF Launch, ServiceInv
<1>5. CASE Accept
  <2>1. client' \in Clients /\ pc' = "read" /\ UNCHANGED <<peer, asked>>
    BY <1>5 DEF Accept, IInv, ServerTypes
  <2> QED BY <2>1 DEF ServiceInv
<1>6. CASE AcceptFails
  BY <1>6 DEF AcceptFails, ServiceInv
<1>7. CASE Destroy
  BY <1>7 DEF Destroy, ServiceInv
<1> QED BY <1>1, <1>2, <1>3, <1>4, <1>5, <1>6, <1>7

\* Reading and splitting: what is taken apart is a part of the message.
LEMMA ReadServiceInv ==
    ASSUME IInv, ServiceInv, Read \/ SplitRequest
    PROVE  ServiceInv'
<1> USE DEF locals, outside, request, Crash
<1>1. CASE Read
  <2>1. client \in Clients /\ client' = client /\ asked' = asked /\ peer' = peer /\ pc' = "split"
    BY <1>1 DEF Read, ServiceInv
  <2>2. received' = NULL \/ Cut(received)'
    <3>1. CASE received' = NULL
      BY <3>1
    <3>2. CASE received' # NULL
      <4>1. /\ asked[client] # NoMessage
            /\ \E n \in 1..Len(Text[asked[client]]) : received' = SubSeq(Text[asked[client]], 1, n)
        BY <1>1, <3>2 DEF Read
      <4>2. asked[client] \in Messages
        BY <2>1, <4>1 DEF IInv, ServerTypes
      <4> QED BY <2>1, <4>1, <4>2 DEF Cut
    <3> QED BY <3>1, <3>2
  <2> QED BY <2>1, <2>2 DEF ServiceInv
<1>2. CASE SplitRequest
  <2>1. CASE pc' = "crashed"
    BY <1>2, <2>1 DEF SplitRequest, ServiceInv
  <2>2. CASE pc' # "crashed"
    <3>1. /\ pc = "split" /\ pc' = "line" /\ ~TooShort(received) /\ parts' = PartsOf[received]
          /\ UNCHANGED <<client, peer, asked, got, received>>
      BY <1>2, <2>2 DEF SplitRequest
    <3>2. Cut(received)
      BY <3>1, NullTooShort DEF ServiceInv
    <3>3. parts' = Split(received) /\ Cut(received)'
      BY <3>1, <3>2, CutReceived DEF Cut
    <3> QED BY <3>1, <3>3 DEF ServiceInv
  <2> QED BY <2>1, <2>2
<1> QED BY <1>1, <1>2

\* Every request line that is taken apart has the uri of its message, if that is
\* not cut.
UrisFound ==
    \A m \in Messages : Addressed(m) => \A n \in 1..Len(Text[m]) :
        LET fs == RequestLine(Split(SubSeq(Text[m], 1, n)).line)
        IN  NULL \notin {fs.method, fs.uri, fs.http_version} => fs.uri = m.uri

\* Parsing: the uri that is found is the one that was sent.
LEMMA ParseServiceInv ==
    ASSUME UrisFound, IInv, ServiceInv,
           \/ ExtractRequestLine \/ PushHeaders \/ ExtractHeader \/ ExtractBody \/ PushField
    PROVE  ServiceInv'
<1> USE DEF locals, outside, request, Crash
<1>1. CASE pc' = "crashed"
  <2>1. UNCHANGED <<peer, asked>>
    BY ParsingSteps DEF Parsing
  <2> QED BY <1>1, <2>1 DEF ServiceInv
<1>2. CASE ExtractRequestLine /\ pc' # "crashed"
  <2> PICK fs : fs = RequestLineOf[parts.line]
    OBVIOUS
  <2>1. /\ NULL \notin {fs.method, fs.uri, fs.http_version} /\ request_line' = fs
        /\ pc = "line" /\ pc' = "fields" /\ UNCHANGED <<client, peer, asked>>
    BY <1>2 DEF ExtractRequestLine
  <2>2. Cut(received) /\ parts = Split(received)
    BY <2>1 DEF ServiceInv
  <2>3. fs = RequestLine(Split(received).line)
    BY <2>2, CutReceived
  <2>4. Addressed(asked[client]) => fs.uri = asked[client].uri
    BY <2>1, <2>2, <2>3 DEF UrisFound, Cut
  <2> QED BY <2>1, <2>2, <2>4 DEF ServiceInv, Cut
<1>3. CASE PushHeaders /\ pc' # "crashed"
  BY <1>3 DEF PushHeaders, ServiceInv
<1>4. CASE ExtractHeader
  <2>1. /\ pc = "header" /\ pc' \in {"header", "body"}
        /\ UNCHANGED <<client, peer, asked, request_line>>
    BY <1>4 DEF ExtractHeader
  <2> QED BY <2>1 DEF ServiceInv
<1>5. CASE ExtractBody /\ pc' # "crashed"
  <2>1. /\ pc = "body" /\ pc' \in {"push", "route"}
        /\ UNCHANGED <<client, peer, asked, request_line>>
    BY <1>5 DEF ExtractBody, ExtractForm, ExtractData, Parsed, StartPushing
  <2> QED BY <2>1 DEF ServiceInv
<1>6. CASE PushField /\ pc' # "crashed"
  BY <1>6 DEF PushField, ServiceInv
<1> QED BY <1>1, <1>2, <1>3, <1>4, <1>5, <1>6

\* The search of the route: the answer is one the message asks for.
LEMMA RouteServiceInv ==
    ASSUME IInv, ServiceInv, Route
    PROVE  ServiceInv'
<1> USE DEF locals, outside, request, Crash
<1>1. CASE pc' = "crashed"
  BY <1>1 DEF Route, ServiceInv
<1>2. CASE pc' # "crashed"
  <2>1. /\ pc = "route" /\ pc' = "write" /\ UNCHANGED <<routes, client, peer, asked>>
        /\ \E r \in Residue : response' = FindRoute(request_line.uri \o r)
    BY <1>2 DEF Route
  <2> PICK m : m = asked[client]
    OBVIOUS
  <2>2. client \in Clients /\ m \in Messages /\ (Addressed(m) => request_line.uri = m.uri)
    BY <2>1 DEF ServiceInv
  <2>3. PICK uri : /\ response' = FindRoute(uri)
                   /\ \E r \in Residue : uri = request_line.uri \o r
    BY <2>1
  <2>4. response' = Service!Found(uri)
    BY <2>3 DEF FindRoute, Service!Found
  <2>5. response' \in Service!Answers(m)
    <3>1. CASE Addressed(m)
      <4>1. uri \in Readings(m.uri)
        BY <2>2, <2>3, <3>1 DEF Readings
      <4>2. uri \in [x \in Messages |-> Readings(x.uri)][m]
        BY <2>2, <4>1
      <4> QED BY <2>4, <4>2 DEF Service!Answers
    <3>2. CASE ~Addressed(m)
      <4>1. m \in {x \in Messages : ~Addressed(x)}
        BY <2>2, <3>2
      <4>2. response' \in {NotFound} \cup {routes[u] : u \in DOMAIN routes}
        BY <2>3 DEF FindRoute
      <4> QED BY <4>1, <4>2 DEF Service!Answers
    <3> QED BY <3>1, <3>2
  <2>6. (response \in Service!Answers(asked[client]))'
    BY <2>1, <2>5 DEF Service!Answers, Service!Found
  <2> QED BY <2>1, <2>2, <2>6 DEF ServiceInv
<1> QED BY <1>1, <1>2

LEMMA WriteServiceInv ==
    ASSUME IInv, ServiceInv, Write
    PROVE  ServiceInv'
<1>1. UNCHANGED <<peer, asked>> /\ pc' \in {"crashed", "accept", "destroy"}
  BY DEF Write, Close, Return, Crash, outside
<1> QED BY <1>1 DEF ServiceInv

\* A client that has sent its message does not send another one.
LEMMA ClientServiceInv ==
    ASSUME IInv, ServiceInv, NEW c \in Clients, Connect(c) \/ Send(c) \/ Receive(c) \/ Leave(c)
    PROVE  ServiceInv'
<1> USE DEF locals
<1>1. UNCHANGED <<pc, routes, client, received, parts, request_line, response, got>>
  BY DEF Connect, Send, Receive, Leave, request
<1>2. \A d \in Clients : asked[d] # NoMessage => asked'[d] = asked[d]
  <2>1. CASE asked' = asked
    BY <2>1
  <2>2. CASE asked' # asked
    <3>1. peer[c] = "connected" /\ \E m \in Asks[c] : asked' = [asked EXCEPT ![c] = m]
      BY <2>2 DEF Connect, Send, Receive, Leave
    <3>2. asked[c] = NoMessage
      BY <3>1 DEF ServiceInv
    <3> QED BY <3>1, <3>2 DEF IInv, ServerTypes
  <2> QED BY <2>1, <2>2
<1>3. \A d \in Clients : peer'[d] \in {"new", "connected", "refused"} => asked'[d] = NoMessage
  <2>1. CASE Send(c)
    <3>1. peer'[c] \in {"waiting", "killed"} /\ \A d \in Clients : d # c => peer'[d] = peer[d] /\ asked'[d] = asked[d]
      BY <2>1 DEF Send, IInv, ServerTypes
    <3> QED BY <3>1 DEF ServiceInv
  <2>2. CASE Connect(c)
    BY <2>2 DEF Connect, ServiceInv, IInv, ServerTypes
  <2>3. CASE Receive(c) \/ Leave(c)
    BY <2>3 DEF Receive, Leave, ServiceInv, IInv, ServerTypes
  <2> QED BY <2>1, <2>2, <2>3
<1>4. client \in Clients /\ asked[client] \in Messages => asked'[client] = asked[client]
  BY <1>2, HTTPServerAssumption DEF HTTPServerAssumption, Messages
<1>5. Cut(received) => Cut(received)'
  BY <1>1, <1>4 DEF Cut
<1>6. client \in Clients /\ asked[client] \in Messages /\ response \in Service!Answers(asked[client])
        => (response \in Service!Answers(asked[client]))'
  BY <1>1, <1>4 DEF Service!Answers, Service!Found
<1> QED BY <1>1, <1>3, <1>4, <1>5, <1>6 DEF ServiceInv

LEMMA StepServiceInv ==
    ASSUME UrisFound, IInv, ServiceInv, [Next]_vars
    PROVE  ServiceInv'
<1>1. CASE UNCHANGED vars
  <2>1. Cut(received) => Cut(received)'
    BY <1>1 DEF vars, locals, outside, Cut
  <2>2. (response \in Service!Answers(asked[client])) => (response \in Service!Answers(asked[client]))'
    BY <1>1 DEF vars, locals, outside, Service!Answers, Service!Found
  <2> QED BY <1>1, <2>1, <2>2 DEF vars, locals, outside, request, ServiceInv
<1>2. CASE Next
  BY <1>2, OutsideServiceInv, ReadServiceInv, ParseServiceInv, RouteServiceInv, WriteServiceInv,
     ClientServiceInv DEF Next, Handle
<1> QED BY <1>1, <1>2

LEMMA InitService == Init => Service!Init
BY DEF Init, Service!Init, Ended

\* A step that ends the process is the service's End.
LEMMA EndService ==
    ASSUME pc \notin {"crashed", "exited", "destroy"}, pc' \in {"crashed", "exited"},
           pc' = "exited" => client' = NoClient,
           UNCHANGED <<routes, backlog, asked, got>>
    PROVE  Service!End
BY DEF Service!End, Ended

\* A step that changes nothing the service knows of.
LEMMA StutterService ==
    ASSUME UNCHANGED <<routes, backlog, client, asked, got>>,
           pc \notin {"crashed", "exited", "destroy"}, pc' \notin {"crashed", "exited", "destroy"}
    PROVE  UNCHANGED Service!svars
BY DEF Service!svars, Ended

\* The set-up ends the process, registers a route or is not seen.
LEMMA SetUpService ==
    ASSUME IInv, ServiceInv, Bind \/ Listen \/ Register \/ Launch
    PROVE  [Service!Next]_Service!svars
<1> USE DEF locals, outside
<1>1. client = NoClient /\ client' = NoClient /\ UNCHANGED <<backlog, asked, got>>
  BY DEF IInv, Places, Idle, Bind, Listen, Register, Launch
<1>2. CASE Bind \/ Listen
  <2>1. /\ pc \in {"bind", "listen"} /\ pc' \in {"listen", "register", "exited"}
        /\ UNCHANGED <<routes, client, backlog, asked, got>>
    BY <1>2 DEF Bind, Listen
  <2>2. CASE pc' = "exited"
    BY <1>1, <2>1, <2>2, EndService DEF Service!Next
  <2>3. CASE pc' # "exited"
    BY <2>1, <2>3, StutterService
  <2> QED BY <2>2, <2>3
<1>3. CASE Register
  <2>1. pc = "register" /\ pc' = "register" /\ \E uri \in Uris, f \in Functions : routes' = Inserted(routes, uri, f)
    BY <1>3 DEF Register
  <2>2. got \in [Clients -> {NoAnswer}]
    BY <2>1 DEF IInv, ServerTypes, ServiceInv
  <2>3. /\ DOMAIN routes \subseteq DOMAIN routes'
        /\ \A uri \in DOMAIN routes : routes'[uri] = routes[uri]
    BY <2>1 DEF Inserted
  <2>4. Service!Register
    BY <1>1, <2>1, <2>2, <2>3 DEF Service!Register, Ended
  <2> QED BY <2>4 DEF Service!Next
<1>4. CASE Launch
  <2>1. pc = "register" /\ pc' = "accept" /\ UNCHANGED <<routes, client, backlog, asked, got>>
    BY <1>4 DEF Launch
  <2> QED BY <2>1, StutterService
<1> QED BY <1>2, <1>3, <1>4

\* The server takes the next client.
LEMMA AcceptService ==
    ASSUME IInv, Accept
    PROVE  Service!Take
BY DEF IInv, Places, Idle, Accept, outside, Service!Take, Ended

\* Parsing ends the process or is not seen.
LEMMA ParsingService ==
    ASSUME IInv, ServiceInv, Parsing
    PROVE  [Service!Next]_Service!svars
<1>1. UNCHANGED <<backlog, client, asked, got>> /\ pc \notin {"destroy", "crashed"} /\ pc' \notin Idle
  BY ParsingSteps DEF outside
<1>2. UNCHANGED routes /\ pc # "exited" /\ pc' # "destroy"
  <2> USE DEF Crash, outside, locals, request
  <2>1. CASE Read \/ AcceptFails \/ SplitRequest \/ ExtractRequestLine
    BY <2>1 DEF Read, AcceptFails, SplitRequest, ExtractRequestLine
  <2>2. CASE PushHeaders \/ ExtractHeader \/ PushField \/ Route
    BY <2>2 DEF PushHeaders, ExtractHeader, PushField, Route
  <2>3. CASE ExtractBody
    BY <2>3 DEF ExtractBody, ExtractForm, ExtractData, Parsed, StartPushing
  <2> QED BY <2>1, <2>2, <2>3 DEF Parsing
<1>3. CASE pc' = "crashed"
  BY <1>1, <1>2, <1>3, EndService DEF Service!Next
<1>4. CASE pc' # "crashed"
  BY <1>1, <1>2, <1>4, StutterService DEF Idle
<1> QED BY <1>3, <1>4

\* What is written is the service's answer, unless the client has left.
LEMMA WriteService ==
    ASSUME IInv, ServiceInv, Write \/ Destroy
    PROVE  [Service!Next]_Service!svars
<1> USE DEF locals, outside, request
<1>1. CASE Destroy
  BY <1>1 DEF Destroy, Crash, Service!svars, Ended
<1>2. CASE Write /\ pc' = "crashed"
  <2>1. pc = "write" /\ UNCHANGED <<routes, backlog, client, asked, got>>
    BY <1>2 DEF Write, Close, Return, Crash
  <2> QED BY <1>2, <2>1, EndService DEF Service!Next
<1>3. CASE Write /\ pc' # "crashed"
  <2>1. /\ pc = "write" /\ UNCHANGED <<routes, backlog, asked>>
        /\ got' = [got EXCEPT ![client] = response]
        /\ \/ pc' = "accept" /\ client' = NoClient
           \/ pc' = "destroy" /\ client' = client
    BY <1>3 DEF Write, Close, Return, Crash
  <2>2. /\ client \in Clients /\ asked[client] \in Messages /\ got[client] = NoAnswer
        /\ response \in Service!Answers(asked[client])
    BY <2>1, HTTPServerAssumption DEF ServiceInv, IInv, Places, HTTPServerAssumption
  <2>3. client # NoClient /\ asked[client] # NoMessage
    BY <2>2, HTTPServerAssumption DEF HTTPServerAssumption, Messages
  <2>4. Service!Answer
    BY <2>1, <2>2, <2>3 DEF Service!Answer, Ended
  <2> QED BY <2>4 DEF Service!Next
<1> QED BY <1>1, <1>2, <1>3

\* A client comes, asks or is not seen.
LEMMA ClientService ==
    ASSUME IInv, ServiceInv, NEW c \in Clients, Connect(c) \/ Send(c) \/ Receive(c) \/ Leave(c)
    PROVE  [Service!Next]_Service!svars
<1>1. UNCHANGED <<pc, routes, client, got>>
  BY DEF Connect, Send, Receive, Leave, locals
<1>2. CASE backlog' # backlog
  <2>1. peer[c] = "new" /\ backlog' = Append(backlog, c) /\ asked' = asked
    BY <1>2 DEF Connect, Send, Receive, Leave
  <2>2. asked[c] = NoMessage /\ got[c] = NoAnswer /\ c \notin Queued \cup {client, NoClient}
    BY <2>1, HTTPServerAssumption DEF ServiceInv, IInv, Places, HTTPServerAssumption
  <2>3. Service!Come(c)
    BY <1>1, <2>1, <2>2 DEF Service!Come, Queued, Ended
  <2> QED BY <2>3 DEF Service!Next
<1>3. CASE asked' # asked
  <2>1. peer[c] = "connected" /\ backlog' = backlog /\ \E m \in Asks[c] : asked' = [asked EXCEPT ![c] = m]
    BY <1>3 DEF Connect, Send, Receive, Leave
  <2>2. PICK m \in Messages : asked' = [asked EXCEPT ![c] = m]
    BY <2>1 DEF Messages
  <2>3. Service!Ask(c, m)
    BY <1>1, <2>1, <2>2 DEF Service!Ask, ServiceInv, Ended
  <2> QED BY <2>3 DEF Service!Next
<1>4. CASE backlog' = backlog /\ asked' = asked
  BY <1>1, <1>4 DEF Service!svars, Ended
<1> QED BY <1>2, <1>3, <1>4

LEMMA StepService ==
    ASSUME IInv, ServiceInv, [Next]_vars
    PROVE  [Service!Next]_Service!svars
<1>1. CASE UNCHANGED vars
  BY <1>1 DEF vars, outside, Service!svars, Ended
<1>2. CASE Next
  BY <1>2, SetUpService, AcceptService, ParsingService, WriteService, ClientService
     DEF Next, Handle, Parsing, Service!Next
<1> QED BY <1>1, <1>2

----------------------------------------------------------------------------
\* How a request line is cut

\* The least element of a set of naturals.
LEMMA LeastOf ==
    ASSUME NEW I, I \subseteq Nat, I # {}
    PROVE  Min(I) \in I /\ \A i \in I : Min(I) <= i
<1>1. \E x \in I : \A y \in I : x <= y
  BY LeastNatural
<1> QED BY <1>1 DEF Min

\* Strtok without operators that take operators.
FirstInside(s, D) ==
    IF {i \in 1..Len(s) : s[i] \notin D} # {} THEN Min({i \in 1..Len(s) : s[i] \notin D}) ELSE 0
FirstOutside(s, D, first) ==
    IF {i \in first..Len(s) : s[i] \in D} # {} THEN Min({i \in first..Len(s) : s[i] \in D}) ELSE 0
Token(s, first, past) ==
    LET last == IF past = 0 THEN Len(s) ELSE past - 1
    IN  IF first = 0 THEN [token |-> NULL, rest |-> NULL]
        ELSE [token |-> SubSeq(s, first, last), rest |-> SubSeq(s, last + 2, Len(s))]

LEMMA StrtokIs ==
    ASSUME NEW s, NEW D
    PROVE  Strtok(s, D) = Token(s, FirstInside(s, D), FirstOutside(s, D, FirstInside(s, D)))
<1>1. TokenStart(s, D) = FirstInside(s, D)
  BY Zenon DEF TokenStart, SelectInSeq, FirstInside
<1>2. TokenEnd(s, D, FirstInside(s, D)) = FirstOutside(s, D, FirstInside(s, D))
  BY Zenon DEF TokenEnd, SelectInSubSeq, FirstOutside
<1> QED BY <1>1, <1>2, Zenon DEF Strtok, Token

\* strtok on a string that does not begin with a separator: the token reaches to
\* the first one, or to the end, and what is left begins behind it.
LEMMA StrtokCuts ==
    ASSUME NEW C, NEW s \in Seq(C), NEW D, Len(s) > 0, s[1] \notin D
    PROVE  \E last \in 1..Len(s) :
              /\ Strtok(s, D).token = SubSeq(s, 1, last)
              /\ Strtok(s, D).rest = SubSeq(s, last + 2, Len(s))
              /\ \A i \in 1..last : s[i] \notin D
              /\ last < Len(s) => s[last + 1] \in D
<1> DEFINE Ins == {i \in 1..Len(s) : s[i] \notin D}
           Outs == {i \in 1..Len(s) : s[i] \in D}
           past == IF Outs # {} THEN Min(Outs) ELSE 0
           last == IF past = 0 THEN Len(s) ELSE past - 1
<1>1. Len(s) \in Nat /\ 1 \in Ins /\ Ins \subseteq Nat /\ Outs \subseteq Nat
  OBVIOUS
<1>2. Min(Ins) = 1
  <2>1. Min(Ins) \in Ins /\ \A i \in Ins : Min(Ins) <= i
    BY <1>1, LeastOf
  <2> HIDE DEF Ins
  <2>2. Min(Ins) <= 1 /\ Min(Ins) \in Nat
    BY <1>1, <2>1
  <2>3. Min(Ins) # 0
    BY <2>1 DEF Ins
  <2> QED BY <2>2, <2>3
<1>3. Strtok(s, D) = [token |-> SubSeq(s, 1, last), rest |-> SubSeq(s, last + 2, Len(s))]
  <2>1. FirstInside(s, D) = 1
    <3>1. Ins # {}
      BY <1>1
    <3> QED BY <1>2, <3>1 DEF FirstInside
  <2>2. FirstOutside(s, D, 1) = past
    BY DEF FirstOutside
  <2> HIDE DEF past
  <2> QED BY <2>1, <2>2, StrtokIs DEF Token
<1>4. /\ last \in 1..Len(s)
      /\ \A i \in 1..last : s[i] \notin D
      /\ last < Len(s) => s[last + 1] \in D
  <2>1. CASE Outs = {}
    BY <1>1, <2>1
  <2>2. CASE Outs # {}
    <3>1. Min(Outs) \in Outs /\ \A i \in Outs : Min(Outs) <= i
      BY <1>1, <2>2, LeastOf
    <3> PICK o : o = Min(Outs)
      OBVIOUS
    <3>2. o \in 2..Len(s) /\ s[o] \in D /\ last = o - 1
      BY <1>1, <2>2, <3>1
    <3>3. \A i \in 1..Len(s) : i < o => s[i] \notin D
      BY <1>1, <3>1, <3>2
    <3> HIDE DEF last, past, Outs
    <3>4. (o - 1) + 1 = o /\ last \in 1..Len(s) /\ \A i \in 1..last : i \in 1..Len(s) /\ i < o
      BY <1>1, <3>2
    <3> QED BY <3>2, <3>3, <3>4
  <2> QED BY <2>1, <2>2
<1> HIDE DEF last
<1> QED BY <1>3, <1>4

\* There is no token in an empty string.
LEMMA StrtokEmpty == ASSUME NEW D PROVE Strtok(NULL, D).token = NULL
<1>1. Len(NULL) = 0 /\ \A i \in 1..Len(NULL) : FALSE
  BY DEF NULL
<1>2. FirstInside(NULL, D) = 0
  BY <1>1 DEF FirstInside
<1> QED BY <1>2, StrtokIs DEF Token

\* The recursion that marks the line ends of blank lines.
Marking(s, marked) ==
    marked = [i \in 0..Len(s) |-> /\ i > 1 /\ i < Len(s)
                                  /\ s[i] = LF /\ s[i - 1] = LF /\ ~marked[i - 1]]

\* Marking blank lines is that recursion: a bar where it says so.
LEMMA MarkedBy ==
    ASSUME NEW B, NEW s \in Seq(B)
    PROVE  \E marked : /\ Marking(s, marked)
                       /\ MarkBlankLines(s) = [i \in 1..Len(s) |-> IF marked[i] THEN "|" ELSE s[i]]
<1> DEFINE At(i) == i > 1 /\ i < Len(s) /\ s[i] = LF /\ s[i - 1] = LF
           Rec(f) == f = [i \in 0..Len(s) |-> /\ i > 1 /\ i < Len(s)
                                              /\ s[i] = LF /\ s[i - 1] = LF /\ ~f[i - 1]]
           marked == CHOOSE f : Rec(f)
<1>1. Len(s) \in Nat /\ DOMAIN s = 1..Len(s)
  OBVIOUS
<1>2. MarkBlankLines(s) = [i \in DOMAIN s |-> IF marked[i] THEN "|" ELSE s[i]]
  BY DEF MarkBlankLines
<1>3. \E f : Rec(f)
  <2> PICK N : N = Len(s)
    OBVIOUS
  <2> PICK step : step = [p \in (1..N) \X BOOLEAN |-> At(p[1]) /\ ~p[2]]
    OBVIOUS
  <2>1. step \in [(1..N) \X BOOLEAN -> BOOLEAN]
    OBVIOUS
  <2>2. \A n \in 1..N, b \in BOOLEAN : step[<<n, b>>] = (At(n) /\ ~b)
    OBVIOUS
  <2>3. PICK f : Recurrence(f, BOOLEAN, FALSE, step, N)
    <3>1. N \in Nat /\ FALSE \in BOOLEAN
      BY <1>1
    <3> QED BY <2>1, <3>1, Recursion, Zenon
  <2>4. f \in [0..N -> BOOLEAN] /\ f[0] = FALSE /\ \A n \in 1..N : f[n] = step[<<n, f[n - 1]>>]
    BY <2>3 DEF Recurrence
  <2>5. \A n \in 1..N : f[n] = (At(n) /\ ~f[n - 1])
    <3> SUFFICES ASSUME NEW n \in 1..N PROVE f[n] = (At(n) /\ ~f[n - 1])
      OBVIOUS
    <3>1. n - 1 \in 0..N
      BY <1>1
    <3>2. f[n - 1] \in BOOLEAN
      BY <2>4, <3>1
    <3> HIDE DEF At
    <3> QED BY <2>2, <2>4, <3>2, Zenon
  <2>6. \A n \in 0..N : f[n] = (At(n) /\ ~f[n - 1])
    <3>1. ~At(0)
      BY <1>1
    <3>2. \A n \in 0..N : n = 0 \/ n \in 1..N
      BY <1>1
    <3> HIDE DEF At
    <3> QED BY <2>4, <2>5, <3>1, <3>2, Zenon
  <2>7. f = [n \in 0..N |-> At(n) /\ ~f[n - 1]]
    <3> HIDE DEF At
    <3> QED BY <2>4, <2>6, ZenonT(60)
  <2> QED BY <2>7, ZenonT(60)
<1>4. Marking(s, marked)
  <2>1. Rec(marked)
    <3> HIDE DEF Rec
    <3> QED BY <1>3
  <2> HIDE DEF marked
  <2> QED BY <2>1 DEF Marking
<1> HIDE DEF marked
<1> QED BY <1>1, <1>2, <1>4

\* What marks the blank lines changes line ends only.
LEMMA MarkedLines ==
    ASSUME NEW B, NEW s \in Seq(B)
    PROVE  /\ \E C : MarkBlankLines(s) \in Seq(C)
           /\ Len(MarkBlankLines(s)) = Len(s)
           /\ \A i \in 1..Len(s) : s[i] # LF => MarkBlankLines(s)[i] = s[i]
<1>1. PICK marked : /\ Marking(s, marked)
                    /\ MarkBlankLines(s) = [i \in 1..Len(s) |-> IF marked[i] THEN "|" ELSE s[i]]
  BY MarkedBy
<1>2. Len(s) \in Nat
  OBVIOUS
<1>3. \A i \in 1..Len(s) : s[i] # LF => ~marked[i]
  <2>1. \A i \in 0..Len(s) : marked[i] => s[i] = LF
    BY <1>1, Zenon DEF Marking
  <2> QED BY <1>2, <2>1
<1> PICK t : t = MarkBlankLines(s)
  OBVIOUS
<1>4. t = [i \in 1..Len(s) |-> IF marked[i] THEN "|" ELSE s[i]]
  BY <1>1
<1> PICK C : C = {t[i] : i \in 1..Len(s)}
  OBVIOUS
<1>5. t \in [1..Len(s) -> C]
  BY <1>4
<1>6. t \in Seq(C) /\ Len(t) = Len(s)
  BY <1>2, <1>5
<1>7. \A i \in 1..Len(s) : s[i] # LF => t[i] = s[i]
  BY <1>3, <1>4
<1> QED BY <1>6, <1>7

\* Strings and spaces.
Space == " "
Texts == Seq(Characters \cup {Space})

LEMMA SequencesGrow ==
    ASSUME NEW C, NEW D, C \subseteq D
    PROVE  Seq(C) \subseteq Seq(D)
OBVIOUS

LEMMA StringsAreTexts == Strings \subseteq Texts
BY SequencesGrow DEF Strings, Texts

\* Texts put together are a string, of which the first is the beginning.
LEMMA Joined ==
    ASSUME NEW s \in Texts, NEW t \in Texts
    PROVE  /\ s \o t \in Texts
           /\ Len(s) \in Nat /\ Len(t) \in Nat /\ Len(s \o t) = Len(s) + Len(t)
           /\ \A i \in 1..Len(s) : (s \o t)[i] = s[i]
           /\ \A i \in 1..Len(t) : (s \o t)[Len(s) + i] = t[i]
BY DEF Texts

\* Sequences are flattened one after the other, in any set that is closed under
\* concatenation.
LEMMA FlattenSteps ==
    ASSUME NEW T, NEW seqs \in Seq(T), Len(seqs) # 0, \A u, v \in T : u \o v \in T
    PROVE  \E f \in [1..Len(seqs) -> T] :
              /\ FlattenSeq(seqs) = f[Len(seqs)]
              /\ f[1] = seqs[1]
              /\ \A n \in 2..Len(seqs) : f[n] = f[n - 1] \o seqs[n]
<1> PICK N : N = Len(seqs)
  OBVIOUS
<1>1. N \in Nat /\ N > 0 /\ 1 \in 1..N /\ \A i \in 1..N : seqs[i] \in T
  BY LenProperties, ElementOfSeq
<1> DEFINE Rec(f) == f = [i \in 1..N |-> IF i = 1 THEN seqs[i] ELSE f[i - 1] \o seqs[i]]
<1>2. FlattenSeq(seqs) = (CHOOSE f : Rec(f))[N]
  BY DEF FlattenSeq
<1>3. \E f : Rec(f)
  <2> PICK step : step = [p \in (1..N) \X T |-> IF p[1] = 1 THEN seqs[p[1]] ELSE p[2] \o seqs[p[1]]]
    OBVIOUS
  <2>1. \A n \in 1..N, x \in T :
          /\ step[<<n, x>>] = IF n = 1 THEN seqs[n] ELSE x \o seqs[n]
          /\ step[<<n, x>>] \in T
    BY <1>1
  <2>2. step \in [(1..N) \X T -> T]
    BY <1>1
  <2>3. PICK f : Recurrence(f, T, seqs[1], step, N)
    BY <1>1, <2>2, Recursion, Zenon
  <2>4. f \in [0..N -> T] /\ \A n \in 1..N : f[n] = step[<<n, f[n - 1]>>]
    BY <2>3 DEF Recurrence
  <2>5. \A n \in 1..N : n - 1 \in 0..N /\ f[n - 1] \in T
    BY <1>1, <2>4
  <2>6. \A n \in 1..N : f[n] = IF n = 1 THEN seqs[n] ELSE f[n - 1] \o seqs[n]
    BY <2>1, <2>4, <2>5
  <2> PICK g : g = [n \in 1..N |-> f[n]]
    OBVIOUS
  <2>7. \A n \in 1..N : g[n] = IF n = 1 THEN seqs[n] ELSE g[n - 1] \o seqs[n]
    <3>1. \A n \in 1..N : n = 1 \/ n - 1 \in 1..N
      BY <1>1
    <3> QED BY <2>6, <3>1
  <2>8. Rec(g)
    BY <2>7
  <2> HIDE DEF Rec
  <2> QED BY <2>8
<1>4. PICK f : f = (CHOOSE g : Rec(g)) /\ Rec(f)
  <2> HIDE DEF Rec
  <2> QED BY <1>3
<1>5. \A n \in 1..N : f[n] = IF n = 1 THEN seqs[n] ELSE f[n - 1] \o seqs[n]
  <2>1. f = [n \in 1..N |-> IF n = 1 THEN seqs[n] ELSE f[n - 1] \o seqs[n]]
    BY <1>4
  <2> PICK g : g = [n \in 1..N |-> IF n = 1 THEN seqs[n] ELSE f[n - 1] \o seqs[n]]
    OBVIOUS
  <2>2. \A n \in 1..N : g[n] = IF n = 1 THEN seqs[n] ELSE f[n - 1] \o seqs[n]
    OBVIOUS
  <2> QED BY <2>1, <2>2
<1>6. f = [n \in 1..N |-> f[n]]
  BY <1>4
<1> HIDE DEF Rec
<1>7. f[1] = seqs[1] /\ \A n \in 2..N : f[n] = f[n - 1] \o seqs[n]
  <2>1. \A n \in 2..N : n \in 1..N /\ n # 1
    BY <1>1
  <2> QED BY <1>1, <1>5, <2>1
<1>8. \A n \in 1..N : f[n] \in T
  <2> PICK S : S = {n \in Nat : n + 1 \in 1..N => f[n + 1] \in T}
    OBVIOUS
  <2>1. 0 \in S
    BY <1>1, <1>7
  <2>2. ASSUME NEW n \in 0..N - 1, n \in S PROVE n + 1 \in S
    <3>1. n + 1 \in Nat /\ n + 1 \in 1..N /\ f[n + 1] \in T
      BY <1>1, <2>2
    <3>2. ASSUME (n + 1) + 1 \in 1..N PROVE f[(n + 1) + 1] \in T
      <4>1. (n + 1) + 1 \in 2..N /\ ((n + 1) + 1) - 1 = n + 1
        BY <3>1, <3>2
      <4>2. f[(n + 1) + 1] = f[n + 1] \o seqs[(n + 1) + 1]
        BY <1>7, <4>1
      <4> QED BY <1>1, <3>1, <3>2, <4>2
    <3> QED BY <3>1, <3>2
  <2>3. 0..N \subseteq S
    BY <1>1, <2>1, <2>2, Induction
  <2>4. ASSUME NEW n \in 1..N PROVE f[n] \in T
    <3>1. n - 1 \in 0..N /\ (n - 1) + 1 = n
      BY <1>1
    <3> QED BY <2>3, <3>1
  <2> QED BY <2>4
<1>9. f \in [1..N -> T]
  BY <1>6, <1>8
<1> QED BY <1>2, <1>4, <1>7, <1>9

\* Texts that are flattened are a string.
LEMMA Flattened ==
    ASSUME NEW seqs \in Seq(Texts)
    PROVE  FlattenSeq(seqs) \in Texts
<1> PICK N : N = Len(seqs)
  OBVIOUS
<1>1. N \in Nat
  OBVIOUS
<1>2. CASE N = 0
  <2>1. FlattenSeq(seqs) = seqs
    BY <1>2 DEF FlattenSeq
  <2>2. seqs \in Texts
    <3> PICK C, D : C = Texts /\ D = Characters \cup {Space}
      OBVIOUS
    <3>1. seqs \in Seq(C) /\ Len(seqs) = 0
      BY <1>2
    <3>2. seqs = <<>>
      BY <3>1
    <3>3. <<>> \in Seq(D)
      OBVIOUS
    <3> QED BY <3>2, <3>3 DEF Texts
  <2> QED BY <2>1, <2>2
<1>3. CASE N # 0
  <2>1. \A u, v \in Texts : u \o v \in Texts
    BY Joined
  <2> PICK T : T = Texts
    OBVIOUS
  <2>2. PICK f \in [1..N -> T] : FlattenSeq(seqs) = f[N]
    BY <1>3, <2>1, FlattenSteps
  <2>3. N \in 1..N
    BY <1>1, <1>3
  <2> QED BY <2>2, <2>3
<1> QED BY <1>2, <1>3

\* A text begins with a method and a uri, with a space behind each.
Begins(text, method, uri) ==
    /\ method \in Strings /\ uri \in Strings /\ text \in Texts
    /\ Len(method) \in Nat /\ Len(uri) \in Nat
    /\ Len(text) \in Nat /\ Len(method) + Len(uri) + 2 <= Len(text)
    /\ \A i \in 1..Len(method) : text[i] = method[i]
    /\ text[Len(method) + 1] = Space
    /\ \A i \in 1..Len(uri) : text[Len(method) + 1 + i] = uri[i]
    /\ text[Len(method) + Len(uri) + 2] = Space

LEMMA TextBegins ==
    ASSUME NEW m \in Messages
    PROVE  Begins(Text[m], m.method, m.uri)
<1>a. PICK a, b, u, v : a = m.method /\ b = m.uri /\ u = m.http_version /\ v = m.eol
  OBVIOUS
<1>h. PICK headertexts : headertexts = [i \in DOMAIN m.headers |-> HeaderText(m.headers[i], m.eol)]
  OBVIOUS
<1>r. PICK hs, rest : hs = FlattenSeq(headertexts) /\ rest = m.body
  OBVIOUS
<1>1. m \in RequestText
  BY HTTPServerAssumption DEF HTTPServerAssumption, Messages
<1>2. a \in Texts /\ b \in Texts /\ u \in Texts /\ v \in Texts /\ rest \in Texts
  BY <1>1, <1>a, <1>r, StringsAreTexts DEF RequestText
<1>3. hs \in Texts
  <2>1. PICK H : H = [key : Strings, colon : Strings, value : Strings]
    OBVIOUS
  <2>2. \A x \in H : HeaderText(x, v) \in Texts
    <3> SUFFICES ASSUME NEW x \in H PROVE HeaderText(x, v) \in Texts
      OBVIOUS
    <3>1. x.key \in Texts /\ x.colon \in Texts /\ x.value \in Texts
      BY <2>1, StringsAreTexts
    <3> QED BY <1>2, <3>1, Joined DEF HeaderText
  <2>3. PICK s : s = m.headers
    OBVIOUS
  <2>4. s \in Seq(H)
    BY <1>1, <2>1, <2>3 DEF RequestText
  <2>5. Len(s) \in Nat /\ DOMAIN s = 1..Len(s) /\ \A i \in 1..Len(s) : s[i] \in H
    BY <2>4
  <2>6. headertexts = [i \in DOMAIN s |-> HeaderText(s[i], v)]
    BY <1>a, <1>h, <2>3
  <2>7. headertexts \in [1..Len(s) -> Texts]
    BY <2>2, <2>5, <2>6
  <2>8. headertexts \in Seq(Texts)
    <3> PICK T : T = Texts
      OBVIOUS
    <3>1. headertexts \in [1..Len(s) -> T]
      BY <2>7
    <3>2. headertexts \in Seq(T)
      BY <2>5, <3>1
    <3> QED BY <3>2
  <2> QED BY <1>r, <2>8, Flattened
<1>0. PICK sp : sp = <<Space>>
  OBVIOUS
<1>4. sp \in Texts /\ Len(sp) = 1 /\ sp[1] = Space
  <2>1. sp \in Seq({Space}) /\ Len(sp) = 1 /\ sp[1] = Space
    BY <1>0
  <2>2. {Space} \subseteq Characters \cup {Space}
    OBVIOUS
  <2>3. Seq({Space}) \subseteq Seq(Characters \cup {Space})
    BY <2>2, SequencesGrow
  <2>4. sp \in Seq(Characters \cup {Space})
    BY <2>1, <2>3, Zenon
  <2> QED BY <2>1, <2>4 DEF Texts
<1>t1. PICK t1 : t1 = a \o sp
  OBVIOUS
<1>t2. PICK t2 : t2 = t1 \o b
  OBVIOUS
<1>t3. PICK t3 : t3 = t2 \o sp
  OBVIOUS
<1>t4. PICK t4 : t4 = t3 \o u
  OBVIOUS
<1>t5. PICK t5 : t5 = t4 \o v
  OBVIOUS
<1>t6. PICK t6 : t6 = t5 \o hs
  OBVIOUS
<1>t7. PICK t7 : t7 = t6 \o v
  OBVIOUS
<1>t8. PICK t8 : t8 = t7 \o rest
  OBVIOUS
<1>5. Text[m] = t8
  BY <1>0, <1>a, <1>h, <1>r, <1>t1, <1>t2, <1>t3, <1>t4, <1>t5, <1>t6, <1>t7, <1>t8, Zenon
     DEF Text, Space
<1>6. /\ t1 \in Texts /\ Len(t1) = Len(a) + 1 /\ Len(a) \in Nat /\ t1[Len(a) + 1] = Space
      /\ \A i \in 1..Len(a) : t1[i] = a[i]
  <2>1. /\ t1 \in Texts /\ Len(t1) = Len(a) + Len(sp) /\ Len(a) \in Nat
        /\ \A i \in 1..Len(a) : t1[i] = a[i]
        /\ \A i \in 1..Len(sp) : t1[Len(a) + i] = sp[i]
    <3>1. a \in Texts /\ sp \in Texts
      BY <1>2, <1>4
    <3> QED BY <1>t1, <3>1, Joined
  <2>2. 1 \in 1..Len(sp)
    BY <1>4
  <2> QED BY <1>4, <2>1, <2>2
<1>7. /\ t2 \in Texts /\ Len(t2) = Len(a) + 1 + Len(b) /\ Len(b) \in Nat
      /\ \A i \in 1..Len(t1) : t2[i] = t1[i]
      /\ \A i \in 1..Len(b) : t2[Len(a) + 1 + i] = b[i]
  <2>1. /\ t2 \in Texts /\ Len(t2) = Len(t1) + Len(b) /\ Len(b) \in Nat
        /\ \A i \in 1..Len(t1) : t2[i] = t1[i]
        /\ \A i \in 1..Len(b) : t2[Len(t1) + i] = b[i]
    <3>1. t1 \in Texts /\ b \in Texts
      BY <1>2, <1>6
    <3> QED BY <1>t2, <3>1, Joined
  <2> QED BY <1>6, <2>1
<1>8. /\ t3 \in Texts /\ Len(t3) = Len(a) + Len(b) + 2 /\ t3[Len(a) + Len(b) + 2] = Space
      /\ \A i \in 1..Len(t2) : t3[i] = t2[i]
  <2>1. 1 \in 1..Len(sp) /\ Len(t2) + 1 = Len(a) + Len(b) + 2
    BY <1>4, <1>6, <1>7
  <2>2. /\ t3 \in Texts /\ Len(t3) = Len(t2) + Len(sp) /\ Len(t2) \in Nat
        /\ \A i \in 1..Len(t2) : t3[i] = t2[i]
        /\ \A i \in 1..Len(sp) : t3[Len(t2) + i] = sp[i]
    BY <1>4, <1>7, <1>t3, Joined
  <2>3. t3[Len(t2) + 1] = Space
    BY <1>4, <2>1, <2>2
  <2> QED BY <1>4, <1>6, <1>7, <2>1, <2>2, <2>3
<1>9. /\ \A i \in 1..Len(a) : t3[i] = a[i]
      /\ t3[Len(a) + 1] = Space
      /\ \A i \in 1..Len(b) : t3[Len(a) + 1 + i] = b[i]
  <2>1. /\ \A i \in 1..Len(a) : i \in 1..Len(t1) /\ i \in 1..Len(t2)
        /\ Len(a) + 1 \in 1..Len(t1) /\ Len(a) + 1 \in 1..Len(t2)
        /\ \A i \in 1..Len(b) : Len(a) + 1 + i \in 1..Len(t2)
    BY <1>6, <1>7
  <2> QED BY <1>6, <1>7, <1>8, <2>1
<1> DEFINE Extends(t, s) == /\ t \in Texts /\ Len(t) \in Nat /\ Len(s) \in Nat /\ Len(s) <= Len(t)
                            /\ \A i \in 1..Len(s) : t[i] = s[i]
<1>10. \A s, t \in Texts : Extends(s \o t, s)
  BY Joined
<1>11. \A r, s, t \in Texts : Extends(s, r) /\ Extends(t, s) => Extends(t, r)
  OBVIOUS
<1>12. Extends(t8, t3)
  <2> HIDE DEF Extends
  <2>1. t4 \in Texts /\ t5 \in Texts /\ t6 \in Texts /\ t7 \in Texts /\ t8 \in Texts
    BY <1>2, <1>3, <1>8, <1>t4, <1>t5, <1>t6, <1>t7, <1>t8, Joined
  <2>2. /\ Extends(t4, t3) /\ Extends(t5, t4) /\ Extends(t6, t5) /\ Extends(t7, t6)
        /\ Extends(t8, t7)
    BY <1>2, <1>3, <1>8, <1>10, <1>t4, <1>t5, <1>t6, <1>t7, <1>t8, <2>1
  <2> QED BY <1>8, <1>11, <2>1, <2>2
<1>13. /\ \A i \in 1..Len(a) : t8[i] = a[i]
       /\ t8[Len(a) + 1] = Space
       /\ \A i \in 1..Len(b) : t8[Len(a) + 1 + i] = b[i]
       /\ t8[Len(a) + Len(b) + 2] = Space
  <2>1. /\ \A i \in 1..Len(a) : i \in 1..Len(t3)
        /\ Len(a) + 1 \in 1..Len(t3) /\ Len(a) + Len(b) + 2 \in 1..Len(t3)
        /\ \A i \in 1..Len(b) : Len(a) + 1 + i \in 1..Len(t3)
    BY <1>6, <1>7, <1>8
  <2> QED BY <1>8, <1>9, <1>12, <2>1
<1>14. a \in Strings /\ b \in Strings
  BY <1>1, <1>a DEF RequestText
<1> QED BY <1>5, <1>6, <1>7, <1>8, <1>12, <1>13, <1>14, <1>a DEF Begins

\* The first string of a request, and the strings of its line.
LEMMA SplitLine == ASSUME NEW s PROVE Split(s).line = Strtok(MarkBlankLines(s), {LF}).token
BY Zenon DEF Split

LEMMA RequestLineIs ==
    ASSUME NEW s, NEW method, NEW uri,
           method = Strtok(s, {Space}), uri = Strtok(method.rest, {Space})
    PROVE  RequestLine(s) = [method |-> method.token, uri |-> uri.token, http_version |-> uri.rest]
BY Zenon DEF RequestLine, Remainder, Space

\* The beginning of a sequence.
LEMMA Beginning ==
    ASSUME NEW C, NEW s \in Seq(C), NEW k \in Nat, k <= Len(s)
    PROVE  /\ SubSeq(s, 1, k) \in Seq(C) /\ Len(SubSeq(s, 1, k)) = k
           /\ \A i \in 1..k : SubSeq(s, 1, k)[i] = s[i]
OBVIOUS

\* Behind a word that the separator does not occur in, the token ends.
LEMMA WordIsCut ==
    ASSUME NEW C, NEW s \in Seq(C), NEW sep, NEW k \in Nat \ {0}, Len(s) > 0,
           \A i \in 1..k : i <= Len(s) => s[i] # sep,
           k + 1 <= Len(s) => s[k + 1] = sep,
           Strtok(s, {sep}).rest # NULL
    PROVE  /\ k + 2 <= Len(s)
           /\ Strtok(s, {sep}).token = SubSeq(s, 1, k)
           /\ Strtok(s, {sep}).rest = SubSeq(s, k + 2, Len(s))
<1>1. Len(s) \in Nat /\ 1 \in 1..k /\ 1 <= Len(s)
  OBVIOUS
<1>2. s[1] \notin {sep}
  BY <1>1
<1>3. PICK last \in 1..Len(s) :
         /\ Strtok(s, {sep}).token = SubSeq(s, 1, last)
         /\ Strtok(s, {sep}).rest = SubSeq(s, last + 2, Len(s))
         /\ \A i \in 1..last : s[i] \notin {sep}
         /\ last < Len(s) => s[last + 1] \in {sep}
  BY <1>2, StrtokCuts
<1>4. last + 2 <= Len(s)
  <2> SUFFICES ASSUME last + 2 > Len(s) PROVE FALSE
    BY <1>1
  <2>1. SubSeq(s, last + 2, Len(s)) = <<>>
    BY <1>1
  <2> QED BY <1>3, <2>1 DEF NULL
<1>5. s[last + 1] = sep
  BY <1>1, <1>3, <1>4
<1>6. last + 1 \notin 1..k
  BY <1>1, <1>4, <1>5
<1>7. k + 1 <= Len(s) /\ s[k + 1] = sep
  BY <1>1, <1>4, <1>6
<1>8. k + 1 \notin 1..last
  BY <1>3, <1>7
<1>9. last = k
  BY <1>1, <1>6, <1>8
<1> QED BY <1>3, <1>4, <1>9

\* However much of a message is read: if three strings are found in its request
\* line and its method and uri are not cut, the second is its uri.
LEMMA UriIsCut == UrisFound
<1> SUFFICES ASSUME NEW m \in Messages, Addressed(m), NEW n \in 1..Len(Text[m])
             PROVE  LET fs == RequestLine(Split(SubSeq(Text[m], 1, n)).line)
                    IN  NULL \notin {fs.method, fs.uri, fs.http_version} => fs.uri = m.uri
  BY DEF UrisFound
<1>t. PICK text : text = Text[m]
  OBVIOUS
<1>a. PICK a, b, method, uri : method = m.method /\ uri = m.uri /\ a = Len(method) /\ b = Len(uri)
  OBVIOUS
<1>1. /\ method \in Strings /\ uri \in Strings /\ text \in Texts
      /\ a \in Nat /\ b \in Nat /\ Len(text) \in Nat /\ a + b + 2 <= Len(text)
      /\ \A i \in 1..a : text[i] = method[i]
      /\ text[a + 1] = Space
      /\ \A i \in 1..b : text[a + 1 + i] = uri[i]
      /\ text[a + b + 2] = Space
  <2>1. Begins(text, method, uri)
    BY <1>t, <1>a, TextBegins
  <2> QED BY <1>a, <2>1 DEF Begins
<1>2. a # 0 /\ b # 0
  <2>1. method # <<>> /\ uri # <<>>
    BY <1>a DEF Addressed, NULL
  <2> QED BY <1>1, <1>a, <2>1 DEF Strings
<1>3. /\ \A i \in 1..a : method[i] # Space /\ method[i] # LF
      /\ \A i \in 1..b : uri[i] # Space /\ uri[i] # LF
  <2>1. \A c \in Range(method) \cup Range(uri) : c # Space /\ c # LF
    BY <1>a, Zenon DEF Addressed, Lacks, Space
  <2>2. DOMAIN method = 1..a /\ DOMAIN uri = 1..b
    BY <1>1, <1>a DEF Strings
  <2>3. /\ \A i \in 1..a : method[i] \in Range(method)
        /\ \A i \in 1..b : uri[i] \in Range(uri)
    BY <2>2 DEF Range
  <2> QED BY <2>1, <2>3
<1>4. Space # LF
  BY DEF Space, LF
<1>5. \A i \in 1..a + b + 2 : text[i] # LF
  <2> SUFFICES ASSUME NEW i \in 1..a + b + 2 PROVE text[i] # LF
    OBVIOUS
  <2>1. CASE i <= a
    <3>1. i \in 1..a
      BY <1>1, <2>1
    <3>2. text[i] = method[i]
      BY <1>1, <3>1
    <3> QED BY <1>3, <3>1, <3>2
  <2>2. CASE i = a + 1 \/ i = a + b + 2
    BY <1>1, <1>4, <2>2
  <2>3. CASE i > a + 1 /\ i < a + b + 2
    <3>1. i - a - 1 \in 1..b /\ a + 1 + (i - a - 1) = i
      BY <1>1, <2>3
    <3> QED BY <1>1, <1>3, <3>1
  <2> QED BY <1>1, <2>1, <2>2, <2>3
<1>s. PICK s : s = SubSeq(text, 1, n)
  OBVIOUS
<1>6. /\ n \in 1..Len(text)
      /\ s \in Texts /\ Len(s) = n /\ \A i \in 1..n : s[i] = text[i]
  <2>1. n \in 1..Len(text)
    BY <1>t
  <2> QED BY <1>1, <1>s, <2>1 DEF Texts
<1>m. PICK marked : marked = MarkBlankLines(s)
  OBVIOUS
<1>7. PICK C : marked \in Seq(C)
  BY <1>6, <1>m, MarkedLines DEF Texts
<1>8. Len(marked) = n /\ \A i \in 1..n : s[i] # LF => marked[i] = s[i]
  BY <1>6, <1>m, MarkedLines DEF Texts
<1>9. \A i \in 1..n : i <= a + b + 2 => marked[i] = text[i] /\ marked[i] # LF
  BY <1>1, <1>5, <1>6, <1>8
<1>10. PICK last \in 1..n :
          /\ Strtok(marked, {LF}).token = SubSeq(marked, 1, last)
          /\ \A i \in 1..last : marked[i] \notin {LF}
          /\ last < n => marked[last + 1] \in {LF}
  <2>1. Len(marked) > 0 /\ marked[1] \notin {LF}
    <3>1. 1 \in 1..n /\ 1 <= a + b + 2 /\ n > 0
      BY <1>1, <1>6
    <3> QED BY <1>8, <1>9, <3>1
  <2> QED BY <1>7, <1>8, <2>1, StrtokCuts
<1>11. last < n => last >= a + b + 2
  <2> SUFFICES ASSUME last < n, last < a + b + 2 PROVE FALSE
    BY <1>1
  <2>1. last + 1 \in 1..n /\ last + 1 <= a + b + 2
    BY <1>1, <1>6
  <2> QED BY <1>9, <1>10, <2>1
<1>l. PICK line : line = SubSeq(marked, 1, last)
  OBVIOUS
<1>12. line \in Seq(C) /\ Len(line) = last /\ \A i \in 1..last : line[i] = marked[i]
  BY <1>7, <1>8, <1>l
<1>13. \A i \in 1..last : i <= a + b + 2 => line[i] = text[i]
  BY <1>6, <1>9, <1>12
<1>14. Split(s).line = line
  BY <1>m, <1>l, <1>10, SplitLine
<1>f. PICK first, second : first = Strtok(line, {Space}) /\ second = Strtok(first.rest, {Space})
  OBVIOUS
<1>15. RequestLine(line) = [method |-> first.token, uri |-> second.token, http_version |-> second.rest]
  BY <1>f, RequestLineIs
<1>16. ASSUME second.token # NULL, second.rest # NULL PROVE second.token = uri
  <2>1. first.rest # NULL
    BY <1>16, <1>f, StrtokEmpty
  <2>2. /\ a + 2 <= last
        /\ first.rest = SubSeq(line, a + 2, last)
    <3>1. \A i \in 1..a : i <= last => line[i] # Space
      <4>1. \A i \in 1..a : i <= last => i \in 1..last /\ i <= a + b + 2
        BY <1>1, <1>6
      <4> QED BY <1>1, <1>3, <1>13, <4>1
    <3>2. a + 1 <= last => line[a + 1] = Space
      <4>1. a + 1 <= last => a + 1 \in 1..last /\ a + 1 <= a + b + 2
        BY <1>1, <1>6
      <4> QED BY <1>1, <1>13, <4>1
    <3>3. a \in Nat \ {0} /\ Len(line) > 0
      BY <1>1, <1>2, <1>12
    <3> QED BY <1>12, <1>f, <2>1, <3>1, <3>2, <3>3, WordIsCut
  <2>r. PICK rest : rest = first.rest
    OBVIOUS
  <2>3. /\ rest \in Seq(C) /\ Len(rest) = last - a - 1
        /\ \A i \in 1..last - a - 1 : rest[i] = line[a + 1 + i]
    BY <1>1, <1>12, <2>2, <2>r
  <2>4. \A i \in 1..b : i <= Len(rest) => rest[i] = uri[i] /\ rest[i] # Space
    <3>1. \A i \in 1..b : i <= Len(rest) =>
            i \in 1..last - a - 1 /\ a + 1 + i \in 1..last /\ a + 1 + i <= a + b + 2
      BY <1>1, <2>3
    <3> QED BY <1>1, <1>3, <1>13, <2>3, <3>1
  <2>5. b + 1 <= Len(rest) => rest[b + 1] = Space
    <3>1. b + 1 <= Len(rest) =>
            /\ b + 1 \in 1..last - a - 1 /\ a + b + 2 \in 1..last
            /\ a + 1 + (b + 1) = a + b + 2
      BY <1>1, <1>6, <2>3
    <3>2. a + b + 2 \in 1..last => line[a + b + 2] = Space
      BY <1>1, <1>13
    <3> QED BY <2>3, <3>1, <3>2
  <2>6. b + 2 <= Len(rest) /\ second.token = SubSeq(rest, 1, b)
    <3>1. b \in Nat \ {0} /\ Len(rest) > 0
      BY <1>1, <1>2, <1>6, <2>2, <2>3
    <3>2. \A i \in 1..b : i <= Len(rest) => rest[i] # Space
      BY <2>4
    <3>3. second = Strtok(rest, {Space}) /\ Strtok(rest, {Space}).rest # NULL
      BY <1>16, <1>f, <2>r
    <3>4. /\ b + 2 <= Len(rest)
          /\ Strtok(rest, {Space}).token = SubSeq(rest, 1, b)
      BY <2>3, <2>5, <3>1, <3>2, <3>3, WordIsCut
    <3> QED BY <3>3, <3>4
  <2>w. PICK word : word = SubSeq(rest, 1, b)
    OBVIOUS
  <2>7. word \in Seq(C) /\ Len(word) = b /\ \A i \in 1..b : word[i] = rest[i]
    <3>1. b \in Nat /\ b <= Len(rest) /\ rest \in Seq(C)
      BY <1>1, <1>6, <2>3, <2>6
    <3> QED BY <2>w, <3>1, Beginning
  <2>8. \A i \in 1..b : word[i] = uri[i]
    <3>1. \A i \in 1..b : i <= Len(rest)
      BY <1>1, <1>6, <2>3, <2>6
    <3> QED BY <2>4, <2>7, <3>1
  <2>9. word = uri
    <3>1. word \in [1..b -> C]
      BY <1>1, <2>7
    <3> PICK S : S = Characters
      OBVIOUS
    <3>2. uri \in Seq(S) /\ Len(uri) = b
      BY <1>1, <1>a DEF Strings
    <3>3. uri \in [1..b -> S]
      BY <3>2
    <3> PICK I : I = 1..b
      OBVIOUS
    <3>4. word \in [I -> C] /\ uri \in [I -> S] /\ \A i \in I : word[i] = uri[i]
      BY <2>8, <3>1, <3>3
    <3>5. word = [i \in I |-> word[i]] /\ uri = [i \in I |-> uri[i]]
      BY <3>4
    <3>6. [i \in I |-> word[i]] = [i \in I |-> uri[i]]
      BY <3>4
    <3> QED BY <3>5, <3>6, Zenon
  <2> QED BY <2>6, <2>9, <2>w
<1> QED BY <1>14, <1>15, <1>16, <1>a, <1>s, <1>t

----------------------------------------------------------------------------
\* HTTPServer implements SequentialService: whatever the clients send and do,
\* however much of a message one read gets and whatever lies behind the copies,
\* clients are taken in the order they came and each is answered at most once, by
\* the function registered for a reading of its uri or by NotFound; only a message
\* whose method or uri is missing or cut may be answered by the function for
\* another uri.
THEOREM ServerIsSequential == Spec => ImplementsService
<1>1. ASSUME IInv, ServiceInv, [Next]_vars PROVE ServiceInv'
  BY <1>1, StepServiceInv, UriIsCut
<1>2. ASSUME IInv, ServiceInv, [Next]_vars PROVE [Service!Next]_Service!svars
  BY <1>2, StepService
<1>3. Spec => []ServiceInv
  BY <1>1, InitServiceInv, Inductive, PTL DEF Spec
<1> QED BY <1>2, <1>3, InitService, Inductive, PTL DEF Spec, ImplementsService, Service!Spec

----------------------------------------------------------------------------
\* What the functions of the parser do with a string

\* strtok finds a string that no separator is in and that one follows, or nothing.
LEMMA StrtokAt ==
    ASSUME NEW C, NEW s \in Seq(C), NEW u \in Seq(C), NEW D, u # <<>>, Len(u) <= Len(s),
           \A i \in 1..Len(u) : s[i] = u[i] /\ u[i] \notin D,
           Len(u) < Len(s) => s[Len(u) + 1] \in D
    PROVE  Strtok(s, D).token = u /\ Strtok(s, D).rest = SubSeq(s, Len(u) + 2, Len(s))
<1> PICK k : k = Len(u)
  OBVIOUS
<1>1. k \in Nat /\ k > 0 /\ Len(s) \in Nat /\ k <= Len(s)
  BY EmptySeq, LenProperties
<1>2. PICK last \in 1..Len(s) :
         /\ Strtok(s, D).token = SubSeq(s, 1, last)
         /\ Strtok(s, D).rest = SubSeq(s, last + 2, Len(s))
         /\ \A i \in 1..last : s[i] \notin D
         /\ last < Len(s) => s[last + 1] \in D
  <2>1. Len(s) > 0 /\ s[1] \notin D
    BY <1>1
  <2> QED BY <2>1, StrtokCuts
<1>3. last = k
  <2>1. ~(last < k)
    <3>1. last < k => last + 1 \in 1..k /\ last < Len(s)
      BY <1>1
    <3> QED BY <1>2, <3>1
  <2>2. last > k => k < Len(s) /\ k + 1 \in 1..last
    BY <1>1
  <2>3. ~(last > k)
    BY <1>2, <2>2
  <2> QED BY <1>1, <2>1, <2>3
<1>4. SubSeq(s, 1, k) = u
  <2>1. /\ SubSeq(s, 1, k) \in Seq(C) /\ Len(SubSeq(s, 1, k)) = k
        /\ \A i \in 1..k : SubSeq(s, 1, k)[i] = s[i]
    BY <1>1, Beginning
  <2> QED BY <2>1, SeqEqual
<1> QED BY <1>2, <1>3, <1>4

\* What is behind the separator is left.
LEMMA StrtokFirst ==
    ASSUME NEW C, NEW u \in Seq(C), NEW d \in C, NEW v \in Seq(C), NEW D,
           d \in D, u # <<>>, \A i \in 1..Len(u) : u[i] \notin D
    PROVE  Strtok((u \o <<d>>) \o v, D).token = u /\ Strtok((u \o <<d>>) \o v, D).rest = v
<1>s. PICK s, k : s = (u \o <<d>>) \o v /\ k = Len(u)
  OBVIOUS
<1>1. k \in Nat /\ k > 0 /\ Len(v) \in Nat
  BY <1>s, EmptySeq, LenProperties
<1>2. /\ <<d>> \in Seq(C) /\ u \o <<d>> \in Seq(C) /\ Len(u \o <<d>>) = k + 1
      /\ (u \o <<d>>)[k + 1] = d /\ \A i \in 1..k : (u \o <<d>>)[i] = u[i]
  BY <1>1, <1>s
<1>3. s \in Seq(C) /\ Len(s) = k + 1 + Len(v)
  BY <1>2, <1>s, ConcatProperties
<1>4. /\ \A i \in 1..k : s[i] = u[i]
      /\ s[k + 1] = d
      /\ \A i \in 1..Len(v) : s[k + 1 + i] = v[i]
  BY <1>1, <1>2, <1>s
<1>5. Strtok(s, D).token = u /\ Strtok(s, D).rest = SubSeq(s, k + 2, Len(s))
  <2>1. /\ Len(u) <= Len(s) /\ \A i \in 1..Len(u) : s[i] = u[i] /\ u[i] \notin D
        /\ s[Len(u) + 1] \in D
    BY <1>1, <1>3, <1>4, <1>s
  <2>2. s \in Seq(C) /\ (Len(u) < Len(s) => s[Len(u) + 1] \in D)
    BY <1>3, <2>1
  <2>3. Strtok(s, D).token = u /\ Strtok(s, D).rest = SubSeq(s, Len(u) + 2, Len(s))
    BY <2>1, <2>2, StrtokAt
  <2> QED BY <1>s, <2>3
<1>6. SubSeq(s, k + 2, Len(s)) = v
  <2> PICK w : w = SubSeq(s, k + 2, Len(s))
    OBVIOUS
  <2>1. /\ w \in Seq(C) /\ Len(w) = Len(v)
        /\ \A i \in 1..Len(v) : w[i] = s[k + 1 + i]
    BY <1>1, <1>3
  <2>2. \A i \in 1..Len(w) : w[i] = v[i]
    BY <1>4, <2>1
  <2>3. w = v
    BY <2>1, <2>2, SeqEqual
  <2> QED BY <2>3
<1> QED BY <1>5, <1>6, <1>s

\* Behind the last string nothing is left.
LEMMA StrtokLast ==
    ASSUME NEW C, NEW u \in Seq(C), NEW D, u # <<>>, \A i \in 1..Len(u) : u[i] \notin D
    PROVE  Strtok(u, D).token = u /\ Strtok(u, D).rest = NULL
<1>1. Len(u) \in Nat
  BY LenProperties
<1>2. SubSeq(u, Len(u) + 2, Len(u)) = <<>>
  BY <1>1, SubSeqEmpty
<1>3. Strtok(u, D).token = u /\ Strtok(u, D).rest = SubSeq(u, Len(u) + 2, Len(u))
  BY <1>1, StrtokAt
<1> QED BY <1>2, <1>3 DEF NULL

\* One pair of line ends that is not at the end of the text: the second of it is
\* marked, and a third line end behind it is not.
LEMMA MarkedOnce ==
    ASSUME NEW B, NEW s \in Seq(B), NEW p \in 2..Len(s), p < Len(s), s[p] = LF, s[p - 1] = LF,
           \A i \in 2..Len(s) : s[i] = LF /\ s[i - 1] = LF => i \in {p, p + 1}
    PROVE  MarkBlankLines(s) = [i \in 1..Len(s) |-> IF i = p THEN "|" ELSE s[i]]
<1>1. PICK marked : /\ Marking(s, marked)
                    /\ MarkBlankLines(s) = [i \in 1..Len(s) |-> IF marked[i] THEN "|" ELSE s[i]]
  BY MarkedBy
<1>2. Len(s) \in Nat
  BY LenProperties
<1>3. \A i \in 0..Len(s) :
         marked[i] = (i > 1 /\ i < Len(s) /\ s[i] = LF /\ s[i - 1] = LF /\ ~marked[i - 1])
  BY <1>1, Zenon DEF Marking
<1>4. ~marked[p - 1]
  <2>1. p - 1 \in 0..Len(s) /\ ~(p - 1 \in {p, p + 1})
    BY <1>2
  <2>2. p - 1 > 1 => p - 1 \in 2..Len(s)
    BY <1>2
  <2> QED BY <1>3, <2>1, <2>2
<1>5. marked[p]
  <2>1. p \in 0..Len(s) /\ p > 1
    BY <1>2
  <2> QED BY <1>3, <1>4, <2>1
<1>6. \A i \in 1..Len(s) : i # p => ~marked[i]
  <2> SUFFICES ASSUME NEW i \in 1..Len(s), i # p, marked[i] PROVE FALSE
    OBVIOUS
  <2>1. i \in 0..Len(s) /\ i > 1 /\ s[i] = LF /\ s[i - 1] = LF /\ ~marked[i - 1]
    <3>1. i \in 0..Len(s)
      BY <1>2
    <3> QED BY <1>3, <3>1
  <2>2. i \in 2..Len(s)
    BY <1>2, <2>1
  <2>3. i = p + 1
    BY <2>1, <2>2
  <2>4. i - 1 = p
    BY <1>2, <2>3
  <2> QED BY <1>5, <2>1, <2>4
<1> HIDE DEF MarkBlankLines
<1> QED BY <1>1, <1>5, <1>6

\* No such pair: nothing is marked.
LEMMA MarkedNever ==
    ASSUME NEW B, NEW s \in Seq(B), \A i \in 2..Len(s) : s[i] = LF /\ s[i - 1] = LF => i = Len(s)
    PROVE  MarkBlankLines(s) = s
<1>1. PICK marked : /\ Marking(s, marked)
                    /\ MarkBlankLines(s) = [i \in 1..Len(s) |-> IF marked[i] THEN "|" ELSE s[i]]
  BY MarkedBy
<1>2. Len(s) \in Nat /\ s = [i \in 1..Len(s) |-> s[i]]
  BY LenProperties
<1>3. \A i \in 1..Len(s) : ~marked[i]
  <2> SUFFICES ASSUME NEW i \in 1..Len(s), marked[i] PROVE FALSE
    OBVIOUS
  <2>1. i \in 0..Len(s)
    BY <1>2
  <2>2. i > 1 /\ i < Len(s) /\ s[i] = LF /\ s[i - 1] = LF
    BY <1>1, <2>1 DEF Marking
  <2>3. i \in 2..Len(s) /\ i # Len(s)
    BY <1>2, <2>2
  <2> QED BY <2>2, <2>3
<1>4. MarkBlankLines(s) = [i \in 1..Len(s) |-> s[i]]
  BY <1>1, <1>3
<1> QED BY <1>2, <1>4

\* Where the sequences are in the flattened one: the n-th lies behind ends[n - 1].
Ends(seqs, ends) ==
    /\ ends \in [0..Len(seqs) -> Nat] /\ ends[0] = 0
    /\ \A n \in 1..Len(seqs) : ends[n] = ends[n - 1] + Len(seqs[n])
At(text, seqs, ends) ==
    \A n \in 1..Len(seqs) : \A j \in 1..Len(seqs[n]) : text[ends[n - 1] + j] = seqs[n][j]

\* A set of sequences that is closed under concatenation.
Concatenates(T) ==
    \A u, v \in T : /\ u \o v \in T /\ Len(u) \in Nat /\ Len(v) \in Nat
                    /\ Len(u \o v) = Len(u) + Len(v)
                    /\ \A j \in 1..Len(u) : (u \o v)[j] = u[j]
                    /\ \A j \in 1..Len(v) : (u \o v)[Len(u) + j] = v[j]

\* In a set closed under concatenation, what is flattened is in the set, and its
\* parts are where Ends says.
LEMMA FlattenedIn ==
    ASSUME NEW T, Concatenates(T), NEW seqs \in Seq(T), Len(seqs) # 0
    PROVE  /\ FlattenSeq(seqs) \in T
           /\ \E ends : Ends(seqs, ends) /\ At(FlattenSeq(seqs), seqs, ends)
                           /\ Len(FlattenSeq(seqs)) = ends[Len(seqs)]
<1>0. \E f \in [1..Len(seqs) -> T] : /\ FlattenSeq(seqs) = f[Len(seqs)]
                                     /\ f[1] = seqs[1]
                                     /\ \A n \in 2..Len(seqs) : f[n] = f[n - 1] \o seqs[n]
  <2>1. \A u, v \in T : u \o v \in T
    BY DEF Concatenates
  <2> QED BY <2>1, FlattenSteps, ZenonT(60)
<1> PICK N : N = Len(seqs)
  OBVIOUS
<1>1. N \in Nat /\ N > 0 /\ \A n \in 1..N : seqs[n] \in T
  BY LenProperties, ElementOfSeq
<1>2. /\ \A u, v \in T : /\ u \o v \in T /\ Len(u) \in Nat /\ Len(v) \in Nat
                         /\ Len(u \o v) = Len(u) + Len(v)
                         /\ \A j \in 1..Len(u) : (u \o v)[j] = u[j]
                         /\ \A j \in 1..Len(v) : (u \o v)[Len(u) + j] = v[j]
  BY DEF Concatenates
<1>3. PICK f \in [1..N -> T] : /\ FlattenSeq(seqs) = f[N]
                               /\ f[1] = seqs[1]
                               /\ \A n \in 2..N : f[n] = f[n - 1] \o seqs[n]
  BY <1>0, Zenon
<1> DEFINE Extends(u, v) == Len(v) <= Len(u) /\ \A j \in 1..Len(v) : u[j] = v[j]
<1>4. \A u, v, w \in T : Extends(u, v) /\ Extends(v, w) => Extends(u, w)
  <2>1. \A u \in T : Len(u) \in Nat
    BY <1>2
  <2> SUFFICES ASSUME NEW u \in T, NEW v \in T, NEW w \in T, Extends(u, v), Extends(v, w)
               PROVE  Extends(u, w)
    OBVIOUS
  <2>2. \A j \in 1..Len(w) : j \in 1..Len(v)
    BY <2>1
  <2> QED BY <2>1, <2>2
<1>5. \A u, v \in T : Extends(u \o v, u) /\ Extends(u, u)
  BY <1>2
<1> HIDE DEF Extends
<1> PICK S : S = {n \in Nat : n + 1 \in 1..N => \A i \in 1..n + 1 : Extends(f[n + 1], f[i])}
  OBVIOUS
<1>6. 0 \in S
  <2>1. \A i \in 1..0 + 1 : i = 0 + 1 /\ f[1] \in T
    BY <1>1, <1>3
  <2> QED BY <1>5, <2>1
<1>7. ASSUME NEW n \in 0..N - 1, n \in S PROVE n + 1 \in S
  <2>1. n + 1 \in Nat /\ n + 1 \in 1..N /\ f[n + 1] \in T /\ \A i \in 1..n + 1 : Extends(f[n + 1], f[i])
    BY <1>1, <1>3, <1>7
  <2>2. ASSUME (n + 1) + 1 \in 1..N, NEW i \in 1..(n + 1) + 1 PROVE Extends(f[(n + 1) + 1], f[i])
    <3>1. (n + 1) + 1 \in 2..N /\ ((n + 1) + 1) - 1 = n + 1 /\ f[(n + 1) + 1] \in T /\ seqs[(n + 1) + 1] \in T
      BY <1>1, <1>3, <2>1, <2>2
    <3>2. Extends(f[(n + 1) + 1], f[n + 1])
      BY <1>3, <1>5, <2>1, <3>1
    <3>3. i = (n + 1) + 1 \/ i \in 1..n + 1
      BY <2>1
    <3>4. i \in 1..N
      BY <1>1, <2>1, <2>2
    <3> QED BY <1>3, <1>4, <1>5, <2>1, <3>1, <3>2, <3>3, <3>4
  <2> QED BY <2>1, <2>2
<1>8. 0..N \subseteq S
  BY <1>1, <1>6, <1>7, Induction
<1>9. \A i \in 1..N : Extends(f[N], f[i])
  <2>1. N - 1 \in 0..N /\ (N - 1) + 1 = N /\ N \in 1..N
    BY <1>1
  <2> QED BY <1>8, <2>1
<1> PICK ends : ends = [n \in 0..N |-> IF n = 0 THEN 0 ELSE Len(f[n])]
  OBVIOUS
<1>10. /\ ends[0] = 0
       /\ \A n \in 1..N : ends[n] = Len(f[n]) /\ Len(f[n]) \in Nat
  <2>1. \A n \in 1..N : n \in 0..N /\ n # 0 /\ f[n] \in T
    BY <1>1, <1>3
  <2>2. 0 \in 0..N
    BY <1>1
  <2> QED BY <1>2, <2>1, <2>2
<1>11. \A n \in 1..N : /\ ends[n] = ends[n - 1] + Len(seqs[n])
                       /\ \A j \in 1..Len(seqs[n]) : f[n][ends[n - 1] + j] = seqs[n][j]
  <2> SUFFICES ASSUME NEW n \in 1..N
               PROVE  /\ ends[n] = ends[n - 1] + Len(seqs[n])
                      /\ \A j \in 1..Len(seqs[n]) : f[n][ends[n - 1] + j] = seqs[n][j]
    OBVIOUS
  <2>0. seqs[n] \in T /\ Len(seqs[n]) \in Nat /\ \A j \in 1..Len(seqs[n]) : 0 + j = j
    BY <1>1, <1>2
  <2>1. CASE n = 1
    <3>1. ends[n - 1] = 0
      BY <1>10, <2>1
    <3> QED BY <1>3, <1>10, <2>0, <2>1, <3>1
  <2>2. CASE n # 1
    <3>1. n \in 2..N /\ n - 1 \in 1..N
      BY <1>1, <2>2
    <3>2. f[n] = f[n - 1] \o seqs[n] /\ f[n - 1] \in T /\ ends[n - 1] = Len(f[n - 1])
      BY <1>3, <1>10, <3>1
    <3>3. /\ Len(f[n]) = Len(f[n - 1]) + Len(seqs[n])
          /\ \A j \in 1..Len(seqs[n]) : f[n][Len(f[n - 1]) + j] = seqs[n][j]
      <4> PICK u, v : u = f[n - 1] /\ v = seqs[n]
        OBVIOUS
      <4>1. u \in T /\ v \in T /\ f[n] = u \o v
        BY <2>0, <3>2
      <4>2. Len(f[n]) = Len(u) + Len(v) /\ \A j \in 1..Len(v) : f[n][Len(u) + j] = v[j]
        <5>1. \A w \in {u \o v} : Len(w) = Len(u) + Len(v) /\ \A j \in 1..Len(v) : w[Len(u) + j] = v[j]
          BY <1>2, <4>1
        <5> QED BY <4>1, <5>1, Zenon
      <4> QED BY <4>2
    <3>4. ends[n] = Len(f[n])
      BY <1>10
    <3> QED BY <3>2, <3>3, <3>4
  <2> QED BY <2>1, <2>2
<1>12. \A n \in 1..N : \A j \in 1..Len(seqs[n]) : f[N][ends[n - 1] + j] = seqs[n][j]
  <2> SUFFICES ASSUME NEW n \in 1..N, NEW j \in 1..Len(seqs[n])
               PROVE  f[N][ends[n - 1] + j] = seqs[n][j]
    OBVIOUS
  <2>1. n - 1 \in 0..N /\ Len(seqs[n]) \in Nat
    BY <1>1, <1>2
  <2>2. ends[n - 1] \in Nat
    BY <1>1, <1>10, <2>1
  <2>3. ends[n - 1] + j \in 1..Len(f[n])
    <3> PICK e, l, k : e = ends[n - 1] /\ l = Len(seqs[n]) /\ k = Len(f[n])
      OBVIOUS
    <3>1. k = e + l
      BY <1>10, <1>11
    <3>2. e \in Nat /\ l \in Nat /\ j \in 1..l
      BY <2>1, <2>2
    <3>3. e + j \in 1..k
      BY <3>1, <3>2
    <3> QED BY <3>3
  <2>4. Extends(f[N], f[n]) /\ f[n][ends[n - 1] + j] = seqs[n][j]
    BY <1>9, <1>11
  <2> QED BY <2>3, <2>4 DEF Extends
<1>13. ends \in [0..N -> Nat]
  BY <1>10
<1>14. N \in 1..N /\ f[N] \in T
  BY <1>1, <1>3
<1>15. Len(f[N]) = ends[N]
  BY <1>10, <1>14
<1>16. Ends(seqs, ends)
  BY <1>10, <1>11, <1>13 DEF Ends
<1>17. At(FlattenSeq(seqs), seqs, ends)
  BY <1>3, <1>12 DEF At
<1> QED BY <1>3, <1>14, <1>15, <1>16, <1>17

\* The same for sequences of any set.
LEMMA FlattenedAt ==
    ASSUME NEW C, NEW seqs \in Seq(Seq(C)), Len(seqs) # 0
    PROVE  /\ FlattenSeq(seqs) \in Seq(C)
           /\ \E ends : Ends(seqs, ends) /\ At(FlattenSeq(seqs), seqs, ends)
                           /\ Len(FlattenSeq(seqs)) = ends[Len(seqs)]
<1>1. Concatenates(Seq(C))
  BY DEF Concatenates
<1> QED BY <1>1, FlattenedIn

\* What grows with each step grows.
LEMMA Grows ==
    ASSUME NEW N \in Nat, NEW e \in [0..N -> Nat], \A n \in 1..N : e[n - 1] < e[n]
    PROVE  \A i, j \in 0..N : i < j => e[i] < e[j]
<1> PICK S : S = {n \in Nat : n <= N => \A i \in 0..N : i < n => e[i] < e[n]}
  OBVIOUS
<1>1. 0 \in S
  OBVIOUS
<1>2. ASSUME NEW n \in 0..N - 1, n \in S PROVE n + 1 \in S
  <2>1. n \in 0..N /\ n + 1 \in 1..N /\ n + 1 \in 0..N /\ (n + 1) - 1 = n
    OBVIOUS
  <2>2. e[n] < e[n + 1] /\ e[n] \in Nat /\ e[n + 1] \in Nat
    BY <2>1
  <2>3. ASSUME NEW i \in 0..N, i < n + 1 PROVE e[i] < e[n + 1]
    <3>1. e[i] \in Nat /\ (i = n \/ i < n)
      BY <2>3
    <3> QED BY <1>2, <2>1, <2>2, <3>1
  <2> QED BY <2>1, <2>3
<1>3. 0..N \subseteq S
  BY <1>1, <1>2, Induction
<1> QED BY <1>3

\* The numbers of an increasing sequence are counted by their place in it.
Nth(S, n) == CHOOSE x \in S : Cardinality({y \in S : y <= x}) = n

\* A set of numbers whose members are those of an increasing sequence has as many
\* members as the sequence, and the n-th of the set is the n-th of the sequence.
LEMMA Ranked ==
    ASSUME NEW N \in Nat, NEW q \in [1..N -> Nat], \A i, j \in 1..N : i < j => q[i] < q[j],
           NEW S, \A n \in 1..N : q[n] \in S, \A x \in S : \E n \in 1..N : x = q[n]
    PROVE  Cardinality(S) = N /\ \A n \in 1..N : Nth(S, n) = q[n]
<1> DEFINE First(n) == {q[i] : i \in 1..n}
<1>t. PICK T : T = {n \in Nat : n <= N => IsFiniteSet(First(n)) /\ Cardinality(First(n)) = n}
  OBVIOUS
<1>1. 0 \in T
  <2>1. First(0) = {}
    OBVIOUS
  <2> QED BY <1>t, <2>1, FS_EmptySet
<1>2. ASSUME NEW n \in 0..N - 1, n \in T PROVE n + 1 \in T
  <2>1. n + 1 \in 1..N /\ n <= N /\ n + 1 <= N /\ n \in Nat
    OBVIOUS
  <2>2. First(n + 1) = First(n) \cup {q[n + 1]}
    <3>1. \A i : i \in 1..n + 1 <=> i \in 1..n \/ i = n + 1
      BY <2>1
    <3> QED BY <3>1
  <2>3. q[n + 1] \notin First(n)
    <3>1. \A i \in 1..n : i \in 1..N /\ i < n + 1
      BY <2>1
    <3>2. \A i \in 1..n : q[i] \in Nat /\ q[n + 1] \in Nat /\ q[i] < q[n + 1]
      BY <2>1, <3>1
    <3> QED BY <3>2
  <2>4. IsFiniteSet(First(n)) /\ Cardinality(First(n)) = n
    BY <1>2, <1>t, <2>1
  <2> HIDE DEF First
  <2>5. IsFiniteSet(First(n + 1)) /\ Cardinality(First(n + 1)) = n + 1
    <3> PICK A, B, x : A = First(n) /\ B = First(n + 1) /\ x = q[n + 1]
      OBVIOUS
    <3>1. B = A \cup {x} /\ x \notin A /\ IsFiniteSet(A) /\ Cardinality(A) = n
      BY <2>2, <2>3, <2>4
    <3>2. IsFiniteSet(B) /\ Cardinality(B) = n + 1
      BY <3>1, FS_AddElement, SMTT(30)
    <3> QED BY <3>2
  <2> QED BY <1>t, <2>1, <2>5
<1>3. 0..N \subseteq T
  BY <1>1, <1>2, Induction
<1>4. \A n \in 0..N : Cardinality(First(n)) = n
  <2>1. \A n \in 0..N : n \in T /\ n <= N
    BY <1>3
  <2> HIDE DEF First
  <2> QED BY <1>t, <2>1
<1>5. \A n \in 1..N : {y \in S : y <= q[n]} = First(n)
  <2> SUFFICES ASSUME NEW n \in 1..N PROVE {y \in S : y <= q[n]} = First(n)
    OBVIOUS
  <2>1. \A i \in 1..N : q[i] <= q[n] <=> i <= n
    OBVIOUS
  <2>2. \A i : i \in 1..n <=> i \in 1..N /\ i <= n
    OBVIOUS
  <2> QED BY <2>1, <2>2
<1>6. S = First(N)
  OBVIOUS
<1> HIDE DEF First
<1>7. ASSUME NEW n \in 1..N
      PROVE  Nth(S, n) = q[n]
  <2> DEFINE x == CHOOSE x \in S : Cardinality({y \in S : y <= x}) = n
  <2>1. q[n] \in S /\ Cardinality({y \in S : y <= q[n]}) = n
    <3>1. q[n] \in S /\ n \in 0..N
      BY <1>6 DEF First
    <3>2. Cardinality({y \in S : y <= q[n]}) = n
      BY <1>4, <1>5, <3>1, Zenon
    <3> QED BY <3>1, <3>2
  <2>2. x \in S /\ Cardinality({y \in S : y <= x}) = n
    BY <2>1
  <2> HIDE DEF x
  <2>3. PICK k \in 1..N : x = q[k]
    BY <2>2
  <2>4. Cardinality({y \in S : y <= x}) = k
    <3>1. k \in 0..N
      OBVIOUS
    <3> QED BY <1>4, <1>5, <2>3, <3>1, Zenon
  <2> QED BY <2>2, <2>3, <2>4 DEF x, Nth
<1>8. Cardinality(S) = N
  <2>1. N \in 0..N
    OBVIOUS
  <2> QED BY <1>4, <1>6, <2>1
<1> QED BY <1>7, <1>8

\* Where lines are in a text that has them one after the other, with a line end
\* behind each and perhaps one more at the end.
LinesAt(text, lines, ends) ==
    /\ ends \in [0..Len(lines) -> Nat] /\ ends[0] = 0
    /\ \A n \in 1..Len(lines) :
          /\ lines[n] # <<>> /\ \A j \in 1..Len(lines[n]) : lines[n][j] # LF
          /\ ends[n] = ends[n - 1] + Len(lines[n]) + 1
          /\ \A j \in 1..Len(lines[n]) : text[ends[n - 1] + j] = lines[n][j]
          /\ text[ends[n]] = LF
    /\ Len(text) \in {ends[Len(lines)], ends[Len(lines)] + 1}
    /\ Len(text) > 0 => text[Len(text)] = LF

\* Every place in the text but a line end at its end is in one of the lines or
\* the end of one.
LEMMA InSomeLine ==
    ASSUME NEW N \in Nat, NEW ends \in [0..N -> Nat], ends[0] = 0, NEW p \in 1..ends[N]
    PROVE  \E n \in 1..N : ends[n - 1] < p /\ p <= ends[n]
<1> DEFINE S == {n \in 0..N : p <= ends[n]}
<1>1. N \in S /\ S \subseteq Nat /\ p \in Nat /\ p > 0
  OBVIOUS
<1>2. PICK n \in S : \A x \in S : n <= x
  <2> HIDE DEF S
  <2> QED BY <1>1, LeastNatural
<1>3. n # 0
  BY <1>1
<1>4. n \in 1..N /\ n - 1 \in 0..N /\ ~(n <= n - 1)
  BY <1>3
<1>5. n - 1 \notin S
  BY <1>2, <1>4
<1>6. ends[n - 1] \in Nat /\ p <= ends[n]
  BY <1>4
<1>7. ends[n - 1] < p
  BY <1>1, <1>4, <1>5, <1>6
<1> QED BY <1>4, <1>6, <1>7

\* Where a line of a text starts.
Starts(text) == {i \in DOMAIN text : text[i] # LF /\ (i = 1 \/ text[i - 1] = LF)}

\* The lines of LinesAt start where lines of the text start, and no other does.
LEMMA LineStarts ==
    ASSUME NEW C, NEW text \in Seq(C), NEW lines \in Seq(Seq(C)), NEW ends, LinesAt(text, lines, ends)
    PROVE  /\ \A n \in 1..Len(lines) : ends[n - 1] < ends[n] /\ ends[n - 1] + 1 \in Starts(text)
           /\ \A i \in Starts(text) : \E n \in 1..Len(lines) : i = ends[n - 1] + 1
<1> PICK N : N = Len(lines)
  OBVIOUS
<1> DEFINE starts == {i \in DOMAIN text : text[i] # LF /\ (i = 1 \/ text[i - 1] = LF)}
<1>1. N \in Nat /\ Len(text) \in Nat /\ DOMAIN text = 1..Len(text)
  BY LenProperties
<1>2. ASSUME NEW n \in 1..N
      PROVE  /\ n - 1 \in 0..N /\ n \in 0..N /\ ends[n - 1] \in Nat /\ ends[n] \in Nat
             /\ Len(lines[n]) \in Nat /\ Len(lines[n]) > 0 /\ ends[n] = ends[n - 1] + Len(lines[n]) + 1
             /\ ends[n - 1] < ends[n]
  <2>1. n - 1 \in 0..N /\ n \in 0..N
    BY <1>1
  <2>2. ends[n - 1] \in Nat /\ ends[n] \in Nat
    BY <2>1 DEF LinesAt
  <2>3. lines[n] \in Seq(C) /\ lines[n] # <<>>
    BY ElementOfSeq DEF LinesAt
  <2>4. Len(lines[n]) \in Nat /\ Len(lines[n]) > 0
    BY <2>3, EmptySeq
  <2> QED BY <2>1, <2>2, <2>4 DEF LinesAt
<1>3. \A n \in 1..N : ends[n] <= ends[N]
  <2>1. ends \in [0..N -> Nat] /\ \A n \in 1..N : ends[n - 1] < ends[n]
    BY <1>2 DEF LinesAt
  <2>2. \A i, j \in 0..N : i < j => ends[i] < ends[j]
    BY <1>1, <2>1, Grows
  <2>3. \A n \in 1..N : n \in 0..N /\ N \in 0..N /\ (n = N \/ n < N)
    BY <1>1
  <2> SUFFICES ASSUME NEW n \in 1..N PROVE ends[n] <= ends[N]
    OBVIOUS
  <2>4. N \in 1..N
    BY <1>1
  <2>5. n = N \/ ends[n] < ends[N]
    BY <2>2, <2>3
  <2>6. ends[n] \in Nat /\ ends[N] \in Nat
    BY <1>2, <2>4
  <2> QED BY <2>5, <2>6
<1>4. ends[N] \in Nat /\ ends[N] <= Len(text)
  <2>1. N \in 0..N /\ ends \in [0..N -> Nat]
    BY <1>1 DEF LinesAt
  <2> QED BY <2>1 DEF LinesAt
<1>p. \A a, l, i \in Nat : a < i /\ i <= a + l + 1 /\ i # a + l + 1 /\ i - a > 1 =>
         i - 1 - a \in 1..l /\ a + (i - 1 - a) = i - 1 /\ i # 1
  OBVIOUS
<1>5. ASSUME NEW n \in 1..N PROVE ends[n - 1] + 1 \in starts
  <2>1. ends[n - 1] + 1 \in DOMAIN text
    BY <1>1, <1>2, <1>3, <1>4, SMTT(30)
  <2>2. text[ends[n - 1] + 1] # LF
    <3>1. 1 \in 1..Len(lines[n])
      BY <1>2
    <3>2. text[ends[n - 1] + 1] = lines[n][1] /\ lines[n][1] # LF
      BY <3>1, Zenon DEF LinesAt
    <3> QED BY <3>2
  <2>3. ends[n - 1] = 0 \/ text[ends[n - 1]] = LF
    <3>1. n - 1 = 0 \/ n - 1 \in 1..N
      BY <1>1
    <3> QED BY <3>1 DEF LinesAt
  <2>4. (ends[n - 1] + 1) - 1 = ends[n - 1] /\ (ends[n - 1] = 0 => ends[n - 1] + 1 = 1)
    BY <1>2
  <2> QED BY <2>1, <2>2, <2>3, <2>4
<1>6. ASSUME NEW i \in starts PROVE \E n \in 1..N : i = ends[n - 1] + 1
  <2>1. i \in 1..Len(text) /\ text[i] # LF /\ (i = 1 \/ text[i - 1] = LF)
    BY <1>1
  <2>2. i # Len(text) \/ Len(text) = ends[N]
    BY <1>1, <2>1 DEF LinesAt
  <2>3. i \in 1..ends[N]
    BY <1>1, <1>4, <2>1, <2>2 DEF LinesAt
  <2>4. PICK n \in 1..N : ends[n - 1] < i /\ i <= ends[n]
    <3>1. ends \in [0..N -> Nat] /\ ends[0] = 0
      BY DEF LinesAt
    <3> QED BY <1>1, <2>3, <3>1, InSomeLine
  <2>5. i # ends[n]
    BY <2>1 DEF LinesAt
  <2>6. ~(i - ends[n - 1] > 1)
    <3> SUFFICES ASSUME i - ends[n - 1] > 1 PROVE FALSE
      OBVIOUS
    <3> PICK j : j = i - 1 - ends[n - 1]
      OBVIOUS
    <3>1. j \in 1..Len(lines[n]) /\ ends[n - 1] + j = i - 1 /\ i # 1
      <4>1. ends[n - 1] \in Nat /\ Len(lines[n]) \in Nat /\ i \in Nat
            /\ ends[n] = ends[n - 1] + Len(lines[n]) + 1
        BY <1>1, <1>2, <2>1
      <4> QED BY <1>p, <2>4, <2>5, <4>1, ZenonT(60)
    <3>2. text[ends[n - 1] + j] = lines[n][j] /\ lines[n][j] # LF
      BY <3>1, Zenon DEF LinesAt
    <3> QED BY <2>1, <3>1, <3>2
  <2>7. i = ends[n - 1] + 1
    BY <1>2, <2>1, <2>4, <2>6, SMTT(30)
  <2> QED BY <2>7
<1>7. starts = Starts(text)
  BY DEF Starts
<1> HIDE DEF starts
<1> QED BY <1>2, <1>5, <1>6, <1>7

\* Lines finds the lines.
LEMMA LinesAre ==
    ASSUME NEW C, NEW text \in Seq(C), NEW lines \in Seq(Seq(C)), NEW ends, LinesAt(text, lines, ends)
    PROVE  Lines(text) = lines
<1>s. PICK starts : starts = Starts(text)
  OBVIOUS
<1>n. PICK N : N = Len(lines)
  OBVIOUS
<1>1. Lines(text) = [n \in 1..Cardinality(starts) |-> Strtok(SubSeq(text, Nth(starts, n), Len(text)), {LF}).token]
  <2>1. Lines(text) = [n \in 1..Cardinality(Starts(text)) |->
                         Strtok(SubSeq(text, Nth(Starts(text), n), Len(text)), {LF}).token]
    BY Zenon DEF Lines, Starts, Nth
  <2> QED BY <1>s, <2>1
<1>2. /\ N \in Nat /\ Len(text) \in Nat
      /\ ends \in [0..N -> Nat] /\ Len(text) \in {ends[N], ends[N] + 1}
  BY <1>n, LenProperties DEF LinesAt
<1>3. /\ \A n \in 1..N : ends[n - 1] < ends[n] /\ ends[n - 1] + 1 \in starts
      /\ \A i \in starts : \E n \in 1..N : i = ends[n - 1] + 1
  BY <1>n, <1>s, LineStarts
<1>4. Cardinality(starts) = N /\ \A n \in 1..N : Nth(starts, n) = ends[n - 1] + 1
  <2>q. PICK q : q = [n \in 1..N |-> ends[n - 1] + 1]
    OBVIOUS
  <2>1. \A n \in 1..N : n - 1 \in 0..N /\ ends[n - 1] \in Nat /\ q[n] = ends[n - 1] + 1
    <3>1. \A n \in 1..N : n - 1 \in 0..N
      BY <1>2
    <3> QED BY <1>2, <2>q, <3>1
  <2>2. q \in [1..N -> Nat]
    BY <2>q, <2>1
  <2>3. \A i, j \in 0..N : i < j => ends[i] < ends[j]
    BY <1>2, <1>3, Grows
  <2>4. \A i, j \in 1..N : i < j => q[i] < q[j]
    <3>1. \A i, j \in 1..N : i < j => ends[i - 1] < ends[j - 1]
      <4>1. \A i, j \in 1..N : i < j => i - 1 < j - 1
        BY <1>2
      <4> QED BY <2>1, <2>3, <4>1
    <3> SUFFICES ASSUME NEW i \in 1..N, NEW j \in 1..N, i < j PROVE q[i] < q[j]
      OBVIOUS
    <3>2. ends[i - 1] \in Nat /\ ends[j - 1] \in Nat /\ ends[i - 1] < ends[j - 1]
      BY <2>1, <3>1
    <3>3. q[i] = ends[i - 1] + 1 /\ q[j] = ends[j - 1] + 1
      BY <2>1
    <3> QED BY <3>2, <3>3
  <2>5. (\A n \in 1..N : q[n] \in starts) /\ \A x \in starts : \E n \in 1..N : x = q[n]
    BY <1>3, <2>1
  <2>6. Cardinality(starts) = N /\ \A n \in 1..N : Nth(starts, n) = q[n]
    <3>1. N \in Nat
      BY <1>2
    <3> QED BY <2>2, <2>4, <2>5, <3>1, Ranked, ZenonT(60)
  <2> QED BY <2>1, <2>6
<1>5. ASSUME NEW n \in 1..N
      PROVE  Strtok(SubSeq(text, ends[n - 1] + 1, Len(text)), {LF}).token = lines[n]
  <2>a. PICK a, line, s : a = ends[n - 1] /\ line = lines[n] /\ s = SubSeq(text, a + 1, Len(text))
    OBVIOUS
  <2>1. /\ line \in Seq(C) /\ line # <<>> /\ Len(line) \in Nat
        /\ \A j \in 1..Len(line) : line[j] # LF
    <3>1. line \in Seq(C)
      BY <1>n, <2>a, ElementOfSeq
    <3>2. Len(line) \in Nat
      BY <3>1, LenProperties
    <3> QED BY <1>n, <2>a, <3>1, <3>2 DEF LinesAt
  <2>2. n - 1 \in 0..N /\ n \in 0..N /\ N \in 0..N /\ a \in Nat /\ ends[n] \in Nat /\ ends[N] \in Nat
    <3>1. n - 1 \in 0..N /\ n \in 0..N /\ N \in 0..N
      BY <1>2
    <3> QED BY <1>2, <2>a, <3>1
  <2>3. ends[n] = a + Len(line) + 1 /\ text[ends[n]] = LF
    BY <1>n, <2>a DEF LinesAt
  <2>4. \A j \in 1..Len(line) : text[a + j] = line[j]
    BY <1>n, <2>a DEF LinesAt
  <2>5. ends[n] <= Len(text)
    <3>1. \A i, j \in 0..N : i < j => ends[i] < ends[j]
      BY <1>2, <1>3, Grows
    <3>2. n = N \/ n < N
      BY <1>2
    <3>3. ends[n] <= ends[N]
      BY <2>2, <3>1, <3>2
    <3> QED BY <1>2, <2>2, <3>3
  <2>6. s \in Seq(C) /\ Len(s) = Len(text) - a /\ \A j \in 1..Len(text) - a : s[j] = text[a + j]
    <3>1. a + 1 \in 1..Len(text) /\ \A i \in a + 1..Len(text) : i \in DOMAIN text
      BY <1>2, <2>1, <2>2, <2>3, <2>5, LenProperties
    <3>2. \A i \in a + 1..Len(text) : text[i] \in C
      BY <3>1, LenProperties
    <3>3. /\ SubSeq(text, a + 1, Len(text)) \in Seq(C)
          /\ Len(SubSeq(text, a + 1, Len(text))) = Len(text) - a
          /\ \A j \in 1..Len(text) - a : SubSeq(text, a + 1, Len(text))[j] = text[a + j]
      BY <1>2, <2>2, <3>1, <3>2
    <3> QED BY <2>a, <3>3
  <2>7. Len(line) <= Len(s) /\ \A j \in 1..Len(line) : s[j] = line[j]
    BY <1>2, <2>1, <2>2, <2>3, <2>4, <2>5, <2>6, SMTT(30)
  <2>8. s[Len(line) + 1] = LF
    BY <1>2, <2>1, <2>2, <2>3, <2>5, <2>6
  <2>9. Strtok(s, {LF}).token = line
    <3>1. \A j \in 1..Len(line) : s[j] = line[j] /\ line[j] \notin {LF}
      BY <2>1, <2>7
    <3>2. s[Len(line) + 1] \in {LF}
      BY <2>8
    <3>3. s \in Seq(C) /\ line \in Seq(C) /\ line # <<>> /\ Len(line) <= Len(s)
      BY <2>1, <2>6, <2>7
    <3> PICK D : D = {LF}
      OBVIOUS
    <3>4. (\A j \in 1..Len(line) : s[j] = line[j] /\ line[j] \notin D) /\ s[Len(line) + 1] \in D
      BY <3>1, <3>2
    <3>5. Strtok(s, D).token = line
      BY <3>3, <3>4, StrtokAt
    <3> QED BY <3>5
  <2> QED BY <2>9, <2>a
<1>6. Lines(text) = [n \in 1..N |-> lines[n]]
  BY <1>1, <1>4, <1>5
<1>7. lines = [n \in 1..N |-> lines[n]]
  BY <1>n, LenProperties
<1> QED BY <1>6, <1>7

\* Of what a line or a text has none.
LEMMA LacksEach ==
    ASSUME NEW C, NEW s \in Seq(C), NEW D
    PROVE  Lacks(s, D) <=> \A i \in 1..Len(s) : s[i] \notin D
<1>1. Range(s) = {s[i] : i \in 1..Len(s)}
  BY RangeEquality
<1> QED BY <1>1 DEF Lacks

\* Two strings joined lack what both lack.
LEMMA LacksBoth ==
    ASSUME NEW C, NEW s \in Seq(C), NEW t \in Seq(C), NEW D
    PROVE  Lacks(s \o t, D) <=> Lacks(s, D) /\ Lacks(t, D)
<1>1. Range(s \o t) = Range(s) \cup Range(t)
  BY RangeConcatenation
<1> QED BY <1>1 DEF Lacks

\* A string of one character lacks every other.
LEMMA LacksOne ==
    ASSUME NEW C, NEW c \in C, NEW D
    PROVE  Lacks(<<c>>, D) <=> c \notin D
<1>1. <<c>> \in Seq(C) /\ Len(<<c>>) = 1 /\ <<c>>[1] = c
  OBVIOUS
<1>2. \A i : i \in 1..1 <=> i = 1
  OBVIOUS
<1>3. PICK s : s = <<c>>
  OBVIOUS
<1>4. Lacks(s, D) <=> \A i \in 1..Len(s) : s[i] \notin D
  BY <1>1, <1>3, LacksEach
<1> QED BY <1>1, <1>2, <1>3, <1>4

\* No line of a text that LinesAt describes is blank.
LEMMA NoBlankLine ==
    ASSUME NEW C, NEW text \in Seq(C), NEW lines \in Seq(Seq(C)), NEW ends,
           LinesAt(text, lines, ends), Len(text) = ends[Len(lines)], Len(lines) # 0
    PROVE  /\ text # <<>> /\ text[1] # LF
           /\ \A k \in 2..Len(text) : ~(text[k] = LF /\ text[k - 1] = LF)
<1>n. PICK N : N = Len(lines)
  OBVIOUS
<1>1. N \in Nat /\ N # 0 /\ Len(text) \in Nat /\ ends \in [0..N -> Nat] /\ ends[0] = 0 /\ Len(text) = ends[N]
  BY <1>n, LenProperties DEF LinesAt
<1>2. ASSUME NEW n \in 1..N
      PROVE  /\ ends[n - 1] \in Nat /\ Len(lines[n]) \in Nat /\ Len(lines[n]) > 0
             /\ ends[n] = ends[n - 1] + Len(lines[n]) + 1
             /\ \A j \in 1..Len(lines[n]) : text[ends[n - 1] + j] # LF
  <2>1. n - 1 \in 0..N
    BY <1>1
  <2>2. ends[n - 1] \in Nat
    BY <1>1, <2>1
  <2>3. lines[n] \in Seq(C) /\ lines[n] # <<>>
    BY <1>n, ElementOfSeq DEF LinesAt
  <2>4. Len(lines[n]) \in Nat /\ Len(lines[n]) > 0
    BY <2>3, EmptySeq
  <2>5. \A j \in 1..Len(lines[n]) : text[ends[n - 1] + j] = lines[n][j] /\ lines[n][j] # LF
    BY <1>n DEF LinesAt
  <2> QED BY <1>n, <2>2, <2>4, <2>5 DEF LinesAt
<1>3. Len(text) > 0 /\ text[1] # LF
  <2>1. 1 \in 1..N /\ ends[1 - 1] = 0
    BY <1>1
  <2>2. 1 \in 1..Len(lines[1]) /\ ends[1 - 1] + 1 = 1
    BY <1>2, <2>1
  <2>3. text[1] # LF
    BY <1>2, <2>1, <2>2
  <2>4. ends[N] # 0
    <3>1. N \in 1..N
      BY <1>1
    <3>2. ends[N - 1] \in Nat /\ Len(lines[N]) \in Nat /\ ends[N] = ends[N - 1] + Len(lines[N]) + 1
      BY <1>2, <3>1
    <3> QED BY <3>2
  <2> QED BY <1>1, <2>3, <2>4
<1>p. \A a, l, k \in Nat : a < k /\ k < a + l + 1 => k - a \in 1..l /\ a + (k - a) = k
  OBVIOUS
<1>4. ASSUME NEW k \in 2..Len(text) PROVE ~(text[k] = LF /\ text[k - 1] = LF)
  <2>1. k \in 1..ends[N] /\ k \in Nat
    BY <1>1
  <2>2. PICK n \in 1..N : ends[n - 1] < k /\ k <= ends[n]
    BY <1>1, <2>1, InSomeLine
  <2>3. /\ ends[n - 1] \in Nat /\ Len(lines[n]) \in Nat /\ Len(lines[n]) > 0
        /\ ends[n] = ends[n - 1] + Len(lines[n]) + 1
    BY <1>2
  <2>4. CASE k < ends[n]
    <3>1. k - ends[n - 1] \in 1..Len(lines[n]) /\ ends[n - 1] + (k - ends[n - 1]) = k
      BY <1>p, <2>1, <2>2, <2>3, <2>4
    <3> QED BY <1>2, <3>1
  <2>5. CASE k = ends[n]
    <3>1. Len(lines[n]) \in 1..Len(lines[n]) /\ ends[n - 1] + Len(lines[n]) = k - 1
      BY <2>3, <2>5
    <3> QED BY <1>2, <3>1
  <2>6. k < ends[n] \/ k = ends[n]
    <3>1. k \in Int /\ ends[n] \in Int /\ k <= ends[n]
      BY <2>1, <2>2, <2>3, SMTT(30)
    <3>2. \A x, y \in Int : x <= y => x < y \/ x = y
      OBVIOUS
    <3> QED BY <3>1, <3>2
  <2> QED BY <2>4, <2>5, <2>6
<1>5. text # <<>>
  BY <1>3
<1> QED BY <1>3, <1>4, <1>5

----------------------------------------------------------------------------
\* What is sent

LineOf(m) == m.method \o <<" ">> \o m.uri \o <<" ">> \o m.http_version
\* A header, without its line end; all of them; and all with their line ends.
HeaderLine(h) == h.key \o h.colon \o h.value
HeaderLines(m) == [i \in DOMAIN m.headers |-> HeaderLine(m.headers[i])]
HeaderBlock(m) == FlattenSeq([i \in DOMAIN m.headers |-> HeaderText(m.headers[i], m.eol)])

\* A message of the kind the parser is made for is its line, the lines of its
\* headers, a line end and its body, and no line of it is blank.
LEMMA LineSent ==
    ASSUME NEW m \in Messages, Intended(m)
    PROVE  LineOf(m) \in Texts /\ LineOf(m) # <<>> /\ Lacks(LineOf(m), {LF})
<1>a. PICK a, b, u, sp : a = m.method /\ b = m.uri /\ u = m.http_version /\ sp = <<Space>>
  OBVIOUS
<1>1. a \in Texts /\ b \in Texts /\ u \in Texts
  <2>1. m \in RequestText
    BY HTTPServerAssumption DEF HTTPServerAssumption, Messages
  <2> QED BY <1>a, <2>1, StringsAreTexts DEF RequestText
<1>2. sp \in Texts /\ Lacks(sp, {LF})
  <2>1. Space \in Characters \cup {Space} /\ Space \notin {LF}
    BY DEF Space, LF
  <2> PICK C : C = Characters \cup {Space}
    OBVIOUS
  <2>2. sp \in Seq(C)
    BY <1>a, <2>1
  <2>3. Lacks(<<Space>>, {LF})
    BY <2>1, LacksOne
  <2> QED BY <1>a, <2>2, <2>3 DEF Texts
<1>3. a # <<>> /\ Lacks(a, {LF}) /\ Lacks(b, {LF}) /\ Lacks(u, {LF})
  BY <1>a DEF Intended, PlainLine, Lacks, NULL
<1>4. LineOf(m) = (((a \o sp) \o b) \o sp) \o u
  BY <1>a DEF LineOf, Space
<1>5. /\ \A s, t \in Texts : s \o t \in Texts /\ (Lacks(s \o t, {LF}) <=> Lacks(s, {LF}) /\ Lacks(t, {LF}))
      /\ \A s, t \in Texts : s # <<>> => s \o t # <<>>
  <2>1. \A s, t \in Texts : Lacks(s \o t, {LF}) <=> Lacks(s, {LF}) /\ Lacks(t, {LF})
    BY LacksBoth DEF Texts
  <2>2. \A s, t \in Texts : s # <<>> => s \o t # <<>>
    BY ConcatEqualIffEmpty DEF Texts
  <2> QED BY <2>1, <2>2, Joined
<1>6. /\ a \o sp \in Texts /\ (a \o sp) \o b \in Texts /\ ((a \o sp) \o b) \o sp \in Texts
      /\ (((a \o sp) \o b) \o sp) \o u \in Texts
  BY <1>1, <1>2, <1>5
<1>7. Lacks((((a \o sp) \o b) \o sp) \o u, {LF})
  BY <1>1, <1>2, <1>3, <1>5, <1>6
<1>8. (((a \o sp) \o b) \o sp) \o u # <<>>
  BY <1>1, <1>2, <1>3, <1>5, <1>6
<1> QED BY <1>4, <1>6, <1>7, <1>8

\* What is in a sequence of two, of one and of none.
LEMMA ShortSequences ==
    ASSUME NEW c, NEW d
    PROVE  /\ \A j \in 1..Len(<<c, d>>) : <<c, d>>[j] \in {c, d}
           /\ \A j \in 1..Len(<<c>>) : <<c>>[j] \in {c, d}
           /\ \A j \in 1..Len(<<>>) : <<>>[j] \in {c, d}
<1>1. \A j \in 1..2 : j = 1 \/ j = 2
  OBVIOUS
<1>2. \A j \in 1..1 : j = 1
  OBVIOUS
<1>3. Len(<<c, d>>) = 2 /\ <<c, d>>[1] = c /\ <<c, d>>[2] = d
  OBVIOUS
<1>4. Len(<<c>>) = 1 /\ <<c>>[1] = c /\ Len(<<>>) = 0 /\ 1..0 = {}
  OBVIOUS
<1> QED BY <1>1, <1>2, <1>3, <1>4

\* A header of such a message is a line.
LEMMA HeaderSent ==
    ASSUME NEW m \in Messages, Intended(m), NEW i \in DOMAIN m.headers
    PROVE  LET line == HeaderLine(m.headers[i])
           IN  /\ line \in Texts /\ line # <<>> /\ Lacks(line, {LF})
               /\ HeaderText(m.headers[i], m.eol) = line \o <<LF>> /\ <<LF>> \in Texts
<1>a. PICK h : h = m.headers[i]
  OBVIOUS
<1>1. /\ h.key \in Strings /\ h.colon \in Strings /\ h.value \in Strings
      /\ m.eol \in Strings /\ m.eol = <<LF>>
  <2>1. PICK H : H = [key : Strings, colon : Strings, value : Strings]
    OBVIOUS
  <2>2. m.headers \in Seq(H) /\ m.eol \in Strings
    <3>1. m \in RequestText
      BY HTTPServerAssumption DEF HTTPServerAssumption, Messages
    <3> QED BY <2>1, <3>1 DEF RequestText
  <2>3. h \in H
    BY <1>a, <2>2
  <2> QED BY <2>1, <2>2, <2>3 DEF Intended
<1>2. h.key \in Texts /\ h.colon \in Texts /\ h.value \in Texts /\ m.eol \in Texts
  BY <1>1, StringsAreTexts
<1>3. h.key # <<>> /\ Lacks(h.key, {LF}) /\ Lacks(h.value, {LF}) /\ Lacks(h.colon, {LF})
  <2>1. PlainHeader(h)
    BY <1>a DEF Intended
  <2>2. h.key # <<>> /\ Lacks(h.key, {LF}) /\ Lacks(h.value, {LF})
    BY <2>1 DEF PlainHeader, Lacks, NULL
  <2>3. h.colon \in {<<":", " ">>, <<":">>, <<>>}
    BY <2>1 DEF PlainHeader
  <2>4. Lacks(h.colon, {LF})
    <3>1. ":" # LF /\ " " # LF
      BY DEF LF
    <3>2. \A j \in 1..Len(h.colon) : h.colon[j] \notin {LF}
      <4> PICK c, s : c = ":" /\ s = " "
        OBVIOUS
      <4>1. h.colon \in {<<c, s>>, <<c>>, <<>>} /\ c # LF /\ s # LF
        BY <2>3, <3>1
      <4>c. PICK colon : colon = h.colon
        OBVIOUS
      <4>2. \A j \in 1..Len(colon) : colon[j] \in {c, s}
        <5>1. CASE colon = <<c, s>>
          BY <5>1, ShortSequences, Zenon
        <5>2. CASE colon = <<c>>
          BY <5>2, ShortSequences, Zenon
        <5>3. CASE colon = <<>>
          BY <5>3, ShortSequences, Zenon
        <5> QED BY <4>1, <4>c, <5>1, <5>2, <5>3, Zenon
      <4>3. \A j \in 1..Len(colon) : colon[j] # LF
        BY <4>1, <4>2
      <4> QED BY <4>3, <4>c
    <3> QED BY <1>2, <3>2, LacksEach DEF Texts
  <2> QED BY <2>2, <2>4
<1>5. /\ \A s, t \in Texts : s \o t \in Texts /\ (Lacks(s \o t, {LF}) <=> Lacks(s, {LF}) /\ Lacks(t, {LF}))
      /\ \A s, t \in Texts : s # <<>> => s \o t # <<>>
  <2>1. \A s, t \in Texts : Lacks(s \o t, {LF}) <=> Lacks(s, {LF}) /\ Lacks(t, {LF})
    BY LacksBoth DEF Texts
  <2>2. \A s, t \in Texts : s # <<>> => s \o t # <<>>
    BY ConcatEqualIffEmpty DEF Texts
  <2> QED BY <2>1, <2>2, Joined
<1>6. h.key \o h.colon \in Texts /\ (h.key \o h.colon) \o h.value \in Texts
  BY <1>2, <1>5
<1>7. Lacks((h.key \o h.colon) \o h.value, {LF}) /\ (h.key \o h.colon) \o h.value # <<>>
  BY <1>2, <1>3, <1>5, <1>6
<1> QED BY <1>1, <1>2, <1>6, <1>7, <1>a DEF HeaderLine, HeaderText

\* The headers are lines.
LEMMA HeadersSent ==
    ASSUME NEW m \in Messages, Intended(m)
    PROVE  /\ HeaderLines(m) \in Seq(Texts) /\ Len(HeaderLines(m)) = Len(m.headers)
           /\ Len(m.headers) \in Nat /\ Len(m.headers) # 0 /\ DOMAIN m.headers = 1..Len(m.headers)
           /\ HeaderBlock(m) \in Texts /\ <<LF>> \in Texts
           /\ \E ends : /\ LinesAt(HeaderBlock(m), HeaderLines(m), ends)
                        /\ LinesAt(HeaderBlock(m) \o <<LF>>, HeaderLines(m), ends)
                        /\ Len(HeaderBlock(m)) = ends[Len(m.headers)]
<1>n. PICK N : N = Len(m.headers)
  OBVIOUS
<1>1. N \in Nat /\ DOMAIN m.headers = 1..N /\ N # 0
  <2>1. PICK H : H = [key : Strings, colon : Strings, value : Strings]
    OBVIOUS
  <2>2. m.headers \in Seq(H)
    <3>1. m \in RequestText
      BY HTTPServerAssumption DEF HTTPServerAssumption, Messages
    <3> QED BY <2>1, <3>1 DEF RequestText
  <2>3. N \in Nat /\ DOMAIN m.headers = 1..N
    BY <1>n, <2>2, LenProperties
  <2>4. DOMAIN m.headers # {}
    BY DEF Intended
  <2>5. 1..0 = {}
    OBVIOUS
  <2> QED BY <2>3, <2>4, <2>5
<1>s. PICK lines, seqs : /\ lines = HeaderLines(m)
                         /\ seqs = [i \in 1..N |-> HeaderText(m.headers[i], m.eol)]
  OBVIOUS
<1>2. ASSUME NEW i \in 1..N
      PROVE  /\ lines[i] \in Texts /\ lines[i] # <<>> /\ Lacks(lines[i], {LF}) /\ <<LF>> \in Texts
             /\ seqs[i] = lines[i] \o <<LF>> /\ seqs[i] \in Texts
  <2>1. i \in DOMAIN m.headers
    BY <1>1
  <2>2. lines[i] = HeaderLine(m.headers[i]) /\ seqs[i] = HeaderText(m.headers[i], m.eol)
    BY <1>s, <2>1 DEF HeaderLines
  <2>3. /\ lines[i] \in Texts /\ lines[i] # <<>> /\ Lacks(lines[i], {LF})
        /\ seqs[i] = lines[i] \o <<LF>> /\ <<LF>> \in Texts
    BY <2>1, <2>2, HeaderSent
  <2> QED BY <2>3, Joined
<1>3. lines \in Seq(Texts) /\ Len(lines) = N /\ seqs \in Seq(Texts) /\ Len(seqs) = N
  <2> PICK T : T = Texts
    OBVIOUS
  <2>1. lines \in [1..N -> T] /\ seqs \in [1..N -> T]
    <3>1. lines = [i \in 1..N |-> HeaderLine(m.headers[i])]
      BY <1>1, <1>s DEF HeaderLines
    <3>2. \A i \in 1..N : lines[i] \in T /\ seqs[i] \in T
      BY <1>2
    <3> QED BY <1>s, <3>1, <3>2
  <2>2. lines \in Seq(T) /\ Len(lines) = N /\ seqs \in Seq(T) /\ Len(seqs) = N
    BY <1>1, <2>1
  <2> QED BY <2>2
<1>h. PICK hs : hs = FlattenSeq(seqs)
  OBVIOUS
<1>4. HeaderBlock(m) = hs
  BY <1>1, <1>h, <1>s DEF HeaderBlock
<1>5. PICK ends : Ends(seqs, ends) /\ At(hs, seqs, ends) /\ Len(hs) = ends[N] /\ hs \in Texts
  <2> PICK C : C = Characters \cup {Space}
    OBVIOUS
  <2>1. seqs \in Seq(Seq(C)) /\ Len(seqs) # 0
    BY <1>1, <1>3 DEF Texts
  <2>2. /\ FlattenSeq(seqs) \in Seq(C)
        /\ \E ends : Ends(seqs, ends) /\ At(FlattenSeq(seqs), seqs, ends)
                        /\ Len(FlattenSeq(seqs)) = ends[Len(seqs)]
    BY <2>1, FlattenedAt
  <2> QED BY <1>3, <1>h, <2>2 DEF Texts
<1>6. ASSUME NEW n \in 1..N
      PROVE  /\ lines[n] # <<>> /\ \A j \in 1..Len(lines[n]) : lines[n][j] # LF
             /\ ends[n] = ends[n - 1] + Len(lines[n]) + 1
             /\ \A j \in 1..Len(lines[n]) : hs[ends[n - 1] + j] = lines[n][j]
             /\ hs[ends[n]] = LF
             /\ ends[n - 1] \in Nat /\ ends[n] \in 1..Len(hs) /\ Len(lines[n]) \in Nat
  <2>a. PICK line, e : line = lines[n] /\ e = ends[n - 1]
    OBVIOUS
  <2>1. /\ line \in Texts /\ line # <<>> /\ Lacks(line, {LF}) /\ <<LF>> \in Texts
        /\ seqs[n] = line \o <<LF>>
    BY <1>2, <2>a
  <2>2. \A j \in 1..Len(line) : line[j] # LF
    <3>1. \A j \in 1..Len(line) : line[j] \notin {LF}
      BY <2>1, LacksEach DEF Texts
    <3> QED BY <3>1
  <2>3. /\ Len(line) \in Nat /\ Len(seqs[n]) = Len(line) + 1
        /\ \A j \in 1..Len(line) : seqs[n][j] = line[j]
        /\ seqs[n][Len(line) + 1] = LF
    <3>1. Len(<<LF>>) = 1 /\ <<LF>>[1] = LF
      OBVIOUS
    <3>2. /\ Len(line) \in Nat /\ Len(line \o <<LF>>) = Len(line) + Len(<<LF>>)
          /\ \A j \in 1..Len(line) : (line \o <<LF>>)[j] = line[j]
          /\ \A j \in 1..Len(<<LF>>) : (line \o <<LF>>)[Len(line) + j] = <<LF>>[j]
      BY <2>1, Joined
    <3> QED BY <2>1, <3>1, <3>2
  <2>4. /\ ends[n] = e + Len(seqs[n])
        /\ \A j \in 1..Len(seqs[n]) : hs[e + j] = seqs[n][j]
    BY <1>3, <1>5, <2>a DEF Ends, At
  <2>5. e \in Nat /\ ends \in [0..N -> Nat]
    <3>1. n - 1 \in 0..N
      BY <1>1
    <3> QED BY <1>3, <1>5, <2>a, <3>1 DEF Ends
  <2>6. ends[n] <= ends[N] /\ ends[N] \in Nat
    <3>1. ASSUME NEW k \in 1..N PROVE ends[k - 1] < ends[k]
      <4>1. lines[k] \in Texts /\ seqs[k] = lines[k] \o <<LF>> /\ <<LF>> \in Texts
        BY <1>2
      <4>2. Len(seqs[k]) = Len(lines[k]) + Len(<<LF>>) /\ Len(lines[k]) \in Nat
        BY <4>1, Joined
      <4>3. k - 1 \in 0..N
        BY <1>1
      <4>4. ends[k - 1] \in Nat /\ ends[k] = ends[k - 1] + Len(seqs[k])
        BY <1>3, <1>5, <2>5, <4>3 DEF Ends
      <4>5. Len(<<LF>>) = 1
        OBVIOUS
      <4> QED BY <4>2, <4>4, <4>5
    <3>2. \A i, j \in 0..N : i < j => ends[i] < ends[j]
      BY <1>1, <2>5, <3>1, Grows
    <3>3. n \in 0..N /\ N \in 0..N /\ (n = N \/ n < N)
      BY <1>1
    <3>4. ends[n] \in Nat /\ ends[N] \in Nat
      BY <2>5, <3>3
    <3> QED BY <3>2, <3>3, <3>4
  <2>7. ends[n] = e + Len(line) + 1 /\ hs[ends[n]] = LF
    <3>1. Len(line) + 1 \in 1..Len(seqs[n])
      BY <2>3
    <3>2. hs[e + (Len(line) + 1)] = LF
      BY <2>3, <2>4, <3>1
    <3>3. ends[n] = e + (Len(line) + 1) /\ e + (Len(line) + 1) = e + Len(line) + 1
      BY <2>3, <2>4, <2>5
    <3> QED BY <3>2, <3>3
  <2>8. \A j \in 1..Len(line) : hs[e + j] = line[j]
    BY <2>3, <2>4
  <2>9. ends[n] \in 1..Len(hs)
    BY <1>5, <2>3, <2>5, <2>6, <2>7
  <2> QED BY <2>1, <2>2, <2>3, <2>5, <2>7, <2>8, <2>9, <2>a
<1>7. ends \in [0..N -> Nat] /\ ends[0] = 0
  BY <1>3, <1>5 DEF Ends
<1>8. hs[Len(hs)] = LF /\ Len(hs) \in Nat
  <2>1. N \in 1..N
    BY <1>1
  <2> QED BY <1>5, <1>6, <1>7, <2>1
<1>9. LinesAt(hs, lines, ends)
  BY <1>3, <1>5, <1>6, <1>7, <1>8 DEF LinesAt
<1>e. PICK t : t = hs \o <<LF>>
  OBVIOUS
<1>10. /\ Len(t) = Len(hs) + 1 /\ t[Len(hs) + 1] = LF /\ \A j \in 1..Len(hs) : t[j] = hs[j]
  <2>1. Len(<<LF>>) = 1 /\ <<LF>>[1] = LF /\ <<LF>> \in Texts
    <3>1. 1 \in 1..N
      BY <1>1
    <3> QED BY <1>2, <3>1
  <2>2. /\ Len(hs \o <<LF>>) = Len(hs) + Len(<<LF>>)
        /\ \A j \in 1..Len(hs) : (hs \o <<LF>>)[j] = hs[j]
        /\ \A j \in 1..Len(<<LF>>) : (hs \o <<LF>>)[Len(hs) + j] = <<LF>>[j]
    BY <1>5, <2>1, Joined
  <2> QED BY <1>e, <2>1, <2>2
<1>11. LinesAt(t, lines, ends)
  <2>1. ASSUME NEW n \in 1..N
        PROVE  /\ \A j \in 1..Len(lines[n]) : t[ends[n - 1] + j] = lines[n][j]
               /\ t[ends[n]] = LF
    <3>1. ends[n] \in 1..Len(hs) /\ \A j \in 1..Len(lines[n]) : ends[n - 1] + j \in 1..Len(hs)
      BY <1>6, <1>8
    <3> QED BY <1>6, <1>10, <3>1
  <2>2. Len(t) = ends[N] + 1 /\ t[Len(t)] = LF
    BY <1>5, <1>10
  <2> QED BY <1>3, <1>6, <1>7, <2>1, <2>2 DEF LinesAt
<1>12. <<LF>> \in Texts
  <2>1. 1 \in 1..N
    BY <1>1
  <2> QED BY <1>2, <2>1
<1> QED BY <1>1, <1>3, <1>4, <1>5, <1>9, <1>11, <1>12, <1>e, <1>n, <1>s

\* What two joined sequences are.
LEMMA JoinedIn ==
    ASSUME NEW C, NEW s \in Seq(C), NEW t \in Seq(C)
    PROVE  /\ s \o t \in Seq(C)
           /\ Len(s) \in Nat /\ Len(t) \in Nat /\ Len(s \o t) = Len(s) + Len(t)
           /\ \A i \in 1..Len(s) : (s \o t)[i] = s[i]
           /\ \A i \in 1..Len(t) : (s \o t)[Len(s) + i] = t[i]
OBVIOUS

\* No two line ends stand behind each other.
NoBlank(t) == \A k \in 2..Len(t) : ~(t[k] = LF /\ t[k - 1] = LF)

\* Two texts joined have no blank line when neither has one and one of the ends
\* that meet is no line end.
LEMMA NoBlankJoined ==
    ASSUME NEW B, NEW s \in Seq(B), NEW t \in Seq(B), NoBlank(s), NoBlank(t),
           s # <<>>, t # <<>>, s[Len(s)] # LF \/ t[1] # LF
    PROVE  NoBlank(s \o t)
<1>r. PICK r : r = s \o t
  OBVIOUS
<1>1. /\ Len(s) \in Nat /\ Len(t) \in Nat /\ Len(s) > 0 /\ Len(t) > 0
      /\ Len(r) = Len(s) + Len(t)
      /\ \A i \in 1..Len(s) : r[i] = s[i]
      /\ \A i \in 1..Len(t) : r[Len(s) + i] = t[i]
  <2>1. Len(s) \in Nat \ {0} /\ Len(t) \in Nat \ {0}
    BY EmptySeq
  <2> QED BY <2>1, <1>r
<1>2. ASSUME NEW k \in 2..Len(r), r[k] = LF, r[k - 1] = LF PROVE FALSE
  <2>1. CASE k <= Len(s)
    <3>1. k \in 2..Len(s) /\ k \in 1..Len(s) /\ k - 1 \in 1..Len(s)
      BY <1>1, <2>1
    <3> QED BY <1>1, <1>2, <3>1 DEF NoBlank
  <2>2. CASE k = Len(s) + 1
    <3>1. k - 1 = Len(s) /\ Len(s) \in 1..Len(s) /\ 1 \in 1..Len(t)
      BY <1>1, <2>2
    <3> QED BY <1>1, <1>2, <2>2, <3>1
  <2>3. CASE k > Len(s) + 1
    <3>1. /\ k - Len(s) \in 2..Len(t) /\ k - Len(s) \in 1..Len(t) /\ (k - Len(s)) - 1 \in 1..Len(t)
          /\ Len(s) + (k - Len(s)) = k /\ Len(s) + ((k - Len(s)) - 1) = k - 1
      BY <1>1, <2>3
    <3>2. t[k - Len(s)] = LF /\ t[(k - Len(s)) - 1] = LF
      BY <1>1, <1>2, <3>1
    <3> QED BY <3>1, <3>2 DEF NoBlank
  <2>4. k \in Int /\ Len(s) \in Int
    BY <1>1
  <2> QED BY <2>1, <2>2, <2>3, <2>4
<1> QED BY <1>2, <1>r DEF NoBlank

\* The line end that a text without blank lines is followed by is marked, if more
\* follows it.
LEMMA BlankLineMarked ==
    ASSUME NEW B, NEW head \in Seq(B), NEW rest \in Seq(B), LF \in B, NEW bar \in B, bar = "|",
           NoBlank(head), NoBlank(rest), head # <<>>, rest # <<>>, head[Len(head)] = LF
    PROVE  MarkBlankLines((head \o <<LF>>) \o rest) = (head \o <<bar>>) \o rest
<1>s. PICK s, t, p : /\ s = (head \o <<LF>>) \o rest /\ t = (head \o <<bar>>) \o rest
                     /\ p = Len(head) + 1
  OBVIOUS
<1>1. /\ Len(head) \in Nat /\ Len(rest) \in Nat /\ Len(head) > 0 /\ Len(rest) > 0
  <2>1. Len(head) \in Nat \ {0} /\ Len(rest) \in Nat \ {0}
    BY EmptySeq
  <2> QED BY <2>1
<1>2. ASSUME NEW c \in B
      PROVE  LET r == (head \o <<c>>) \o rest
             IN  /\ r \in Seq(B) /\ Len(r) = p + Len(rest)
                 /\ \A i \in 1..Len(head) : r[i] = head[i]
                 /\ r[p] = c
                 /\ \A i \in 1..Len(rest) : r[p + i] = rest[i]
  <2>h. PICK h, r : h = head \o <<c>> /\ r = h \o rest
    OBVIOUS
  <2>1. /\ <<c>> \in Seq(B) /\ h \in Seq(B) /\ Len(h) = p /\ h[p] = c
        /\ \A i \in 1..Len(head) : h[i] = head[i]
    BY <1>1, <1>s, <2>h
  <2>2. /\ r \in Seq(B) /\ Len(r) = Len(h) + Len(rest)
        /\ \A i \in 1..Len(h) : r[i] = h[i]
        /\ \A i \in 1..Len(rest) : r[Len(h) + i] = rest[i]
    <3>1. h \in Seq(B) /\ r = h \o rest
      BY <2>1, <2>h
    <3> QED BY <3>1, JoinedIn
  <2>3. p \in 1..p /\ \A i \in 1..Len(head) : i \in 1..p
    BY <1>1, <1>s
  <2> QED BY <2>1, <2>2, <2>3, <2>h
<1>3. /\ s \in Seq(B) /\ Len(s) = p + Len(rest) /\ s[p] = LF
      /\ \A i \in 1..Len(head) : s[i] = head[i]
      /\ \A i \in 1..Len(rest) : s[p + i] = rest[i]
  BY <1>2, <1>s
<1>4. /\ t \in Seq(B) /\ Len(t) = p + Len(rest) /\ t[p] = bar
      /\ \A i \in 1..Len(head) : t[i] = head[i]
      /\ \A i \in 1..Len(rest) : t[p + i] = rest[i]
  BY <1>2, <1>s
<1>5. p \in Nat /\ p \in 2..Len(s) /\ p < Len(s) /\ s[p - 1] = LF
  <2>1. p \in Nat /\ p \in 2..Len(s) /\ p < Len(s) /\ p - 1 = Len(head) /\ Len(head) \in 1..Len(head)
    BY <1>1, <1>3, <1>s
  <2> QED BY <1>3, <2>1
<1>6. ASSUME NEW i \in 2..Len(s), s[i] = LF, s[i - 1] = LF, i \notin {p, p + 1} PROVE FALSE
  <2>1. CASE i < p
    <3>1. i \in 2..Len(head) /\ i \in 1..Len(head) /\ i - 1 \in 1..Len(head)
      BY <1>1, <1>s, <2>1
    <3> QED BY <1>3, <1>6, <3>1 DEF NoBlank
  <2>2. CASE i > p + 1
    <3>1. /\ i - p \in 2..Len(rest) /\ i - p \in 1..Len(rest) /\ (i - p) - 1 \in 1..Len(rest)
          /\ p + (i - p) = i /\ p + ((i - p) - 1) = i - 1
      BY <1>1, <1>3, <1>5, <2>2
    <3>2. rest[i - p] = LF /\ rest[(i - p) - 1] = LF
      BY <1>3, <1>6, <3>1
    <3> QED BY <3>1, <3>2 DEF NoBlank
  <2> QED BY <1>5, <1>6, <2>1, <2>2
<1>m. PICK marked : marked = MarkBlankLines(s)
  OBVIOUS
<1>7. marked = [i \in 1..Len(s) |-> IF i = p THEN "|" ELSE s[i]]
  <2>1. \A i \in 2..Len(s) : s[i] = LF /\ s[i - 1] = LF => i \in {p, p + 1}
    BY <1>6
  <2> QED BY <1>3, <1>5, <1>m, <2>1, MarkedOnce
<1>8. \A i \in 1..Len(s) : t[i] = IF i = p THEN bar ELSE s[i]
  <2> SUFFICES ASSUME NEW i \in 1..Len(s) PROVE t[i] = IF i = p THEN bar ELSE s[i]
    OBVIOUS
  <2>1. CASE i < p
    <3>1. i \in 1..Len(head)
      BY <1>1, <1>s, <2>1
    <3> QED BY <1>3, <1>4, <2>1, <3>1
  <2>2. CASE i = p
    BY <1>4, <2>2
  <2>3. CASE i > p
    <3>1. i - p \in 1..Len(rest) /\ p + (i - p) = i
      BY <1>1, <1>3, <1>5, <2>3
    <3> QED BY <1>3, <1>4, <2>3, <3>1
  <2> QED BY <1>5, <2>1, <2>2, <2>3
<1>9. marked \in Seq(B) /\ Len(marked) = Len(s) /\ \A i \in 1..Len(s) : marked[i] = t[i]
  <2> PICK n : n = Len(s)
    OBVIOUS
  <2>1. n \in Nat /\ t \in [1..n -> B]
    BY <1>3, <1>4, LenProperties
  <2>2. marked = [i \in 1..n |-> t[i]]
    BY <1>7, <1>8
  <2>3. marked \in [1..n -> B]
    BY <2>1, <2>2
  <2>4. \A r \in [1..n -> B] : r \in Seq(B) /\ Len(r) = n
    BY <2>1
  <2> QED BY <2>2, <2>3, <2>4
<1>10. marked = t
  BY <1>3, <1>4, <1>9, SeqEqual
<1> QED BY <1>10, <1>m, <1>s

\* If nothing follows it, nothing is marked.
LEMMA NothingMarked ==
    ASSUME NEW B, NEW head \in Seq(B), LF \in B, NoBlank(head)
    PROVE  MarkBlankLines(head \o <<LF>>) = head \o <<LF>>
<1>s. PICK s : s = head \o <<LF>>
  OBVIOUS
<1>1. /\ s \in Seq(B) /\ Len(head) \in Nat /\ Len(s) = Len(head) + 1
      /\ \A i \in 1..Len(head) : s[i] = head[i]
  BY <1>s
<1>2. ASSUME NEW i \in 2..Len(s), s[i] = LF, s[i - 1] = LF, i # Len(s) PROVE FALSE
  <2>1. i \in 2..Len(head) /\ i \in 1..Len(head) /\ i - 1 \in 1..Len(head)
    BY <1>1, <1>2
  <2> QED BY <1>1, <1>2, <2>1 DEF NoBlank
<1> QED BY <1>1, <1>2, <1>s, MarkedNever

\* Where the parentheses are does not matter.
LEMMA Associated ==
    ASSUME NEW B, NEW x \in Seq(B), NEW y \in Seq(B), NEW z \in Seq(B)
    PROVE  (x \o y) \o z = x \o (y \o z) /\ y \o z \in Seq(B)
BY ConcatAssociative

\* The same as an operator: the provers rewrite it faster when it is one name.
Regrouped(x, y, z) == (x \o y) \o z = x \o (y \o z)

\* Every three sequences can be regrouped.
LEMMA Regroup ==
    ASSUME NEW B, NEW x \in Seq(B), NEW y \in Seq(B), NEW z \in Seq(B)
    PROVE  Regrouped(x, y, z)
BY Associated DEF Regrouped

\* The first line of a text.
LEMMA FirstLine ==
    ASSUME NEW B, LF \in B, NEW line \in Seq(B), NEW rest \in Seq(B), line # <<>>,
           \A i \in 1..Len(line) : line[i] # LF
    PROVE  /\ Strtok((line \o <<LF>>) \o rest, {LF}).token = line
           /\ Strtok((line \o <<LF>>) \o rest, {LF}).rest = rest
<1> PICK lf, D : lf = LF /\ D = {LF}
  OBVIOUS
<1>1. lf \in B /\ lf \in D /\ \A i \in 1..Len(line) : line[i] \notin D
  OBVIOUS
<1>2. Strtok((line \o <<lf>>) \o rest, D).token = line /\ Strtok((line \o <<lf>>) \o rest, D).rest = rest
  BY <1>1, StrtokFirst
<1> QED BY <1>2

\* No character of s is one of D.
Each(s, D) == \A i \in 1..Len(s) : s[i] \notin D

\* Split is three calls of strtok.
LEMMA SplitBy ==
    ASSUME NEW s, NEW first, NEW upper,
           first = Strtok(MarkBlankLines(s), {LF}), upper = Strtok(first.rest, {"|"})
    PROVE  Split(s) = [line |-> first.token, fields |-> upper.token,
                       body |-> Strtok(upper.rest, {"|"}).token]
BY Zenon DEF Split

\* What Split is to make of a text of a line, lines and a body.
SplitAs(line, block, rest) ==
    Split((((line \o <<LF>>) \o block) \o <<LF>>) \o rest) =
      [line |-> line, fields |-> IF rest = <<>> THEN block \o <<LF>> ELSE block, body |-> rest]

\* A text of a line, of lines that are not blank and of a body is taken apart at
\* the blank line before the body.
LEMMA SplitIs ==
    ASSUME NEW B, LF \in B, NEW bar \in B, bar = "|",
           NEW line \in Seq(B), line # <<>>, Each(line, {LF, bar}),
           NEW block \in Seq(B), block # <<>>, Each(block, {bar}), NoBlank(block),
           block[1] # LF, block[Len(block)] = LF,
           NEW body1 \in Seq(B), Each(body1, {bar}), NoBlank(body1)
    PROVE  SplitAs(line, block, body1)
<1>s. PICK s, lf, head : /\ lf = <<LF>> /\ head = (line \o lf) \o block
                         /\ s = (head \o lf) \o body1
  OBVIOUS
<1>1. /\ Len(line) \in Nat \ {0} /\ Len(block) \in Nat \ {0}
      /\ lf \in Seq(B) /\ Len(lf) = 1 /\ lf[1] = LF /\ lf # <<>>
  <2>1. Len(line) \in Nat \ {0} /\ Len(block) \in Nat \ {0}
    BY EmptySeq
  <2> QED BY <2>1, <1>s
<1>l. PICK ln : ln = line \o lf
  OBVIOUS
<1>2. /\ ln \in Seq(B) /\ Len(ln) = Len(line) + 1 /\ ln[Len(line) + 1] = LF
      /\ \A i \in 1..Len(line) : ln[i] = line[i]
  <2>1. /\ line \o lf \in Seq(B) /\ Len(line \o lf) = Len(line) + Len(lf)
        /\ \A i \in 1..Len(line) : (line \o lf)[i] = line[i]
        /\ \A i \in 1..Len(lf) : (line \o lf)[Len(line) + i] = lf[i]
    BY <1>1, JoinedIn
  <2>2. 1 \in 1..Len(lf)
    BY <1>1
  <2> QED BY <1>1, <1>l, <2>1, <2>2
<1>i. ln \in Seq(B) /\ lf \in Seq(B)
  BY <1>1, <1>2
<1>3. \A i \in 1..Len(line) : line[i] # LF
  BY DEF Each
<1>4. NoBlank(ln) /\ ln # <<>>
  <2>1. \A k \in 2..Len(ln) : k - 1 \in 1..Len(line)
    BY <1>1, <1>2
  <2>2. \A k \in 2..Len(ln) : ln[k - 1] # LF
    BY <1>2, <1>3, <2>1
  <2>3. Len(ln) > 0
    BY <1>1, <1>2
  <2> QED BY <2>2, <2>3 DEF NoBlank
<1>5. head = ln \o block /\ NoBlank(head) /\ head \in Seq(B) /\ head # <<>>
      /\ head[Len(head)] = LF
  <2>1. head = ln \o block
    BY <1>l, <1>s
  <2>2. NoBlank(ln \o block)
    BY <1>2, <1>4, NoBlankJoined
  <2>3. /\ ln \o block \in Seq(B) /\ Len(ln \o block) = Len(ln) + Len(block)
        /\ \A i \in 1..Len(block) : (ln \o block)[Len(ln) + i] = block[i]
    BY <1>i, JoinedIn
  <2>4. Len(block) \in 1..Len(block) /\ Len(ln) + Len(block) > 0
    BY <1>1, <1>2
  <2> QED BY <2>1, <2>2, <2>3, <2>4
<1>6. CASE body1 # <<>>
  <2>b. PICK br, rest : br = <<bar>> /\ rest = (block \o br) \o body1
    OBVIOUS
  <2>1. br \in Seq(B)
    BY <2>b
  <2>2. MarkBlankLines(s) = (head \o br) \o body1
    BY <1>5, <1>6, <1>s, <2>b, BlankLineMarked
  <2>3. (head \o br) \o body1 = ln \o rest /\ rest \in Seq(B)
    <3>1. (ln \o block) \o br = ln \o (block \o br) /\ block \o br \in Seq(B)
      BY <1>i, <2>1, Associated
    <3>x. PICK x : x = block \o br
      OBVIOUS
    <3>i. x \in Seq(B)
      BY <3>1, <3>x
    <3>2. (ln \o x) \o body1 = ln \o (x \o body1) /\ x \o body1 \in Seq(B)
      BY <1>i, <3>i, Associated
    <3> QED BY <1>5, <2>b, <3>1, <3>2, <3>x
  <2>4. MarkBlankLines(s) = (line \o <<LF>>) \o rest
    BY <1>l, <1>s, <2>2, <2>3
  <2>5. Strtok(MarkBlankLines(s), {LF}).token = line /\ Strtok(MarkBlankLines(s), {LF}).rest = rest
    <3>1. rest \in Seq(B)
      BY <2>3
    <3>2. Strtok((line \o <<LF>>) \o rest, {LF}).token = line /\ Strtok((line \o <<LF>>) \o rest, {LF}).rest = rest
      BY <1>3, <3>1, FirstLine
    <3> QED BY <2>4, <3>2
  <2>6. Strtok(rest, {bar}).token = block /\ Strtok(rest, {bar}).rest = body1
    <3>d. PICK D : D = {bar}
      OBVIOUS
    <3>1. bar \in D /\ \A i \in 1..Len(block) : block[i] \notin D
      BY <3>d DEF Each
    <3>2. /\ Strtok((block \o <<bar>>) \o body1, D).token = block
          /\ Strtok((block \o <<bar>>) \o body1, D).rest = body1
      BY <3>1, StrtokFirst
    <3> QED BY <2>b, <3>d, <3>2
  <2>7. Strtok(body1, {bar}).token = body1
    <3>1. \A i \in 1..Len(body1) : body1[i] \notin {bar}
      BY DEF Each
    <3> QED BY <1>6, <3>1, StrtokLast
  <2>8. Split(s) = [line |-> line, fields |-> block, body |-> body1]
    <3>f. PICK first, upper : first = Strtok(MarkBlankLines(s), {LF}) /\ upper = Strtok(first.rest, {bar})
      OBVIOUS
    <3>1. Split(s) = [line |-> first.token, fields |-> upper.token, body |-> Strtok(upper.rest, {bar}).token]
      BY <3>f, SplitBy, Zenon
    <3>2. first.token = line /\ first.rest = rest
      BY <2>5, <3>f
    <3>3. upper.token = block /\ upper.rest = body1
      BY <2>6, <3>2, <3>f
    <3> QED BY <2>7, <3>1, <3>2, <3>3
  <2> QED BY <1>6, <1>s, <2>8 DEF SplitAs
<1>7. CASE body1 = <<>>
  <2>b. PICK rest : rest = block \o lf
    OBVIOUS
  <2>1. s = head \o lf /\ rest \in Seq(B)
    <3>1. head \o lf \in Seq(B) /\ block \o lf \in Seq(B)
      BY <1>1, <1>5, JoinedIn
    <3>2. (head \o lf) \o <<>> = head \o lf
      BY <3>1, ConcatEmptySeq
    <3> QED BY <1>7, <1>s, <2>b, <3>1, <3>2
  <2>2. MarkBlankLines(s) = s
    BY <1>5, <1>s, <2>1, NothingMarked
  <2>3. s = (line \o <<LF>>) \o rest
    <3>1. (ln \o block) \o lf = ln \o (block \o lf)
      BY <1>i, ConcatAssociative, SMTT(30)
    <3> QED BY <1>5, <1>l, <1>s, <2>1, <2>b, <3>1
  <2>4. Strtok(s, {LF}).token = line /\ Strtok(s, {LF}).rest = rest
    <3>1. rest \in Seq(B)
      BY <2>1
    <3>2. Strtok((line \o <<LF>>) \o rest, {LF}).token = line /\ Strtok((line \o <<LF>>) \o rest, {LF}).rest = rest
      BY <1>3, <3>1, FirstLine
    <3> QED BY <2>3, <3>2
  <2>5. Strtok(rest, {bar}).token = rest /\ Strtok(rest, {bar}).rest = NULL
    <3>1. /\ Len(rest) = Len(block) + Len(lf)
          /\ \A i \in 1..Len(block) : rest[i] = block[i]
          /\ \A i \in 1..Len(lf) : rest[Len(block) + i] = lf[i]
      BY <1>i, <2>b, JoinedIn
    <3>2. \A i \in 1..Len(rest) : i \in 1..Len(block) \/ i = Len(block) + 1
      BY <1>1, <3>1
    <3>3. 1 \in 1..Len(lf) /\ Len(rest) # 0
      BY <1>1, <3>1
    <3>4. LF # bar
      BY DEF LF
    <3>5. \A i \in 1..Len(block) : block[i] \notin {bar}
      BY DEF Each
    <3>6. \A i \in 1..Len(rest) : rest[i] \notin {bar}
      BY <1>1, <3>1, <3>2, <3>3, <3>4, <3>5
    <3>7. rest # <<>>
      BY <3>3
    <3> QED BY <2>1, <3>6, <3>7, StrtokLast
  <2>6. Split(s) = [line |-> line, fields |-> rest, body |-> body1]
    <3>f. PICK first, upper : first = Strtok(MarkBlankLines(s), {LF}) /\ upper = Strtok(first.rest, {bar})
      OBVIOUS
    <3>1. Split(s) = [line |-> first.token, fields |-> upper.token, body |-> Strtok(upper.rest, {bar}).token]
      BY <3>f, SplitBy, Zenon
    <3>2. first.token = line /\ first.rest = rest
      BY <2>2, <2>4, <3>f
    <3>3. upper.token = rest /\ upper.rest = NULL
      BY <2>5, <3>2, <3>f
    <3>4. Strtok(NULL, {bar}).token = NULL
      BY StrtokEmpty
    <3> QED BY <1>7, <3>1, <3>2, <3>3, <3>4 DEF NULL
  <2> QED BY <1>7, <1>s, <2>6, <2>b DEF SplitAs
<1> QED BY <1>6, <1>7

----------------------------------------------------------------------------
\* How the text of an intended message is taken apart

\* The text of such a message, as its parts.
LEMMA TextIs ==
    ASSUME NEW m \in Messages, Intended(m)
    PROVE  Text[m] = (((LineOf(m) \o <<LF>>) \o HeaderBlock(m)) \o <<LF>>) \o m.body
<1>1. m.eol = <<LF>>
  BY DEF Intended
<1>2. Text[m] = (((LineOf(m) \o m.eol) \o HeaderBlock(m)) \o m.eol) \o m.body
  BY DEF Text, LineOf, HeaderBlock
<1> QED BY <1>1, <1>2

\* The body of such a message has no blank line.
LEMMA BodySent ==
    ASSUME NEW m \in Messages, Intended(m)
    PROVE  m.body \in Texts /\ NoBlank(m.body)
<1>b. PICK body1 : body1 = m.body
  OBVIOUS
<1>1. body1 \in Texts
  <2>1. m \in RequestText
    BY HTTPServerAssumption DEF HTTPServerAssumption, Messages
  <2> QED BY <1>b, <2>1, StringsAreTexts DEF RequestText
<1>2. \A i \in 1..Len(body1) - 1 : ~(body1[i] = LF /\ body1[i + 1] = LF)
  BY <1>b DEF Intended
<1>3. NoBlank(body1)
  <2>1. Len(body1) \in Nat
    BY <1>1 DEF Texts
  <2>2. \A k \in 2..Len(body1) : k - 1 \in 1..Len(body1) - 1 /\ (k - 1) + 1 = k
    BY <2>1
  <2> QED BY <1>2, <2>2 DEF NoBlank
<1> QED BY <1>1, <1>3, <1>b

\* No bar is in the parts of the text.
LEMMA NoBars ==
    ASSUME NEW m \in Messages, Intended(m), NEW bar, bar = "|"
    PROVE  Each(LineOf(m), {bar}) /\ Each(HeaderBlock(m), {bar}) /\ Each(m.body, {bar})
<1>s. PICK line, lf, block, body1 : /\ line = LineOf(m) /\ lf = <<LF>> /\ block = HeaderBlock(m)
                                    /\ body1 = m.body
  OBVIOUS
<1>1. line \in Texts /\ lf \in Texts /\ block \in Texts /\ body1 \in Texts
  BY <1>s, LineSent, HeadersSent, BodySent
<1> PICK T : T = Texts
  OBVIOUS
<1>2. line \in T /\ lf \in T /\ block \in T /\ body1 \in T
  BY <1>1
<1>3. \A s, t \in T : s \o t \in T
  BY Joined
<1>t. PICK t1, t2, t3, t4 : t1 = line \o lf /\ t2 = t1 \o block /\ t3 = t2 \o lf /\ t4 = t3 \o body1
  OBVIOUS
<1>4. t1 \in T /\ t2 \in T /\ t3 \in T /\ t4 \in T
  BY <1>2, <1>3, <1>t
<1>5. t4 = Text[m]
  <2>1. t4 = (((line \o lf) \o block) \o lf) \o body1
    BY <1>t
  <2> QED BY <1>s, <2>1, TextIs
<1>6. \A s \in T : Lacks(s, {bar}) <=> Each(s, {bar})
  BY LacksEach DEF Each, Texts
<1>7. \A s, t \in T : Lacks(s \o t, {bar}) <=> Lacks(s, {bar}) /\ Lacks(t, {bar})
  BY LacksBoth DEF Texts
<1>8. Lacks(t4, {bar})
  <2>1. ~Contains(t4, bar)
    BY <1>5 DEF Intended
  <2>2. Each(t4, {bar})
    BY <2>1 DEF Contains, Each
  <2> QED BY <1>4, <1>6, <2>2
<1>9. Lacks(t3, {bar}) /\ Lacks(body1, {bar})
  BY <1>2, <1>4, <1>7, <1>8, <1>t
<1>10. Lacks(t2, {bar})
  BY <1>2, <1>4, <1>7, <1>9, <1>t
<1>11. Lacks(t1, {bar}) /\ Lacks(block, {bar})
  BY <1>2, <1>4, <1>7, <1>10, <1>t
<1>12. Lacks(line, {bar})
  BY <1>2, <1>4, <1>7, <1>11, <1>t
<1>13. Each(line, {bar}) /\ Each(block, {bar}) /\ Each(body1, {bar})
  BY <1>2, <1>6, <1>9, <1>11, <1>12
<1> QED BY <1>13, <1>s

\* How the text of such a message is taken apart.
Fields(m) == IF m.body = <<>> THEN HeaderBlock(m) \o <<LF>> ELSE HeaderBlock(m)

\* Split gives the parts that were joined.
LEMMA SplitSent ==
    ASSUME NEW m \in Messages, Intended(m)
    PROVE  Split(Text[m]) = [line |-> LineOf(m), fields |-> Fields(m), body |-> m.body]
<1>s. PICK line, block, body1, bar : /\ line = LineOf(m) /\ block = HeaderBlock(m)
                                     /\ body1 = m.body /\ bar = "|"
  OBVIOUS
<1> PICK B : B = Characters \cup {Space} \cup {bar}
  OBVIOUS
<1>1. line \in Seq(B) /\ <<LF>> \in Seq(B) /\ block \in Seq(B) /\ body1 \in Seq(B)
  <2>1. Texts \subseteq Seq(B)
    <3>1. Characters \cup {Space} \subseteq B
      OBVIOUS
    <3> QED BY <3>1, SequencesGrow DEF Texts
  <2>2. line \in Texts /\ <<LF>> \in Texts /\ block \in Texts /\ body1 \in Texts
    BY <1>s, LineSent, HeadersSent, BodySent
  <2> QED BY <2>1, <2>2
<1>2. LF \in B /\ bar \in B
  <2>1. \A s \in Seq(B) : \A i \in 1..Len(s) : s[i] \in B
    BY ElementOfSeq
  <2>2. Len(<<LF>>) = 1 /\ <<LF>>[1] = LF /\ 1 \in 1..1
    OBVIOUS
  <2> QED BY <1>1, <2>1, <2>2
<1>3. line # <<>> /\ Each(line, {LF, bar}) /\ Each(block, {bar}) /\ Each(body1, {bar})
  <2>1. line # <<>> /\ line \in Texts /\ Lacks(line, {LF})
    BY <1>s, LineSent
  <2>2. \A i \in 1..Len(line) : line[i] \notin {LF}
    BY <2>1, LacksEach DEF Texts
  <2>3. Each(line, {bar}) /\ Each(block, {bar}) /\ Each(body1, {bar})
    BY <1>s, NoBars
  <2> QED BY <2>1, <2>2, <2>3 DEF Each
<1>4. block # <<>> /\ NoBlank(block) /\ block[1] # LF /\ block[Len(block)] = LF
  <2>1. PICK ends : LinesAt(block, HeaderLines(m), ends) /\ Len(block) = ends[Len(m.headers)]
    BY <1>s, HeadersSent
  <2>2. HeaderLines(m) \in Seq(Texts) /\ Len(HeaderLines(m)) = Len(m.headers) /\ Len(m.headers) # 0
    BY HeadersSent
  <2> PICK C : C = Characters \cup {Space}
    OBVIOUS
  <2>3. HeaderLines(m) \in Seq(Seq(C)) /\ block \in Seq(C)
    BY <1>s, <2>2, HeadersSent DEF Texts
  <2>l. PICK lines : lines = HeaderLines(m)
    OBVIOUS
  <2>4. /\ block # <<>> /\ block[1] # LF
        /\ \A k \in 2..Len(block) : ~(block[k] = LF /\ block[k - 1] = LF)
    <3>1. lines \in Seq(Seq(C)) /\ LinesAt(block, lines, ends) /\ Len(block) = ends[Len(lines)] /\ Len(lines) # 0
      BY <2>1, <2>2, <2>3, <2>l
    <3> QED BY <2>3, <3>1, NoBlankLine
  <2>5. Len(block) > 0 => block[Len(block)] = LF
    BY <2>1 DEF LinesAt
  <2>6. Len(block) > 0
    BY <2>3, <2>4, EmptySeq
  <2> QED BY <2>4, <2>5, <2>6 DEF NoBlank
<1>5. NoBlank(body1)
  BY <1>s, BodySent
<1>6. Split((((line \o <<LF>>) \o block) \o <<LF>>) \o body1) =
         [line |-> line, fields |-> IF body1 = <<>> THEN block \o <<LF>> ELSE block, body |-> body1]
  <2>1. bar = "|"
    BY <1>s
  <2>2. SplitAs(line, block, body1)
    BY <1>1, <1>2, <1>3, <1>4, <1>5, <2>1, SplitIs
  <2> QED BY <2>2 DEF SplitAs
<1>7. Text[m] = (((line \o <<LF>>) \o block) \o <<LF>>) \o body1
  BY <1>s, TextIs
<1>8. Fields(m) = IF body1 = <<>> THEN block \o <<LF>> ELSE block
  BY <1>s DEF Fields
<1> QED BY <1>6, <1>7, <1>8, <1>s, Zenon

\* The lines of the fields are the headers that were sent.
LEMMA LinesSent ==
    ASSUME NEW m \in Messages, Intended(m)
    PROVE  Lines(Fields(m)) = HeaderLines(m) /\ Fields(m) # NULL
<1>l. PICK lines, block, t : lines = HeaderLines(m) /\ block = HeaderBlock(m) /\ t = block \o <<LF>>
  OBVIOUS
<1>1. PICK ends : LinesAt(block, lines, ends) /\ LinesAt(t, lines, ends) /\ Len(block) = ends[Len(m.headers)]
  BY <1>l, HeadersSent
<1>2. lines \in Seq(Texts) /\ Len(lines) = Len(m.headers) /\ Len(lines) # 0 /\ block \in Texts /\ t \in Texts
  <2>1. lines \in Seq(Texts) /\ Len(lines) = Len(m.headers) /\ Len(lines) # 0 /\ block \in Texts
    BY <1>l, HeadersSent
  <2>2. <<LF>> \in Texts
    BY HeadersSent
  <2>3. t \in Texts
    BY <1>l, <2>1, <2>2, Joined
  <2> QED BY <2>1, <2>3
<1> PICK C : C = Characters \cup {Space}
  OBVIOUS
<1>3. lines \in Seq(Seq(C)) /\ block \in Seq(C) /\ t \in Seq(C)
  BY <1>2 DEF Texts
<1>4. Lines(block) = lines /\ Lines(t) = lines
  BY <1>1, <1>3, LinesAre
<1>5. block # <<>>
  BY <1>1, <1>2, <1>3, NoBlankLine
<1>6. t # <<>>
  <2>1. <<LF>> \in Texts
    BY HeadersSent
  <2>2. \A s, u \in Texts : s # <<>> => s \o u # <<>>
    BY ConcatEqualIffEmpty DEF Texts
  <2> QED BY <1>2, <1>5, <1>l, <2>1, <2>2
<1>7. Fields(m) \in {block, t}
  BY <1>l DEF Fields
<1> QED BY <1>4, <1>5, <1>6, <1>7, <1>l DEF NULL

\* The three strings of the request line.
LEMMA RequestLineSent ==
    ASSUME NEW m \in Messages, Intended(m)
    PROVE  /\ RequestLine(LineOf(m)) = [method |-> m.method, uri |-> m.uri, http_version |-> m.http_version]
           /\ NULL \notin {m.method, m.uri, m.http_version}
<1>a. PICK a, b, u, sp : a = m.method /\ b = m.uri /\ u = m.http_version /\ sp = <<Space>>
  OBVIOUS
<1> PICK C : C = Characters \cup {Space}
  OBVIOUS
<1>1. a \in Seq(C) /\ b \in Seq(C) /\ u \in Seq(C) /\ Space \in C /\ sp \in Seq(C)
  <2>1. m \in RequestText
    BY HTTPServerAssumption DEF HTTPServerAssumption, Messages
  <2>2. a \in Texts /\ b \in Texts /\ u \in Texts
    BY <1>a, <2>1, StringsAreTexts DEF RequestText
  <2>3. Space \in C
    OBVIOUS
  <2>4. sp \in Seq(C)
    BY <1>a, <2>3
  <2> QED BY <2>2, <2>3, <2>4 DEF Texts
<1>2. /\ a # <<>> /\ b # <<>> /\ u # <<>>
      /\ \A i \in 1..Len(a) : a[i] \notin {Space}
      /\ \A i \in 1..Len(b) : b[i] \notin {Space}
  <2>1. NULL \notin {a, b, u}
    BY <1>a DEF Intended, PlainLine
  <2>2. Lacks(a, {Space, LF}) /\ Lacks(b, {Space, LF})
    BY <1>a DEF Intended, PlainLine, Space
  <2>3. /\ \A i \in 1..Len(a) : a[i] \notin {Space, LF}
        /\ \A i \in 1..Len(b) : b[i] \notin {Space, LF}
    BY <1>1, <2>2, LacksEach
  <2> QED BY <2>1, <2>3 DEF NULL
<1>x. PICK x, y, z : x = a \o sp /\ y = b \o sp /\ z = y \o u
  OBVIOUS
<1>3. x \in Seq(C) /\ y \in Seq(C)
  BY <1>1, <1>x
<1>4. LineOf(m) = x \o z /\ z \in Seq(C)
  <2>1. LineOf(m) = ((x \o b) \o sp) \o u
    BY <1>a, <1>x DEF LineOf, Space
  <2>2. (x \o b) \o sp = x \o (b \o sp)
    <3>1. x \in Seq(C) /\ b \in Seq(C) /\ sp \in Seq(C)
      BY <1>1, <1>3
    <3> QED BY <3>1, Associated
  <2>3. (x \o y) \o u = x \o (y \o u) /\ y \o u \in Seq(C)
    <3>1. x \in Seq(C) /\ y \in Seq(C) /\ u \in Seq(C)
      BY <1>1, <1>3
    <3> QED BY <3>1, Associated
  <2> QED BY <1>x, <2>1, <2>2, <2>3
<1> PICK D : D = {Space}
  OBVIOUS
<1>5. Strtok(x \o z, D).token = a /\ Strtok(x \o z, D).rest = z
  <2>1. a \in Seq(C) /\ Space \in C /\ z \in Seq(C) /\ Space \in D /\ a # <<>> /\ \A i \in 1..Len(a) : a[i] \notin D
    BY <1>1, <1>2, <1>4
  <2>2. Strtok((a \o <<Space>>) \o z, D).token = a /\ Strtok((a \o <<Space>>) \o z, D).rest = z
    BY <2>1, StrtokFirst
  <2> QED BY <1>a, <1>x, <2>2
<1>6. Strtok(z, D).token = b /\ Strtok(z, D).rest = u
  <2>1. b \in Seq(C) /\ Space \in C /\ u \in Seq(C) /\ Space \in D /\ b # <<>> /\ \A i \in 1..Len(b) : b[i] \notin D
    BY <1>1, <1>2
  <2>2. Strtok((b \o <<Space>>) \o u, D).token = b /\ Strtok((b \o <<Space>>) \o u, D).rest = u
    BY <2>1, StrtokFirst
  <2> QED BY <1>a, <1>x, <2>2
<1>7. RequestLine(LineOf(m)) = [method |-> a, uri |-> b, http_version |-> u]
  <2>f. PICK line, first, second : /\ line = LineOf(m) /\ first = Strtok(line, {Space})
                                   /\ second = Strtok(first.rest, {Space})
    OBVIOUS
  <2>1. RequestLine(line) = [method |-> first.token, uri |-> second.token, http_version |-> second.rest]
    BY <2>f, RequestLineIs
  <2>2. first.token = a /\ first.rest = z
    BY <1>4, <1>5, <2>f
  <2>3. second.token = b /\ second.rest = u
    BY <1>6, <2>2, <2>f
  <2> QED BY <2>1, <2>2, <2>3, <2>f
<1>8. NULL \notin {a, b, u}
  BY <1>2 DEF NULL
<1> QED BY <1>7, <1>8, <1>a

\* A header line is taken apart by one call of strtok.
LEMMA KeyValueBy ==
    ASSUME NEW s, NEW key, key = Strtok(s, {":"})
    PROVE  KeyValue(s) = [key |-> key.token, present |-> key.rest # NULL,
                          value |-> IF key.rest # NULL /\ key.rest[1] = Space THEN Tail(key.rest) ELSE key.rest]
BY Zenon DEF KeyValue, Remainder, Space

\* The parts of a header.
LEMMA HeaderParts ==
    ASSUME NEW m \in Messages, Intended(m), NEW i \in DOMAIN m.headers, NEW h, h = m.headers[i]
    PROVE  /\ h.key \in Strings /\ h.colon \in Strings /\ h.value \in Strings /\ PlainHeader(h)
           /\ h.key # <<>> /\ \A j \in 1..Len(h.key) : h.key[j] \notin {":"}
<1>1. h.key \in Strings /\ h.colon \in Strings /\ h.value \in Strings
  <2>1. PICK H : H = [key : Strings, colon : Strings, value : Strings]
    OBVIOUS
  <2>2. m.headers \in Seq(H)
    <3>1. m \in RequestText
      BY HTTPServerAssumption DEF HTTPServerAssumption, Messages
    <3> QED BY <2>1, <3>1 DEF RequestText
  <2>3. h \in H
    BY <2>2
  <2> QED BY <2>1, <2>3
<1>2. PlainHeader(h)
  BY DEF Intended
<1>c. PICK c : c = ":"
  OBVIOUS
<1>k. PICK key : key = h.key
  OBVIOUS
<1>3. key # <<>> /\ Lacks(key, {c, LF})
  BY <1>2, <1>c, <1>k DEF PlainHeader, NULL
<1>4. \A j \in 1..Len(key) : key[j] \notin {c, LF}
  BY <1>1, <1>3, <1>k, LacksEach DEF Strings
<1> QED BY <1>1, <1>2, <1>3, <1>4, <1>c, <1>k

\* Two parts that are told apart by a colon.
LEMMA KeyIsCut ==
    ASSUME NEW C, NEW colon \in C, colon = ":", NEW key \in Seq(C), NEW rest \in Seq(C),
           key # <<>>, \A j \in 1..Len(key) : key[j] # colon
    PROVE  KeyValue((key \o <<colon>>) \o rest) =
             [key |-> key, present |-> rest # NULL,
              value |-> IF rest # NULL /\ rest[1] = Space THEN Tail(rest) ELSE rest]
<1>s. PICK s : s = (key \o <<colon>>) \o rest
  OBVIOUS
<1> PICK D : D = {colon}
  OBVIOUS
<1>1. Strtok(s, D).token = key /\ Strtok(s, D).rest = rest
  <2>1. colon \in D /\ \A j \in 1..Len(key) : key[j] \notin D
    OBVIOUS
  <2>2. Strtok((key \o <<colon>>) \o rest, D).token = key /\ Strtok((key \o <<colon>>) \o rest, D).rest = rest
    BY <2>1, StrtokFirst
  <2> QED BY <1>s, <2>2
<1>k. PICK first : first = Strtok(s, {":"})
  OBVIOUS
<1>2. first.token = key /\ first.rest = rest
  BY <1>1, <1>k
<1>3. KeyValue(s) = [key |-> first.token, present |-> first.rest # NULL,
                     value |-> IF first.rest # NULL /\ first.rest[1] = Space THEN Tail(first.rest) ELSE first.rest]
  BY <1>k, KeyValueBy
<1> QED BY <1>2, <1>3, <1>s

\* What lies behind one character.
LEMMA Behind ==
    ASSUME NEW C, NEW c \in C, NEW s \in Seq(C)
    PROVE  /\ <<c>> \o s \in Seq(C) /\ <<c>> \o s # <<>> /\ (<<c>> \o s)[1] = c
           /\ Tail(<<c>> \o s) = s
<1>t. PICK t : t = <<c>> \o s
  OBVIOUS
<1>1. /\ t \in Seq(C) /\ Len(s) \in Nat /\ Len(t) = Len(s) + 1 /\ t[1] = c
      /\ \A i \in 1..Len(s) : t[i + 1] = s[i]
  <2>1. <<c>> \in Seq(C) /\ Len(<<c>>) = 1 /\ <<c>>[1] = c
    OBVIOUS
  <2>2. /\ t \in Seq(C) /\ Len(s) \in Nat /\ Len(t) = 1 + Len(s)
        /\ \A i \in 1..1 : t[i] = <<c>>[i]
        /\ \A i \in 1..Len(s) : t[1 + i] = s[i]
    BY <2>1, <1>t, JoinedIn
  <2> QED BY <2>1, <2>2
<1>2. t # <<>>
  BY <1>1
<1>3. Tail(t) \in Seq(C) /\ Len(Tail(t)) = Len(s) /\ \A i \in 1..Len(s) : Tail(t)[i] = s[i]
  <2>1. Tail(t) \in Seq(C) /\ Len(Tail(t)) = Len(t) - 1 /\ \A i \in 1..Len(Tail(t)) : Tail(t)[i] = t[i + 1]
    BY <1>1, <1>2, HeadTailProperties
  <2> QED BY <1>1, <2>1
<1>4. Tail(t) = s
  <2>u. PICK u : u = Tail(t)
    OBVIOUS
  <2>1. u \in Seq(C) /\ Len(u) = Len(s) /\ \A i \in 1..Len(u) : u[i] = s[i]
    BY <1>3, <2>u
  <2>2. u = s
    BY <2>1, SeqEqual
  <2> QED BY <2>2, <2>u
<1> QED BY <1>1, <1>2, <1>4, <1>t

\* The same as Regrouped for four.
Regrouped4(w, x, y, z) == ((w \o x) \o y) \o z = w \o (x \o (y \o z))

\* Every four sequences can be regrouped.
LEMMA FourJoined ==
    ASSUME NEW B, NEW w \in Seq(B), NEW x \in Seq(B), NEW y \in Seq(B), NEW z \in Seq(B)
    PROVE  Regrouped4(w, x, y, z)
<1>a. PICK p, q : p = w \o x /\ q = y \o z
  OBVIOUS
<1>1. p \in Seq(B) /\ q \in Seq(B)
  BY <1>a, JoinedIn
<1>2. Regrouped(p, y, z)
  BY <1>1, Regroup
<1>3. Regrouped(w, x, q)
  BY <1>1, Regroup
<1>4. (p \o y) \o z = p \o q
  BY <1>2, <1>a DEF Regrouped
<1>5. p \o q = w \o (x \o q)
  BY <1>3, <1>a DEF Regrouped
<1> QED BY <1>4, <1>5, <1>a DEF Regrouped4

\* Two characters joined.
LEMMA PairIs == ASSUME NEW C, NEW c \in C, NEW d \in C PROVE <<c>> \o <<d>> = <<c, d>>
<1>a. PICK u, v : u = <<c>> \o <<d>> /\ v = <<c, d>>
  OBVIOUS
<1>1. <<c>> \in Seq(C) /\ <<d>> \in Seq(C) /\ Len(<<c>>) = 1 /\ Len(<<d>>) = 1 /\ <<c>>[1] = c /\ <<d>>[1] = d
  OBVIOUS
<1>2. /\ u \in Seq(C) /\ Len(u) = 1 + 1 /\ \A i \in 1..1 : u[i] = <<c>>[i]
      /\ \A i \in 1..1 : u[1 + i] = <<d>>[i]
  BY <1>1, <1>a, JoinedIn
<1>3. Len(u) = 2 /\ u[1] = c /\ u[2] = d
  BY <1>1, <1>2
<1>4. v \in Seq(C) /\ Len(v) = 2 /\ v[1] = c /\ v[2] = d
  BY <1>a
<1>5. \A i \in 1..Len(u) : u[i] = v[i]
  <2>1. \A i \in 1..2 : i = 1 \/ i = 2
    OBVIOUS
  <2> QED BY <1>3, <1>4, <2>1
<1>6. u = v
  BY <1>2, <1>3, <1>4, <1>5, SeqEqual
<1> QED BY <1>6, <1>a

\* What a header with a value is taken for.
LEMMA HeaderValued ==
    ASSUME NEW m \in Messages, Intended(m), NEW i \in DOMAIN m.headers, NEW h, h = m.headers[i],
           HasValue(h), NEW r \in Residue
    PROVE  KeyValue(HeaderLine(h) \o r) = [key |-> h.key, present |-> TRUE, value |-> h.value \o r]
<1>a. PICK key, value, c, sp : key = h.key /\ value = h.value /\ c = ":" /\ sp = Space
  OBVIOUS
<1> PICK C : C = Characters \cup {sp} \cup {c}
  OBVIOUS
<1>1. key \in Seq(C) /\ value \in Seq(C) /\ r \in Seq(C)
  <2>1. Strings \subseteq Seq(C)
    BY SequencesGrow DEF Strings
  <2>2. key \in Strings /\ value \in Strings /\ r \in Strings
    BY <1>a, HeaderParts, HTTPServerAssumption DEF HTTPServerAssumption
  <2> QED BY <2>1, <2>2
<1>2. c \in C /\ sp \in C
  OBVIOUS
<1>3. key # <<>> /\ \A j \in 1..Len(key) : key[j] # c
  <2>1. key # <<>> /\ \A j \in 1..Len(key) : key[j] \notin {c}
    BY <1>a, HeaderParts
  <2> QED BY <2>1
<1>v. PICK v : v = value \o r
  OBVIOUS
<1>4. v \in Seq(C)
  BY <1>1, <1>v, JoinedIn
<1>c. c = ":"
  BY <1>a
<1>5. CASE h.colon = <<":", " ">>
  <2>b. PICK x, s, rest : x = key \o <<c>> /\ s = <<sp>> /\ rest = s \o v
    OBVIOUS
  <2>1. x \in Seq(C) /\ s \in Seq(C) /\ <<c>> \in Seq(C)
    <3>1. <<c>> \in Seq(C) /\ s \in Seq(C)
      BY <1>2, <2>b
    <3> QED BY <1>1, <2>b, <3>1, JoinedIn
  <2>2. <<c>> \o s = h.colon
    <3>1. <<c>> \o <<sp>> = <<c, sp>>
      BY <1>2, PairIs
    <3> QED BY <1>5, <1>a, <2>b, <3>1 DEF Space
  <2>c. PICK cs : cs = <<c>>
    OBVIOUS
  <2>3. HeaderLine(h) \o r = ((key \o (cs \o s)) \o value) \o r
    BY <1>a, <2>2, <2>c DEF HeaderLine
  <2>4. cs \in Seq(C) /\ s \in Seq(C)
    BY <2>1, <2>c
  <2>5. (key \o cs) \o s = key \o (cs \o s)
    <3>1. Regrouped(key, cs, s)
      BY <1>1, <2>4, Regroup
    <3> QED BY <3>1 DEF Regrouped
  <2>6. ((x \o s) \o value) \o r = x \o (s \o (value \o r))
    <3>1. Regrouped4(x, s, value, r)
      BY <1>1, <2>1, FourJoined
    <3> QED BY <3>1 DEF Regrouped4
  <2>7. HeaderLine(h) \o r = (key \o <<c>>) \o rest
    BY <1>v, <2>3, <2>5, <2>6, <2>b, <2>c
  <2>8. rest \in Seq(C) /\ rest # <<>> /\ rest[1] = Space /\ Tail(rest) = v
    BY <1>2, <1>4, <1>a, <2>b, Behind
  <2>9. KeyValue((key \o <<c>>) \o rest) =
          [key |-> key, present |-> rest # NULL,
           value |-> IF rest # NULL /\ rest[1] = Space THEN Tail(rest) ELSE rest]
    BY <1>1, <1>2, <1>3, <1>c, <2>8, KeyIsCut, SMTT(30)
  <2>10. rest # NULL
    BY <2>8 DEF NULL
  <2> QED BY <1>a, <1>v, <2>7, <2>8, <2>9, <2>10
<1>6. CASE h.colon = <<":">> /\ h.value # NULL
  <2>1. value # <<>> /\ value[1] # Space
    <3>1. PlainHeader(h) /\ <<":">> # <<":", " ">> /\ <<":">> # <<>>
      <4>1. Len(<<":">>) = 1 /\ Len(<<":", " ">>) = 2 /\ Len(<<>>) = 0
        OBVIOUS
      <4>2. PlainHeader(h)
        BY HeaderParts
      <4> QED BY <4>1, <4>2
    <3> QED BY <1>6, <1>a, <3>1 DEF PlainHeader, Space, NULL
  <2>2. HeaderLine(h) \o r = (key \o <<c>>) \o v
    <3>1. HeaderLine(h) = (key \o <<c>>) \o value
      BY <1>6, <1>a DEF HeaderLine
    <3>x. PICK x : x = key \o <<c>>
      OBVIOUS
    <3>2. x \in Seq(C)
      <4>1. <<c>> \in Seq(C)
        BY <1>2
      <4> QED BY <1>1, <3>x, <4>1, JoinedIn
    <3>3. (x \o value) \o r = x \o (value \o r)
      BY <1>1, <3>2, Associated, SMTT(30)
    <3> QED BY <1>v, <3>1, <3>3, <3>x
  <2>3. v # <<>> /\ v[1] # Space
    <3>1. /\ Len(value) \in Nat /\ Len(r) \in Nat /\ Len(v) = Len(value) + Len(r)
          /\ \A j \in 1..Len(value) : v[j] = value[j]
      BY <1>1, <1>v, JoinedIn
    <3>2. Len(value) # 0
      BY <1>1, <2>1, EmptySeq
    <3>3. 1 \in 1..Len(value) /\ Len(v) # 0
      BY <3>1, <3>2
    <3> QED BY <2>1, <3>1, <3>3
  <2>4. KeyValue((key \o <<c>>) \o v) =
          [key |-> key, present |-> v # NULL,
           value |-> IF v # NULL /\ v[1] = Space THEN Tail(v) ELSE v]
    BY <1>1, <1>2, <1>3, <1>4, <1>c, KeyIsCut
  <2>5. v # NULL
    BY <2>3 DEF NULL
  <2> QED BY <1>a, <1>v, <2>2, <2>3, <2>4, <2>5
<1> QED BY <1>5, <1>6 DEF HasValue

\* And one without.
LEMMA HeaderBare ==
    ASSUME NEW m \in Messages, Intended(m), NEW i \in DOMAIN m.headers, NEW h, h = m.headers[i],
           ~HasValue(h)
    PROVE  HeaderLine(h) = h.key \o h.colon /\ h.value = NULL
<1>1. h.value = <<>>
  <2>1. PlainHeader(h)
    BY HeaderParts
  <2> QED BY <2>1 DEF PlainHeader, HasValue, NULL
<1>2. h.key \in Strings /\ h.colon \in Strings
  BY HeaderParts
<1>k. PICK key, colon : key = h.key /\ colon = h.colon
  OBVIOUS
<1>3. (key \o colon) \o <<>> = key \o colon
  <2> PICK S : S = Characters
    OBVIOUS
  <2>1. key \in Seq(S) /\ colon \in Seq(S)
    BY <1>2, <1>k DEF Strings
  <2>2. key \o colon \in Seq(S)
    BY <2>1, JoinedIn
  <2> QED BY <2>2, ConcatEmptySeq
<1> QED BY <1>1, <1>3, <1>k DEF HeaderLine, NULL

\* key and value are what can be read of header h.
ReadFrom(h, key, value) ==
    \/ HasValue(h) /\ key \in Readings(h.key) /\ value \in Readings(h.value)
    \/ ~HasValue(h) /\ \E r \in Residue :
          LET field == KeyValue(h.key \o h.colon \o r)
          IN  field.present /\ key \in Readings(field.key) /\ value = field.value

\* A string that becomes one character with something behind it is that character.
LEMMA OneLetter ==
    ASSUME NEW C, NEW s \in Seq(C), NEW r \in Seq(C), s # <<>>, NEW w, s \o r = <<w>>
    PROVE  s = <<w>>
<1>t. PICK t : t = s \o r
  OBVIOUS
<1>1. /\ Len(s) \in Nat /\ Len(r) \in Nat /\ Len(t) = Len(s) + Len(r)
      /\ \A i \in 1..Len(s) : t[i] = s[i]
  BY <1>t, JoinedIn
<1>2. Len(t) = 1 /\ t[1] = w
  <2>1. t = <<w>>
    BY <1>t
  <2> QED BY <2>1
<1>3. Len(s) # 0
  BY EmptySeq
<1>4. Len(s) = 1 /\ s[1] = w
  <2>1. Len(s) = 1 /\ 1 \in 1..Len(s)
    BY <1>1, <1>2, <1>3
  <2> QED BY <1>1, <1>2, <2>1
<1>5. w \in C
  BY <1>4, ElementOfSeq
<1>u. PICK u : u = <<w>>
  OBVIOUS
<1>6. u \in Seq(C) /\ Len(u) = 1 /\ u[1] = w
  BY <1>5, <1>u
<1>7. \A i \in 1..Len(s) : s[i] = u[i]
  BY <1>4, <1>6
<1>8. s = u
  BY <1>4, <1>6, <1>7, SeqEqual
<1> QED BY <1>8, <1>u

\* Behind a colon less key.
LEMMA KeyRead ==
    ASSUME NEW C, NEW key \in Seq(C), NEW rest \in Seq(C), NEW r \in Seq(C), NEW colon, colon = ":", NEW w,
           key # <<>>, \A j \in 1..Len(key) : key[j] # colon,
           KeyValue(key \o rest).key \o r = <<w>>
    PROVE  key = <<w>>
<1>s. PICK s, t : s = key \o rest /\ t = KeyValue(key \o rest).key
  OBVIOUS
<1>1. /\ s \in Seq(C) /\ Len(key) \in Nat /\ Len(rest) \in Nat /\ Len(s) = Len(key) + Len(rest)
      /\ \A i \in 1..Len(key) : s[i] = key[i]
  BY <1>s, JoinedIn
<1>2. Len(key) > 0
  BY <1>1, EmptySeq
<1> PICK D : D = {colon}
  OBVIOUS
<1>3. t = Strtok(s, D).token
  <2>k. PICK first : first = Strtok(s, {":"})
    OBVIOUS
  <2>1. KeyValue(s) = [key |-> first.token, present |-> first.rest # NULL,
                       value |-> IF first.rest # NULL /\ first.rest[1] = Space THEN Tail(first.rest) ELSE first.rest]
    BY <2>k, KeyValueBy
  <2> QED BY <1>s, <2>1, <2>k
<1>4. PICK last \in 1..Len(s) : /\ t = SubSeq(s, 1, last)
                                /\ last < Len(s) => s[last + 1] \in D
  <2>1. Len(s) > 0 /\ s[1] \notin D
    <3>1. 1 \in 1..Len(key)
      BY <1>1, <1>2
    <3> QED BY <1>1, <1>2, <3>1
  <2> QED BY <1>1, <1>3, <2>1, StrtokCuts
<1>5. t \in Seq(C) /\ Len(t) = last /\ \A i \in 1..last : t[i] = s[i]
  <2>1. last \in Nat /\ last <= Len(s)
    BY <1>1, <1>4
  <2> QED BY <1>1, <1>4, <2>1, Beginning
<1>6. t = <<w>>
  <2>1. t # <<>>
    <3>1. last > 0
      BY <1>1, <1>4
    <3>2. Len(t) = last
      BY <1>5
    <3> QED BY <3>1, <3>2
  <2>2. t \o r = <<w>>
    BY <1>s
  <2> QED BY <1>5, <2>1, <2>2, OneLetter
<1>7. last = 1 /\ s[1] = w
  <2>1. Len(<<w>>) = 1 /\ <<w>>[1] = w
    OBVIOUS
  <2>2. last = 1 /\ t[1] = w
    BY <1>5, <1>6, <2>1
  <2> QED BY <1>5, <2>2
<1>8. Len(key) = 1 /\ key[1] = w
  <2>1. ~(Len(key) > 1)
    <3> SUFFICES ASSUME Len(key) > 1 PROVE FALSE
      OBVIOUS
    <3>1. 2 \in 1..Len(key) /\ last < Len(s) /\ last + 1 = 2
      BY <1>1, <1>7
    <3>2. s[2] \in D
      BY <1>4, <3>1
    <3> QED BY <1>1, <3>1, <3>2
  <2>2. Len(key) = 1 /\ 1 \in 1..Len(key)
    <3>1. Len(key) \in Nat
      BY <1>1
    <3>2. \A n \in Nat : n > 0 /\ ~(n > 1) => n = 1 /\ 1 \in 1..n
      OBVIOUS
    <3> QED BY <1>2, <2>1, <3>1, <3>2, Zenon
  <2> QED BY <1>1, <1>7, <2>2
<1>9. w \in C
  BY <1>8, ElementOfSeq
<1>u. PICK u : u = <<w>>
  OBVIOUS
<1>10. u \in Seq(C) /\ Len(u) = 1 /\ u[1] = w
  BY <1>9, <1>u
<1>11. \A i \in 1..Len(key) : key[i] = u[i]
  BY <1>8, <1>10
<1>12. key = u
  BY <1>8, <1>10, <1>11, SeqEqual
<1> QED BY <1>12, <1>u

\* A content type that can be found is that of a body that is there and no form.
LEMMA ContentTypeSent ==
    ASSUME NEW m \in Messages, Intended(m), NEW i \in DOMAIN m.headers, NEW h, h = m.headers[i],
           NEW value, ReadFrom(h, ContentType, value)
    PROVE  m.body # NULL /\ \A r \in Residue : value \o r # FormType
<1>a. PICK key, v, ct, form : key = h.key /\ v = h.value /\ ct = "Content-Type"
                              /\ form = "application/x-www-form-urlencoded"
  OBVIOUS
<1> PICK C : C = Characters \cup {":"}
  OBVIOUS
<1>1. key \in Seq(C) /\ v \in Seq(C) /\ h.colon \in Seq(C) /\ \A r \in Residue : r \in Seq(C)
  <2>1. Strings \subseteq Seq(C)
    BY SequencesGrow DEF Strings
  <2>2. key \in Strings /\ v \in Strings /\ h.colon \in Strings /\ Residue \subseteq Strings
    BY <1>a, HeaderParts, HTTPServerAssumption DEF HTTPServerAssumption
  <2> QED BY <2>1, <2>2
<1>2. key # <<>> /\ \A j \in 1..Len(key) : key[j] # ":"
  <2>1. key # <<>> /\ \A j \in 1..Len(key) : key[j] \notin {":"}
    BY <1>a, HeaderParts
  <2> QED BY <2>1
<1>3. ContentType = <<ct>> /\ FormType = <<form>>
  BY <1>a DEF ContentType, FormType
<1>4. key = <<ct>> => m.body # NULL /\ v # <<>> /\ v # <<form>>
  <2>1. h.key = ContentType => m.body # NULL /\ h.value \notin {NULL, FormType}
    BY DEF Intended
  <2> QED BY <1>3, <1>a, <2>1 DEF NULL
<1>5. CASE HasValue(h)
  <2>1. PICK r1 \in Residue, r2 \in Residue : <<ct>> = key \o r1 /\ value = v \o r2
    BY <1>3, <1>5, <1>a DEF ReadFrom, Readings
  <2>2. key = <<ct>>
    BY <1>1, <1>2, <2>1, OneLetter
  <2>3. ASSUME NEW r \in Residue, value \o r = <<form>> PROVE FALSE
    <3>1. value \in Seq(C) /\ value # <<>>
      <4>1. /\ v \o r2 \in Seq(C) /\ Len(v \o r2) = Len(v) + Len(r2)
            /\ Len(v) \in Nat /\ Len(r2) \in Nat
        BY <1>1, JoinedIn
      <4>2. Len(v) # 0
        BY <1>1, <1>4, <2>2, EmptySeq
      <4>3. value \in Seq(C) /\ Len(value) # 0
        BY <2>1, <4>1, <4>2
      <4> QED BY <4>3
    <3>2. value = <<form>>
      <4>1. r \in Seq(C) /\ value \o r = <<form>>
        BY <1>1, <2>3
      <4> QED BY <3>1, <4>1, OneLetter
    <3>3. v = <<form>>
      <4>1. v \in Seq(C) /\ r2 \in Seq(C) /\ v # <<>>
        BY <1>1, <1>4, <2>2
      <4>2. v \o r2 = <<form>>
        BY <2>1, <3>2
      <4> QED BY <4>1, <4>2, OneLetter
    <3> QED BY <1>4, <2>2, <3>3
  <2> QED BY <1>3, <1>4, <2>2, <2>3, SMTT(30)
<1>6. CASE ~HasValue(h)
  <2>1. PICK r1 \in Residue, r2 \in Residue : KeyValue((key \o h.colon) \o r1).key \o r2 = <<ct>>
    BY <1>3, <1>6, <1>a DEF ReadFrom, Readings
  <2>r. PICK colon, rest : colon = h.colon /\ rest = colon \o r1
    OBVIOUS
  <2>2. rest \in Seq(C) /\ colon \in Seq(C)
    BY <1>1, <2>r, JoinedIn
  <2>3. (key \o colon) \o r1 = key \o rest
    <3>1. Regrouped(key, colon, r1)
      BY <1>1, <2>2, Regroup
    <3> QED BY <2>r, <3>1 DEF Regrouped
  <2>4. KeyValue(key \o rest).key \o r2 = <<ct>>
    BY <2>1, <2>3, <2>r
  <2>5. key = <<ct>>
    <3>1. /\ key \in Seq(C) /\ rest \in Seq(C) /\ r2 \in Seq(C) /\ key # <<>>
          /\ \A j \in 1..Len(key) : key[j] # ":"
      BY <1>1, <1>2, <2>2
    <3> QED BY <2>4, <3>1, KeyRead, SMTT(30)
  <2>6. v = <<>>
    BY <1>6, <1>a, HeaderBare DEF NULL
  <2> QED BY <1>4, <2>5, <2>6, SMTT(30)
<1> QED BY <1>5, <1>6

\* The same, part by part.
LEMMA PartsSent ==
    ASSUME NEW m \in Messages, Intended(m), NEW ps, ps = Split(Text[m])
    PROVE  ps.line = LineOf(m) /\ ps.fields = Fields(m) /\ ps.body = m.body
<1>1. ps = [line |-> LineOf(m), fields |-> Fields(m), body |-> m.body]
  BY SplitSent
<1> QED BY <1>1

\* The whole text of such a message is one of those one read may get.
LEMMA TextReceived ==
    ASSUME NEW m \in Messages, Intended(m)
    PROVE  /\ Text[m] # NULL /\ ~TooShort(Text[m])
           /\ Text[m] \in Received /\ PartsOf[Text[m]] = Split(Text[m])
<1>t. PICK text, x, y : text = Text[m] /\ x = LineOf(m) /\ y = <<LF>>
  OBVIOUS
<1> PICK C : C = Characters \cup {Space}
  OBVIOUS
<1>1. x \in Seq(C) /\ y \in Seq(C) /\ HeaderBlock(m) \in Seq(C) /\ m.body \in Seq(C) /\ x # <<>>
  BY <1>t, LineSent, HeadersSent, BodySent DEF Texts
<1>2. text \in Seq(C) /\ Len(text) \in Nat /\ Len(text) > 1
  <2>p. PICK p, q, z, w : p = x \o y /\ q = p \o HeaderBlock(m) /\ z = q \o y /\ w = z \o m.body
    OBVIOUS
  <2>1. p \in Seq(C) /\ Len(p) = Len(x) + Len(y) /\ Len(x) \in Nat /\ Len(y) \in Nat
    BY <1>1, <2>p, JoinedIn
  <2>2. q \in Seq(C) /\ Len(q) = Len(p) + Len(HeaderBlock(m)) /\ Len(HeaderBlock(m)) \in Nat
    BY <1>1, <2>1, <2>p, JoinedIn
  <2>3. z \in Seq(C) /\ Len(z) = Len(q) + Len(y)
    BY <1>1, <2>2, <2>p, JoinedIn
  <2>4. w \in Seq(C) /\ Len(w) = Len(z) + Len(m.body) /\ Len(m.body) \in Nat
    BY <1>1, <2>3, <2>p, JoinedIn
  <2>5. Len(y) = 1
    BY <1>t
  <2>6. Len(x) > 0
    BY <1>1, EmptySeq
  <2>7. Len(w) \in Nat /\ Len(w) > 1
    <3>1. \A a, b \in Nat : /\ a > 0 => a + 1 \in Nat /\ a + 1 > 1
                            /\ a > 1 => a + b \in Nat /\ a + b > 1
      OBVIOUS
    <3>2. Len(p) \in Nat /\ Len(p) > 1
      BY <2>1, <2>5, <2>6, <3>1
    <3>3. Len(q) \in Nat /\ Len(q) > 1
      BY <2>2, <3>1, <3>2
    <3>4. Len(z) \in Nat /\ Len(z) > 1
      BY <2>1, <2>3, <3>1, <3>3
    <3> QED BY <2>4, <3>1, <3>4
  <2>8. w = text
    <3>1. w = (((x \o y) \o HeaderBlock(m)) \o y) \o m.body
      BY <2>p
    <3> QED BY <1>t, <3>1, TextIs
  <2> QED BY <2>4, <2>7, <2>8
<1>3. text # NULL /\ ~TooShort(text)
  <2>1. text # <<>>
    BY <1>2
  <2>2. Len(text) # 1
    <3>1. \A n \in Nat : n > 1 => n # 1
      OBVIOUS
    <3> QED BY <1>2, <3>1, Zenon
  <2>3. ~TooShort(text)
    BY <2>1, <2>2 DEF TooShort
  <2> QED BY <2>1, <2>3 DEF NULL
<1>4. text = SubSeq(text, 1, Len(text)) /\ Len(text) \in 1..Len(text)
  BY <1>2, SubSeqFull
<1>5. text \in Received
  BY <1>4, <1>t DEF Received
<1>6. PartsOf[text] = Split(text)
  BY <1>5 DEF PartsOf
<1> QED BY <1>3, <1>5, <1>6, <1>t

\* The lines of all texts; lines with what may lie behind them.
AllLines == UNION {Range(LinesOf[text]) : text \in DOMAIN LinesOf}
Behinds(lines) == {l \o r : l \in lines, r \in Residue}

\* The tables the model keeps give, for the parts of such a message, what the
\* operators they tabulate give.
LEMMA PartsReceived ==
    ASSUME NEW m \in Messages, Intended(m)
    PROVE  /\ RequestLineOf[LineOf(m)] = RequestLine(LineOf(m))
           /\ LinesOf[Fields(m)] = HeaderLines(m)
           /\ \A i \in DOMAIN m.headers : \A r \in Residue :
                HeaderOf[HeaderLine(m.headers[i]) \o r] = KeyValue(HeaderLine(m.headers[i]) \o r)
<1>1. Text[m] \in Received /\ PartsOf[Text[m]] = [line |-> LineOf(m), fields |-> Fields(m), body |-> m.body]
  BY TextReceived, SplitSent
<1>2. LineOf(m) \in {PartsOf[s].line : s \in Received} /\ Fields(m) \in {PartsOf[s].fields : s \in Received}
  BY <1>1
<1>3. RequestLineOf[LineOf(m)] = RequestLine(LineOf(m))
  BY <1>2 DEF RequestLineOf
<1>4. LinesOf[Fields(m)] = HeaderLines(m) /\ Fields(m) \in DOMAIN LinesOf
  BY <1>2, LinesSent DEF LinesOf
<1>5. ASSUME NEW i \in DOMAIN m.headers, NEW r \in Residue
      PROVE  HeaderOf[HeaderLine(m.headers[i]) \o r] = KeyValue(HeaderLine(m.headers[i]) \o r)
  <2>l. PICK line : line = HeaderLine(m.headers[i])
    OBVIOUS
  <2>1. line \in Range(HeaderLines(m))
    <3>1. i \in DOMAIN HeaderLines(m) /\ HeaderLines(m)[i] = line
      BY <2>l DEF HeaderLines
    <3> QED BY <3>1 DEF Range
  <2>2. line \in UNION {Range(LinesOf[text]) : text \in DOMAIN LinesOf}
    BY <1>4, <2>1
  <2>3. line \in AllLines
    BY <2>2 DEF AllLines
  <2>4. line \o r \in Behinds(AllLines)
    BY <2>3 DEF Behinds
  <2>5. HeaderOf = [x \in Behinds(AllLines) |-> KeyValue(x)]
    BY DEF HeaderOf, Behinds, AllLines
  <2>6. HeaderOf[line \o r] = KeyValue(line \o r)
    BY <2>4, <2>5
  <2> QED BY <2>6, <2>l
<1> QED BY <1>3, <1>4, <1>5

----------------------------------------------------------------------------
\* The state of handler while it takes such a message apart

\* What has been read of a message is where it was put, whatever the message is.
Arrival ==
    /\ \A c \in Clients : peer[c] \in {"new", "connected", "refused"} => asked[c] = NoMessage
    /\ pc = "read" => client \in Clients
    /\ pc \in {"bind", "listen", "register", "accept", "read"} => received = NULL
    /\ received # NULL => client \in Clients /\ asked[client] \in Messages
    /\ pc \in {"bind", "listen", "register", "accept", "read", "split", "line", "fields", "header",
               "body"} => body = Uninitialised
    /\ pc = "write" => response # NoAnswer

\* The first k headers of m have been read.
HeadersRead(m, k) ==
    /\ \A key \in DOMAIN header_fields : \E i \in 1..k : ReadFrom(m.headers[i], key, header_fields[key])
    /\ \A i \in 1..k : HasValue(m.headers[i]) => Readings(m.headers[i].key) \cap DOMAIN header_fields # {}

\* m has been read as a whole.
Whole(m) == client \in Clients /\ asked[client] = m /\ Intended(m) /\ received = Text[m]

\* How far it has been taken apart.
Reading(m) ==
    /\ pc \in {"line", "fields", "header", "body"} => parts = Split(Text[m])
    /\ pc \in {"fields", "header", "body", "route", "write"} =>
          request_line = [method |-> m.method, uri |-> m.uri, http_version |-> m.http_version]
    /\ pc = "header" =>
          \E k \in 0..Len(m.headers) : /\ headers = SubSeq(HeaderLines(m), k + 1, Len(m.headers))
                                       /\ HeadersRead(m, k)
    /\ pc = "body" => HeadersRead(m, Len(m.headers))
    /\ pc \in {"route", "write"} => Understood(m)
    /\ pc # "push"
    /\ pc = "destroy" => got[client] # NoAnswer
    /\ pc = "crashed" => got[client] # NoAnswer \/ peer[client] = "left" \/ DOMAIN routes = {}

\* What has been read of every message that arrived whole.
ReadInv == Arrival /\ \A m \in Messages : Whole(m) => Reading(m)

\* Initially nothing has been read.
LEMMA InitReadInv == Init => ReadInv
<1> SUFFICES ASSUME Init PROVE ReadInv
  OBVIOUS
<1>1. Arrival
  BY DEF Init, Arrival
<1>2. \A m \in Messages : ~Whole(m)
  BY TextReceived DEF Init, Whole
<1> QED BY <1>1, <1>2 DEF ReadInv

\* The steps of the server keep what was read where it is.
LEMMA ServerArrival ==
    ASSUME IInv, Arrival, Bind \/ Listen \/ Register \/ Launch \/ Accept \/ Read \/ Parsing \/ Write \/ Destroy
    PROVE  Arrival'
<1> USE DEF locals, outside, request, Crash
<1>1. CASE Bind \/ Listen \/ Register \/ Launch
  BY <1>1 DEF Bind, Listen, Register, Launch, Arrival
<1>2. CASE Accept
  <2>1. client' \in Clients /\ pc' = "read" /\ pc = "accept"
    BY <1>2 DEF Accept, IInv, ServerTypes
  <2> QED BY <1>2, <2>1 DEF Accept, Arrival
<1>3. CASE Read
  <2>1. client \in Clients /\ asked[client] \in Messages \cup {NoMessage}
    BY <1>3 DEF Read, Arrival, IInv, ServerTypes
  <2>2. pc = "read" /\ pc' = "split" /\ UNCHANGED <<client, peer, asked, body>>
    BY <1>3 DEF Read
  <2>3. received' = NULL \/ asked[client] # NoMessage
    BY <1>3 DEF Read
  <2> QED BY <2>1, <2>2, <2>3 DEF Arrival
<1>4. CASE AcceptFails \/ SplitRequest \/ ExtractRequestLine \/ PushHeaders \/ ExtractHeader \/ PushField
  BY <1>4 DEF AcceptFails, SplitRequest, ExtractRequestLine, PushHeaders, ExtractHeader, PushField, Arrival
<1>5. CASE ExtractBody
  <2>1. pc' \notin {"bind", "listen", "register", "accept", "read", "split", "line", "fields", "header",
                    "body", "write"}
    BY <1>5 DEF ExtractBody, ExtractForm, ExtractData, Parsed, StartPushing
  <2>2. UNCHANGED <<client, received, peer, asked>>
    BY <1>5 DEF ExtractBody, ExtractForm, ExtractData, Parsed, StartPushing
  <2> QED BY <2>1, <2>2 DEF Arrival
<1>6. CASE Route
  <2>1. pc' \in {"crashed", "write"} /\ UNCHANGED <<client, received, peer, asked>>
    BY <1>6 DEF Route
  <2>2. pc' = "write" => response' # NoAnswer
    <3>1. pc' = "write" => \E r \in Residue : response' = FindRoute(request_line.uri \o r)
      BY <1>6 DEF Route
    <3>2. \A r \in Residue : FindRoute(request_line.uri \o r) \in Functions \cup {NotFound}
      BY FoundType DEF IInv, ServerTypes
    <3> QED BY <3>1, <3>2, HTTPServerAssumption DEF HTTPServerAssumption
  <2> QED BY <2>1, <2>2 DEF Arrival
<1>7. CASE Write
  <2>1. /\ UNCHANGED <<peer, asked>> /\ pc' \in {"accept", "destroy", "crashed"}
        /\ \/ UNCHANGED <<client, received>>
           \/ received' = NULL /\ body' = Uninitialised
        /\ pc' = "accept" => received' = NULL /\ body' = Uninitialised
    BY <1>7 DEF Write, Close, Return
  <2> QED BY <2>1 DEF Arrival
<1>8. CASE Destroy
  BY <1>8 DEF Destroy, Arrival
<1> QED BY <1>1, <1>2, <1>3, <1>4, <1>5, <1>6, <1>7, <1>8 DEF Parsing

\* The steps of the clients do too, and no client takes a message back.
LEMMA ClientArrival ==
    ASSUME IInv, Arrival, NEW c \in Clients, Connect(c) \/ Send(c) \/ Receive(c) \/ Leave(c)
    PROVE  /\ Arrival'
           /\ \A d \in Clients : asked[d] # NoMessage => asked'[d] = asked[d]
           /\ \A d \in Clients : peer[d] = "left" => peer'[d] = "left"
<1> USE DEF locals
<1>1. UNCHANGED <<pc, client, received, body, response>>
  BY DEF Connect, Send, Receive, Leave, request
<1>2. /\ peer \in [Clients -> Peers]
      /\ asked \in [Clients -> Messages \cup {NoMessage}] /\ NoMessage \notin Messages
  BY HTTPServerAssumption DEF HTTPServerAssumption, Messages, IInv, ServerTypes
<1>3. \A d \in Clients : asked[d] # NoMessage => asked'[d] = asked[d]
  <2>1. CASE asked' = asked
    BY <2>1
  <2>2. CASE asked' # asked
    <3>1. peer[c] = "connected" /\ \E m \in Asks[c] : asked' = [asked EXCEPT ![c] = m]
      BY <2>2 DEF Connect, Send, Receive, Leave
    <3>2. asked[c] = NoMessage
      BY <3>1 DEF Arrival
    <3> QED BY <1>2, <3>1, <3>2
  <2> QED BY <2>1, <2>2
<1>4. \A d \in Clients : peer[d] = "left" => peer'[d] = "left"
  BY <1>2 DEF Connect, Send, Receive, Leave
<1>5. \A d \in Clients : peer'[d] \in {"new", "connected", "refused"} => asked'[d] = NoMessage
  <2> SUFFICES ASSUME NEW d \in Clients, peer'[d] \in {"new", "connected", "refused"}
               PROVE  asked'[d] = NoMessage
    OBVIOUS
  <2>1. CASE Send(c)
    <3>1. d # c /\ peer'[d] = peer[d] /\ asked'[d] = asked[d]
      BY <1>2, <2>1 DEF Send
    <3> QED BY <3>1 DEF Arrival
  <2>2. CASE Connect(c) \/ Receive(c) \/ Leave(c)
    <3>1. asked' = asked /\ peer[d] \in {"new", "connected", "refused"}
      BY <1>2, <2>2 DEF Connect, Receive, Leave
    <3> QED BY <3>1 DEF Arrival
  <2> QED BY <2>1, <2>2
<1>6. Arrival'
  BY <1>1, <1>2, <1>3, <1>5 DEF Arrival
<1> QED BY <1>3, <1>4, <1>6

\* The steps that read, take apart and answer a message keep what is known of it.
LEMMA SplitReading ==
    ASSUME NEW m \in Messages, Whole(m), Reading(m), SplitRequest
    PROVE  Reading(m)'
<1>1. Intended(m) /\ received = Text[m]
  BY DEF Whole
<1>2. ~TooShort(Text[m]) /\ PartsOf[Text[m]] = Split(Text[m]) /\ Split(Text[m]).line # NULL
  <2>1. ~TooShort(Text[m]) /\ PartsOf[Text[m]] = Split(Text[m])
    BY <1>1, TextReceived
  <2>2. Split(Text[m]).line = LineOf(m) /\ LineOf(m) # NULL
    BY <1>1, PartsSent, LineSent DEF NULL
  <2> QED BY <2>1, <2>2
<1>3. parts' = Split(Text[m]) /\ pc' = "line"
  BY <1>1, <1>2 DEF SplitRequest
<1> QED BY <1>3 DEF Reading

\* The request line is read.
LEMMA LineReading ==
    ASSUME NEW m \in Messages, Whole(m), Reading(m), ExtractRequestLine
    PROVE  Reading(m)'
<1>1. Intended(m) /\ pc = "line" /\ parts = Split(Text[m])
  BY DEF Whole, Reading, ExtractRequestLine
<1>2. parts.line = LineOf(m)
  BY <1>1, PartsSent
<1>f. PICK fs : fs = [method |-> m.method, uri |-> m.uri, http_version |-> m.http_version]
  OBVIOUS
<1>3. RequestLineOf[parts.line] = fs /\ NULL \notin {fs.method, fs.uri, fs.http_version}
  <2>1. RequestLineOf[LineOf(m)] = RequestLine(LineOf(m))
    BY <1>1, PartsReceived
  <2>2. RequestLine(LineOf(m)) = fs /\ NULL \notin {m.method, m.uri, m.http_version}
    BY <1>1, <1>f, RequestLineSent
  <2> QED BY <1>2, <1>f, <2>1, <2>2
<1>4. request_line' = fs /\ pc' = "fields" /\ parts' = parts
  BY <1>3 DEF ExtractRequestLine
<1> QED BY <1>1, <1>4, <1>f DEF Reading

\* The lines of the headers are listed.
LEMMA PushReading ==
    ASSUME NEW m \in Messages, Whole(m), Reading(m), PushHeaders
    PROVE  Reading(m)'
<1>1. Intended(m) /\ pc = "fields" /\ parts = Split(Text[m])
  BY DEF Whole, Reading, PushHeaders
<1>2. parts.fields = Fields(m)
  BY <1>1, PartsSent
<1>3. parts.fields # NULL /\ LinesOf[parts.fields] = HeaderLines(m)
  BY <1>1, <1>2, LinesSent, PartsReceived
<1>4. /\ headers' = HeaderLines(m) /\ header_fields' = <<>> /\ pc' = "header"
      /\ parts' = parts /\ request_line' = request_line
  BY <1>3 DEF PushHeaders
<1>5. headers' = SubSeq(HeaderLines(m), 0 + 1, Len(m.headers)) /\ 0 \in 0..Len(m.headers)
  <2>1. HeaderLines(m) \in Seq(Texts) /\ Len(HeaderLines(m)) = Len(m.headers) /\ Len(m.headers) \in Nat
    BY <1>1, HeadersSent
  <2>2. SubSeq(HeaderLines(m), 1, Len(HeaderLines(m))) = HeaderLines(m)
    BY <2>1, SubSeqFull
  <2> QED BY <1>4, <2>1, <2>2
<1>6. HeadersRead(m, 0)'
  <2>1. DOMAIN header_fields' = {}
    BY <1>4
  <2>2. 1..0 = {}
    OBVIOUS
  <2> QED BY <2>1, <2>2 DEF HeadersRead
<1> QED BY <1>1, <1>4, <1>5, <1>6 DEF Reading

\* One more header is read.
LEMMA HeaderRead ==
    ASSUME NEW m \in Messages, Intended(m), NEW k \in Nat, k + 1 \in DOMAIN m.headers,
           HeadersRead(m, k), NEW h, h = m.headers[k + 1],
           NEW r1 \in Residue, NEW r2 \in Residue, NEW field, field = KeyValue(HeaderLine(h) \o r1),
           header_fields' = IF ~field.present THEN header_fields
                            ELSE Inserted(header_fields, field.key \o r2, field.value)
    PROVE  HeadersRead(m, k + 1)'
<1>1. HasValue(h) => field.key = h.key /\ field.present /\ field.value = h.value \o r1
  <2>1. HasValue(h) => field = [key |-> h.key, present |-> TRUE, value |-> h.value \o r1]
    BY HeaderValued
  <2> QED BY <2>1
<1>2. ~HasValue(h) => field = KeyValue((h.key \o h.colon) \o r1)
  <2>1. ~HasValue(h) => HeaderLine(h) = h.key \o h.colon
    BY HeaderBare
  <2> QED BY <2>1
<1>3. field.present => ReadFrom(h, field.key \o r2, field.value)
  BY <1>1, <1>2 DEF ReadFrom, Readings
<1>4. \A i \in 1..k : i \in 1..k + 1 /\ i # k + 1
  OBVIOUS
<1>5. \A i \in 1..k + 1 : i \in 1..k \/ i = k + 1
  OBVIOUS
<1>6. k + 1 \in 1..k + 1
  OBVIOUS
<1>7. CASE ~field.present
  <2>1. header_fields' = header_fields /\ ~HasValue(h)
    BY <1>1, <1>7
  <2> QED BY <1>4, <1>5, <2>1 DEF HeadersRead
<1>8. CASE field.present
  <2>k. PICK key, value : key = field.key \o r2 /\ value = field.value
    OBVIOUS
  <2>1. /\ DOMAIN header_fields' = {key} \cup DOMAIN header_fields
        /\ \A x \in DOMAIN header_fields : header_fields'[x] = header_fields[x]
        /\ key \notin DOMAIN header_fields => header_fields'[key] = value
    BY <1>8, <2>k DEF Inserted
  <2>2. ReadFrom(h, key, value)
    BY <1>3, <1>8, <2>k
  <2>3. ASSUME NEW x \in DOMAIN header_fields'
        PROVE  \E i \in 1..k + 1 : ReadFrom(m.headers[i], x, header_fields'[x])
    <3>1. CASE x \in DOMAIN header_fields
      <4>1. PICK i \in 1..k : ReadFrom(m.headers[i], x, header_fields[x])
        BY <3>1 DEF HeadersRead
      <4>2. i \in 1..k + 1
        BY <1>4, <4>1
      <4> QED BY <2>1, <3>1, <4>1, <4>2
    <3>2. CASE x \notin DOMAIN header_fields
      <4>1. x = key /\ header_fields'[x] = value
        BY <2>1, <2>3, <3>2
      <4> QED BY <1>6, <2>2, <4>1
    <3> QED BY <3>1, <3>2
  <2>4. ASSUME NEW i \in 1..k + 1, HasValue(m.headers[i])
        PROVE  Readings(m.headers[i].key) \cap DOMAIN header_fields' # {}
    <3>1. CASE i \in 1..k
      <4>1. Readings(m.headers[i].key) \cap DOMAIN header_fields # {}
        BY <2>4, <3>1 DEF HeadersRead
      <4> QED BY <2>1, <4>1
    <3>2. CASE i = k + 1
      <4>1. key \in Readings(h.key)
        BY <1>1, <2>4, <2>k, <3>2 DEF Readings
      <4> QED BY <2>1, <3>2, <4>1, SMTT(30)
    <3> QED BY <1>5, <3>1, <3>2
  <2> QED BY <2>3, <2>4 DEF HeadersRead
<1> QED BY <1>7, <1>8

\* The reading of a header keeps what is known of the message.
LEMMA HeaderReading ==
    ASSUME NEW m \in Messages, Whole(m), Reading(m), ExtractHeader
    PROVE  Reading(m)'
<1>n. PICK N, lines : N = Len(m.headers) /\ lines = HeaderLines(m)
  OBVIOUS
<1>1. /\ Intended(m) /\ pc = "header" /\ parts = Split(Text[m])
      /\ request_line = [method |-> m.method, uri |-> m.uri, http_version |-> m.http_version]
      /\ parts' = parts /\ request_line' = request_line
  BY DEF Whole, Reading, ExtractHeader, request
<1>2. PICK k \in 0..N : headers = SubSeq(lines, k + 1, N) /\ HeadersRead(m, k)
  BY <1>1, <1>n DEF Reading
<1>3. /\ N \in Nat /\ lines \in Seq(Texts) /\ Len(lines) = N /\ DOMAIN m.headers = 1..N
  BY <1>1, <1>n, HeadersSent
<1>4. CASE k = N
  <2>1. headers = <<>>
    BY <1>2, <1>3, <1>4, SubSeqEmpty
  <2>2. pc' = "body" /\ header_fields' = header_fields
    BY <2>1 DEF ExtractHeader
  <2>3. HeadersRead(m, N)'
    BY <1>2, <1>4, <2>2 DEF HeadersRead
  <2> QED BY <1>1, <1>n, <2>2, <2>3 DEF Reading
<1>5. CASE k < N
  <2>1. k + 1 \in 1..N /\ k \in Nat /\ N \in k + 1..N /\ k + 1 \in 0..N
    BY <1>3, <1>5
  <2>2. /\ headers # <<>> /\ Head(headers) = lines[k + 1]
        /\ Tail(headers) = SubSeq(lines, (k + 1) + 1, N)
    <3> PICK T : T = Texts
      OBVIOUS
    <3>1. lines \in Seq(T) /\ k + 1 \in 1..Len(lines) /\ N \in (k + 1)..Len(lines)
      BY <1>3, <2>1
    <3>2. Head(SubSeq(lines, k + 1, N)) = lines[k + 1] /\ Tail(SubSeq(lines, k + 1, N)) = SubSeq(lines, (k + 1) + 1, N)
      BY <3>1, HeadTailOfSubSeq
    <3>3. Len(SubSeq(lines, k + 1, N)) = N - (k + 1) + 1 /\ N - (k + 1) + 1 # 0
      BY <3>1, <1>3, <2>1
    <3>4. SubSeq(lines, k + 1, N) # <<>>
      BY <3>3
    <3> QED BY <1>2, <3>2, <3>4
  <2>h. PICK h : h = m.headers[k + 1]
    OBVIOUS
  <2>3. k + 1 \in DOMAIN m.headers /\ lines[k + 1] = HeaderLine(h)
    BY <1>3, <1>n, <2>1, <2>h DEF HeaderLines
  <2>4. /\ pc' = pc /\ headers' = Tail(headers)
        /\ \E field \in {HeaderOf[HeaderLine(h) \o r] : r \in Residue}, r \in Residue :
              header_fields' = IF ~field.present THEN header_fields
                               ELSE Inserted(header_fields, field.key \o r, field.value)
    BY <2>2, <2>3 DEF ExtractHeader
  <2>5. PICK field \in {HeaderOf[HeaderLine(h) \o r] : r \in Residue}, r2 \in Residue :
              header_fields' = IF ~field.present THEN header_fields
                               ELSE Inserted(header_fields, field.key \o r2, field.value)
    BY <2>4
  <2>6. PICK r1 \in Residue : field = HeaderOf[HeaderLine(h) \o r1]
    BY <2>5
  <2>7. field = KeyValue(HeaderLine(h) \o r1)
    BY <1>1, <2>3, <2>6, <2>h, PartsReceived
  <2>8. HeadersRead(m, k + 1)'
    BY <1>1, <1>2, <2>1, <2>3, <2>5, <2>7, <2>h, HeaderRead
  <2>9. headers' = SubSeq(HeaderLines(m), (k + 1) + 1, Len(m.headers)) /\ k + 1 \in 0..Len(m.headers)
    BY <1>n, <2>1, <2>2, <2>4
  <2> QED BY <1>1, <2>4, <2>8, <2>9 DEF Reading
<1>6. k = N \/ k < N
  BY <1>3
<1> QED BY <1>4, <1>5, <1>6

\* The body.
LEMMA BodyReading ==
    ASSUME Arrival, NEW m \in Messages, Whole(m), Reading(m), ExtractBody
    PROVE  Reading(m)'
<1>n. PICK N : N = Len(m.headers)
  OBVIOUS
<1>1. /\ Intended(m) /\ pc = "body" /\ parts = Split(Text[m]) /\ body = Uninitialised
      /\ request_line = [method |-> m.method, uri |-> m.uri, http_version |-> m.http_version]
      /\ HeadersRead(m, N)
  BY <1>n DEF Whole, Reading, ExtractBody, Arrival
<1>2. parts.body = m.body /\ DOMAIN m.headers = 1..N
  BY <1>1, <1>n, PartsSent, HeadersSent
<1>3. header_fields # <<>>
  <2>1. PICK i \in 1..N : HasValue(m.headers[i])
    BY <1>1, <1>2 DEF Intended
  <2>2. Readings(m.headers[i].key) \cap DOMAIN header_fields # {}
    BY <1>1, <2>1 DEF HeadersRead
  <2>3. DOMAIN <<>> = {}
    OBVIOUS
  <2> QED BY <2>2, <2>3
<1>4. ContentType \in DOMAIN header_fields =>
        m.body # NULL /\ \A r \in Residue : header_fields[ContentType] \o r # FormType
  <2> SUFFICES ASSUME ContentType \in DOMAIN header_fields
               PROVE  m.body # NULL /\ \A r \in Residue : header_fields[ContentType] \o r # FormType
    OBVIOUS
  <2>1. PICK i \in 1..N : ReadFrom(m.headers[i], ContentType, header_fields[ContentType])
    BY <1>1 DEF HeadersRead
  <2> QED BY <1>1, <1>2, <2>1, ContentTypeSent
<1>d. PICK dict : dict = IF ContentType \in DOMAIN header_fields THEN Inserted(<<>>, DataKey, m.body) ELSE Uninitialised
  OBVIOUS
<1>5. Parsed(dict)
  <2>1. CASE ContentType \notin DOMAIN header_fields
    BY <1>1, <1>3, <1>d, <2>1 DEF ExtractBody
  <2>2. CASE ContentType \in DOMAIN header_fields
    <3>1. ExtractData
      BY <1>3, <1>4, <2>2 DEF ExtractBody
    <3> QED BY <1>2, <1>4, <1>d, <2>2, <3>1 DEF ExtractData
  <2> QED BY <2>1, <2>2
<1>6. /\ pc' = "route" /\ body' = dict
      /\ header_fields' = header_fields /\ request_line' = request_line
  BY <1>5 DEF Parsed
<1>7. Understood(m)'
  <2>1. \A key \in DOMAIN header_fields : \E i \in DOMAIN m.headers : ReadFrom(m.headers[i], key, header_fields[key])
    BY <1>1, <1>2 DEF HeadersRead
  <2>2. \A i \in DOMAIN m.headers :
          HasValue(m.headers[i]) => Readings(m.headers[i].key) \cap DOMAIN header_fields # {}
    BY <1>1, <1>2 DEF HeadersRead
  <2> QED BY <1>1, <1>6, <1>d, <2>1, <2>2 DEF Understood, ReadFrom
<1> QED BY <1>1, <1>6, <1>7 DEF Reading

\* The answer.
LEMMA AnswerReading ==
    ASSUME Arrival, ServerTypes, NEW m \in Messages, Whole(m), Whole(m)', Reading(m), Route \/ Write \/ Destroy
    PROVE  Reading(m)'
<1>1. CASE Route
  <2>1. /\ pc = "route" /\ UNCHANGED <<routes, client, header_fields, request_line, body>>
        /\ IF DOMAIN routes = {} THEN pc' = "crashed" ELSE pc' = "write"
    BY <1>1 DEF Route, Crash, locals, request
  <2>2. Understood(m)'
    BY <2>1 DEF Reading, Understood
  <2> QED BY <2>1, <2>2 DEF Reading
<1>2. CASE Write
  <2>1. CASE got' = [got EXCEPT ![client] = response] /\ Close
    <3>1. pc' = "destroy" /\ client' = client
      <4>1. received' # NULL
        BY TextReceived DEF Whole
      <4> QED BY <2>1, <4>1 DEF Close, Return
    <3>2. client \in Clients /\ got'[client] = response /\ response # NoAnswer
      BY <1>2, <2>1 DEF Whole, ServerTypes, Write, Arrival
    <3> QED BY <3>1, <3>2 DEF Reading
  <2>2. CASE peer[client] = "left" /\ Crash
    <3>1. pc' = "crashed" /\ peer'[client'] = "left"
      BY <2>2 DEF Crash, outside
    <3> QED BY <3>1 DEF Reading
  <2> QED BY <1>2, <2>1, <2>2 DEF Write
<1>3. CASE Destroy
  <2>1. pc = "destroy" /\ pc' = "crashed" /\ UNCHANGED <<client, got>>
    BY <1>3 DEF Destroy, Crash, outside
  <2> QED BY <2>1 DEF Reading
<1> QED BY <1>1, <1>2, <1>3

\* Before and after there is nothing that has been read as a whole.
LEMMA NothingRead ==
    ASSUME Arrival', pc' \in {"bind", "listen", "register", "accept", "read"} \/ received' = NULL,
           NEW m \in Messages
    PROVE  ~Whole(m)'
<1>1. received' = NULL
  BY DEF Arrival
<1> QED BY <1>1, TextReceived DEF Whole

\* What the clients do.
LEMMA ClientReading ==
    ASSUME IInv, ReadInv, NEW c \in Clients, Connect(c) \/ Send(c) \/ Receive(c) \/ Leave(c),
           NEW m \in Messages, Whole(m)'
    PROVE  Reading(m)'
<1>1. UNCHANGED <<pc, routes, client, received, parts, headers, request_line, header_fields, body, got>>
  BY DEF Connect, Send, Receive, Leave, locals, request
<1>2. /\ \A d \in Clients : asked[d] # NoMessage => asked'[d] = asked[d]
      /\ \A d \in Clients : peer[d] = "left" => peer'[d] = "left"
  BY ClientArrival DEF ReadInv
<1>3. client \in Clients /\ received = Text[m] /\ Intended(m) /\ asked'[client] = m
  BY <1>1 DEF Whole
<1>4. asked[client] # NoMessage
  <2>1. received # NULL
    BY <1>3, TextReceived
  <2>2. asked[client] \in Messages
    BY <2>1 DEF ReadInv, Arrival
  <2> QED BY <2>2, HTTPServerAssumption DEF HTTPServerAssumption, Messages
<1>5. Whole(m)
  BY <1>2, <1>3, <1>4 DEF Whole
<1>6. Reading(m)
  BY <1>5 DEF ReadInv
<1>7. Understood(m) => Understood(m)'
  BY <1>1 DEF Understood
<1>8. \A k : HeadersRead(m, k) => HeadersRead(m, k)'
  BY <1>1 DEF HeadersRead
<1> QED BY <1>1, <1>2, <1>3, <1>6, <1>7, <1>8 DEF Reading

\* Every step keeps what is known.
LEMMA StepReadInv ==
    ASSUME IInv, ReadInv, Next
    PROVE  ReadInv'
<1>1. Arrival'
  BY ServerArrival, ClientArrival DEF ReadInv, Next, Handle, Parsing
<1>2. ASSUME NEW m \in Messages, Whole(m)' PROVE Reading(m)'
  <2>1. CASE Bind \/ Listen \/ Register \/ Launch \/ Accept \/ AcceptFails
    <3>1. pc' \in {"bind", "listen", "register", "accept", "read"} \/ received' = NULL \/ pc' = "exited"
      BY <2>1 DEF Bind, Listen, Register, Launch, Accept, AcceptFails
    <3>2. pc' = "exited" => Reading(m)'
      BY DEF Reading
    <3> QED BY <1>1, <1>2, <3>1, <3>2, NothingRead
  <2>2. CASE Read
    <3>1. pc' = "split"
      BY <2>2 DEF Read
    <3> QED BY <3>1 DEF Reading
  <2>3. CASE \/ SplitRequest \/ ExtractRequestLine \/ PushHeaders \/ ExtractHeader \/ ExtractBody
             \/ PushField \/ Route \/ Destroy
    <3>1. UNCHANGED <<client, asked, received>>
      <4> USE DEF Crash, outside, locals, request
      <4>1. CASE SplitRequest \/ ExtractRequestLine \/ PushHeaders \/ ExtractHeader
        BY <4>1 DEF SplitRequest, ExtractRequestLine, PushHeaders, ExtractHeader
      <4>2. CASE ExtractBody
        BY <4>2 DEF ExtractBody, ExtractForm, ExtractData, Parsed, StartPushing
      <4>3. CASE PushField \/ Route \/ Destroy
        BY <4>3 DEF PushField, Route, Destroy
      <4> QED BY <2>3, <4>1, <4>2, <4>3
    <3>2. Whole(m)
      BY <1>2, <3>1 DEF Whole
    <3>3. Reading(m) /\ Arrival /\ ServerTypes
      BY <3>2 DEF ReadInv, IInv
    <3>4. ~PushField
      BY <3>3 DEF PushField, Reading
    <3> QED BY <1>2, <2>3, <3>2, <3>3, <3>4, SplitReading, LineReading, PushReading, HeaderReading,
               BodyReading, AnswerReading
  <2>4. CASE Write
    <3>1. UNCHANGED <<client, asked, received>>
      <4>1. received' # NULL
        BY <1>2, TextReceived DEF Whole
      <4> QED BY <2>4, <4>1 DEF Write, Close, Return, Crash, outside, locals
    <3>2. Whole(m)
      BY <1>2, <3>1 DEF Whole
    <3>3. Reading(m) /\ Arrival /\ ServerTypes
      BY <3>2 DEF ReadInv, IInv
    <3> QED BY <1>2, <2>4, <3>2, <3>3, AnswerReading
  <2>5. CASE \E c \in Clients : Connect(c) \/ Send(c) \/ Receive(c) \/ Leave(c)
    BY <1>2, <2>5, ClientReading
  <2> QED BY <2>1, <2>2, <2>3, <2>4, <2>5 DEF Next, Handle
<1> QED BY <1>1, <1>2 DEF ReadInv

\* So does a step that changes nothing.
LEMMA StutterReadInv ==
    ASSUME ReadInv, UNCHANGED vars
    PROVE  ReadInv'
<1>1. UNCHANGED <<pc, routes, client, received, parts, headers, request_line, header_fields, body,
                  response, peer, asked, got>>
  BY DEF vars, locals, outside, request
<1>2. Arrival'
  BY <1>1 DEF ReadInv, Arrival
<1>3. ASSUME NEW m \in Messages, Whole(m)' PROVE Reading(m)'
  <2>1. Whole(m)
    BY <1>1, <1>3 DEF Whole
  <2>2. Reading(m)
    BY <2>1 DEF ReadInv
  <2>3. Understood(m) => Understood(m)'
    BY <1>1 DEF Understood
  <2>4. \A k : HeadersRead(m, k) => HeadersRead(m, k)'
    BY <1>1 DEF HeadersRead
  <2> QED BY <1>1, <2>2, <2>3, <2>4 DEF Reading
<1> QED BY <1>2, <1>3 DEF ReadInv

\* A message of the kind the parser is made for that arrives whole is
\* understood, and the server does not end before it is answered, unless its
\* client leaves or nothing is registered: whatever the other messages are, and
\* whatever lies behind the copies the parser makes.
THEOREM IntendedIsUnderstood == Spec => []IntendedUnderstood
<1>1. ASSUME IInv, ReadInv, [Next]_vars PROVE ReadInv'
  BY <1>1, StepReadInv, StutterReadInv
<1>2. ASSUME IInv, ReadInv PROVE IntendedUnderstood
  <2> SUFFICES ASSUME NEW m, m = asked[client], client # NoClient, m # NoMessage, Intended(m), received = Text[m]
               PROVE  /\ pc \in {"route", "write"} => Understood(m)
                      /\ pc = "crashed" => \/ got[client] # NoAnswer \/ peer[client] = "left" \/ DOMAIN routes = {}
    BY DEF IntendedUnderstood
  <2>1. client \in Clients /\ m \in Messages
    BY <1>2 DEF IInv, ServerTypes
  <2>2. Whole(m)
    BY <2>1 DEF Whole
  <2>3. Reading(m)
    BY <1>2, <2>1, <2>2 DEF ReadInv
  <2> QED BY <2>3 DEF Reading
<1> QED BY <1>1, <1>2, InitReadInv, Inductive, PTL DEF Spec

----------------------------------------------------------------------------
\* What the parser makes of a string is a string

LEMMA TextsAreStrings == Texts = Strings
<1>1. Space \in Separators
  BY Zenon DEF Separators, Space
<1>2. Space \in Characters
  BY <1>1, Zenon DEF Characters
<1>3. Characters \cup {Space} = Characters
  BY <1>2
<1> QED BY <1>3 DEF Texts, Strings

\* What one read gets is a string.
LEMMA ReceivedStrings == Received \subseteq Strings
<1> SUFFICES ASSUME NEW s \in Received PROVE s \in Strings
  OBVIOUS
<1>1. CASE s = NULL
  BY <1>1 DEF NULL, Strings
<1>2. CASE s # NULL
  <2>m. PICK m \in Messages : s \in {SubSeq(Text[m], 1, n) : n \in 1..Len(Text[m])}
    BY <1>2 DEF Received
  <2>1. PICK n \in 1..Len(Text[m]) : s = SubSeq(Text[m], 1, n)
    BY <2>m
  <2>t. PICK text, C : text = Text[m] /\ C = Characters
    OBVIOUS
  <2>2. text \in Seq(C)
    BY <2>t, TextBegins, TextsAreStrings DEF Begins, Strings
  <2>3. n \in Nat /\ n <= Len(text) /\ s = SubSeq(text, 1, n)
    BY <2>1, <2>2, <2>t
  <2>4. s \in Seq(C)
    BY <2>2, <2>3, Beginning
  <2> QED BY <2>4, <2>t DEF Strings
<1> QED BY <1>1, <1>2

\* A part of a sequence.
LEMMA PartOf ==
    ASSUME NEW C, NEW s \in Seq(C), NEW a \in Nat, a > 0, NEW b \in Nat, b <= Len(s)
    PROVE  /\ SubSeq(s, a, b) \in Seq(C)
           /\ a <= b => SubSeq(s, a, b) # <<>> /\ SubSeq(s, a, b)[1] = s[a]
<1>1. \A i \in a..b : s[i] \in C
  <2>1. \A i \in a..b : i \in 1..Len(s)
    OBVIOUS
  <2> QED BY <2>1, ElementOfSeq
<1>2. /\ SubSeq(s, a, b) \in Seq(C)
      /\ Len(SubSeq(s, a, b)) = IF a <= b THEN b - a + 1 ELSE 0
      /\ \A i \in 1..b - a + 1 : SubSeq(s, a, b)[i] = s[a + i - 1]
  BY <1>1, SubSeqProperties
<1>3. ASSUME a <= b PROVE SubSeq(s, a, b) # <<>> /\ SubSeq(s, a, b)[1] = s[a]
  <2>1. Len(SubSeq(s, a, b)) > 0 /\ 1 \in 1..b - a + 1 /\ a + 1 - 1 = a
    BY <1>2, <1>3
  <2>2. SubSeq(s, a, b) # <<>>
    BY <1>2, <2>1, EmptySeq
  <2> QED BY <1>2, <2>1, <2>2
<1> QED BY <1>2, <1>3

\* strtok gives parts of its string; there is no rest without a token.
LEMMA StrtokParts ==
    ASSUME NEW C, NEW s \in Seq(C), NEW D
    PROVE  /\ Strtok(s, D).token \in Seq(C) /\ Strtok(s, D).rest \in Seq(C)
           /\ Strtok(s, D).rest # NULL => Strtok(s, D).token # NULL
<1> PICK first, past : first = FirstInside(s, D) /\ past = FirstOutside(s, D, first)
  OBVIOUS
<1>1. Strtok(s, D) = Token(s, first, past)
  BY StrtokIs
<1>2. CASE first = 0
  <2>1. Strtok(s, D) = [token |-> NULL, rest |-> NULL]
    BY <1>1, <1>2 DEF Token
  <2>2. <<>> \in Seq(C)
    OBVIOUS
  <2> QED BY <2>1, <2>2 DEF NULL
<1>3. CASE first # 0
  <2> PICK N : N = Len(s)
    OBVIOUS
  <2>n. N \in Nat
    OBVIOUS
  <2>1. first \in 1..N /\ s[first] \notin D
    <3> PICK I : I = {i \in 1..Len(s) : s[i] \notin D}
      OBVIOUS
    <3>1. I # {} /\ first = Min(I)
      BY <1>3 DEF FirstInside
    <3>2. I \subseteq Nat
      OBVIOUS
    <3>3. first \in I
      BY <3>1, <3>2, LeastOf
    <3> QED BY <3>3
  <2>2. past = 0 \/ (past \in first..N /\ s[past] \in D)
    <3> PICK I : I = {i \in first..Len(s) : s[i] \in D}
      OBVIOUS
    <3>1. past = IF I # {} THEN Min(I) ELSE 0
      BY DEF FirstOutside
    <3>2. I \subseteq Nat
      BY <2>1
    <3>3. I # {} => Min(I) \in I
      BY <3>2, LeastOf
    <3> QED BY <3>1, <3>3
  <2>l. PICK last : last = IF past = 0 THEN N ELSE past - 1
    OBVIOUS
  <2>3. first \in Nat /\ first > 0 /\ last \in Nat /\ first <= last /\ last <= N
    BY <2>n, <2>1, <2>2, <2>l
  <2>4. Strtok(s, D) = [token |-> SubSeq(s, first, last), rest |-> SubSeq(s, last + 2, N)]
    BY <1>1, <1>3, <2>l DEF Token
  <2>5. SubSeq(s, first, last) \in Seq(C) /\ SubSeq(s, first, last) # <<>>
    BY <2>3, PartOf
  <2>6. SubSeq(s, last + 2, N) \in Seq(C)
    <3>1. last + 2 \in Nat /\ last + 2 > 0 /\ N <= Len(s)
      BY <2>n, <2>3
    <3> QED BY <2>n, <3>1, PartOf
  <2> QED BY <2>4, <2>5, <2>6 DEF NULL
<1> QED BY <1>2, <1>3

\* The strings of a request.
LEMMA SplitStrings ==
    ASSUME NEW s \in Strings
    PROVE  Split(s) \in [line : Strings, fields : Strings, body : Strings]
<1>c. PICK C : C = Characters
  OBVIOUS
<1>1. s \in Seq(C) /\ Len(s) \in Nat
  BY <1>c DEF Strings
<1>t. PICK t : t = MarkBlankLines(s)
  OBVIOUS
<1>2. t \in Seq(C)
  <2>1. PICK marked : t = [i \in 1..Len(s) |-> IF marked[i] THEN "|" ELSE s[i]]
    BY <1>1, <1>t, MarkedBy
  <2>2. "|" \in C
    <3>1. "|" \in Separators
      BY Zenon DEF Separators
    <3> QED BY <1>c, <3>1, Zenon DEF Characters
  <2>3. \A i \in 1..Len(s) : s[i] \in C
    BY <1>1, ElementOfSeq
  <2>4. t \in [1..Len(s) -> C]
    BY <2>1, <2>2, <2>3
  <2> QED BY <1>1, <2>4
<1>f. PICK first, upper : first = Strtok(t, {LF}) /\ upper = Strtok(first.rest, {"|"})
  OBVIOUS
<1>3. first.token \in Seq(C) /\ first.rest \in Seq(C)
  BY <1>2, <1>f, StrtokParts
<1>4. upper.token \in Seq(C) /\ upper.rest \in Seq(C)
  BY <1>3, <1>f, StrtokParts
<1>5. Strtok(upper.rest, {"|"}).token \in Seq(C)
  BY <1>4, StrtokParts
<1>6. Split(s) = [line |-> first.token, fields |-> upper.token,
                  body |-> Strtok(upper.rest, {"|"}).token]
  BY <1>f, <1>t, SplitBy
<1>7. Strings = Seq(C)
  BY <1>c DEF Strings
<1> QED BY <1>3, <1>4, <1>5, <1>6, <1>7

\* The strings of a request line.
LEMMA LineStrings ==
    ASSUME NEW s \in Strings
    PROVE  RequestLine(s) \in [method : Strings, uri : Strings, http_version : Strings]
<1>c. PICK C : C = Characters
  OBVIOUS
<1>f. PICK method, uri : method = Strtok(s, {Space}) /\ uri = Strtok(method.rest, {Space})
  OBVIOUS
<1>1. s \in Seq(C)
  BY <1>c DEF Strings
<1>2. method.token \in Seq(C) /\ method.rest \in Seq(C)
  BY <1>1, <1>f, StrtokParts
<1>3. uri.token \in Seq(C) /\ uri.rest \in Seq(C)
  BY <1>2, <1>f, StrtokParts
<1>4. RequestLine(s) = [method |-> method.token, uri |-> uri.token, http_version |-> uri.rest]
  BY <1>f, RequestLineIs
<1> QED BY <1>2, <1>3, <1>4, <1>c DEF Strings

\* Every place up to the size of a set of numbers has a number of the set.
LEMMA NthIsIn ==
    ASSUME NEW N \in Nat, NEW S, S \subseteq 1..N, NEW n \in 1..Cardinality(S)
    PROVE  Nth(S, n) \in S
<1>0. \A y \in S : y \in Nat /\ 1 <= y /\ y <= N
  OBVIOUS
<1> DEFINE Upto(k) == {y \in S : y <= k}
<1>1. ASSUME NEW k \in Nat PROVE IsFiniteSet(Upto(k)) /\ Cardinality(Upto(k)) \in Nat
  <2>1. IsFiniteSet(1..N)
    BY FS_Interval
  <2>2. IsFiniteSet(Upto(k))
    <3>1. Upto(k) \in SUBSET (1..N)
      OBVIOUS
    <3> HIDE DEF Upto
    <3> QED BY <2>1, <3>1, FS_Subset
  <2> HIDE DEF Upto
  <2> QED BY <2>2, FS_CardinalityType
<1>2. Cardinality(Upto(0)) = 0
  <2>1. Upto(0) = {}
    <3>1. \A y \in S : ~(y <= 0)
      BY <1>0
    <3> QED BY <3>1, Zenon
  <2> QED BY <2>1, FS_EmptySet
<1>3. Upto(N) = S
  BY <1>0, Zenon
<1>n. n \in Nat /\ n > 0 /\ n <= Cardinality(S)
  <2>1. Cardinality(S) \in Nat
    BY <1>1, <1>3
  <2> QED BY <2>1
<1> DEFINE Enough == {k \in Nat : Cardinality(Upto(k)) >= n}
<1>4. N \in Enough /\ Enough \subseteq Nat
  <2>1. Cardinality(Upto(N)) >= n
    BY <1>1, <1>3, <1>n
  <2> HIDE DEF Upto
  <2> QED BY <2>1
<1>5. PICK k \in Enough : \A j \in Enough : k <= j
  <2> HIDE DEF Enough
  <2> QED BY <1>4, LeastNatural
<1>6. k \in Nat /\ Cardinality(Upto(k)) >= n /\ Cardinality(Upto(k)) \in Nat
  <2>1. k \in Nat /\ Cardinality(Upto(k)) >= n
    <3> HIDE DEF Upto
    <3> QED BY <1>5
  <2> HIDE DEF Upto
  <2> QED BY <1>1, <2>1
<1>7. k # 0
  <2> HIDE DEF Upto
  <2> QED BY <1>2, <1>6, <1>n
<1>8. k - 1 \in Nat /\ k - 1 \notin Enough
  <2>1. k - 1 \in Nat /\ ~(k <= k - 1)
    BY <1>6, <1>7
  <2> HIDE DEF Enough
  <2> QED BY <1>5, <2>1
<1>9. Cardinality(Upto(k - 1)) < n /\ Cardinality(Upto(k - 1)) \in Nat
  <2>1. Cardinality(Upto(k - 1)) \in Nat
    BY <1>1, <1>8
  <2>2. ~(Cardinality(Upto(k - 1)) >= n)
    <3> HIDE DEF Upto
    <3> QED BY <1>8
  <2> HIDE DEF Upto
  <2> QED BY <1>n, <2>1, <2>2
<1>10. Upto(k) = Upto(k - 1) \cup {y \in S : y = k}
  <2>1. \A y \in S : y <= k <=> y <= k - 1 \/ y = k
    <3>1. k \in Nat
      BY <1>6
    <3> HIDE DEF Upto, Enough
    <3> QED BY <1>0, <3>1
  <2> QED BY <2>1, ZenonT(30)
<1>11. k \in S
  <2> SUFFICES ASSUME k \notin S PROVE FALSE
    OBVIOUS
  <2>1. {y \in S : y = k} = {}
    OBVIOUS
  <2>2. Upto(k) = Upto(k - 1)
    BY <1>10, <2>1
  <2> HIDE DEF Upto
  <2> QED BY <1>6, <1>9, <1>n, <2>2
<1>12. Cardinality(Upto(k)) = n
  <2>1. Upto(k) = Upto(k - 1) \cup {k}
    BY <1>10, <1>11
  <2> HIDE DEF Upto
  <2>2. Cardinality(Upto(k - 1) \cup {k}) \in {Cardinality(Upto(k - 1)), Cardinality(Upto(k - 1)) + 1}
    BY <1>1, <1>8, FS_AddElement
  <2> QED BY <1>6, <1>9, <1>n, <2>1, <2>2
<1>13. \E x \in S : Cardinality({y \in S : y <= x}) = n
  BY <1>11, <1>12
<1> QED BY <1>13, Zenon DEF Nth

\* Every line that is found is a word.
LEMMA LineWords ==
    ASSUME NEW s \in Strings
    PROVE  Lines(s) \in Seq(Words)
<1>c. PICK C : C = Characters
  OBVIOUS
<1>1. s \in Seq(C) /\ Len(s) \in Nat /\ DOMAIN s = 1..Len(s)
  BY <1>c DEF Strings
<1>s. PICK S : S = Starts(s)
  OBVIOUS
<1>k. PICK K : K = Cardinality(S)
  OBVIOUS
<1>2. Lines(s) = [n \in 1..K |-> Strtok(SubSeq(s, Nth(S, n), Len(s)), {LF}).token]
  <2>1. Lines(s) = [n \in 1..Cardinality(Starts(s)) |->
                      Strtok(SubSeq(s, Nth(Starts(s), n), Len(s)), {LF}).token]
    BY Zenon DEF Lines, Starts, Nth
  <2> QED BY <1>s, <1>k, <2>1
<1>3. S \subseteq 1..Len(s) /\ \A i \in S : s[i] # LF
  BY <1>1, <1>s DEF Starts
<1>4. K \in Nat
  <2>1. IsFiniteSet(1..Len(s))
    BY <1>1, FS_Interval
  <2>2. IsFiniteSet(S)
    BY <1>3, <2>1, FS_Subset
  <2> QED BY <1>k, <2>2, FS_CardinalityType
<1>5. ASSUME NEW n \in 1..K PROVE Strtok(SubSeq(s, Nth(S, n), Len(s)), {LF}).token \in Words
  <2>i. PICK i : i = Nth(S, n)
    OBVIOUS
  <2>1. i \in S
    BY <1>1, <1>3, <1>k, <2>i, NthIsIn
  <2>2. i \in Nat /\ i > 0 /\ i <= Len(s) /\ s[i] # LF
    BY <1>1, <1>3, <2>1
  <2>u. PICK u : u = SubSeq(s, i, Len(s))
    OBVIOUS
  <2>3. u \in Seq(C) /\ u # <<>> /\ u[1] = s[i]
    <3>1. Len(s) \in Nat /\ Len(s) <= Len(s)
      BY <1>1
    <3> QED BY <1>1, <2>2, <2>u, <3>1, PartOf, ZenonT(30)
  <2>4. Len(u) \in Nat /\ Len(u) > 0 /\ u[1] \notin {LF}
    BY <2>2, <2>3, EmptySeq
  <2>5. PICK last \in 1..Len(u) : Strtok(u, {LF}).token = SubSeq(u, 1, last)
    <3> PICK D : D = {LF}
      OBVIOUS
    <3>1. u \in Seq(C) /\ Len(u) > 0 /\ u[1] \notin D
      BY <2>3, <2>4
    <3>2. \E last \in 1..Len(u) :
             /\ Strtok(u, D).token = SubSeq(u, 1, last)
             /\ Strtok(u, D).rest = SubSeq(u, last + 2, Len(u))
             /\ \A j \in 1..last : u[j] \notin D
             /\ last < Len(u) => u[last + 1] \in D
      BY <3>1, StrtokCuts
    <3>3. \E last \in 1..Len(u) : Strtok(u, D).token = SubSeq(u, 1, last)
      BY <3>2
    <3> QED BY <3>3
  <2>6. SubSeq(u, 1, last) \in Seq(C) /\ SubSeq(u, 1, last) # <<>>
    <3>1. 1 \in Nat /\ 1 > 0 /\ last \in Nat /\ last <= Len(u) /\ 1 <= last
      BY <2>4
    <3> QED BY <2>3, <3>1, PartOf
  <2> QED BY <1>c, <2>5, <2>6, <2>i, <2>u DEF Words, Strings, NULL
<1>6. Lines(s) \in [1..K -> Words]
  BY <1>2, <1>5
<1> PICK W : W = Words
  OBVIOUS
<1>7. Lines(s) \in [1..K -> W]
  BY <1>6
<1>8. Lines(s) \in Seq(W)
  BY <1>4, <1>7
<1> QED BY <1>8

\* The two strings of a header line; there is no value without a key.
LEMMA KeyValueStrings ==
    ASSUME NEW s \in Strings, NEW f, f = KeyValue(s)
    PROVE  f.key \in Strings /\ f.value \in Strings /\ (f.present => f.key # NULL)
<1>c. PICK C : C = Characters
  OBVIOUS
<1>k. PICK key : key = Strtok(s, {":"})
  OBVIOUS
<1>1. s \in Seq(C)
  BY <1>c DEF Strings
<1>2. key.token \in Seq(C) /\ key.rest \in Seq(C) /\ (key.rest # NULL => key.token # NULL)
  BY <1>1, <1>k, StrtokParts
<1>3. key.rest # NULL => Tail(key.rest) \in Seq(C)
  BY <1>2, HeadTailProperties DEF NULL
<1>4. f = [key |-> key.token, present |-> key.rest # NULL,
           value |-> IF key.rest # NULL /\ key.rest[1] = Space THEN Tail(key.rest) ELSE key.rest]
  BY <1>k, KeyValueBy
<1>5. Strings = Seq(C)
  BY <1>c DEF Strings
<1>6. f.key \in Strings /\ f.value \in Strings
  BY <1>2, <1>3, <1>4, <1>5
<1>7. f.key = key.token
  BY <1>4
<1>8. key.rest = NULL => f.present = FALSE
  <2>p. PICK p, v : /\ p = (key.rest # NULL)
                    /\ v = IF key.rest # NULL /\ key.rest[1] = Space THEN Tail(key.rest) ELSE key.rest
    OBVIOUS
  <2>1. f = [key |-> key.token, present |-> p, value |-> v]
    BY <1>4, <2>p, Zenon
  <2>2. f.present = p
    BY <2>1
  <2> QED BY <2>2, <2>p, Zenon
<1> QED BY <1>2, <1>6, <1>7, <1>8, Zenon

----------------------------------------------------------------------------
\* The types of the strings

\* What is taken apart is in the tables of what can be read.
Tabled ==
    /\ received \in Received
    /\ pc \in {"line", "fields"} => parts \in {PartsOf[s] : s \in Received}
    /\ \A i \in DOMAIN headers : headers[i] \in AllLines

StringInv == StringTypes /\ Tabled

LEMMA EmptyStrings ==
    /\ NULL \in Strings /\ NULL \in Received /\ <<>> \in Seq(Words)
    /\ NoParts \in [line : Strings, fields : Strings, body : Strings]
<1>1. NULL \in Strings
  BY DEF NULL, Strings
<1> PICK W : W = Words
  OBVIOUS
<1>2. <<>> \in Seq(W)
  OBVIOUS
<1> QED BY <1>1, <1>2 DEF NoParts, Received

LEMMA InitStrings == Init => StringInv
<1> SUFFICES ASSUME Init PROVE StringInv
  OBVIOUS
<1>1. /\ pc = "bind" /\ received = NULL /\ parts = NoParts /\ headers = <<>>
      /\ request_line = NoLine /\ header_fields = <<>> /\ body = Uninitialised
  BY DEF Init
<1> QED BY <1>1, EmptyStrings DEF StringInv, StringTypes, Tabled

\* The parts of what was read.
LEMMA PartsFound ==
    ASSUME NEW ps \in {PartsOf[s] : s \in Received}
    PROVE  /\ ps \in [line : Strings, fields : Strings, body : Strings]
           /\ RequestLineOf[ps.line] \in [method : Strings, uri : Strings, http_version : Strings]
           /\ LinesOf[ps.fields] \in Seq(Words)
           /\ \A i \in DOMAIN LinesOf[ps.fields] : LinesOf[ps.fields][i] \in AllLines
<1>1. PICK s \in Received : ps = PartsOf[s]
  OBVIOUS
<1>2. ps = Split(s)
  BY <1>1 DEF PartsOf
<1>3. ps \in [line : Strings, fields : Strings, body : Strings]
  <2>1. s \in Strings
    BY ReceivedStrings
  <2> QED BY <1>2, <2>1, SplitStrings
<1>4. ps.line \in {PartsOf[x].line : x \in Received} /\ ps.fields \in {PartsOf[x].fields : x \in Received}
  BY <1>1
<1>5. RequestLineOf[ps.line] = RequestLine(ps.line) /\ ps.line \in Strings
  BY <1>3, <1>4 DEF RequestLineOf
<1>6. LinesOf[ps.fields] = Lines(ps.fields) /\ ps.fields \in DOMAIN LinesOf /\ ps.fields \in Strings
  BY <1>3, <1>4 DEF LinesOf
<1>7. RequestLineOf[ps.line] \in [method : Strings, uri : Strings, http_version : Strings]
  BY <1>5, LineStrings
<1>8. LinesOf[ps.fields] \in Seq(Words)
  BY <1>6, LineWords
<1>9. \A i \in DOMAIN LinesOf[ps.fields] : LinesOf[ps.fields][i] \in AllLines
  BY <1>6 DEF AllLines, Range
<1> QED BY <1>3, <1>7, <1>8, <1>9

\* What is found in a line with something behind it.
LEMMA HeaderFound ==
    ASSUME NEW line, line \in Words, line \in AllLines, NEW r \in Residue, NEW field, field = HeaderOf[line \o r]
    PROVE  field.key \in Strings /\ field.value \in Strings /\ (field.present => field.key # NULL)
<1>1. line \o r \in Behinds(AllLines)
  BY DEF Behinds
<1>2. HeaderOf = [x \in Behinds(AllLines) |-> KeyValue(x)]
  BY DEF HeaderOf, Behinds, AllLines
<1>3. field = KeyValue(line \o r)
  BY <1>1, <1>2
<1>4. line \o r \in Strings
  <2> PICK C : C = Characters
    OBVIOUS
  <2>1. line \in Seq(C) /\ r \in Seq(C)
    BY HTTPServerAssumption DEF Words, Strings, HTTPServerAssumption
  <2> QED BY <2>1, JoinedIn DEF Strings
<1> QED BY <1>3, <1>4, KeyValueStrings

\* A key with something behind it.
LEMMA KeyStored ==
    ASSUME NEW key \in Strings, key # NULL, NEW r \in Residue
    PROVE  key \o r \in Words
<1> PICK C : C = Characters
  OBVIOUS
<1>1. key \in Seq(C) /\ r \in Seq(C) /\ key # <<>>
  BY HTTPServerAssumption DEF Strings, HTTPServerAssumption, NULL
<1>2. /\ key \o r \in Seq(C) /\ Len(key \o r) = Len(key) + Len(r)
      /\ Len(key) \in Nat /\ Len(r) \in Nat /\ Len(key) # 0
  BY <1>1, JoinedIn, EmptySeq
<1>3. key \o r # <<>>
  BY <1>2
<1> QED BY <1>2, <1>3 DEF Words, Strings, NULL

\* The steps that read and split.
LEMMA ReadStrings ==
    ASSUME Arrival, ServerTypes, StringInv, AcceptFails \/ Read \/ SplitRequest
    PROVE  StringInv'
<1> USE DEF locals, outside, request, Crash
<1>1. CASE AcceptFails
  BY <1>1, EmptyStrings DEF AcceptFails, StringInv, StringTypes, Tabled
<1>2. CASE Read
  <2>1. received' \in Received
    <3>1. CASE received' = NULL
      BY <3>1, EmptyStrings
    <3>2. CASE received' # NULL
      <4>1. /\ asked[client] # NoMessage
            /\ \E n \in 1..Len(Text[asked[client]]) : received' = SubSeq(Text[asked[client]], 1, n)
        BY <1>2, <3>2 DEF Read
      <4>2. asked[client] \in Messages
        BY <1>2, <4>1 DEF Read, Arrival, ServerTypes
      <4> QED BY <4>1, <4>2 DEF Received
    <3> QED BY <3>1, <3>2
  <2>2. received' \in Strings
    BY <2>1, ReceivedStrings
  <2>3. pc' = "split" /\ UNCHANGED <<parts, headers, request_line, header_fields, body>>
    BY <1>2 DEF Read
  <2>4. Tabled'
    BY <2>1, <2>3 DEF StringInv, Tabled
  <2>5. StringTypes'
    BY <2>2, <2>3 DEF StringInv, StringTypes
  <2> QED BY <2>4, <2>5 DEF StringInv
<1>3. CASE SplitRequest
  <2>1. UNCHANGED <<received, headers, request_line, header_fields, body>>
    BY <1>3 DEF SplitRequest
  <2>2. CASE pc' = "crashed"
    <3>1. parts' = parts
      BY <1>3, <2>2 DEF SplitRequest
    <3> QED BY <2>1, <2>2, <3>1 DEF StringInv, StringTypes, Tabled
  <2>3. CASE pc' # "crashed"
    <3>1. parts' = PartsOf[received] /\ received \in Received
      BY <1>3, <2>3 DEF SplitRequest, StringInv, Tabled
    <3>2. parts' \in {PartsOf[s] : s \in Received}
      BY <3>1
    <3>3. parts' \in [line : Strings, fields : Strings, body : Strings]
      BY <3>2, PartsFound
    <3>4. Tabled'
      BY <2>1, <3>2 DEF StringInv, Tabled
    <3>5. StringTypes'
      BY <2>1, <3>3 DEF StringInv, StringTypes
    <3> QED BY <3>4, <3>5 DEF StringInv
  <2> QED BY <2>2, <2>3
<1> QED BY <1>1, <1>2, <1>3

\* The steps that take the request line and the headers apart.
LEMMA FieldStrings ==
    ASSUME StringInv, ExtractRequestLine \/ PushHeaders \/ ExtractHeader
    PROVE  StringInv'
<1> USE DEF locals, outside, request, Crash
<1>1. UNCHANGED <<received, parts, body>>
  BY DEF ExtractRequestLine, PushHeaders, ExtractHeader
<1>2. CASE pc' = "crashed"
  <2>1. UNCHANGED <<headers, request_line, header_fields>>
    BY <1>2 DEF ExtractRequestLine, PushHeaders, ExtractHeader
  <2> QED BY <1>1, <1>2, <2>1 DEF StringInv, StringTypes, Tabled
<1>3. CASE ExtractRequestLine /\ pc' # "crashed"
  <2> PICK fs : fs = RequestLineOf[parts.line]
    OBVIOUS
  <2>1. /\ NULL \notin {fs.method, fs.uri, fs.http_version} /\ request_line' = fs
        /\ pc = "line" /\ pc' = "fields" /\ UNCHANGED <<headers, header_fields>>
    BY <1>3 DEF ExtractRequestLine
  <2>2. fs \in [method : Strings, uri : Strings, http_version : Strings]
    BY <2>1, PartsFound DEF StringInv, Tabled
  <2>3. fs \in [method : Words, uri : Words, http_version : Words]
    BY <2>1, <2>2 DEF Words
  <2>4. Tabled'
    BY <1>1, <2>1 DEF StringInv, Tabled
  <2>5. StringTypes'
    BY <1>1, <2>1, <2>3 DEF StringInv, StringTypes
  <2> QED BY <2>4, <2>5 DEF StringInv
<1>4. CASE PushHeaders /\ pc' # "crashed"
  <2>1. /\ pc = "fields" /\ pc' = "header" /\ headers' = LinesOf[parts.fields]
        /\ header_fields' = <<>> /\ UNCHANGED request_line
    BY <1>4 DEF PushHeaders
  <2>2. headers' \in Seq(Words) /\ \A i \in DOMAIN headers' : headers'[i] \in AllLines
    BY <2>1, PartsFound DEF StringInv, Tabled
  <2>3. Tabled'
    BY <1>1, <2>1, <2>2 DEF StringInv, Tabled
  <2>4. StringTypes'
    BY <1>1, <2>1, <2>2 DEF StringInv, StringTypes
  <2> QED BY <2>3, <2>4 DEF StringInv
<1>5. CASE ExtractHeader
  <2>1. pc = "header" /\ pc' \in {"header", "body"} /\ UNCHANGED request_line
    BY <1>5 DEF ExtractHeader
  <2>2. CASE headers = <<>>
    <3>1. UNCHANGED <<headers, header_fields>>
      BY <1>5, <2>2 DEF ExtractHeader
    <3> QED BY <1>1, <2>1, <3>1 DEF StringInv, StringTypes, Tabled
  <2>3. CASE headers # <<>>
    <3> PICK W, line : W = Words /\ line = Head(headers)
      OBVIOUS
    <3>1. headers \in Seq(W)
      BY DEF StringInv, StringTypes
    <3>2. headers' = Tail(headers)
      BY <1>5, <2>3 DEF ExtractHeader
    <3>3. /\ line \in W /\ line = headers[1] /\ 1 \in DOMAIN headers /\ headers' \in Seq(W)
          /\ \A i \in DOMAIN headers' : i + 1 \in DOMAIN headers /\ headers'[i] = headers[i + 1]
      BY <2>3, <3>1, <3>2
    <3>4. line \in AllLines /\ \A i \in DOMAIN headers' : headers'[i] \in AllLines
      BY <3>3 DEF StringInv, Tabled
    <3>5. PICK r1, r2, field :
             /\ r1 \in Residue /\ r2 \in Residue
             /\ field = HeaderOf[line \o r1]
             /\ header_fields' = IF ~field.present THEN header_fields
                                 ELSE Inserted(header_fields, field.key \o r2, field.value)
      BY <1>5, <2>3 DEF ExtractHeader
    <3>6. field.key \in Strings /\ field.value \in Strings /\ (field.present => field.key # NULL)
      BY <3>3, <3>4, <3>5, HeaderFound
    <3>7. \A key \in DOMAIN header_fields : key \in Words /\ header_fields[key] \in Strings
      BY DEF StringInv, StringTypes
    <3>8. \A key \in DOMAIN header_fields' : key \in Words /\ header_fields'[key] \in Strings
      <4>1. CASE ~field.present
        <5>1. header_fields' = header_fields
          BY <3>5, <4>1
        <5> QED BY <3>7, <5>1
      <4>2. CASE field.present
        <5>1. header_fields' = Inserted(header_fields, field.key \o r2, field.value)
          BY <3>5, <4>2
        <5>k. PICK key : key = field.key
          OBVIOUS
        <5>r. key \in Strings /\ key # NULL /\ r2 \in Residue
          BY <3>5, <3>6, <4>2, <5>k
        <5>2. field.key \o r2 \in Words
          BY <5>k, <5>r, KeyStored
        <5> QED BY <3>6, <3>7, <5>1, <5>2 DEF Inserted
      <4> QED BY <4>1, <4>2
    <3>9. Tabled'
      BY <1>1, <2>1, <3>4 DEF StringInv, Tabled
    <3>10. StringTypes'
      BY <1>1, <2>1, <3>3, <3>8 DEF StringInv, StringTypes
    <3> QED BY <3>9, <3>10 DEF StringInv
  <2> QED BY <2>2, <2>3
<1> QED BY <1>2, <1>3, <1>4, <1>5

\* The body.
LEMMA BodyStrings ==
    ASSUME StringInv, ExtractBody
    PROVE  StringInv'
<1> USE DEF locals, outside, request, Crash
<1>1. /\ UNCHANGED <<received, parts, headers, request_line, header_fields>>
      /\ pc' \in {"crashed", "push", "route"}
  BY DEF ExtractBody, ExtractForm, ExtractData, Parsed, StartPushing
<1>2. \/ body' = body \/ body' = <<>>
      \/ parts.body # NULL /\ body' = Inserted(<<>>, DataKey, parts.body)
  BY DEF ExtractBody, ExtractForm, ExtractData, Parsed, StartPushing
<1>3. body' # Uninitialised => \A key \in DOMAIN body' : key = DataKey /\ body'[key] \in Words
  <2>1. CASE body' = body
    BY <2>1 DEF StringInv, StringTypes
  <2>2. CASE body' = <<>>
    <3>1. DOMAIN body' = {}
      BY <2>2
    <3> QED BY <3>1
  <2>3. CASE parts.body # NULL /\ body' = Inserted(<<>>, DataKey, parts.body)
    <3> PICK key, text : key = DataKey /\ text = parts.body
      OBVIOUS
    <3>1. DOMAIN body' = {key} /\ body'[key] = text
      <4>1. DOMAIN <<>> = {}
        OBVIOUS
      <4> QED BY <2>3, <4>1 DEF Inserted
    <3>2. text \in Words
      BY <2>3 DEF StringInv, StringTypes, Words
    <3> QED BY <3>1, <3>2
  <2> QED BY <1>2, <2>1, <2>2, <2>3
<1>4. Tabled'
  BY <1>1 DEF StringInv, Tabled
<1>5. StringTypes'
  BY <1>1, <1>3 DEF StringInv, StringTypes
<1> QED BY <1>4, <1>5 DEF StringInv

\* The answer: nothing of the request is left when handler returns.
LEMMA AnswerStrings ==
    ASSUME StringInv, PushField \/ Route \/ Write \/ Destroy
    PROVE  StringInv'
<1> USE DEF locals, outside, request, Crash
<1>1. CASE pc' = "accept"
  <2>1. /\ received' = NULL /\ parts' = NoParts /\ headers' = <<>>
        /\ request_line' = NoLine /\ header_fields' = <<>> /\ body' = Uninitialised
    BY <1>1 DEF PushField, Route, Write, Destroy, Close, Return
  <2> QED BY <1>1, <2>1, EmptyStrings DEF StringInv, StringTypes, Tabled
<1>2. CASE pc' # "accept"
  <2>1. /\ UNCHANGED <<received, parts, headers, request_line, header_fields, body>>
        /\ pc' \notin {"line", "fields"}
    BY <1>2 DEF PushField, Route, Write, Destroy, Close, Return
  <2> QED BY <2>1 DEF StringInv, StringTypes, Tabled
<1> QED BY <1>1, <1>2

LEMMA StepStrings ==
    ASSUME Arrival, ServerTypes, StringInv, [Next]_vars
    PROVE  StringInv'
<1> USE DEF locals, outside, request
<1>1. CASE \/ UNCHANGED vars \/ Bind \/ Listen \/ Register \/ Launch \/ Accept
           \/ \E c \in Clients : Connect(c) \/ Send(c) \/ Receive(c) \/ Leave(c)
  <2>1. UNCHANGED <<received, parts, headers, request_line, header_fields, body>>
    BY <1>1 DEF vars, Bind, Listen, Register, Launch, Accept, Connect, Send, Receive, Leave
  <2>2. pc' = pc \/ pc' \notin {"line", "fields"}
    BY <1>1 DEF vars, Bind, Listen, Register, Launch, Accept, Connect, Send, Receive, Leave
  <2> QED BY <2>1, <2>2 DEF StringInv, StringTypes, Tabled
<1> QED BY <1>1, ReadStrings, FieldStrings, BodyStrings, AnswerStrings DEF Next, Handle

\* Every variable keeps its type, whatever the messages, however much of them is
\* read and whatever lies behind a copy: what the parser stores are strings, and
\* where it goes on with one it has found it is not empty.
THEOREM TypeCorrect == Spec => []TypeOK
<1>1. ASSUME IInv, ReadInv, [Next]_vars PROVE ReadInv'
  BY <1>1, StepReadInv, StutterReadInv
<1>2. ASSUME IInv, ReadInv, StringInv, [Next]_vars PROVE StringInv'
  BY <1>2, StepStrings DEF IInv, ReadInv
<1>3. IInv /\ StringInv => TypeOK
  BY DEF IInv, StringInv, TypeOK
<1>4. Spec => []ReadInv
  BY <1>1, InitReadInv, Inductive, PTL DEF Spec
<1>5. Spec => []StringInv
  BY <1>2, <1>4, InitStrings, Inductive, PTL DEF Spec
<1> QED BY <1>3, <1>5, Inductive, PTL

=============================================================================
