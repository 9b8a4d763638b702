----------------------------- MODULE HTTPServer -----------------------------
(***************************************************************************)
(* HTTPServer.c on Server.c: one thread sets the socket up, accepts a      *)
(* client, reads its request, takes it apart (HTTPRequest), answers it by  *)
(* the function registered for its uri and accepts the next.  Its clients  *)
(* are those of Client.c.                                                  *)
(*                                                                         *)
(* The parser copies strings without their terminators.  What lies behind  *)
(* such a copy is undefined: one of the strings Residue, chosen when the   *)
(* copy is read as a string; for a key, which is read by every later       *)
(* comparison, when it is stored.                                          *)
(***************************************************************************)
EXTENDS HTTPRequest

CONSTANTS
    Clients,
    Asks,       \* the messages each client may send
    Uris,       \* what functions are registered for
    Functions,  \* the route functions of the program that uses the library
    Residue,    \* bytes up to the next zero behind a copy
    Backlog,    \* connections the kernel keeps for accept
    MaxFields,  \* bound of the model: nodes there is memory for
    NoClient, NoMessage, NoAnswer, NotFound, Uninitialised

ASSUME HTTPServerAssumption ==
    /\ \A c \in Clients : Asks[c] \subseteq RequestText
    /\ Residue \subseteq Strings /\ NULL \in Residue
    /\ Backlog \in Nat /\ MaxFields \in Nat
    /\ NoClient \notin Clients
    /\ NoMessage \notin UNION {Asks[c] : c \in Clients}
    /\ Functions \cap {NoAnswer, NotFound} = {} /\ NoAnswer # NotFound

VARIABLES
    pc,             \* where the server's thread is
    routes,         \* the function of every uri that has one
    backlog,        \* clients that have connected and wait for accept
    client,         \* the client handler works for
    received,       \* request_string
    parts,          \* the constructor's request_line, header_fields and body
    headers,        \* the queue of extract_header_fields
    fields,         \* length of the queue of extract_body
    request_line,
    header_fields,
    body,           \* the dictionary of the body, or Uninitialised
    response,       \* what handler is going to write
    peer,           \* where each client is
    asked,          \* the message each client has sent
    got             \* what was written to each client

request == <<request_line, header_fields, body>>
locals  == <<received, parts, headers, fields, request, response>>
outside == <<peer, asked, got>>
vars    == <<pc, routes, backlog, client, locals, outside>>

Messages == UNION {Asks[c] : c \in Clients}

\* A message as its sender puts it together.
HeaderText(h, eol) == h.key \o h.colon \o h.value \o eol
Text == [m \in Messages |->
    m.method \o <<" ">> \o m.uri \o <<" ">> \o m.http_version \o m.eol
        \o FlattenSeq([i \in DOMAIN m.headers |-> HeaderText(m.headers[i], m.eol)])
        \o m.eol \o m.body]

\* What one read may get, and what the parser makes of it.
Received == {NULL} \cup UNION {{SubSeq(Text[m], 1, n) : n \in 1..Len(Text[m])} : m \in Messages}
PartsOf == [s \in Received |-> Split(s)]
RequestLineOf == [line \in {PartsOf[s].line : s \in Received} |-> RequestLine(line)]
LinesOf == [text \in {PartsOf[s].fields : s \in Received} |-> Lines(text)]
HeaderOf == [line \in {l \o r : l \in UNION {Range(LinesOf[text]) : text \in DOMAIN LinesOf},
                            r \in Residue} |-> KeyValue(line)]

Ended == pc \in {"crashed", "exited"}
Listening == ~Ended /\ pc \notin {"bind", "listen"}

NoParts == [line |-> NULL, fields |-> NULL, body |-> NULL]
NoLine == [method |-> NULL, uri |-> NULL, http_version |-> NULL]

Init ==
    /\ pc = "bind"
    /\ routes = <<>>
    /\ backlog = <<>>
    /\ client = NoClient
    /\ received = NULL /\ parts = NoParts
    /\ headers = <<>> /\ fields = 0
    /\ request_line = NoLine /\ header_fields = <<>> /\ body = Uninitialised
    /\ response = NoAnswer
    /\ peer = [c \in Clients |-> "new"]
    /\ asked = [c \in Clients |-> NoMessage]
    /\ got = [c \in Clients |-> NoAnswer]

Crash == pc' = "crashed" /\ UNCHANGED <<routes, backlog, client, locals, outside>>

----------------------------------------------------------------------------
\* Set-up: a socket that was not made shows when it is bound.

Bind ==
    /\ pc = "bind"
    /\ pc' \in {"listen", "exited"}
    /\ UNCHANGED <<routes, backlog, client, locals, outside>>

Listen ==
    /\ pc = "listen"
    /\ pc' \in {"register", "exited"}
    /\ UNCHANGED <<routes, backlog, client, locals, outside>>

Register ==
    /\ pc = "register"
    /\ \E uri \in Uris, f \in Functions : routes' = Inserted(routes, uri, f)
    /\ UNCHANGED <<pc, backlog, client, locals, outside>>

Launch ==
    /\ pc = "register"
    /\ pc' = "accept"
    /\ UNCHANGED <<routes, backlog, client, locals, outside>>

----------------------------------------------------------------------------
\* launch, and handler up to the request

Accept ==
    /\ pc = "accept"
    /\ backlog # <<>>
    /\ client' = Head(backlog)
    /\ backlog' = Tail(backlog)
    /\ pc' = "read"
    /\ UNCHANGED <<routes, locals, outside>>

\* The -1 of accept is read from all the same.
AcceptFails ==
    /\ pc = "accept"
    /\ received' = NULL
    /\ pc' = "split"
    /\ UNCHANGED <<routes, backlog, client, outside, parts, headers, fields, request, response>>

\* One read: it may get less than was sent.
Read ==
    /\ pc = "read"
    /\ \/ /\ asked[client] # NoMessage
          /\ LET text == Text[asked[client]]
             IN  \E n \in 1..Len(text) : received' = SubSeq(text, 1, n)
       \/ peer[client] = "left" /\ received' = NULL
    /\ pc' = "split"
    /\ UNCHANGED <<routes, backlog, client, outside, parts, headers, fields, request, response>>

SplitRequest ==
    /\ pc = "split"
    /\ IF TooShort(received) \/ PartsOf[received].line = NULL THEN Crash
       ELSE /\ parts' = PartsOf[received]
            /\ pc' = "line"
            /\ UNCHANGED <<routes, backlog, client, outside, received, headers, fields,
                           request, response>>

----------------------------------------------------------------------------
\* extract_request_line_fields, extract_header_fields

\* The key GET that is looked for then is never one of the three.
ExtractRequestLine ==
    /\ pc = "line"
    /\ LET fs == RequestLineOf[parts.line]
       IN  IF NULL \in {fs.method, fs.uri, fs.http_version} THEN Crash
           ELSE /\ request_line' = fs
                /\ pc' = "fields"
                /\ UNCHANGED <<routes, backlog, client, outside, received, parts, headers,
                               fields, header_fields, body, response>>

PushHeaders ==
    /\ pc = "fields"
    /\ IF parts.fields = NULL THEN Crash
       ELSE /\ headers' = LinesOf[parts.fields]
            /\ header_fields' = <<>>
            /\ pc' = "header"
            /\ UNCHANGED <<routes, backlog, client, outside, received, parts, fields,
                           request_line, body, response>>

ExtractHeader ==
    /\ pc = "header"
    /\ IF headers = <<>>
       THEN pc' = "body" /\ UNCHANGED <<headers, header_fields>>
       ELSE /\ \E field \in {HeaderOf[Head(headers) \o r] : r \in Residue}, r \in Residue :
                 header_fields' = IF ~field.present THEN header_fields
                                  ELSE Inserted(header_fields, field.key \o r, field.value)
            /\ headers' = Tail(headers)
            /\ UNCHANGED pc
    /\ UNCHANGED <<routes, backlog, client, outside, received, parts, fields,
                   request_line, body, response>>

----------------------------------------------------------------------------
\* extract_body

ContentType == <<"Content-Type">>
FormType    == <<"application/x-www-form-urlencoded">>
DataKey     == <<"data">>

Parsed(dict) ==
    /\ body' = dict
    /\ pc' = "route"
    /\ UNCHANGED <<routes, backlog, client, outside, received, parts, headers, fields,
                   request_line, header_fields, response>>

StartPushing ==
    /\ pc' = "push"
    /\ fields' = 0
    /\ UNCHANGED <<routes, backlog, client, outside, received, parts, headers, request, response>>

\* A form.  Without a body strtok goes on behind the last header, in memory
\* that has been freed.
ExtractForm ==
    IF parts.body = NULL THEN Parsed(<<>>) \/ StartPushing
    ELSE IF Strtok(parts.body, {"&"}).token = NULL THEN Parsed(<<>>) ELSE StartPushing

\* Anything else: the body is one value.
ExtractData ==
    IF parts.body = NULL THEN Crash ELSE Parsed(Inserted(<<>>, DataKey, parts.body))

\* Without a content type the body stays as it was; without any header the
\* search follows the root of an empty tree.
ExtractBody ==
    /\ pc = "body"
    /\ \/ header_fields = <<>> /\ Crash
       \/ header_fields # <<>> /\ ContentType \notin DOMAIN header_fields /\ Parsed(body)
       \/ /\ ContentType \in DOMAIN header_fields
          /\ \E r \in Residue :
               IF header_fields[ContentType] \o r = FormType THEN ExtractForm ELSE ExtractData

\* Mutant: memory has no end.
PushField_Endless ==
    /\ pc = "push"
    /\ UNCHANGED vars

\* The loop over the fields of a form pushes its first field until there is no
\* memory left.
PushField ==
    /\ pc = "push"
    /\ IF fields = MaxFields THEN Crash
       ELSE /\ fields' = fields + 1
            /\ UNCHANGED <<pc, routes, backlog, client, outside, received, parts, headers,
                           request, response>>

----------------------------------------------------------------------------
\* handler from the search of the route on

\* Mutant: the one registered function is taken for the one asked for.
FindRoute_Any(uri) ==
    IF DOMAIN routes = {} THEN NotFound ELSE routes[CHOOSE u \in DOMAIN routes : TRUE]

FindRoute(uri) == IF uri \in DOMAIN routes THEN routes[uri] ELSE NotFound

Route ==
    /\ pc = "route"
    /\ IF DOMAIN routes = {} THEN Crash
       ELSE /\ \E r \in Residue : response' = FindRoute(request_line.uri \o r)
            /\ pc' = "write"
            /\ UNCHANGED <<routes, backlog, client, outside, received, parts, headers,
                           fields, request>>

\* handler returns: its locals, the request among them, are gone.
Return ==
    /\ pc' = "accept"
    /\ client' = NoClient
    /\ received' = NULL /\ parts' = NoParts
    /\ headers' = <<>> /\ fields' = 0
    /\ request_line' = NoLine /\ header_fields' = <<>> /\ body' = Uninitialised
    /\ response' = NoAnswer

Close ==
    IF response = NotFound
    THEN Return
    ELSE pc' = "destroy" /\ UNCHANGED <<client, locals>>

\* A client that has left may have reset the connection: SIGPIPE.
Write ==
    /\ pc = "write"
    /\ \/ /\ got' = [got EXCEPT ![client] = response]
          /\ Close
          /\ UNCHANGED <<routes, backlog, peer, asked>>
       \/ peer[client] = "left" /\ Crash

\* http_request_destructor frees the first entry twice (Dictionary).
Destroy ==
    /\ pc = "destroy"
    /\ Crash

----------------------------------------------------------------------------
\* Clients

\* connect; that it fails is not looked at.
Connect(c) ==
    /\ peer[c] = "new"
    /\ LET accepted == Listening /\ Len(backlog) < Backlog
       IN  /\ peer' = [peer EXCEPT ![c] = IF accepted THEN "connected" ELSE "refused"]
           /\ backlog' = IF accepted THEN Append(backlog, c) ELSE backlog
    /\ UNCHANGED <<pc, routes, client, locals, asked, got>>

\* send; on a socket without a connection it ends the client (SIGPIPE).
Send(c) ==
    /\ \/ /\ peer[c] = "connected"
          /\ \E m \in Asks[c] : asked' = [asked EXCEPT ![c] = m]
          /\ peer' = [peer EXCEPT ![c] = "waiting"]
       \/ /\ peer[c] = "refused"
          /\ peer' = [peer EXCEPT ![c] = "killed"]
          /\ UNCHANGED asked
    /\ UNCHANGED <<pc, routes, backlog, client, locals, got>>

\* read: the answer, or nothing when the server has ended without one.
Receive(c) ==
    /\ peer[c] = "waiting"
    /\ got[c] # NoAnswer \/ Ended
    /\ peer' = [peer EXCEPT ![c] = "done"]
    /\ UNCHANGED <<pc, routes, backlog, client, locals, asked, got>>

\* The client's program ends before its answer.
Leave(c) ==
    /\ peer[c] \in {"connected", "waiting"}
    /\ peer' = [peer EXCEPT ![c] = "left"]
    /\ UNCHANGED <<pc, routes, backlog, client, locals, asked, got>>

Handle ==
    \/ Read \/ SplitRequest \/ ExtractRequestLine \/ PushHeaders \/ ExtractHeader
    \/ ExtractBody \/ PushField \/ Route \/ Write \/ Destroy

Next ==
    \/ Bind \/ Listen \/ Register \/ Launch \/ Accept \/ AcceptFails \/ Handle
    \/ \E c \in Clients : Connect(c) \/ Send(c) \/ Receive(c) \/ Leave(c)

Spec == Init /\ [][Next]_vars

\* The server's thread runs; whether a client sends, reads or leaves is its own
\* affair.
Fairness == WF_vars(Launch) /\ WF_vars(Accept) /\ WF_vars(Handle)
FairSpec == Spec /\ Fairness

----------------------------------------------------------------------------
\* Properties

Labels == {"bind", "listen", "register", "accept", "read", "split", "line", "fields", "header",
           "body", "push", "route", "write", "destroy", "crashed", "exited"}
Peers == {"new", "connected", "refused", "waiting", "done", "killed", "left"}

Words == Strings \ {NULL}

\* The types of what is no string.
ServerTypes ==
    /\ pc \in Labels
    /\ DOMAIN routes \subseteq Uris /\ \A uri \in DOMAIN routes : routes[uri] \in Functions
    /\ backlog \in Seq(Clients) /\ Len(backlog) <= Backlog
    /\ client \in Clients \cup {NoClient}
    /\ fields \in 0..MaxFields
    /\ response \in Functions \cup {NoAnswer, NotFound}
    /\ peer \in [Clients -> Peers]
    /\ asked \in [Clients -> Messages \cup {NoMessage}]
    /\ got \in [Clients -> Functions \cup {NoAnswer, NotFound}]

\* The types of the strings: where one was found it is not empty, only a
\* header's value may be, and the dictionary of the body has one key at most.
StringTypes ==
    /\ received \in Strings
    /\ parts \in [line : Strings, fields : Strings, body : Strings]
    /\ headers \in Seq(Words)
    /\ request_line \in {NoLine} \cup [method : Words, uri : Words, http_version : Words]
    /\ \A key \in DOMAIN header_fields : key \in Words /\ header_fields[key] \in Strings
    /\ body # Uninitialised => \A key \in DOMAIN body : key = DataKey /\ body[key] \in Words

\* The type of every variable, those of the parsed request included.
TypeOK == ServerTypes /\ StringTypes

HasValue(h) == h.colon = <<":", " ">> \/ (h.colon = <<":">> /\ h.value # NULL)

\* Nothing in a part of a message is taken for the separator behind it.
Lacks(s, separators) == Range(s) \cap separators = {}
PlainLine(m) ==
    /\ NULL \notin {m.method, m.uri, m.http_version}
    /\ Lacks(m.method, {" ", LF}) /\ Lacks(m.uri, {" ", LF}) /\ Lacks(m.http_version, {LF})
PlainHeader(h) ==
    /\ h.key # NULL /\ Lacks(h.key, {":", LF}) /\ Lacks(h.value, {LF})
    /\ \/ h.colon = <<":", " ">>
       \/ h.colon = <<":">> /\ (h.value # NULL => h.value[1] # " ")
       \/ h.colon = <<>> /\ h.value = NULL

\* The messages the parser is made for: line feeds, a version, at least one
\* header with a value, no bar and no blank line but the one before the body,
\* and with a content type its value and a body that is no form.
Intended(m) ==
    /\ m.eol = <<LF>>
    /\ PlainLine(m)
    /\ \A i \in DOMAIN m.headers : PlainHeader(m.headers[i])
    /\ \E i \in DOMAIN m.headers : HasValue(m.headers[i])
    /\ ~Contains(Text[m], "|")
    /\ \A i \in 1..Len(m.body) - 1 : ~(m.body[i] = LF /\ m.body[i + 1] = LF)
    /\ \A i \in DOMAIN m.headers : m.headers[i].key = ContentType =>
          m.body # NULL /\ m.headers[i].value \notin {NULL, FormType}

\* What can be read where s was copied.
Readings(s) == {s \o r : r \in Residue}

\* What was sent in each part of the message, and nothing else, is where the
\* route function looks for it, up to the bytes behind a copy; the body is
\* there if its content type can be found.
Understood(m) ==
    /\ request_line = [method |-> m.method, uri |-> m.uri, http_version |-> m.http_version]
    /\ \A key \in DOMAIN header_fields : \E i \in DOMAIN m.headers :
          LET h == m.headers[i]
          IN  \/ HasValue(h) /\ key \in Readings(h.key) /\ header_fields[key] \in Readings(h.value)
              \/ ~HasValue(h) /\ \E r \in Residue :
                    LET field == KeyValue(h.key \o h.colon \o r)
                    IN  field.present /\ key \in Readings(field.key) /\ header_fields[key] = field.value
    /\ \A i \in DOMAIN m.headers :
          HasValue(m.headers[i]) => Readings(m.headers[i].key) \cap DOMAIN header_fields # {}
    /\ body = IF ContentType \in DOMAIN header_fields THEN Inserted(<<>>, DataKey, m.body) ELSE Uninitialised

\* A message of that kind that arrives whole is understood, and the server does
\* not end before it is answered, unless its client leaves or the program has
\* registered nothing.
IntendedUnderstood ==
    client # NoClient /\ asked[client] # NoMessage =>
        LET m == asked[client]
        IN  Intended(m) /\ received = Text[m] =>
              /\ pc \in {"route", "write"} => Understood(m)
              /\ pc = "crashed" => \/ got[client] # NoAnswer
                                  \/ peer[client] = "left"
                                  \/ DOMAIN routes = {}

\* A message whose method and uri are there and are not cut.
Addressed(m) ==
    /\ NULL \notin {m.method, m.uri}
    /\ Lacks(m.method, {" ", LF}) /\ Lacks(m.uri, {" ", LF})

\* Clients are answered one after the other in the order they connected, once
\* each, by the function that was first registered for their uri, as it is read
\* with what lies behind its copy, or by NotFound if there is none.  Without a
\* method or a uri, or with one that is cut, a message may be answered by any.
Service == INSTANCE SequentialService WITH
    waiting <- backlog,
    current <- IF pc \in {"destroy", "crashed"} THEN NoClient ELSE client,
    over    <- Ended \/ pc = "destroy",
    Meant   <- [m \in Messages |-> Readings(m.uri)],
    Garbled <- {m \in Messages : ~Addressed(m)}
ImplementsService == Service!Spec

\* A client that has sent its message gets an answer or sees the server end,
\* unless the server waits for ever for the message of another (launch has no
\* threads).  A write that blocks because its client does not read is left out,
\* and the memory that a form uses up is MaxFields pushes.
Answered ==
    \A c \in Clients : peer[c] = "waiting" ~>
        \/ got[c] # NoAnswer \/ Ended \/ peer[c] = "left"
        \/ [](pc = "read" /\ client # c)
=============================================================================
