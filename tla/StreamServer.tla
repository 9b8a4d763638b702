---------------------------- MODULE StreamServer ----------------------------
(***************************************************************************)
(* The process of backend/main.c: main accepts connections and gives each  *)
(* a detached thread of its own; the thread reads one request, routes it,  *)
(* answers and closes.  What the threads share is modelled: the table of   *)
(* file descriptors, where accept, open and opendir take the lowest free   *)
(* number and close frees it whoever owns it; the stacks, which the next   *)
(* thread gets as the last one left them; and the process itself, which    *)
(* SIGPIPE or a failed opendir ends.                                       *)
(*                                                                         *)
(* live_buffer and live_lock are module LiveRelay: here a viewer only      *)
(* sends chunks and a broadcaster only receives pieces.                    *)
(***************************************************************************)
EXTENDS Integers, Sequences, FiniteSets

CONSTANTS
    Clients,     \* each makes one connection
    Threads,     \* bound of the model: threads alive at once, by stack
    NFds,        \* descriptors left to connections, files and directories
    Backlog,     \* connections that may wait for accept (main.c:182)
    Blocks,      \* reads that return the content of the video
    MaxPieces,   \* bound of the model: pieces one client uploads
    MaxChunks,   \* bound of the model: chunks one viewer is sent
    Asks,        \* the paths clients ask for
    Stalling,    \* clients that may stop reading
    Leaving,     \* clients that may close their connection at any time
    Silent,      \* clients that may end their side without a request
    NoClient     \* nobody: the thread of an accept that failed

\* "/videos/a.mp4" is where readme.md and the player of the frontend look for
\* a video, "other" stands for everything else the router does not know.
Paths == {"/", "/videos", "/video/a.mp4", "/videos/a.mp4", "/live", "/broadcast", "other"}

ASSUME ServerAssumption ==
    /\ NFds \in Nat \ {0}
    /\ Backlog \in Nat \ {0}
    /\ Blocks \in Nat
    /\ MaxPieces \in Nat
    /\ MaxChunks \in Nat
    /\ Asks \subseteq Paths
    /\ NoClient \notin Clients

VARIABLES
    alive,       \* the process runs
    fds,         \* what each descriptor names
    queue,       \* connections waiting for accept
    state,       \* of each connection: "idle", "queued", "open", "closed"
    asked,       \* what each client has asked for, or NoAsk
    uploaded,    \* pieces each client has sent
    inbox,       \* what each client has sent and the server has not read
    eof,         \* the client sends nothing more
    peer,        \* "reading", "stalled" or "gone"
    got,         \* what each client has received
    pc,          \* of each stack: "none" or where its thread is
    serves,      \* whose accept started the thread
    client,      \* handle_client's client
    path,        \* handle_client's path, kept by the stack between threads
    file,        \* stream_video's fd, list_videos' dir
    block,       \* stream_video's buf: the last block read
    pos          \* position of the file the thread opened

netvars == <<queue, state, asked, uploaded, inbox, eof, peer>>
thrvars == <<serves, client, path, file, block>>
vars == <<alive, fds, netvars, got, pc, thrvars, pos>>

NoFd  == 0                      \* the code's -1
Fds   == 1..NFds
Free  == <<"free">>
Sock(c) == <<"sock", c>>
File(t) == <<"file", t>>
Dir(t)  == <<"dir", t>>
NoAsk == "none"
NoBlock == <<"nothing">>

FreeFds == {d \in Fds : fds[d] = Free}
Lowest(S) == CHOOSE d \in S : \A e \in S : d <= e
\* The descriptor a call that opens one returns.
NewFd == IF FreeFds = {} THEN NoFd ELSE Lowest(FreeFds)
Names(d) == IF d = NoFd THEN Free ELSE fds[d]

\* The router compares the whole path, except for "/video/", a prefix.
Handler(p) ==
    CASE p = "/"            -> "home"
      [] p = "/videos"      -> "opendir"
      [] p = "/video/a.mp4" -> "open"
      [] p = "/live"        -> "hello"
      [] p = "/broadcast"   -> "recv"
      [] OTHER              -> "missing"

Init ==
    /\ alive = TRUE
    /\ fds    = [d \in Fds |-> Free]
    /\ queue  = <<>>
    /\ state  = [c \in Clients |-> "idle"]
    /\ asked  = [c \in Clients |-> NoAsk]
    /\ uploaded = [c \in Clients |-> 0]
    /\ inbox  = [c \in Clients |-> <<>>]
    /\ eof    = [c \in Clients |-> FALSE]
    /\ peer   = [c \in Clients |-> "reading"]
    /\ got    = [c \in Clients |-> <<>>]
    /\ pc     = [t \in Threads |-> "none"]
    /\ serves = [t \in Threads |-> NoClient]
    /\ client = [t \in Threads |-> NoFd]
    /\ path   = [t \in Threads |-> "other"]
    /\ file   = [t \in Threads |-> NoFd]
    /\ block  = [t \in Threads |-> NoBlock]
    /\ pos    = [t \in Threads |-> 0]

Goto(t, label) == pc' = [pc EXCEPT ![t] = label]

----------------------------------------------------------------------------
\* Descriptors

\* close frees the number, whatever it names now.  The connection ends when
\* its descriptor is closed.
CloseFd(d) ==
    /\ fds' = IF d = NoFd THEN fds ELSE [fds EXCEPT ![d] = Free]
    /\ state' = [c \in Clients |-> IF Names(d) = Sock(c) THEN "closed" ELSE state[c]]

\* send_all of one message: on a connection whose peer reads, the peer gets
\* it; on anything else send fails and send_all returns.
Send(d, what) ==
    /\ \A c \in Clients : Names(d) = Sock(c) => peer[c] # "stalled"
    /\ got' = [c \in Clients |-> IF Names(d) = Sock(c) /\ peer[c] = "reading"
                                 THEN Append(got[c], what) ELSE got[c]]

----------------------------------------------------------------------------
\* main

\* A stack no thread uses is needed for a new thread.
Spawn(t, c, d) ==
    /\ pc[t] = "none"
    /\ Goto(t, "read")
    /\ serves' = [serves EXCEPT ![t] = c]
    /\ client' = [client EXCEPT ![t] = d]
    /\ UNCHANGED <<path, file, block>>

Accept(t) ==
    /\ queue # <<>>
    /\ FreeFds # {}
    /\ LET c == Head(queue)
       IN  /\ Spawn(t, c, NewFd)
           /\ fds' = [fds EXCEPT ![NewFd] = Sock(c)]
           /\ state' = [state EXCEPT ![c] = "open"]
    /\ queue' = Tail(queue)
    /\ UNCHANGED <<alive, asked, uploaded, inbox, eof, peer, got, pos>>

\* Without a free descriptor accept returns -1 at once, and the thread is
\* started all the same.
AcceptFails(t) ==
    /\ FreeFds = {}
    /\ Spawn(t, NoClient, NoFd)
    /\ UNCHANGED <<alive, fds, netvars, got, pos>>

----------------------------------------------------------------------------
\* handle_client up to the router

\* The request arrives: path is parsed out of it.  Anything that is not a
\* request (a piece of an upload, a block of a video) parses as no path the
\* router knows.
ReadRequest(t) ==
    /\ pc[t] = "read"
    /\ \E c \in Clients :
         /\ Names(client[t]) = Sock(c)
         /\ inbox[c] # <<>>
         /\ LET p == IF Head(inbox[c]) \in Paths THEN Head(inbox[c]) ELSE "other"
            IN  /\ path' = [path EXCEPT ![t] = p]
                /\ Goto(t, Handler(p))
         /\ inbox' = [inbox EXCEPT ![c] = Tail(@)]
    /\ UNCHANGED <<alive, fds, queue, state, asked, uploaded, eof, peer, got, serves, client, file, block, pos>>

\* read returns 0 or -1: sscanf stores nothing and the router uses the path
\* the last thread on this stack has left.
ReadNothing(t) ==
    /\ pc[t] = "read"
    /\ \/ \E c \in Clients : Names(client[t]) = Sock(c) /\ inbox[c] = <<>> /\ eof[c]
       \/ Names(client[t]) \in {Free} \cup {Dir(u) : u \in Threads}
    /\ Goto(t, Handler(path[t]))
    /\ UNCHANGED <<alive, fds, netvars, got, thrvars, pos>>

\* The descriptor has come to name another thread's file: its bytes are read.
ReadFile(t) ==
    /\ pc[t] = "read"
    /\ \E u \in Threads :
         /\ Names(client[t]) = File(u)
         /\ IF pos[u] < Blocks
            THEN /\ pos' = [pos EXCEPT ![u] = @ + 1]
                 /\ path' = [path EXCEPT ![t] = "other"]
                 /\ Goto(t, Handler("other"))
            ELSE /\ Goto(t, Handler(path[t]))
                 /\ UNCHANGED <<pos, path>>
    /\ UNCHANGED <<alive, fds, netvars, got, serves, client, file, block>>

\* An answer of one message.
Reply(t) ==
    /\ pc[t] \in {"home", "missing", "nofile", "list"}
    /\ Send(client[t], <<pc[t], 0>>)
    /\ Goto(t, "close")
    /\ UNCHANGED <<alive, fds, netvars, thrvars, pos>>

\* Mutant: the connection is left open.
Close_Forgotten(t) ==
    /\ pc[t] = "close"
    /\ Goto(t, "none")
    /\ UNCHANGED <<alive, fds, netvars, got, thrvars, pos>>

Close(t) ==
    /\ pc[t] = "close"
    /\ CloseFd(client[t])
    /\ Goto(t, "none")
    /\ UNCHANGED <<alive, queue, asked, uploaded, inbox, eof, peer, got, thrvars, pos>>

----------------------------------------------------------------------------
\* list_videos

OpenDir(t) ==
    /\ pc[t] = "opendir"
    /\ FreeFds # {}
    /\ file' = [file EXCEPT ![t] = NewFd]
    /\ fds' = [fds EXCEPT ![NewFd] = Dir(t)]
    /\ Goto(t, "closedir")
    /\ UNCHANGED <<alive, netvars, got, serves, client, path, block, pos>>

\* opendir returns NULL and readdir dereferences it.
OpenDirFails(t) ==
    /\ pc[t] = "opendir"
    /\ FreeFds = {}
    /\ alive' = FALSE
    /\ UNCHANGED <<fds, netvars, got, pc, thrvars, pos>>

CloseDir(t) ==
    /\ pc[t] = "closedir"
    /\ CloseFd(file[t])
    /\ Goto(t, "list")
    /\ UNCHANGED <<alive, queue, asked, uploaded, inbox, eof, peer, got, thrvars, pos>>

----------------------------------------------------------------------------
\* stream_video

Open(t) ==
    /\ pc[t] = "open"
    /\ file' = [file EXCEPT ![t] = NewFd]
    /\ IF FreeFds = {}
       THEN Goto(t, "nofile") /\ UNCHANGED <<fds, pos>>
       ELSE /\ fds' = [fds EXCEPT ![NewFd] = File(t)]
            /\ pos' = [pos EXCEPT ![t] = 0]
            /\ Goto(t, "head")
    /\ UNCHANGED <<alive, netvars, got, serves, client, path, block>>

\* 200 and the length of the whole file, whatever part was asked for.
VideoHead(t) ==
    /\ pc[t] = "head"
    /\ Send(client[t], <<"head", Blocks>>)
    /\ Goto(t, "block")
    /\ UNCHANGED <<alive, fds, netvars, thrvars, pos>>

\* Mutant: read is called once more than the file has blocks.
ReadBlock_PastEnd(t) ==
    /\ pc[t] = "block"
    /\ \/ \E u \in Threads :
            /\ Names(file[t]) = File(u)
            /\ pos[u] <= Blocks
            /\ pos' = [pos EXCEPT ![u] = @ + 1]
            /\ block' = [block EXCEPT ![t] = <<"block", pos[u]>>]
            /\ UNCHANGED inbox
       \/ \E c \in Clients :
            /\ Names(file[t]) = Sock(c)
            /\ inbox[c] # <<>>
            /\ inbox' = [inbox EXCEPT ![c] = Tail(@)]
            /\ block' = [block EXCEPT ![t] = <<"stolen", c>>]
            /\ UNCHANGED pos
    /\ Goto(t, "send")
    /\ UNCHANGED <<alive, fds, queue, state, asked, uploaded, eof, peer, got, serves, client, path, file>>

\* read returns n > 0 bytes: of the file, or of what the descriptor names.
ReadBlock(t) ==
    /\ pc[t] = "block"
    /\ \/ \E u \in Threads :
            /\ Names(file[t]) = File(u)
            /\ pos[u] < Blocks
            /\ pos' = [pos EXCEPT ![u] = @ + 1]
            /\ block' = [block EXCEPT ![t] = <<"block", pos[u]>>]
            /\ UNCHANGED inbox
       \/ \E c \in Clients :
            /\ Names(file[t]) = Sock(c)
            /\ inbox[c] # <<>>
            /\ inbox' = [inbox EXCEPT ![c] = Tail(@)]
            /\ block' = [block EXCEPT ![t] = <<"stolen", c>>]
            /\ UNCHANGED pos
    /\ Goto(t, "send")
    /\ UNCHANGED <<alive, fds, queue, state, asked, uploaded, eof, peer, got, serves, client, path, file>>

\* Mutant: the last block is read and not sent.
SendBlock_Short(t) ==
    /\ pc[t] = "send"
    /\ IF block[t] = <<"block", Blocks - 1>> THEN UNCHANGED got
       ELSE Send(client[t], block[t])
    /\ Goto(t, "block")
    /\ UNCHANGED <<alive, fds, netvars, thrvars, pos>>

SendBlock(t) ==
    /\ pc[t] = "send"
    /\ Send(client[t], block[t])
    /\ Goto(t, "block")
    /\ UNCHANGED <<alive, fds, netvars, thrvars, pos>>

\* read returns 0 or -1.
ReadEnd(t) ==
    /\ pc[t] = "block"
    /\ \/ \E u \in Threads : Names(file[t]) = File(u) /\ pos[u] >= Blocks
       \/ \E c \in Clients : Names(file[t]) = Sock(c) /\ inbox[c] = <<>> /\ eof[c]
       \/ Names(file[t]) \in {Free} \cup {Dir(u) : u \in Threads}
    /\ Goto(t, "closefile")
    /\ UNCHANGED <<alive, fds, netvars, got, thrvars, pos>>

\* Mutant: the file is left open.
CloseFile_Forgotten(t) ==
    /\ pc[t] = "closefile"
    /\ Goto(t, "close")
    /\ UNCHANGED <<alive, fds, netvars, got, thrvars, pos>>

\* Mutant: the file is closed once more than it was opened.
CloseFile_Twice(t) ==
    /\ pc[t] \in {"closefile", "closeagain"}
    /\ CloseFd(file[t])
    /\ Goto(t, IF pc[t] = "closefile" THEN "closeagain" ELSE "close")
    /\ UNCHANGED <<alive, queue, asked, uploaded, inbox, eof, peer, got, thrvars, pos>>

CloseFile(t) ==
    /\ pc[t] = "closefile"
    /\ CloseFd(file[t])
    /\ Goto(t, "close")
    /\ UNCHANGED <<alive, queue, asked, uploaded, inbox, eof, peer, got, thrvars, pos>>

----------------------------------------------------------------------------
\* handle_live_view and handle_broadcast

Hello(t) ==
    /\ pc[t] = "hello"
    /\ Send(client[t], <<"hello", 0>>)
    /\ Goto(t, "watch")
    /\ UNCHANGED <<alive, fds, netvars, thrvars, pos>>

\* The loop never ends.
WatchChunk(t) ==
    /\ pc[t] = "watch"
    /\ \A c \in Clients : Names(client[t]) = Sock(c) => Len(got[c]) <= MaxChunks
    /\ Send(client[t], <<"chunk", 0>>)
    /\ UNCHANGED <<alive, fds, netvars, pc, thrvars, pos>>

\* Broadcasters receive what the descriptor names while there is any ...
RecvPiece(t) ==
    /\ pc[t] = "recv"
    /\ \E c \in Clients :
         /\ Names(client[t]) = Sock(c)
         /\ inbox[c] # <<>>
         /\ inbox' = [inbox EXCEPT ![c] = Tail(@)]
    /\ UNCHANGED <<alive, fds, queue, state, asked, uploaded, eof, peer, got, pc, thrvars, pos>>

\* ... and leave the loop on the end of the upload or an error.
RecvEnd(t) ==
    /\ pc[t] = "recv"
    /\ \/ \E c \in Clients : Names(client[t]) = Sock(c) /\ inbox[c] = <<>> /\ eof[c]
       \/ \A c \in Clients : Names(client[t]) # Sock(c)
    /\ Goto(t, "closelive")
    /\ UNCHANGED <<alive, fds, netvars, got, thrvars, pos>>

\* close(client) of handle_broadcast; handle_client's own is still to come.
CloseLive(t) ==
    /\ pc[t] = "closelive"
    /\ CloseFd(client[t])
    /\ Goto(t, "close")
    /\ UNCHANGED <<alive, queue, asked, uploaded, inbox, eof, peer, got, thrvars, pos>>

----------------------------------------------------------------------------
\* SIGPIPE: a send to a peer that has gone ends the process.
Killed(t) ==
    /\ pc[t] \in {"home", "missing", "nofile", "list", "head", "send", "hello", "watch"}
    /\ \E c \in Clients : Names(client[t]) = Sock(c) /\ peer[c] = "gone"
    /\ alive' = FALSE
    /\ UNCHANGED <<fds, netvars, got, pc, thrvars, pos>>

ThreadStep(t) ==
    \/ ReadRequest(t) \/ ReadNothing(t) \/ ReadFile(t) \/ Reply(t) \/ Close(t)
    \/ OpenDir(t) \/ OpenDirFails(t) \/ CloseDir(t)
    \/ Open(t) \/ VideoHead(t) \/ ReadBlock(t) \/ SendBlock(t) \/ ReadEnd(t) \/ CloseFile(t)
    \/ Hello(t) \/ WatchChunk(t) \/ RecvPiece(t) \/ RecvEnd(t) \/ CloseLive(t)

----------------------------------------------------------------------------
\* The clients

srvvars == <<alive, fds, got, pc, thrvars, pos>>

Connect(c) ==
    /\ state[c] = "idle"
    /\ Len(queue) < Backlog
    /\ queue' = Append(queue, c)
    /\ state' = [state EXCEPT ![c] = "queued"]
    /\ UNCHANGED <<asked, uploaded, inbox, eof, peer, srvvars>>

Ask(c) == \E a \in Asks :
    /\ state[c] \in {"queued", "open"}
    /\ asked[c] = NoAsk /\ ~eof[c]
    /\ asked' = [asked EXCEPT ![c] = a]
    /\ inbox' = [inbox EXCEPT ![c] = Append(@, a)]
    /\ UNCHANGED <<queue, state, uploaded, eof, peer, srvvars>>

Upload(c) ==
    /\ state[c] \in {"queued", "open"}
    /\ asked[c] = "/broadcast" /\ ~eof[c]
    /\ uploaded[c] < MaxPieces
    /\ uploaded' = [uploaded EXCEPT ![c] = @ + 1]
    /\ inbox' = [inbox EXCEPT ![c] = Append(@, "piece")]
    /\ UNCHANGED <<queue, state, asked, eof, peer, srvvars>>

\* The client shuts its side down and still reads.
EndUpload(c) ==
    /\ state[c] \in {"queued", "open"}
    /\ asked[c] = "/broadcast" \/ (c \in Silent /\ asked[c] = NoAsk)
    /\ ~eof[c]
    /\ eof' = [eof EXCEPT ![c] = TRUE]
    /\ UNCHANGED <<queue, state, asked, uploaded, inbox, peer, srvvars>>

Stall(c) ==
    /\ c \in Stalling
    /\ state[c] \in {"queued", "open"}
    /\ peer[c] = "reading"
    /\ peer' = [peer EXCEPT ![c] = "stalled"]
    /\ UNCHANGED <<queue, state, asked, uploaded, inbox, eof, srvvars>>

Resume(c) ==
    /\ peer[c] = "stalled"
    /\ peer' = [peer EXCEPT ![c] = "reading"]
    /\ UNCHANGED <<queue, state, asked, uploaded, inbox, eof, srvvars>>

Leave(c) ==
    /\ c \in Leaving
    /\ state[c] \in {"queued", "open"}
    /\ peer[c] # "gone"
    /\ peer' = [peer EXCEPT ![c] = "gone"]
    /\ eof' = [eof EXCEPT ![c] = TRUE]
    /\ UNCHANGED <<queue, state, asked, uploaded, inbox, srvvars>>

Next ==
    /\ alive
    /\ \/ \E t \in Threads : Accept(t) \/ AcceptFails(t) \/ ThreadStep(t) \/ Killed(t)
       \/ \E c \in Clients : \/ Connect(c) \/ Ask(c) \/ Upload(c) \/ EndUpload(c)
                             \/ Stall(c) \/ Resume(c) \/ Leave(c)

Spec == Init /\ [][Next]_vars

(* Every thread is scheduled while it can go on, and main is: accept takes *)
(* a waiting connection while there are stacks and descriptors for it.     *)
(* Nothing is assumed of the clients, nor of Killed.                       *)
Fairness ==
    /\ WF_vars(alive /\ \E t \in Threads : Accept(t))
    /\ \A t \in Threads : WF_vars(alive /\ ThreadStep(t))

FairSpec == Spec /\ Fairness

----------------------------------------------------------------------------
\* Properties

FileLabels == {"head", "block", "send", "closefile"}
Labels == FileLabels \cup
    {"none", "read", "home", "missing", "nofile", "list", "opendir", "closedir",
     "open", "hello", "watch", "recv", "closelive", "close"}
Resources == {Free} \cup {Sock(c) : c \in Clients}
             \cup {File(t) : t \in Threads} \cup {Dir(t) : t \in Threads}

\* The type of every variable but the messages.
TypeOK ==
    /\ alive \in BOOLEAN
    /\ fds \in [Fds -> Resources]
    /\ queue \in Seq(Clients)
    /\ state \in [Clients -> {"idle", "queued", "open", "closed"}]
    /\ asked \in [Clients -> Asks \cup {NoAsk}]
    /\ uploaded \in [Clients -> 0..MaxPieces]
    /\ inbox \in [Clients -> Seq(Paths \cup {"piece"})]
    /\ eof \in [Clients -> BOOLEAN]
    /\ peer \in [Clients -> {"reading", "stalled", "gone"}]
    /\ pc \in [Threads -> Labels]
    /\ serves \in [Threads -> Clients \cup {NoClient}]
    /\ client \in [Threads -> Fds \cup {NoFd}]
    /\ path \in [Threads -> Paths]
    /\ file \in [Threads -> Fds \cup {NoFd}]
    /\ pos \in [Threads -> 0..Blocks]

\* Every descriptor in use is one that some running thread is still going to
\* close: none is lost, on no path through the handlers, with or without
\* uploads, failed opens and threads of a failed accept.
NoLeak ==
    \A d \in Fds : fds[d] # Free =>
        \E t \in Threads : \/ pc[t] # "none" /\ client[t] = d
                           \/ pc[t] \in FileLabels \cup {"closedir"} /\ file[t] = d

\* While nobody uploads, a descriptor a thread holds names what the thread
\* opened: its client's connection, its file, its directory.
OwnDescriptors ==
    \A t \in Threads :
        /\ pc[t] # "none" => IF serves[t] = NoClient THEN client[t] = NoFd
                             ELSE Names(client[t]) = Sock(serves[t])
        /\ pc[t] \in FileLabels => Names(file[t]) = File(t)
        /\ pc[t] = "closedir"   => Names(file[t]) = Dir(t)

Content == [k \in 1..Blocks |-> <<"block", k - 1>>]
Chunks(n) == [k \in 1..n |-> <<"chunk", 0>>]

AnswersTo(p) ==
    CASE p = "/"            -> {<< <<"home", 0>> >>}
      [] p = "/videos"      -> {<< <<"list", 0>> >>}
      [] p = "/video/a.mp4" -> {<< <<"head", Blocks>> >> \o Content, << <<"nofile", 0>> >>}
      [] p = "/live"        -> {<< <<"hello", 0>> >> \o Chunks(n) : n \in 0..MaxChunks}
      [] p = "/broadcast"   -> {<<>>}
      [] OTHER              -> {<< <<"missing", 0>> >>}

\* A client that has asked for nothing gets an answer to some request.
Answers(a) == IF a = NoAsk THEN UNION {AnswersTo(p) : p \in Paths} ELSE AnswersTo(a)

Service == INSTANCE AnswerService WITH
    closed <- [c \in Clients |-> state[c] = "closed"],
    left   <- [c \in Clients |-> peer[c] = "gone"]

\* While nobody uploads, the threads serve every client as if it were alone:
\* it gets nothing but an answer to its own request, in order, and its
\* connection is not closed before the answer is complete.
ImplementsService == Service!Spec

\* A client that keeps the thread that serves it: it does not read, it has not
\* asked for anything, or it watches or uploads.
Keeps(c) == peer[c] # "reading" \/ asked[c] \in {NoAsk, "/live", "/broadcast"}

\* A descriptor that is in use for such a client, or for the thread of an accept
\* that failed.
Kept(d) ==
    \/ \E c \in Clients : Keeps(c) /\ fds[d] = Sock(c)
    \/ \E t \in Threads : fds[d] \in {File(t), Dir(t)} /\ (serves[t] = NoClient \/ Keeps(serves[t]))

\* A client that reads is answered and let go, unless the process ends: once it
\* has been accepted, whatever the others do; before that it may wait for ever,
\* but only if again and again every descriptor is in use for others that keep
\* it (main.c:188 accepts nobody then).
Answered == \A c \in Clients :
    (asked[c] \notin {NoAsk, "/live", "/broadcast"} /\ peer[c] = "reading")
        ~> \/ state[c] = "closed" \/ peer[c] # "reading" \/ ~alive
           \/ [](state[c] = "queued") /\ []<>(\A d \in Fds : Kept(d))

\* "Multiple devices can stream simultaneously" (readme.md:148): a client
\* that stays until the server closes has got the whole video.
CompleteVideo == \A c \in Clients :
    (asked[c] = "/video/a.mp4" /\ state[c] = "closed" /\ peer[c] # "gone")
        => got[c] \in Answers(asked[c])
=============================================================================
