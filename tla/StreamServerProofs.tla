------------------------- MODULE StreamServerProofs -------------------------
(* Proofs about StreamServer, for any number of clients, stacks and         *)
(* descriptors, and whatever peers do.                                      *)
EXTENDS StreamServer, NaturalInduction, SequenceTheorems

\* Of the numbers that are free there is a lowest.
LEMMA LowestExists ==
    ASSUME NEW S, S \subseteq Nat, S # {}
    PROVE  Lowest(S) \in S
BY LeastNatural DEF Lowest

\* A descriptor that is opened was free.
LEMMA NewFdIsFree ==
    ASSUME FreeFds # {}
    PROVE  NewFd \in Fds /\ NewFd # NoFd /\ fds[NewFd] = Free
<1>1. FreeFds \subseteq Nat
  BY ServerAssumption DEF FreeFds, Fds, ServerAssumption
<1>2. NewFd \in FreeFds
  BY <1>1, LowestExists DEF NewFd
<1> QED BY <1>2, ServerAssumption DEF FreeFds, Fds, NoFd, ServerAssumption

----------------------------------------------------------------------------
\* Types

LEMMA InitTypeOK == Init => TypeOK
BY ServerAssumption
   DEF Init, TypeOK, Labels, FileLabels, Resources, ServerAssumption, Paths, Fds, NoFd, NoAsk

\* close frees a number and may end a connection.
LEMMA CloseFdType ==
    ASSUME TypeOK, NEW d, CloseFd(d)
    PROVE  /\ fds' \in [Fds -> Resources]
           /\ state' \in [Clients -> {"idle", "queued", "open", "closed"}]
BY DEF TypeOK, CloseFd, Resources

\* What handle_client goes on with is a label.
LEMMA HandlerType == \A p : Handler(p) \in Labels
BY DEF Handler, Labels

LEMMA MainTypeOK ==
    ASSUME TypeOK, NEW t \in Threads, Accept(t) \/ AcceptFails(t)
    PROVE  TypeOK'
<1> USE ServerAssumption DEF TypeOK, Spawn, Goto, Labels, netvars, ServerAssumption
<1>1. CASE Accept(t)
  <2>1. NewFd \in Fds
    BY <1>1, NewFdIsFree DEF Accept
  <2>2. Head(queue) \in Clients /\ Tail(queue) \in Seq(Clients)
    BY <1>1 DEF Accept
  <2> QED BY <1>1, <2>1, <2>2 DEF Accept, Resources
<1>2. CASE AcceptFails(t)
  BY <1>2 DEF AcceptFails
<1> QED BY <1>1, <1>2

LEMMA RouteTypeOK ==
    ASSUME TypeOK, NEW t \in Threads,
           ReadRequest(t) \/ ReadNothing(t) \/ ReadFile(t) \/ Reply(t) \/ Close(t)
    PROVE  TypeOK'
<1> USE ServerAssumption, HandlerType
    DEF TypeOK, Goto, netvars, thrvars, ServerAssumption
<1>1. CASE ReadRequest(t)
  <2>1. PICK c \in Clients :
          /\ inbox[c] # <<>>
          /\ inbox' = [inbox EXCEPT ![c] = Tail(@)]
          /\ path' = [path EXCEPT ![t] = IF Head(inbox[c]) \in Paths THEN Head(inbox[c]) ELSE "other"]
          /\ \E p : pc' = [pc EXCEPT ![t] = Handler(p)]
    BY <1>1 DEF ReadRequest
  <2>2. inbox' \in [Clients -> Seq(Paths \cup {"piece"})]
    BY <2>1
  <2>3. path' \in [Threads -> Paths]
    BY <2>1 DEF Paths
  <2> QED BY <1>1, <2>1, <2>2, <2>3 DEF ReadRequest
<1>2. CASE ReadNothing(t)
  BY <1>2 DEF ReadNothing
<1>3. CASE ReadFile(t)
  <2>1. path' \in [Threads -> Paths]
    BY <1>3 DEF ReadFile, Paths
  <2>2. pos' \in [Threads -> 0..Blocks]
    <3>1. PICK u \in Threads :
            IF pos[u] < Blocks THEN pos' = [pos EXCEPT ![u] = @ + 1] ELSE UNCHANGED pos
      BY <1>3 DEF ReadFile
    <3>2. pos[u] \in 0..Blocks /\ (pos[u] < Blocks => pos[u] + 1 \in 0..Blocks)
      OBVIOUS
    <3> QED BY <3>1, <3>2
  <2>3. pc' \in [Threads -> Labels]
    BY <1>3 DEF ReadFile
  <2> QED BY <1>3, <2>1, <2>2, <2>3 DEF ReadFile
<1>4. CASE Reply(t)
  BY <1>4 DEF Reply, Labels
<1>5. CASE Close(t)
  BY <1>5, CloseFdType DEF Close, Labels
<1> QED BY <1>1, <1>2, <1>3, <1>4, <1>5

LEMMA FilesTypeOK ==
    ASSUME TypeOK, NEW t \in Threads,
           \/ OpenDir(t) \/ OpenDirFails(t) \/ CloseDir(t) \/ Open(t) \/ VideoHead(t)
           \/ ReadBlock(t) \/ SendBlock(t) \/ ReadEnd(t) \/ CloseFile(t)
    PROVE  TypeOK'
<1> USE ServerAssumption
    DEF TypeOK, Goto, netvars, thrvars, ServerAssumption, Labels, FileLabels
<1>1. CASE OpenDir(t)
  BY <1>1, NewFdIsFree DEF OpenDir, Resources
<1>2. CASE OpenDirFails(t)
  BY <1>2 DEF OpenDirFails
<1>3. CASE CloseDir(t)
  BY <1>3, CloseFdType DEF CloseDir
<1>4. CASE Open(t)
  <2>1. CASE FreeFds = {}
    BY <1>4, <2>1 DEF Open, NewFd
  <2>2. CASE FreeFds # {}
    <3>1. /\ fds' = [fds EXCEPT ![NewFd] = File(t)] /\ pos' = [pos EXCEPT ![t] = 0]
          /\ pc' = [pc EXCEPT ![t] = "head"] /\ file' = [file EXCEPT ![t] = NewFd]
          /\ UNCHANGED <<alive, netvars, got, serves, client, path, block>>
      BY <1>4, <2>2 DEF Open
    <3>2. NewFd \in Fds /\ File(t) \in Resources
      BY <2>2, NewFdIsFree DEF Resources
    <3> QED BY <3>1, <3>2
  <2> QED BY <2>1, <2>2
<1>5. CASE VideoHead(t)
  BY <1>5 DEF VideoHead
<1>6. CASE ReadBlock(t)
  <2>1. pos' \in [Threads -> 0..Blocks]
    BY <1>6 DEF ReadBlock
  <2>2. inbox' \in [Clients -> Seq(Paths \cup {"piece"})]
    <3>1. CASE UNCHANGED inbox
      BY <3>1
    <3>2. CASE \E c \in Clients : inbox[c] # <<>> /\ inbox' = [inbox EXCEPT ![c] = Tail(@)]
      BY <3>2
    <3> QED BY <1>6, <3>1, <3>2 DEF ReadBlock
  <2> QED BY <1>6, <2>1, <2>2 DEF ReadBlock
<1>7. CASE SendBlock(t)
  BY <1>7 DEF SendBlock
<1>8. CASE ReadEnd(t)
  BY <1>8 DEF ReadEnd
<1>9. CASE CloseFile(t)
  BY <1>9, CloseFdType DEF CloseFile
<1> QED BY <1>1, <1>2, <1>3, <1>4, <1>5, <1>6, <1>7, <1>8, <1>9

LEMMA LiveTypeOK ==
    ASSUME TypeOK, NEW t \in Threads,
           \/ Hello(t) \/ WatchChunk(t) \/ RecvPiece(t) \/ RecvEnd(t) \/ CloseLive(t) \/ Killed(t)
    PROVE  TypeOK'
<1> USE DEF TypeOK, Goto, netvars, thrvars, Labels
<1>1. CASE Hello(t)
  BY <1>1 DEF Hello
<1>2. CASE WatchChunk(t)
  BY <1>2 DEF WatchChunk
<1>3. CASE RecvPiece(t)
  BY <1>3 DEF RecvPiece
<1>4. CASE RecvEnd(t)
  BY <1>4 DEF RecvEnd
<1>5. CASE CloseLive(t)
  BY <1>5, CloseFdType DEF CloseLive
<1>6. CASE Killed(t)
  BY <1>6 DEF Killed
<1> QED BY <1>1, <1>2, <1>3, <1>4, <1>5, <1>6

ClientStep(c) ==
    Connect(c) \/ Ask(c) \/ Upload(c) \/ EndUpload(c) \/ Stall(c) \/ Resume(c) \/ Leave(c)

LEMMA ClientTypeOK ==
    ASSUME TypeOK, NEW c \in Clients, ClientStep(c)
    PROVE  TypeOK'
<1> USE ServerAssumption DEF TypeOK, ServerAssumption, srvvars, thrvars
<1>1. CASE Connect(c)
  BY <1>1 DEF Connect
<1>2. CASE Ask(c)
  <2>1. PICK a \in Asks : asked' = [asked EXCEPT ![c] = a] /\ inbox' = [inbox EXCEPT ![c] = Append(@, a)]
    BY <1>2 DEF Ask
  <2>2. a \in Paths
    OBVIOUS
  <2> QED BY <1>2, <2>1, <2>2 DEF Ask
<1>3. CASE Upload(c)
  BY <1>3 DEF Upload
<1>4. CASE EndUpload(c)
  BY <1>4 DEF EndUpload
<1>5. CASE Stall(c)
  BY <1>5 DEF Stall
<1>6. CASE Resume(c)
  BY <1>6 DEF Resume
<1>7. CASE Leave(c)
  BY <1>7 DEF Leave
<1> QED BY <1>1, <1>2, <1>3, <1>4, <1>5, <1>6, <1>7 DEF ClientStep

LEMMA NextTypeOK == TypeOK /\ [Next]_vars => TypeOK'
<1> SUFFICES ASSUME TypeOK, [Next]_vars PROVE TypeOK'
  OBVIOUS
<1>1. CASE UNCHANGED vars
  BY <1>1 DEF vars, netvars, thrvars, TypeOK
<1>2. CASE Next
  BY <1>2, MainTypeOK, RouteTypeOK, FilesTypeOK, LiveTypeOK, ClientTypeOK
     DEF Next, ThreadStep, ClientStep
<1> QED BY <1>1, <1>2

\* Every variable but the messages keeps its type.
THEOREM TypeCorrect == Spec => []TypeOK
BY InitTypeOK, NextTypeOK, PTL DEF Spec

----------------------------------------------------------------------------
\* No descriptor is lost

HoldingFile == FileLabels \cup {"closedir"}

\* Steps that neither open nor close anything, nor end a thread.
Quiet ==
    /\ UNCHANGED <<fds, client, file, serves, state, queue>>
    /\ \A t \in Threads : /\ pc[t] = "none" <=> pc'[t] = "none"
                          /\ pc[t] \in FileLabels <=> pc'[t] \in FileLabels
                          /\ pc[t] = "closedir" <=> pc'[t] = "closedir"

QuietStep(t) ==
    \/ ReadRequest(t) \/ ReadNothing(t) \/ ReadFile(t) \/ Reply(t) \/ OpenDirFails(t)
    \/ VideoHead(t) \/ ReadBlock(t) \/ SendBlock(t) \/ ReadEnd(t)
    \/ Hello(t) \/ WatchChunk(t) \/ RecvPiece(t) \/ RecvEnd(t) \/ Killed(t)

LEMMA HandlerLabels ==
    \A p : /\ Handler(p) \in {"home", "opendir", "open", "hello", "recv", "missing"}
           /\ Handler(p) = "recv" => p = "/broadcast"
BY DEF Handler

LEMMA QuietSteps ==
    ASSUME TypeOK, NEW t \in Threads, QuietStep(t)
    PROVE  Quiet
<1> USE DEF TypeOK, Quiet, Goto, FileLabels, netvars, thrvars
<1>1. CASE ReadRequest(t) \/ ReadNothing(t) \/ ReadFile(t)
  <2>1. /\ pc[t] = "read" /\ UNCHANGED <<fds, client, file, serves, state, queue>>
        /\ \E p : pc' = [pc EXCEPT ![t] = Handler(p)]
    BY <1>1 DEF ReadRequest, ReadNothing, ReadFile
  <2> QED BY <2>1, HandlerLabels, ZenonT(60)
<1>2. CASE Reply(t) \/ VideoHead(t) \/ SendBlock(t)
  BY <1>2 DEF Reply, VideoHead, SendBlock
<1>3. CASE ReadBlock(t) \/ ReadEnd(t)
  BY <1>3 DEF ReadBlock, ReadEnd
<1>4. CASE Hello(t) \/ RecvEnd(t)
  BY <1>4 DEF Hello, RecvEnd
<1>5. CASE WatchChunk(t) \/ RecvPiece(t) \/ OpenDirFails(t) \/ Killed(t)
  BY <1>5 DEF WatchChunk, RecvPiece, OpenDirFails, Killed
<1> QED BY <1>1, <1>2, <1>3, <1>4, <1>5 DEF QuietStep

Held(t) == {d \in Fds : \/ pc[t] # "none" /\ client[t] = d
                        \/ pc[t] \in HoldingFile /\ file[t] = d}

LEMMA HeldDescriptors == NoLeak <=> \A d \in Fds : fds[d] # Free => \E t \in Threads : d \in Held(t)
BY DEF NoLeak, Held, HoldingFile

\* A step of one thread loses nothing if what it gives up is free afterwards,
\* and what it takes is its own.
LEMMA StepKeeps ==
    ASSUME NoLeak, NEW t \in Threads,
           \A u \in Threads : u # t => Held(u)' = Held(u),
           \A d \in Fds : fds'[d] # Free => d \in Held(t)' \/ (fds[d] # Free /\ (d \in Held(t) => d \in Held(t)'))
    PROVE  NoLeak'
<1> SUFFICES ASSUME NEW d \in Fds, fds'[d] # Free PROVE \E u \in Threads : d \in Held(u)'
  BY DEF NoLeak, Held, HoldingFile
<1>1. CASE d \in Held(t)'
  BY <1>1
<1>2. CASE d \notin Held(t)'
  <2>1. PICK u \in Threads : d \in Held(u)
    BY <1>2, HeldDescriptors
  <2> QED BY <1>2, <2>1
<1> QED BY <1>1, <1>2

LEMMA ThreadNoLeak ==
    ASSUME TypeOK, NoLeak, NEW t \in Threads,
           Accept(t) \/ AcceptFails(t) \/ ThreadStep(t) \/ Killed(t)
    PROVE  NoLeak'
<1> USE DEF TypeOK, Goto, Spawn, netvars, thrvars, HoldingFile, FileLabels, Held
<1>1. CASE QuietStep(t)
  <2>1. Quiet
    BY <1>1, QuietSteps
  <2>2. \A u \in Threads : Held(u)' = Held(u)
    BY <2>1 DEF Quiet
  <2>3. UNCHANGED fds
    BY <2>1 DEF Quiet
  <2> HIDE DEF Held
  <2> QED BY <2>2, <2>3, StepKeeps
<1>2. CASE Accept(t)
  BY <1>2, NewFdIsFree, StepKeeps DEF Accept
<1>3. CASE AcceptFails(t)
  <2>1. UNCHANGED <<fds, file>> /\ pc[t] = "none" /\ \A u \in Threads : u # t =>
          pc'[u] = pc[u] /\ client'[u] = client[u]
    BY <1>3 DEF AcceptFails
  <2>2. Held(t) = {}
    BY <2>1
  <2>3. \A u \in Threads : u # t => Held(u)' = Held(u)
    BY <2>1
  <2> HIDE DEF Held
  <2> QED BY <2>1, <2>2, <2>3, StepKeeps
<1>4. CASE Close(t) \/ CloseDir(t) \/ CloseFile(t) \/ CloseLive(t)
  <2> DEFINE d == IF pc[t] \in {"close", "closelive"} THEN client[t] ELSE file[t]
  <2>1. /\ CloseFd(d) /\ UNCHANGED <<client, file>>
        /\ \A u \in Threads : u # t => pc'[u] = pc[u]
    BY <1>4 DEF Close, CloseDir, CloseFile, CloseLive
  <2>2. \A e \in Fds : fds'[e] # Free => fds'[e] = fds[e] /\ e # d
    BY <2>1 DEF CloseFd, NoFd, Fds
  <2>3. \A u \in Threads : u # t => Held(u)' = Held(u)
    BY <2>1
  <2>4. \A e \in Fds : e \in Held(t) /\ e # d => e \in Held(t)'
    BY <1>4, <2>1 DEF Close, CloseDir, CloseFile, CloseLive
  <2> HIDE DEF d, Held
  <2> QED BY <2>2, <2>3, <2>4, StepKeeps
<1>5. CASE OpenDir(t)
  BY <1>5, NewFdIsFree, StepKeeps DEF OpenDir
<1>6. CASE Open(t)
  <2>1. /\ pc[t] = "open" /\ pc'[t] \in {"nofile", "head"} /\ UNCHANGED client /\ file'[t] = NewFd
        /\ \A u \in Threads : u # t => pc'[u] = pc[u] /\ file'[u] = file[u]
    BY <1>6 DEF Open
  <2>2. fds' = fds \/ (FreeFds # {} /\ pc'[t] = "head" /\ fds' = [fds EXCEPT ![NewFd] = File(t)])
    BY <1>6 DEF Open
  <2>3. \A d \in Fds : d \in Held(t) => d \in Held(t)'
    BY <2>1
  <2>4. \A d \in Fds : fds'[d] # Free => d \in Held(t)' \/ fds[d] # Free
    BY <2>1, <2>2, NewFdIsFree
  <2>5. \A u \in Threads : u # t => Held(u)' = Held(u)
    BY <2>1
  <2> HIDE DEF Held
  <2> QED BY <2>3, <2>4, <2>5, StepKeeps
<1> QED BY <1>1, <1>2, <1>3, <1>4, <1>5, <1>6 DEF ThreadStep, QuietStep

LEMMA ClientNoLeak ==
    ASSUME NoLeak, NEW c \in Clients, ClientStep(c)
    PROVE  NoLeak'
BY DEF NoLeak, ClientStep, Connect, Ask, Upload, EndUpload, Stall, Resume, Leave, srvvars, thrvars

\* Whatever clients do, uploads and their second close included, every
\* descriptor in use is one that a running thread is still going to close.
THEOREM NothingLeaks == Spec => []NoLeak
<1>1. Init => NoLeak
  BY DEF Init, NoLeak
<1>2. TypeOK /\ NoLeak /\ [Next]_vars => NoLeak'
  <2> SUFFICES ASSUME TypeOK, NoLeak, [Next]_vars PROVE NoLeak'
    OBVIOUS
  <2>1. CASE UNCHANGED vars
    BY <2>1 DEF vars, thrvars, NoLeak
  <2>2. CASE Next
    BY <2>2, ThreadNoLeak, ClientNoLeak DEF Next, ClientStep
  <2> QED BY <2>1, <2>2
<1> QED BY <1>1, <1>2, TypeCorrect, PTL DEF Spec

----------------------------------------------------------------------------
\* While nobody uploads, a thread's descriptors are its own

Peaceful == (Paths \cup {"piece"}) \ {"/broadcast"}

\* No stack remembers an upload and no thread is in handle_broadcast.
NoUploads ==
    /\ \A c \in Clients : inbox[c] \in Seq(Peaceful)
    /\ \A t \in Threads : path[t] # "/broadcast" /\ pc[t] \notin {"recv", "closelive"}

\* A connection waits once or is open; one thread serves it while it is open.
Alone ==
    /\ \A i \in DOMAIN queue : state[queue[i]] = "queued"
    /\ \A i, j \in DOMAIN queue : queue[i] = queue[j] => i = j
    /\ \A t \in Threads : pc[t] # "none" /\ serves[t] # NoClient => state[serves[t]] = "open"
    /\ \A t, u \in Threads :
         (pc[t] # "none" /\ pc[u] # "none" /\ serves[t] = serves[u] /\ serves[t] # NoClient) => t = u

OwnInv == TypeOK /\ NoUploads /\ Alone /\ OwnDescriptors

LEMMA NoUploadsInit == Init => NoUploads /\ Alone /\ OwnDescriptors
<1> SUFFICES ASSUME Init PROVE NoUploads /\ Alone /\ OwnDescriptors
  OBVIOUS
<1>1. NoUploads
  BY DEF Init, NoUploads
<1>2. Alone
  <2>1. DOMAIN queue = {}
    BY DEF Init
  <2>2. \A t \in Threads : pc[t] = "none"
    BY DEF Init
  <2> QED BY <2>1, <2>2 DEF Alone
<1>3. OwnDescriptors
  BY DEF Init, OwnDescriptors, FileLabels
<1> QED BY <1>1, <1>2, <1>3

LEMMA RouteNoUploads ==
    ASSUME TypeOK, NoUploads, NEW t \in Threads, ReadRequest(t) \/ ReadNothing(t) \/ ReadFile(t)
    PROVE  NoUploads'
<1> USE DEF TypeOK, NoUploads, Goto, netvars, thrvars
<1>1. CASE ReadRequest(t)
  <2>1. PICK c \in Clients :
          /\ inbox[c] # <<>>
          /\ inbox' = [inbox EXCEPT ![c] = Tail(@)]
          /\ LET p == IF Head(inbox[c]) \in Paths THEN Head(inbox[c]) ELSE "other"
             IN  path' = [path EXCEPT ![t] = p] /\ pc' = [pc EXCEPT ![t] = Handler(p)]
    BY <1>1 DEF ReadRequest
  <2>2. Head(inbox[c]) \in Peaceful /\ Tail(inbox[c]) \in Seq(Peaceful)
    BY <2>1
  <2>3. Head(inbox[c]) # "/broadcast" /\ "other" # "/broadcast"
    BY <2>2 DEF Peaceful
  <2>4. \A d \in Clients : inbox'[d] \in Seq(Peaceful)
    BY <2>1, <2>2
  <2>5. PICK p \in Paths \ {"/broadcast"} :
          path' = [path EXCEPT ![t] = p] /\ pc' = [pc EXCEPT ![t] = Handler(p)]
    BY <2>1, <2>3 DEF Paths
  <2>6. \A u \in Threads : path'[u] # "/broadcast" /\ pc'[u] \notin {"recv", "closelive"}
    BY <2>5, HandlerLabels
  <2> QED BY <2>4, <2>6 DEF NoUploads
<1>2. CASE ReadNothing(t)
  BY <1>2, HandlerLabels DEF ReadNothing
<1>3. CASE ReadFile(t)
  <2>1. /\ UNCHANGED inbox
        /\ \/ path' = [path EXCEPT ![t] = "other"] /\ pc' = [pc EXCEPT ![t] = Handler("other")]
           \/ path' = path /\ pc' = [pc EXCEPT ![t] = Handler(path[t])]
    BY <1>3 DEF ReadFile
  <2>2. PICK p : p # "/broadcast" /\ path' \in {path, [path EXCEPT ![t] = p]}
                 /\ pc' = [pc EXCEPT ![t] = Handler(p)]
    BY <2>1
  <2>3. \A u \in Threads : path'[u] # "/broadcast" /\ pc'[u] \notin {"recv", "closelive"}
    BY <2>2, HandlerLabels
  <2> QED BY <2>1, <2>3
<1> QED BY <1>1, <1>2, <1>3

LEMMA ThreadNoUploads ==
    ASSUME TypeOK, NoUploads, NEW t \in Threads,
           Accept(t) \/ AcceptFails(t) \/ ThreadStep(t) \/ Killed(t)
    PROVE  NoUploads'
<1> USE DEF TypeOK, NoUploads, Goto, netvars, thrvars
<1>1. CASE ReadRequest(t) \/ ReadNothing(t) \/ ReadFile(t)
  BY <1>1, RouteNoUploads
<1>2. CASE Accept(t) \/ AcceptFails(t)
  BY <1>2 DEF Accept, AcceptFails, Spawn
<1>3. CASE ReadBlock(t)
  <2>1. UNCHANGED path /\ pc' = [pc EXCEPT ![t] = "send"]
    BY <1>3 DEF ReadBlock
  <2>2. \/ UNCHANGED inbox
        \/ \E c \in Clients : inbox[c] # <<>> /\ inbox' = [inbox EXCEPT ![c] = Tail(@)]
    BY <1>3 DEF ReadBlock
  <2>3. \A c \in Clients : inbox'[c] \in Seq(Peaceful)
    <3>1. CASE UNCHANGED inbox
      BY <3>1
    <3>2. CASE ~ UNCHANGED inbox
      <4>1. PICK c \in Clients : inbox[c] # <<>> /\ inbox' = [inbox EXCEPT ![c] = Tail(@)]
        BY <2>2, <3>2
      <4>2. Tail(inbox[c]) \in Seq(Peaceful)
        BY <4>1
      <4> QED BY <4>1, <4>2
    <3> QED BY <3>1, <3>2
  <2> QED BY <2>1, <2>3
<1>4. CASE Reply(t) \/ Close(t) \/ OpenDir(t) \/ OpenDirFails(t) \/ CloseDir(t)
  BY <1>4 DEF Reply, Close, OpenDir, OpenDirFails, CloseDir
<1>5. CASE Open(t) \/ VideoHead(t) \/ SendBlock(t) \/ ReadEnd(t) \/ CloseFile(t)
  BY <1>5 DEF Open, VideoHead, SendBlock, ReadEnd, CloseFile
<1>6. CASE Hello(t) \/ WatchChunk(t) \/ Killed(t)
  BY <1>6 DEF Hello, WatchChunk, Killed
<1>7. ~(RecvPiece(t) \/ RecvEnd(t) \/ CloseLive(t))
  BY DEF RecvPiece, RecvEnd, CloseLive
<1> QED BY <1>1, <1>2, <1>3, <1>4, <1>5, <1>6, <1>7 DEF ThreadStep

\* Nobody can upload who has not asked for it.
LEMMA ClientNoUploads ==
    ASSUME "/broadcast" \notin Asks, TypeOK, NoUploads, NEW c \in Clients, ClientStep(c)
    PROVE  NoUploads'
<1> USE ServerAssumption DEF TypeOK, NoUploads, srvvars, thrvars, ServerAssumption
<1>1. CASE Ask(c)
  <2>1. PICK a \in Asks : inbox' = [inbox EXCEPT ![c] = Append(@, a)]
    BY <1>1 DEF Ask
  <2>2. a \in Peaceful
    BY DEF Peaceful
  <2> QED BY <1>1, <2>1, <2>2 DEF Ask
<1>2. ~Upload(c)
  BY DEF Upload, NoAsk
<1>3. CASE ~Ask(c)
  BY <1>2, <1>3 DEF ClientStep, Connect, EndUpload, Stall, Resume, Leave
<1> QED BY <1>1, <1>3

LEMMA QuietOwn ==
    ASSUME TypeOK, Alone, OwnDescriptors, Quiet
    PROVE  Alone' /\ OwnDescriptors'
<1>1. Alone'
  BY DEF Alone, Quiet
<1>2. OwnDescriptors'
  BY DEF OwnDescriptors, Quiet, Names
<1> QED BY <1>1, <1>2

LEMMA AcceptOwn ==
    ASSUME OwnInv, NEW t \in Threads, Accept(t)
    PROVE  Alone' /\ OwnDescriptors'
<1> PICK c : c = queue[1]
  OBVIOUS
<1> PICK d : d = NewFd
  OBVIOUS
<1>1. d \in Fds /\ d # NoFd /\ fds[d] = Free
  BY NewFdIsFree DEF Accept
<1>2. /\ pc[t] = "none" /\ pc' = [pc EXCEPT ![t] = "read"]
      /\ serves' = [serves EXCEPT ![t] = c] /\ client' = [client EXCEPT ![t] = d]
      /\ fds' = [fds EXCEPT ![d] = Sock(c)] /\ state' = [state EXCEPT ![c] = "open"]
      /\ queue' = Tail(queue) /\ queue # <<>> /\ UNCHANGED file
  BY DEF Accept, Spawn, Goto
<1>3. queue \in Seq(Clients) /\ c \in Clients /\ c # NoClient /\ 1 \in DOMAIN queue
  BY <1>2, ServerAssumption DEF OwnInv, TypeOK, ServerAssumption
<1>4. state[c] = "queued"
  BY <1>3 DEF OwnInv, Alone
<1>5. \A i \in DOMAIN queue' : i + 1 \in DOMAIN queue /\ i + 1 # 1 /\ queue'[i] = queue[i + 1] /\ i \in Int
  BY <1>2, <1>3
<1>6. \A i \in DOMAIN queue' : queue'[i] # c
  BY <1>3, <1>5 DEF OwnInv, Alone
<1>7. \A i, j \in DOMAIN queue' : queue'[i] = queue'[j] => i = j
  <2> SUFFICES ASSUME NEW i \in DOMAIN queue', NEW j \in DOMAIN queue', queue'[i] = queue'[j]
               PROVE  i = j
    OBVIOUS
  <2>1. i + 1 = j + 1
    BY <1>5 DEF OwnInv, Alone
  <2> QED BY <1>5, <2>1
<1>8. \A u \in Threads : pc[u] # "none" => serves[u] # c
  BY <1>3, <1>4 DEF OwnInv, Alone
<1>9. Alone'
  <2>1. \A i \in DOMAIN queue' : state'[queue'[i]] = "queued"
    BY <1>2, <1>3, <1>5, <1>6 DEF OwnInv, Alone, TypeOK
  <2>2. \A u \in Threads : pc'[u] # "none" /\ serves'[u] # NoClient => state'[serves'[u]] = "open"
    BY <1>2, <1>3, <1>8 DEF OwnInv, Alone, TypeOK
  <2>3. \A u, v \in Threads :
          (pc'[u] # "none" /\ pc'[v] # "none" /\ serves'[u] = serves'[v] /\ serves'[u] # NoClient) => u = v
    <3> SUFFICES ASSUME NEW u \in Threads, NEW v \in Threads, pc'[u] # "none", pc'[v] # "none",
                        serves'[u] = serves'[v], serves'[u] # NoClient
                 PROVE  u = v
      OBVIOUS
    <3>1. serves'[t] = c
      BY <1>2 DEF OwnInv, TypeOK
    <3>2. \A w \in Threads \ {t} : pc'[w] = pc[w] /\ serves'[w] = serves[w]
      BY <1>2 DEF OwnInv, TypeOK
    <3>3. CASE u = t
      BY <1>8, <3>1, <3>2, <3>3
    <3>4. CASE v = t
      BY <1>8, <3>1, <3>2, <3>4
    <3>5. CASE u # t /\ v # t
      BY <3>2, <3>5 DEF OwnInv, Alone
    <3> QED BY <3>3, <3>4, <3>5
  <2> QED BY <1>7, <2>1, <2>2, <2>3 DEF Alone
<1>10. fds \in [Fds -> Resources]
  BY DEF OwnInv, TypeOK
<1>11. fds' = [fds EXCEPT ![d] = Sock(c)] /\ Names(d)' = Sock(c)
  BY <1>1, <1>2, <1>10 DEF Names
<1>12. \A e \in Fds \cup {NoFd} : Names(e) # Free => e # d /\ Names(e)' = Names(e)
  BY <1>1, <1>10, <1>11 DEF Names
<1>13. OwnDescriptors'
  <2> SUFFICES ASSUME NEW u \in Threads
               PROVE  /\ pc'[u] # "none" => IF serves'[u] = NoClient THEN client'[u] = NoFd
                                            ELSE Names(client[u])' = Sock(serves'[u])
                      /\ pc'[u] \in FileLabels => Names(file[u])' = File(u)
                      /\ pc'[u] = "closedir"   => Names(file[u])' = Dir(u)
    BY DEF OwnDescriptors
  <2>1. CASE u = t
    BY <1>2, <1>3, <1>11, <2>1 DEF OwnInv, TypeOK, FileLabels
  <2>2. CASE u # t
    <3>1. /\ pc'[u] = pc[u] /\ serves'[u] = serves[u] /\ client'[u] = client[u] /\ file'[u] = file[u]
          /\ client[u] \in Fds \cup {NoFd} /\ file[u] \in Fds \cup {NoFd}
      BY <1>2, <2>2 DEF OwnInv, TypeOK
    <3>2. \A c1, u1 : Sock(c1) # Free /\ File(u1) # Free /\ Dir(u1) # Free
      BY DEF Sock, File, Dir, Free
    <3> QED BY <1>12, <3>1, <3>2 DEF OwnInv, OwnDescriptors
  <2> QED BY <2>1, <2>2
<1> QED BY <1>9, <1>13

LEMMA AcceptFailsOwn ==
    ASSUME OwnInv, NEW t \in Threads, AcceptFails(t)
    PROVE  Alone' /\ OwnDescriptors'
<1>1. /\ pc[t] = "none" /\ pc' = [pc EXCEPT ![t] = "read"]
      /\ serves' = [serves EXCEPT ![t] = NoClient] /\ client' = [client EXCEPT ![t] = NoFd]
      /\ UNCHANGED <<fds, file, state, queue>>
  BY DEF AcceptFails, Spawn, Goto, netvars
<1>2. Alone'
  BY <1>1 DEF OwnInv, Alone, TypeOK
<1>3. OwnDescriptors'
  BY <1>1 DEF OwnInv, OwnDescriptors, TypeOK, Names, FileLabels
<1> QED BY <1>2, <1>3

\* Connections, files and directories are told apart.
LEMMA ResourcesDiffer ==
    /\ \A a, b : Sock(a) = Sock(b) => a = b
    /\ \A a, b : File(a) = File(b) => a = b
    /\ \A a, b : Dir(a) = Dir(b) => a = b
    /\ \A a, b : Sock(a) # File(b) /\ Sock(a) # Dir(b) /\ File(a) # Dir(b)
    /\ \A a : Sock(a) # Free /\ File(a) # Free /\ Dir(a) # Free
BY DEF Sock, File, Dir, Free

\* What a thread holds, nobody else does.
LEMMA Unshared ==
    ASSUME OwnInv, NEW t \in Threads, NEW u \in Threads
    PROVE  /\ t # u /\ pc[t] # "none" /\ pc[u] # "none" /\ client[t] = client[u] => client[t] = NoFd
           /\ pc[t] # "none" /\ pc[u] \in HoldingFile => client[t] # file[u]
           /\ t # u /\ pc[t] \in HoldingFile /\ pc[u] \in HoldingFile => file[t] # file[u]
<1>1. /\ \A v \in Threads : pc[v] # "none" =>
            IF serves[v] = NoClient THEN client[v] = NoFd ELSE Names(client[v]) = Sock(serves[v])
      /\ \A v \in Threads : pc[v] \in HoldingFile => Names(file[v]) \in {File(v), Dir(v)}
  BY DEF OwnInv, OwnDescriptors, HoldingFile
<1>2. Names(NoFd) = Free
  BY DEF Names
<1>3. t # u /\ pc[t] # "none" /\ pc[u] # "none" /\ serves[t] = serves[u] => serves[t] = NoClient
  BY DEF OwnInv, Alone
<1> QED BY <1>1, <1>2, <1>3, ResourcesDiffer

LEMMA CloseOwn ==
    ASSUME OwnInv, NEW t \in Threads, Close(t) \/ CloseDir(t) \/ CloseFile(t)
    PROVE  Alone' /\ OwnDescriptors'
<1> PICK d : d = IF pc[t] = "close" THEN client[t] ELSE file[t]
  OBVIOUS
<1>1. /\ CloseFd(d) /\ UNCHANGED <<queue, serves, client, file>>
      /\ \/ pc[t] = "close" /\ pc' = [pc EXCEPT ![t] = "none"]
         \/ pc[t] = "closedir" /\ pc' = [pc EXCEPT ![t] = "list"]
         \/ pc[t] = "closefile" /\ pc' = [pc EXCEPT ![t] = "close"]
  BY DEF Close, CloseDir, CloseFile, Goto, thrvars
<1>2. /\ pc \in [Threads -> Labels] /\ fds \in [Fds -> Resources]
      /\ state \in [Clients -> {"idle", "queued", "open", "closed"}]
      /\ serves \in [Threads -> Clients \cup {NoClient}]
      /\ client \in [Threads -> Fds \cup {NoFd}] /\ file \in [Threads -> Fds \cup {NoFd}]
      /\ queue \in Seq(Clients)
  BY DEF OwnInv, TypeOK
<1>3. /\ \A e : e # d => Names(e)' = Names(e)
      /\ \A c \in Clients : state'[c] = state[c] \/ Names(d) = Sock(c)
  BY <1>1, <1>2 DEF Names, CloseFd
<1>4. \A c \in Clients : Names(d) = Sock(c) => pc[t] = "close" /\ serves[t] = c
  BY <1>1, <1>2, ResourcesDiffer DEF OwnInv, OwnDescriptors, FileLabels, Names
<1>5. Alone'
  <2>1. \A i \in DOMAIN queue : queue[i] \in Clients /\ state[queue[i]] = "queued"
    BY <1>2 DEF OwnInv, Alone
  <2>2. \A i \in DOMAIN queue : state'[queue[i]] = "queued"
    <3> SUFFICES ASSUME NEW i \in DOMAIN queue, state'[queue[i]] # "queued" PROVE FALSE
      OBVIOUS
    <3>1. pc[t] = "close" /\ serves[t] = queue[i]
      BY <1>3, <1>4, <2>1
    <3> QED BY <2>1, <3>1, ServerAssumption DEF OwnInv, Alone, ServerAssumption
  <2>3. \A u \in Threads : pc'[u] # "none" => pc[u] # "none" /\ (u = t => pc[t] # "close")
    BY <1>1, <1>2
  <2>4. ASSUME NEW u \in Threads, pc'[u] # "none", serves[u] # NoClient
        PROVE  state'[serves[u]] = "open"
    <3>1. serves[u] \in Clients /\ state[serves[u]] = "open"
      BY <1>2, <2>3, <2>4 DEF OwnInv, Alone
    <3>2. serves[u] = serves[t] /\ pc[t] # "none" => u = t
      BY <2>3, <2>4 DEF OwnInv, Alone
    <3> QED BY <1>3, <1>4, <2>3, <2>4, <3>1, <3>2
  <2> QED BY <1>1, <2>2, <2>3, <2>4 DEF OwnInv, Alone
<1>6. OwnDescriptors'
  <2> SUFFICES ASSUME NEW u \in Threads
               PROVE  /\ pc'[u] # "none" => IF serves'[u] = NoClient THEN client'[u] = NoFd
                                            ELSE Names(client[u])' = Sock(serves'[u])
                      /\ pc'[u] \in FileLabels => Names(file[u])' = File(u)
                      /\ pc'[u] = "closedir"   => Names(file[u])' = Dir(u)
    BY DEF OwnDescriptors
  <2>1. CASE d = NoFd
    <3>1. UNCHANGED fds /\ \A e : Names(e)' = Names(e)
      BY <1>1, <2>1 DEF CloseFd, Names
    <3> QED BY <1>1, <1>2, <3>1 DEF OwnInv, OwnDescriptors, FileLabels
  <2>2. CASE d # NoFd
    <3>1. /\ pc'[u] # "none" => pc[u] # "none" /\ client[u] # d
          /\ pc'[u] \in HoldingFile => pc[u] = pc'[u] /\ file[u] # d
      <4>1. CASE u = t
        BY <1>1, <1>2, <2>2, <4>1, Unshared DEF HoldingFile, FileLabels
      <4>2. CASE u # t
        BY <1>1, <1>2, <2>2, <4>2, Unshared DEF HoldingFile, FileLabels
      <4> QED BY <4>1, <4>2
    <3> QED BY <1>1, <1>3, <3>1 DEF OwnInv, OwnDescriptors, HoldingFile
  <2> QED BY <2>1, <2>2
<1> QED BY <1>5, <1>6

LEMMA OpenOwn ==
    ASSUME OwnInv, NEW t \in Threads, Open(t) \/ OpenDir(t)
    PROVE  Alone' /\ OwnDescriptors'
<1>1. /\ UNCHANGED <<queue, state, serves, client>> /\ pc[t] \in {"open", "opendir"}
      /\ pc' = [pc EXCEPT ![t] = pc'[t]] /\ file' = [file EXCEPT ![t] = NewFd]
  BY DEF Open, OpenDir, Goto, netvars, OwnInv, TypeOK
<1>2. \/ fds' = fds /\ pc'[t] = "nofile"
      \/ FreeFds # {} /\ pc'[t] = "head" /\ fds' = [fds EXCEPT ![NewFd] = File(t)]
      \/ FreeFds # {} /\ pc'[t] = "closedir" /\ fds' = [fds EXCEPT ![NewFd] = Dir(t)]
  BY DEF Open, OpenDir, Goto, OwnInv, TypeOK
<1>3. /\ pc \in [Threads -> Labels] /\ fds \in [Fds -> Resources]
      /\ client \in [Threads -> Fds \cup {NoFd}] /\ file \in [Threads -> Fds \cup {NoFd}]
  BY DEF OwnInv, TypeOK
<1>4. Alone'
  BY <1>1, <1>2, <1>3 DEF OwnInv, Alone
<1>5. \A e \in Fds \cup {NoFd} : Names(e) # Free => Names(e)' = Names(e)
  BY <1>2, <1>3, NewFdIsFree DEF Names
<1>6. /\ pc'[t] = "head" => Names(file[t])' = File(t)
      /\ pc'[t] = "closedir" => Names(file[t])' = Dir(t)
  BY <1>1, <1>2, <1>3, NewFdIsFree DEF Names
<1>7. OwnDescriptors'
  <2> SUFFICES ASSUME NEW u \in Threads
               PROVE  /\ pc'[u] # "none" => IF serves'[u] = NoClient THEN client'[u] = NoFd
                                            ELSE Names(client[u])' = Sock(serves'[u])
                      /\ pc'[u] \in FileLabels => Names(file[u])' = File(u)
                      /\ pc'[u] = "closedir"   => Names(file[u])' = Dir(u)
    BY DEF OwnDescriptors
  <2>1. pc'[u] # "none" => pc[u] # "none"
    BY <1>1, <1>3
  <2>2. pc'[u] # "none" => IF serves'[u] = NoClient THEN client'[u] = NoFd
                           ELSE Names(client[u])' = Sock(serves'[u])
    BY <1>1, <1>3, <1>5, <2>1, ResourcesDiffer DEF OwnInv, OwnDescriptors
  <2>3. CASE u = t
    BY <1>2, <1>6, <2>2, <2>3 DEF FileLabels
  <2>4. CASE u # t
    <3>1. pc'[u] = pc[u] /\ file'[u] = file[u]
      BY <1>1, <1>3, <2>4
    <3> QED BY <1>3, <1>5, <2>2, <3>1, ResourcesDiffer DEF OwnInv, OwnDescriptors
  <2> QED BY <2>3, <2>4
<1> QED BY <1>4, <1>7

LEMMA ClientOwn ==
    ASSUME OwnInv, NEW c \in Clients, ClientStep(c)
    PROVE  Alone' /\ OwnDescriptors'
<1>1. UNCHANGED <<fds, pc, serves, client, file>>
  BY DEF ClientStep, Connect, Ask, Upload, EndUpload, Stall, Resume, Leave, srvvars, thrvars
<1>2. OwnDescriptors'
  BY <1>1 DEF OwnInv, OwnDescriptors, Names
<1>3. CASE Connect(c)
  <2>1. /\ state[c] = "idle" /\ queue' = Append(queue, c) /\ state' = [state EXCEPT ![c] = "queued"]
        /\ queue \in Seq(Clients) /\ state \in [Clients -> {"idle", "queued", "open", "closed"}]
    BY <1>3 DEF Connect, OwnInv, TypeOK
  <2>2. \A i \in DOMAIN queue : queue[i] # c /\ queue[i] \in Clients
    BY <2>1 DEF OwnInv, Alone
  <2>3. /\ DOMAIN queue = 1..Len(queue) /\ Len(queue) \in Nat
        /\ DOMAIN queue' = 1..(Len(queue) + 1)
        /\ \A i \in DOMAIN queue : queue'[i] = queue[i]
        /\ queue'[Len(queue) + 1] = c
    BY <2>1
  <2>4. \A i \in DOMAIN queue' : i \in DOMAIN queue \/ i = Len(queue) + 1
    BY <2>3
  <2>5. \A i \in DOMAIN queue' : state'[queue'[i]] = "queued"
    BY <2>1, <2>2, <2>3, <2>4 DEF OwnInv, Alone
  <2>6. \A i, j \in DOMAIN queue' : queue'[i] = queue'[j] => i = j
    BY <2>2, <2>3, <2>4 DEF OwnInv, Alone
  <2>7. \A t \in Threads : pc[t] # "none" /\ serves[t] # NoClient => state'[serves[t]] = "open"
    BY <2>1 DEF OwnInv, Alone
  <2> QED BY <1>1, <1>2, <2>5, <2>6, <2>7 DEF OwnInv, Alone
<1>4. CASE ~Connect(c)
  <2>1. UNCHANGED <<queue, state>>
    BY <1>4 DEF ClientStep, Ask, Upload, EndUpload, Stall, Resume, Leave
  <2> QED BY <1>1, <1>2, <2>1 DEF OwnInv, Alone
<1> QED BY <1>3, <1>4

\* A thread that holds a descriptor is the only one, as long as nobody uploads.
LEMMA OwnAlways ==
    ASSUME "/broadcast" \notin Asks
    PROVE  Spec => []OwnInv
<1>1. Init => OwnInv
  BY InitTypeOK, NoUploadsInit DEF OwnInv
<1>2. ASSUME OwnInv, NEW t \in Threads, Accept(t) \/ AcceptFails(t) \/ ThreadStep(t) \/ Killed(t)
      PROVE  Alone' /\ OwnDescriptors'
  <2>1. CASE QuietStep(t)
    BY <1>2, <2>1, QuietSteps, QuietOwn DEF OwnInv
  <2>2. ~CloseLive(t)
    BY <1>2 DEF CloseLive, OwnInv, NoUploads
  <2> QED BY <1>2, <2>1, <2>2, AcceptOwn, AcceptFailsOwn, CloseOwn, OpenOwn DEF ThreadStep, QuietStep
<1>3. OwnInv /\ [Next]_vars => OwnInv'
  <2> SUFFICES ASSUME OwnInv, [Next]_vars PROVE OwnInv'
    OBVIOUS
  <2>1. TypeOK'
    BY NextTypeOK DEF OwnInv
  <2>2. CASE UNCHANGED vars
    BY <2>1, <2>2 DEF vars, netvars, thrvars, OwnInv, NoUploads, Alone, OwnDescriptors, Names
  <2>3. CASE Next
    BY <1>2, <2>1, <2>3, ThreadNoUploads, ClientNoUploads, ClientOwn DEF Next, ClientStep, OwnInv
  <2> QED BY <2>2, <2>3
<1> QED BY <1>1, <1>3, PTL DEF Spec

\* If nobody uploads, every descriptor that a thread holds names what the
\* thread opened, however many connections, files and directories come and go.
\* An upload, whose thread closes its number twice, is what the runs show to
\* break it (server_theft).
THEOREM DescriptorsAreOwn ==
    ASSUME "/broadcast" \notin Asks
    PROVE  Spec => []OwnDescriptors
<1>1. OwnInv => OwnDescriptors
  BY DEF OwnInv
<1> QED BY <1>1, OwnAlways, PTL

----------------------------------------------------------------------------
(***************************************************************************)
(* While nobody uploads, each client is served as if it were alone.  Its   *)
(* thread is the only one that can send to it, since the descriptors are   *)
(* own; what the invariant adds is how far the answer is at each label,    *)
(* and that the path on the stack is the client's own, or that the client  *)
(* will never ask.                                                         *)
(***************************************************************************)

VideoAnswer == << <<"head", Blocks>> >> \o Content
LiveAnswer  == << <<"hello", 0>> >> \o Chunks(MaxChunks)

\* What a thread at its label has given its client.
Given(t) ==
    CASE pc[t] = "block"     -> {SubSeq(VideoAnswer, 1, pos[t] + 1)}
      [] pc[t] = "send"      -> {SubSeq(VideoAnswer, 1, pos[t])}
      [] pc[t] = "closefile" -> {VideoAnswer}
      [] pc[t] = "watch"     -> {SubSeq(LiveAnswer, 1, n) : n \in 1..(MaxChunks + 1)}
      [] pc[t] = "close"     -> AnswersTo(path[t])
      [] OTHER               -> {<<>>}

\* The client has been told nothing, and what it has asked is still to be read.
Untold(c) == got[c] = <<>> /\ inbox[c] = IF asked[c] = NoAsk THEN <<>> ELSE <<asked[c]>>

\* The path on a thread's stack is the one it was routed by.
Routed(t) ==
    /\ pc[t] = "home" => path[t] = "/"
    /\ pc[t] \in {"opendir", "closedir", "list"} => path[t] = "/videos"
    /\ pc[t] \in {"open", "nofile", "head", "block", "send", "closefile"} => path[t] = "/video/a.mp4"
    /\ pc[t] \in {"hello", "watch"} => path[t] = "/live"
    /\ pc[t] = "missing" => path[t] \notin {"/", "/videos", "/video/a.mp4", "/live", "/broadcast"}
    /\ pc[t] = "head" => pos[t] = 0
    /\ pc[t] = "send" => pos[t] > 0 /\ block[t] = <<"block", pos[t] - 1>>

\* It is what its client asked for, if the client asked, and the client has
\* got what a thread at that label has sent.
Served(t) == pc[t] # "none" /\ serves[t] # NoClient =>
    LET c == serves[t]
    IN  /\ pc[t] = "read" => Untold(c)
        /\ pc[t] # "read" => asked[c] = path[t] \/ (asked[c] = NoAsk /\ eof[c])
        /\ peer[c] # "gone" => got[c] \in Given(t)

Messages == {"home", "missing", "nofile", "list", "head", "block", "hello", "chunk"} \X Nat

ServiceInv ==
    /\ got \in [Clients -> Seq(Messages)] /\ DOMAIN block = Threads
    /\ \A c \in Clients : state[c] \in {"idle", "queued"} => Untold(c)
    /\ \A t \in Threads : Routed(t) /\ Served(t)

----------------------------------------------------------------------------
\* Answers of more than one message

\* The next message of an answer that has been given up to g.
Continues(g, m, answer) ==
    /\ Len(g) < Len(answer)
    /\ SubSeq(answer, 1, Len(g)) = g
    /\ answer[Len(g) + 1] = m

LEMMA PartGrows ==
    ASSUME NEW S, NEW answer \in Seq(S), NEW n \in Nat, n < Len(answer)
    PROVE  /\ SubSeq(answer, 1, n) \in Seq(S) /\ Len(SubSeq(answer, 1, n)) = n
           /\ Continues(SubSeq(answer, 1, n), answer[n + 1], answer)
           /\ Append(SubSeq(answer, 1, n), answer[n + 1]) = SubSeq(answer, 1, n + 1)
<1>1. Len(answer) \in Nat /\ n + 1 \in 1..Len(answer) /\ n + 1 - 1 = n
  BY LenProperties
<1>2. PICK g : g = SubSeq(answer, 1, n)
  OBVIOUS
<1>3. g \in Seq(S) /\ Len(g) = n
  <2>1. \A i \in 1..n : answer[i] \in S
    BY <1>1, ElementOfSeq
  <2>2. Len(g) = IF 1 <= n THEN n - 1 + 1 ELSE 0
    BY <1>2, <2>1, SubSeqProperties
  <2>3. g \in Seq(S)
    BY <1>2, <2>1, SubSeqProperties
  <2> QED BY <2>2, <2>3
<1>4. answer[n + 1] \in S
  BY <1>1, ElementOfSeq
<1>5. PICK m \in 1..Len(answer) : m = n + 1 /\ m - 1 = n
  BY <1>1
<1>6. SubSeq(answer, 1, m) = SubSeq(answer, 1, m - 1) \o <<answer[m]>>
  <2>1. 1 \in 1..Len(answer)
    BY <1>1
  <2> QED BY <1>5, <2>1, SubSeqRecursiveSecond
<1>7. Append(g, answer[n + 1]) = g \o <<answer[n + 1]>>
  BY <1>3, <1>4, AppendIsConcat
<1>8. Append(g, answer[n + 1]) = SubSeq(answer, 1, n + 1)
  BY <1>2, <1>5, <1>6, <1>7
<1> QED BY <1>2, <1>3, <1>8 DEF Continues

\* An answer of one message.
LEMMA OneContinues ==
    ASSUME NEW m
    PROVE  Continues(<<>>, m, <<m>>) /\ Append(<<>>, m) = <<m>>
<1>1. Len(<<>>) = 0 /\ Len(<<m>>) = 1 /\ <<m>>[1] = m /\ SubSeq(<<m>>, 1, 0) = <<>>
  BY SubSeqEmpty
<1> QED BY <1>1 DEF Continues

\* A sequence of one.
LEMMA Single == \A S : \A m \in S : <<m>> \in Seq(S) /\ Len(<<m>>) = 1 /\ <<m>>[1] = m
OBVIOUS

LEMMA VideoIs ==
    /\ VideoAnswer \in Seq(Messages) /\ Blocks \in Nat /\ Len(VideoAnswer) = Blocks + 1
    /\ VideoAnswer[1] = <<"head", Blocks>>
    /\ \A k \in 0..(Blocks - 1) : VideoAnswer[k + 2] = <<"block", k>>
    /\ VideoAnswer \in AnswersTo("/video/a.mp4")
<1>1. Blocks \in Nat /\ <<"head", Blocks>> \in Messages
  BY ServerAssumption DEF ServerAssumption, Messages
<1>2. PICK a \in Seq(Messages) : a = << <<"head", Blocks>> >> /\ Len(a) = 1 /\ a[1] = <<"head", Blocks>>
  BY <1>1, Single
<1>3. Content \in Seq(Messages) /\ Len(Content) = Blocks
  <2>1. \A k \in 1..Blocks : <<"block", k - 1>> \in Messages
    BY <1>1 DEF Messages
  <2> QED BY <1>1, <2>1, IsASeq DEF Content
<1>4. PICK b \in Seq(Messages) : b = Content /\ Len(b) = Blocks /\ \A k \in 1..Blocks : b[k] = <<"block", k - 1>>
  BY <1>3 DEF Content
<1>5. /\ a \o b \in Seq(Messages) /\ Len(a \o b) = Len(a) + Len(b)
      /\ \A i \in 1..Len(a) + Len(b) : (a \o b)[i] = IF i <= Len(a) THEN a[i] ELSE b[i - Len(a)]
  BY ConcatProperties
<1>6. (a \o b)[1] = a[1]
  BY <1>1, <1>2, <1>4, <1>5
<1>7. ASSUME NEW k \in 0..(Blocks - 1) PROVE (a \o b)[k + 2] = <<"block", k>>
  <2>1. k + 1 \in 1..Blocks /\ k + 2 \in 1..(1 + Blocks) /\ ~(k + 2 <= 1) /\ k + 2 - 1 = k + 1 /\ k + 1 - 1 = k
    BY <1>1
  <2>2. (a \o b)[k + 2] = b[k + 1]
    BY <1>2, <1>4, <1>5, <2>1
  <2> QED BY <1>4, <2>1, <2>2
<1>8. VideoAnswer = a \o b
  BY <1>2, <1>4 DEF VideoAnswer
<1>9. Len(VideoAnswer) = Blocks + 1
  BY <1>1, <1>2, <1>4, <1>5, <1>8
<1>10. VideoAnswer \in AnswersTo("/video/a.mp4")
  BY DEF AnswersTo, VideoAnswer
<1> QED BY <1>1, <1>2, <1>5, <1>6, <1>7, <1>8, <1>9, <1>10

LEMMA LiveIs ==
    /\ LiveAnswer \in Seq(Messages) /\ MaxChunks \in Nat /\ Len(LiveAnswer) = MaxChunks + 1
    /\ LiveAnswer[1] = <<"hello", 0>>
    /\ \A k \in 2..(MaxChunks + 1) : LiveAnswer[k] = <<"chunk", 0>>
    /\ LiveAnswer \in AnswersTo("/live")
<1>1. MaxChunks \in Nat /\ <<"hello", 0>> \in Messages /\ <<"chunk", 0>> \in Messages
  BY ServerAssumption DEF ServerAssumption, Messages
<1>2. PICK a \in Seq(Messages) : a = << <<"hello", 0>> >> /\ Len(a) = 1 /\ a[1] = <<"hello", 0>>
  BY <1>1, Single
<1>3. Chunks(MaxChunks) \in Seq(Messages) /\ Len(Chunks(MaxChunks)) = MaxChunks
  BY <1>1, IsASeq DEF Chunks
<1>4. PICK b \in Seq(Messages) : /\ b = Chunks(MaxChunks) /\ Len(b) = MaxChunks
                                 /\ \A k \in 1..MaxChunks : b[k] = <<"chunk", 0>>
  BY <1>3 DEF Chunks
<1>5. /\ a \o b \in Seq(Messages) /\ Len(a \o b) = Len(a) + Len(b)
      /\ \A i \in 1..Len(a) + Len(b) : (a \o b)[i] = IF i <= Len(a) THEN a[i] ELSE b[i - Len(a)]
  BY ConcatProperties
<1>6. (a \o b)[1] = a[1]
  BY <1>1, <1>2, <1>4, <1>5
<1>7. ASSUME NEW k \in 2..(MaxChunks + 1) PROVE (a \o b)[k] = <<"chunk", 0>>
  <2>1. k - 1 \in 1..MaxChunks /\ k \in 1..(1 + MaxChunks) /\ ~(k <= 1)
    BY <1>1
  <2> QED BY <1>2, <1>4, <1>5, <2>1
<1>8. LiveAnswer = a \o b
  BY <1>2, <1>4 DEF LiveAnswer
<1>9. Len(LiveAnswer) = MaxChunks + 1
  BY <1>1, <1>2, <1>4, <1>5, <1>8
<1>10. LiveAnswer \in AnswersTo("/live")
  <2>1. MaxChunks \in 0..MaxChunks
    BY <1>1
  <2> QED BY <2>1 DEF AnswersTo, LiveAnswer
<1> QED BY <1>1, <1>2, <1>5, <1>6, <1>7, <1>8, <1>9, <1>10

----------------------------------------------------------------------------
\* What a thread can reach

\* Under its descriptors a thread finds what it opened, and its client's
\* connection is open and served by nobody else.
LEMMA OwnNames ==
    ASSUME OwnInv, NEW t \in Threads, pc[t] # "none"
    PROVE  /\ serves[t] \in Clients \cup {NoClient} /\ NoClient \notin Clients
           /\ \A c \in Clients : Names(client[t]) = Sock(c) <=> serves[t] = c
           /\ serves[t] = NoClient => Names(client[t]) = Free
           /\ \A u : Names(client[t]) # File(u) /\ (serves[t] # NoClient => Names(client[t]) \notin {Free, Dir(u)})
           /\ serves[t] # NoClient => state[serves[t]] = "open"
           /\ pc[t] \in FileLabels => Names(file[t]) = File(t)
           /\ pc[t] = "closedir" => Names(file[t]) = Dir(t)
<1>1. serves[t] \in Clients \cup {NoClient} /\ NoClient \notin Clients
  BY ServerAssumption DEF OwnInv, TypeOK, ServerAssumption
<1>2. IF serves[t] = NoClient THEN Names(client[t]) = Free ELSE Names(client[t]) = Sock(serves[t])
  BY DEF OwnInv, OwnDescriptors, Names
<1>3. serves[t] # NoClient => state[serves[t]] = "open"
  BY DEF OwnInv, Alone
<1>4. /\ pc[t] \in FileLabels => Names(file[t]) = File(t)
      /\ pc[t] = "closedir" => Names(file[t]) = Dir(t)
  BY DEF OwnInv, OwnDescriptors
<1> QED BY <1>1, <1>2, <1>3, <1>4, ResourcesDiffer

\* A message of a thread reaches its own client or nobody.
LEMMA Sends ==
    ASSUME OwnInv, ServiceInv, NEW t \in Threads, pc[t] # "none",
           NEW m \in Messages, Send(client[t], m)
    PROVE  /\ got' \in [Clients -> Seq(Messages)]
           /\ \A c \in Clients : c # serves[t] \/ peer[c] = "gone" => got'[c] = got[c]
           /\ \A c \in Clients : c = serves[t] /\ peer[c] # "gone" => got'[c] = Append(got[c], m)
<1>1. /\ \A c \in Clients : serves[t] = c => peer[c] # "stalled"
      /\ got' = [c \in Clients |-> IF serves[t] = c /\ peer[c] = "reading"
                                   THEN Append(got[c], m) ELSE got[c]]
  BY OwnNames DEF Send
<1>2. \A c \in Clients : peer[c] \in {"reading", "stalled", "gone"}
  BY DEF OwnInv, TypeOK
<1>3. \A c \in Clients : got[c] \in Seq(Messages) /\ Append(got[c], m) \in Seq(Messages)
  BY AppendProperties DEF ServiceInv
<1> QED BY <1>1, <1>2, <1>3

\* A step of a thread concerns its own client: what is to be shown of it is
\* that this client is still served.
LEMMA ThreadKeeps ==
    ASSUME OwnInv, ServiceInv, NEW t \in Threads, pc[t] # "none",
           \A u \in Threads : u # t => /\ pc'[u] = pc[u] /\ path'[u] = path[u]
                                       /\ pos'[u] = pos[u] /\ block'[u] = block[u],
           UNCHANGED <<serves, asked, eof, peer, DOMAIN block>>,
           got' \in [Clients -> Seq(Messages)],
           \A c \in Clients : c # serves[t] => got'[c] = got[c] /\ inbox'[c] = inbox[c],
           \A c \in Clients : state'[c] = state[c] \/ state'[c] = "closed",
           Routed(t)', Served(t)'
    PROVE  ServiceInv'
<1>1. ASSUME NEW c \in Clients, state'[c] \in {"idle", "queued"} PROVE Untold(c)'
  <2>1. state[c] = state'[c] /\ c # serves[t]
    BY <1>1, OwnNames
  <2> QED BY <1>1, <2>1 DEF ServiceInv, Untold
<1>2. ASSUME NEW u \in Threads, u # t PROVE Routed(u)' /\ Served(u)'
  <2>1. Routed(u) /\ Served(u)
    BY DEF ServiceInv
  <2>2. Routed(u)'
    BY <1>2, <2>1 DEF Routed
  <2>3. CASE pc[u] # "none" /\ serves[u] # NoClient
    <3>1. serves[u] \in Clients /\ serves[u] # serves[t]
      BY <1>2, <2>3, OwnNames DEF OwnInv, Alone
    <3>2. Given(u)' = Given(u)
      BY <1>2 DEF Given
    <3>3. Untold(serves[u]) => Untold(serves[u])'
      BY <3>1 DEF Untold
    <3> QED BY <1>2, <2>1, <2>2, <2>3, <3>1, <3>2, <3>3 DEF Served
  <2>4. CASE ~(pc[u] # "none" /\ serves[u] # NoClient)
    BY <1>2, <2>2, <2>4 DEF Served
  <2> QED BY <2>3, <2>4
<1> QED BY <1>1, <1>2 DEF ServiceInv

----------------------------------------------------------------------------
\* The steps of a thread, and what they are to the service

ServiceStep == [Service!Next]_(Service!servicevars)

\* What answers a path answers the client it was routed for.
LEMMA AnswersMine ==
    ASSUME TypeOK, ServiceInv, NEW t \in Threads, pc[t] \notin {"none", "read"}, serves[t] # NoClient
    PROVE  AnswersTo(path[t]) \subseteq Answers(asked[serves[t]])
<1>1. path[t] \in Paths
  BY DEF TypeOK
<1>2. asked[serves[t]] \in {path[t], NoAsk}
  BY DEF ServiceInv, Served
<1>3. NoAsk \notin Paths
  BY DEF NoAsk, Paths
<1> QED BY <1>1, <1>2, <1>3 DEF Answers

\* Nothing that the service knows of has changed.
LEMMA Stutters ==
    ASSUME UNCHANGED <<asked, got>>,
           \A c \in Clients : /\ (state[c] = "closed") = (state'[c] = "closed")
                              /\ (peer[c] = "gone") = (peer'[c] = "gone")
    PROVE  ServiceStep
BY DEF ServiceStep, Service!servicevars

\* A message that continues an answer to the path.
LEMMA GiveStep ==
    ASSUME OwnInv, ServiceInv, NEW t \in Threads, pc[t] \notin {"none", "read"},
           NEW m \in Messages, Send(client[t], m), UNCHANGED <<netvars, thrvars, pos>>,
           NEW answer \in AnswersTo(path[t]),
           \A u \in Threads : u # t => pc'[u] = pc[u],
           pc'[t] \notin {"none", "read"}, Routed(t)',
           \A g \in Given(t) : (serves[t] # NoClient /\ got[serves[t]] = g)
                                  => Continues(g, m, answer) /\ Append(g, m) \in Given(t)'
    PROVE  ServiceInv' /\ ServiceStep
<1>1. /\ got' \in [Clients -> Seq(Messages)] /\ got \in [Clients -> Seq(Messages)]
      /\ \A c \in Clients : c # serves[t] \/ peer[c] = "gone" => got'[c] = got[c]
      /\ \A c \in Clients : c = serves[t] /\ peer[c] # "gone" => got'[c] = Append(got[c], m)
  BY Sends DEF ServiceInv
<1>2. UNCHANGED <<serves, asked, eof, peer, inbox, state, path, block, pos>>
  BY DEF netvars, thrvars
<1>3. Served(t)
  BY DEF ServiceInv
<1>4. Served(t)'
  <2>1. SUFFICES ASSUME serves[t] # NoClient
                 PROVE  /\ asked[serves[t]] = path[t] \/ (asked[serves[t]] = NoAsk /\ eof[serves[t]])
                        /\ peer[serves[t]] # "gone" => got'[serves[t]] \in Given(t)'
    BY <1>2 DEF Served
  <2> PICK c \in Clients : c = serves[t]
    BY <2>1, OwnNames
  <2>2. asked[c] = path[t] \/ (asked[c] = NoAsk /\ eof[c])
    BY <1>3, <2>1 DEF Served
  <2>3. ASSUME peer[c] # "gone" PROVE got'[c] \in Given(t)'
    <3>1. got[c] \in Given(t)
      BY <1>3, <2>1, <2>3 DEF Served
    <3>2. Append(got[c], m) \in Given(t)'
      BY <2>1, <3>1
    <3> QED BY <1>1, <2>3, <3>2
  <2> QED BY <2>2, <2>3
<1>5. ServiceInv'
  BY <1>1, <1>2, <1>4, ThreadKeeps
<1>6. CASE serves[t] # NoClient /\ peer[serves[t]] # "gone"
  <2> PICK c \in Clients : c = serves[t]
    BY <1>6, OwnNames
  <2>1. answer \in Answers(asked[c])
    BY <1>6, AnswersMine DEF OwnInv
  <2>2. state[c] # "closed"
    BY <1>6, OwnNames
  <2>3. Continues(got[c], m, answer)
    <3>1. got[c] \in Given(t)
      BY <1>3, <1>6 DEF Served
    <3> QED BY <1>6, <3>1
  <2>4. got' = [got EXCEPT ![c] = Append(got[c], m)]
    BY <1>1, <1>6
  <2>5. Service!Give(c)
    BY <1>2, <1>6, <2>1, <2>2, <2>3, <2>4 DEF Service!Give, Continues
  <2> QED BY <1>5, <2>5 DEF ServiceStep, Service!Next
<1>7. CASE ~(serves[t] # NoClient /\ peer[serves[t]] # "gone")
  <2>1. got' = got
    BY <1>1, <1>7, OwnNames
  <2> QED BY <1>2, <1>5, <2>1, Stutters
<1> QED BY <1>5, <1>6, <1>7

\* A step of a thread that sends nothing and closes no connection.
LEMMA SilentStep ==
    ASSUME OwnInv, ServiceInv, NEW t \in Threads, pc[t] # "none",
           \A u \in Threads : u # t => /\ pc'[u] = pc[u] /\ path'[u] = path[u]
                                       /\ pos'[u] = pos[u] /\ block'[u] = block[u],
           UNCHANGED <<serves, asked, eof, peer, got, DOMAIN block>>,
           \A c \in Clients : c # serves[t] => inbox'[c] = inbox[c],
           \A c \in Clients : state'[c] = state[c],
           Routed(t)', Served(t)'
    PROVE  ServiceInv' /\ ServiceStep
<1>1. got' \in [Clients -> Seq(Messages)]
  BY DEF ServiceInv
<1>2. ServiceInv'
  BY <1>1, ThreadKeeps
<1> QED BY <1>2, Stutters

\* An answer of one message, and the heads of the two longer ones.
LEMMA FirstMessages ==
    ASSUME OwnInv, ServiceInv, NEW t \in Threads, Reply(t) \/ VideoHead(t) \/ Hello(t)
    PROVE  ServiceInv' /\ ServiceStep
<1>1. pc \in [Threads -> Labels] /\ Routed(t)
  BY DEF OwnInv, TypeOK, ServiceInv
<1>2. Given(t) = {<<>>}
  BY DEF Given, Reply, VideoHead, Hello
<1>3. CASE Reply(t)
  <2> PICK m : m = <<pc[t], 0>>
    OBVIOUS
  <2>1. /\ pc[t] \in {"home", "missing", "nofile", "list"} /\ Send(client[t], m)
        /\ pc' = [pc EXCEPT ![t] = "close"] /\ UNCHANGED <<netvars, thrvars, pos>>
    BY <1>3 DEF Reply, Goto
  <2>2. m \in Messages
    BY <2>1 DEF Messages
  <2>3. <<m>> \in AnswersTo(path[t])
    BY <1>1, <2>1 DEF Routed, AnswersTo
  <2>4. Continues(<<>>, m, <<m>>) /\ Append(<<>>, m) = <<m>>
    BY OneContinues
  <2>5. pc'[t] = "close" /\ path' = path /\ \A u \in Threads : u # t => pc'[u] = pc[u]
    BY <1>1, <2>1 DEF thrvars
  <2>6. Given(t)' = AnswersTo(path[t])
    BY <2>5 DEF Given
  <2>7. Routed(t)'
    BY <2>5 DEF Routed
  <2>8. \A g \in Given(t) : Continues(g, m, <<m>>) /\ Append(g, m) \in Given(t)'
    BY <1>2, <2>3, <2>4, <2>6
  <2> QED BY <2>1, <2>2, <2>3, <2>5, <2>7, <2>8, GiveStep
<1>4. CASE VideoHead(t)
  <2> PICK m : m = <<"head", Blocks>>
    OBVIOUS
  <2>1. /\ pc[t] = "head" /\ Send(client[t], m)
        /\ pc' = [pc EXCEPT ![t] = "block"] /\ UNCHANGED <<netvars, thrvars, pos>>
    BY <1>4 DEF VideoHead, Goto
  <2>2. /\ VideoAnswer \in Seq(Messages) /\ Len(VideoAnswer) = Blocks + 1 /\ Blocks \in Nat
        /\ VideoAnswer[1] = m
    BY VideoIs
  <2>3. /\ m \in Messages /\ 0 < Len(VideoAnswer)
        /\ Continues(SubSeq(VideoAnswer, 1, 0), m, VideoAnswer)
        /\ Append(SubSeq(VideoAnswer, 1, 0), m) = SubSeq(VideoAnswer, 1, 1)
    BY <2>2, PartGrows, ElementOfSeq
  <2>4. SubSeq(VideoAnswer, 1, 0) = <<>>
    BY SubSeqEmpty
  <2>5. path[t] = "/video/a.mp4" /\ pos[t] = 0
    BY <1>1, <2>1 DEF Routed
  <2>6. pc'[t] = "block" /\ path' = path /\ pos' = pos /\ \A u \in Threads : u # t => pc'[u] = pc[u]
    BY <1>1, <2>1 DEF thrvars
  <2>7. Given(t)' = {SubSeq(VideoAnswer, 1, 1)}
    <3>1. Given(t)' = {SubSeq(VideoAnswer, 1, pos'[t] + 1)}
      BY <2>6 DEF Given
    <3>2. pos'[t] + 1 = 1
      BY <2>5, <2>6
    <3> QED BY <3>1, <3>2
  <2>8. Routed(t)'
    BY <2>5, <2>6 DEF Routed
  <2>9. \A g \in Given(t) : Continues(g, m, VideoAnswer) /\ Append(g, m) \in Given(t)'
    BY <1>2, <2>3, <2>4, <2>7
  <2>10. VideoAnswer \in AnswersTo(path[t])
    BY <2>5, VideoIs
  <2> QED BY <2>1, <2>3, <2>6, <2>8, <2>9, <2>10, GiveStep
<1>5. CASE Hello(t)
  <2> PICK m : m = <<"hello", 0>>
    OBVIOUS
  <2>1. /\ pc[t] = "hello" /\ Send(client[t], m)
        /\ pc' = [pc EXCEPT ![t] = "watch"] /\ UNCHANGED <<netvars, thrvars, pos>>
    BY <1>5 DEF Hello, Goto
  <2>2. /\ LiveAnswer \in Seq(Messages) /\ Len(LiveAnswer) = MaxChunks + 1 /\ MaxChunks \in Nat
        /\ LiveAnswer[1] = m
    BY LiveIs
  <2>3. /\ m \in Messages /\ 0 < Len(LiveAnswer)
        /\ Continues(SubSeq(LiveAnswer, 1, 0), m, LiveAnswer)
        /\ Append(SubSeq(LiveAnswer, 1, 0), m) = SubSeq(LiveAnswer, 1, 1)
    BY <2>2, PartGrows, ElementOfSeq
  <2>4. SubSeq(LiveAnswer, 1, 0) = <<>>
    BY SubSeqEmpty
  <2>5. path[t] = "/live"
    BY <1>1, <2>1 DEF Routed
  <2>6. pc'[t] = "watch" /\ path' = path /\ \A u \in Threads : u # t => pc'[u] = pc[u]
    BY <1>1, <2>1 DEF thrvars
  <2>7. SubSeq(LiveAnswer, 1, 1) \in Given(t)'
    BY <2>2, <2>6 DEF Given
  <2>8. Routed(t)'
    BY <2>5, <2>6 DEF Routed
  <2>9. \A g \in Given(t) : Continues(g, m, LiveAnswer) /\ Append(g, m) \in Given(t)'
    BY <1>2, <2>3, <2>4, <2>7
  <2>10. LiveAnswer \in AnswersTo(path[t])
    BY <2>5, LiveIs
  <2> QED BY <2>1, <2>3, <2>6, <2>8, <2>9, <2>10, GiveStep
<1> QED BY <1>3, <1>4, <1>5

\* A block of the video or a chunk of the stream.
LEMMA FurtherMessages ==
    ASSUME OwnInv, ServiceInv, NEW t \in Threads, SendBlock(t) \/ WatchChunk(t)
    PROVE  ServiceInv' /\ ServiceStep
<1>1. pc \in [Threads -> Labels] /\ Routed(t) /\ pos[t] \in 0..Blocks
  BY DEF OwnInv, TypeOK, ServiceInv
<1>2. CASE SendBlock(t)
  <2> PICK m : m = block[t]
    OBVIOUS
  <2> PICK n : n = pos[t]
    OBVIOUS
  <2>1. /\ pc[t] = "send" /\ Send(client[t], m)
        /\ pc' = [pc EXCEPT ![t] = "block"] /\ UNCHANGED <<netvars, thrvars, pos>>
    BY <1>2 DEF SendBlock, Goto
  <2>2. /\ VideoAnswer \in Seq(Messages) /\ Len(VideoAnswer) = Blocks + 1 /\ Blocks \in Nat
        /\ \A k \in 0..(Blocks - 1) : VideoAnswer[k + 2] = <<"block", k>>
    BY VideoIs
  <2>3. path[t] = "/video/a.mp4" /\ n > 0 /\ m = <<"block", n - 1>>
    BY <1>1, <2>1 DEF Routed
  <2>4. n \in Nat /\ n < Len(VideoAnswer) /\ n - 1 \in 0..(Blocks - 1) /\ n - 1 + 2 = n + 1 /\ n + 1 \in 1..Len(VideoAnswer)
    BY <1>1, <2>2, <2>3
  <2>5. VideoAnswer[n + 1] = m
    BY <2>2, <2>3, <2>4
  <2>6. /\ m \in Messages
        /\ Continues(SubSeq(VideoAnswer, 1, n), m, VideoAnswer)
        /\ Append(SubSeq(VideoAnswer, 1, n), m) = SubSeq(VideoAnswer, 1, n + 1)
    BY <2>2, <2>4, <2>5, PartGrows, ElementOfSeq
  <2>7. pc'[t] = "block" /\ path' = path /\ pos' = pos /\ \A u \in Threads : u # t => pc'[u] = pc[u]
    BY <1>1, <2>1 DEF thrvars
  <2>8. Given(t) = {SubSeq(VideoAnswer, 1, n)} /\ Given(t)' = {SubSeq(VideoAnswer, 1, n + 1)}
    BY <2>1, <2>7 DEF Given
  <2>9. Routed(t)'
    BY <2>3, <2>7 DEF Routed
  <2>10. \A g \in Given(t) : Continues(g, m, VideoAnswer) /\ Append(g, m) \in Given(t)'
    BY <2>6, <2>8
  <2>11. VideoAnswer \in AnswersTo(path[t])
    BY <2>3, VideoIs
  <2> QED BY <2>1, <2>6, <2>7, <2>9, <2>10, <2>11, GiveStep
<1>3. CASE WatchChunk(t)
  <2> PICK m : m = <<"chunk", 0>>
    OBVIOUS
  <2>1. /\ pc[t] = "watch" /\ Send(client[t], m)
        /\ \A c \in Clients : Names(client[t]) = Sock(c) => Len(got[c]) <= MaxChunks
        /\ UNCHANGED <<netvars, thrvars, pos, pc>>
    BY <1>3 DEF WatchChunk
  <2>2. /\ LiveAnswer \in Seq(Messages) /\ Len(LiveAnswer) = MaxChunks + 1 /\ MaxChunks \in Nat
        /\ \A k \in 2..(MaxChunks + 1) : LiveAnswer[k] = m
    BY LiveIs
  <2>3. path[t] = "/live"
    BY <1>1, <2>1 DEF Routed
  <2>4. Given(t) = {SubSeq(LiveAnswer, 1, n) : n \in 1..(MaxChunks + 1)} /\ Given(t)' = Given(t)
    BY <2>1 DEF Given
  <2>5. Routed(t)' /\ pc' = pc
    BY <1>1, <2>1 DEF Routed, thrvars
  <2>6. m \in Messages
    BY DEF Messages
  <2>7. ASSUME NEW g \in Given(t), serves[t] # NoClient, got[serves[t]] = g
        PROVE  Continues(g, m, LiveAnswer) /\ Append(g, m) \in Given(t)'
    <3>1. PICK n \in 1..(MaxChunks + 1) : g = SubSeq(LiveAnswer, 1, n)
      BY <2>4
    <3>2. n <= MaxChunks
      <4>1. Len(g) <= MaxChunks
        BY <2>1, <2>7, OwnNames
      <4>2. SubSeq(LiveAnswer, 1, Len(LiveAnswer)) = LiveAnswer
        BY <2>2, SubSeqFull
      <4>3. n = Len(LiveAnswer) => Len(g) = n
        BY <3>1, <4>2
      <4> QED BY <2>2, <4>1, <4>3
    <3>3. n \in Nat /\ n < Len(LiveAnswer) /\ n + 1 \in 2..(MaxChunks + 1) /\ n + 1 \in 1..(MaxChunks + 1)
      BY <2>2, <3>2
    <3>4. LiveAnswer[n + 1] = m
      BY <2>2, <3>3
    <3>5. Continues(g, m, LiveAnswer) /\ Append(g, m) = SubSeq(LiveAnswer, 1, n + 1)
      BY <2>2, <3>1, <3>3, <3>4, PartGrows
    <3> QED BY <2>4, <3>3, <3>5
  <2>8. LiveAnswer \in AnswersTo(path[t])
    BY <2>3, LiveIs
  <2> QED BY <2>1, <2>5, <2>6, <2>7, <2>8, GiveStep
<1> QED BY <1>2, <1>3

\* The request is read, or there is nothing to read and there will never be.
LEMMA Routes ==
    ASSUME OwnInv, ServiceInv, NEW t \in Threads, ReadRequest(t) \/ ReadNothing(t) \/ ReadFile(t)
    PROVE  ServiceInv' /\ ServiceStep
<1>1. /\ pc \in [Threads -> Labels] /\ path \in [Threads -> Paths] /\ inbox \in [Clients -> Seq(Paths \cup {"piece"})]
      /\ path[t] # "/broadcast" /\ Asks \subseteq Paths
  BY ServerAssumption DEF OwnInv, TypeOK, NoUploads, ServerAssumption
<1>2. Served(t)
  BY DEF ServiceInv
<1>3. /\ pc[t] = "read" /\ ~ReadFile(t)
      /\ UNCHANGED <<serves, asked, eof, peer, got, state, pos, block>>
  <2>1. pc[t] = "read"
    BY DEF ReadRequest, ReadNothing, ReadFile
  <2>2. ~ReadFile(t)
    BY <2>1, OwnNames DEF ReadFile
  <2> QED BY <2>1, <2>2 DEF ReadRequest, ReadNothing, netvars, thrvars
<1>4. ASSUME NEW p \in Paths, pc' = [pc EXCEPT ![t] = Handler(p)], path' = [path EXCEPT ![t] = p],
             p # "/broadcast"
      PROVE  /\ pc'[t] \in {"home", "opendir", "open", "hello", "missing"} /\ path'[t] = p
             /\ Routed(t)' /\ Given(t)' = {<<>>}
             /\ \A u \in Threads : u # t => pc'[u] = pc[u] /\ path'[u] = path[u]
  <2>1. pc'[t] = Handler(p) /\ path'[t] = p
    BY <1>1, <1>3, <1>4
  <2>2. Handler(p) \in {"home", "opendir", "open", "hello", "missing"}
    BY <1>4 DEF Handler
  <2>3. /\ Handler(p) = "home" => p = "/"
        /\ Handler(p) = "opendir" => p = "/videos"
        /\ Handler(p) = "open" => p = "/video/a.mp4"
        /\ Handler(p) = "hello" => p = "/live"
        /\ Handler(p) = "missing" => p \notin {"/", "/videos", "/video/a.mp4", "/live", "/broadcast"}
    BY <1>4 DEF Handler
  <2>4. Routed(t)'
    BY <2>1, <2>2, <2>3 DEF Routed
  <2>5. Given(t)' = {<<>>}
    BY <2>1, <2>2 DEF Given
  <2> QED BY <1>1, <1>3, <1>4, <2>1, <2>2, <2>4, <2>5
<1>5. ASSUME NEW c \in Clients, c = serves[t]
      PROVE  Untold(c) /\ (inbox[c] # <<>> => asked[c] \in Asks /\ Head(inbox[c]) = asked[c])
  <2>1. Untold(c)
    BY <1>1, <1>3, <1>2, <1>5, OwnNames DEF Served
  <2>2. asked[c] \in Asks \cup {NoAsk}
    BY DEF OwnInv, TypeOK
  <2> QED BY <2>1, <2>2 DEF Untold
<1>6. CASE ReadRequest(t)
  <2>1. PICK c \in Clients :
          /\ Names(client[t]) = Sock(c) /\ inbox[c] # <<>> /\ inbox' = [inbox EXCEPT ![c] = Tail(@)]
          /\ LET p == IF Head(inbox[c]) \in Paths THEN Head(inbox[c]) ELSE "other"
             IN  path' = [path EXCEPT ![t] = p] /\ pc' = [pc EXCEPT ![t] = Handler(p)]
    BY <1>6 DEF ReadRequest, Goto
  <2>2. c = serves[t]
    BY <1>1, <1>3, <2>1, OwnNames
  <2> PICK p \in Paths : p = asked[c] /\ p = Head(inbox[c])
    BY <1>1, <1>3, <1>5, <2>1, <2>2
  <2>3. p # "/broadcast"
    BY <2>1 DEF OwnInv, NoUploads, Peaceful
  <2>4. pc' = [pc EXCEPT ![t] = Handler(p)] /\ path' = [path EXCEPT ![t] = p]
    BY <2>1
  <2>5. Served(t)'
    BY <1>1, <1>3, <1>4, <1>5, <2>2, <2>3, <2>4 DEF Served, Untold
  <2>6. \A d \in Clients : d # serves[t] => inbox'[d] = inbox[d]
    BY <1>1, <1>3, <2>1, <2>2
  <2> QED BY <1>1, <1>3, <1>4, <2>3, <2>4, <2>5, <2>6, SilentStep
<1>7. CASE ReadNothing(t)
  <2>1. /\ \/ \E c \in Clients : Names(client[t]) = Sock(c) /\ inbox[c] = <<>> /\ eof[c]
           \/ Names(client[t]) \in {Free} \cup {Dir(u) : u \in Threads}
        /\ pc' = [pc EXCEPT ![t] = Handler(path[t])] /\ UNCHANGED <<path, inbox>>
    BY <1>7 DEF ReadNothing, Goto, netvars, thrvars
  <2>2. path' = [path EXCEPT ![t] = path[t]] /\ path[t] \in Paths
    BY <1>1, <1>3, <2>1
  <2>3. serves[t] # NoClient => inbox[serves[t]] = <<>> /\ eof[serves[t]]
    BY <1>1, <1>3, <2>1, OwnNames
  <2>4. ASSUME serves[t] # NoClient PROVE asked[serves[t]] = NoAsk /\ got[serves[t]] = <<>>
    <3> PICK c \in Clients : c = serves[t]
      BY <1>1, <1>3, <2>4, OwnNames
    <3>1. Untold(c) /\ inbox[c] = <<>>
      BY <1>5, <2>3, <2>4
    <3>2. <<asked[c]>> # <<>>
      OBVIOUS
    <3> QED BY <3>1, <3>2 DEF Untold
  <2>5. Served(t)'
    BY <1>1, <1>3, <1>4, <2>1, <2>2, <2>3, <2>4, ZenonT(60) DEF Served
  <2> QED BY <1>1, <1>3, <1>4, <2>1, <2>2, <2>5, SilentStep
<1> QED BY <1>3, <1>6, <1>7

\* The steps of a thread within one answer.
LEMMA Prepares ==
    ASSUME OwnInv, ServiceInv, NEW t \in Threads,
           OpenDir(t) \/ OpenDirFails(t) \/ CloseDir(t) \/ Open(t) \/ ReadBlock(t) \/ ReadEnd(t) \/ CloseFile(t) \/ Killed(t)
    PROVE  ServiceInv' /\ ServiceStep
<1>1. /\ pc \in [Threads -> Labels] /\ pos \in [Threads -> 0..Blocks] /\ Blocks \in Nat
      /\ state \in [Clients -> {"idle", "queued", "open", "closed"}]
  BY ServerAssumption DEF OwnInv, TypeOK, ServerAssumption
<1>2. Routed(t) /\ Served(t)
  BY DEF ServiceInv
<1>3. ASSUME pc[t] \notin {"none", "read"}, pc'[t] \notin {"none", "read"}, UNCHANGED <<netvars, got, path, serves>>,
             \A u \in Threads : u # t => pc'[u] = pc[u] /\ pos'[u] = pos[u] /\ block'[u] = block[u],
             DOMAIN block' = DOMAIN block, Routed(t)', Given(t) \subseteq Given(t)'
      PROVE  ServiceInv' /\ ServiceStep
  <2>1. Served(t)'
    BY <1>2, <1>3 DEF Served, netvars
  <2> QED BY <1>3, <2>1, SilentStep DEF netvars
<1>4. CASE OpenDir(t)
  <2>1. pc[t] = "opendir" /\ pc' = [pc EXCEPT ![t] = "closedir"] /\ UNCHANGED <<netvars, got, path, serves, pos, block>>
    BY <1>4 DEF OpenDir, Goto
  <2>2. Routed(t)'
    BY <1>1, <1>2, <2>1 DEF Routed
  <2>3. Given(t) \subseteq Given(t)'
    BY <1>1, <2>1 DEF Given
  <2> QED BY <1>1, <1>3, <2>1, <2>2, <2>3
<1>5. CASE OpenDirFails(t) \/ Killed(t)
  <2>1. UNCHANGED <<netvars, got, pc, thrvars, pos>> /\ pc[t] \notin {"none", "read"}
    BY <1>5 DEF OpenDirFails, Killed
  <2>2. Routed(t)'
    BY <1>2, <2>1 DEF Routed, thrvars
  <2>3. Given(t) \subseteq Given(t)'
    BY <2>1 DEF Given, thrvars
  <2> QED BY <1>3, <2>1, <2>2, <2>3 DEF thrvars
<1>6. CASE Open(t)
  <2>1. /\ pc[t] = "open" /\ UNCHANGED <<netvars, got, path, serves, block>>
        /\ \/ pc' = [pc EXCEPT ![t] = "nofile"] /\ pos' = pos
           \/ pc' = [pc EXCEPT ![t] = "head"] /\ pos' = [pos EXCEPT ![t] = 0]
    BY <1>6 DEF Open, Goto
  <2>2. Routed(t)'
    BY <1>1, <1>2, <2>1 DEF Routed
  <2>3. Given(t) \subseteq Given(t)'
    BY <1>1, <2>1 DEF Given
  <2> QED BY <1>1, <1>3, <2>1, <2>2, <2>3
<1>7. CASE ReadBlock(t)
  <2>1. pc[t] = "block" /\ pc' = [pc EXCEPT ![t] = "send"] /\ UNCHANGED <<queue, state, asked, uploaded, eof, peer, got, path, serves>>
    BY <1>7 DEF ReadBlock, Goto
  <2>2. Names(file[t]) = File(t)
    BY <2>1, OwnNames DEF FileLabels
  <2>3. /\ UNCHANGED inbox /\ pos[t] < Blocks
        /\ pos' = [pos EXCEPT ![t] = @ + 1] /\ block' = [block EXCEPT ![t] = <<"block", pos[t]>>]
    BY <1>7, <2>2, ResourcesDiffer DEF ReadBlock
  <2>4. pos'[t] = pos[t] + 1 /\ pos'[t] > 0 /\ pos'[t] - 1 = pos[t]
    BY <1>1, <2>3
  <2>5. block'[t] = <<"block", pos[t]>> /\ DOMAIN block' = DOMAIN block
    BY <2>3 DEF ServiceInv
  <2>6. Routed(t)'
    BY <1>1, <1>2, <2>1, <2>4, <2>5 DEF Routed
  <2>7. Given(t) \subseteq Given(t)'
    BY <1>1, <2>1, <2>4 DEF Given
  <2> QED BY <1>1, <1>3, <2>1, <2>3, <2>5, <2>6, <2>7 DEF netvars
<1>8. CASE ReadEnd(t)
  <2>1. pc[t] = "block" /\ pc' = [pc EXCEPT ![t] = "closefile"] /\ UNCHANGED <<netvars, got, thrvars, pos>>
    BY <1>8 DEF ReadEnd, Goto
  <2>2. Names(file[t]) = File(t)
    BY <2>1, OwnNames DEF FileLabels
  <2>3. pos[t] = Blocks
    BY <1>1, <1>8, <2>2, ResourcesDiffer DEF ReadEnd
  <2>4. Routed(t)'
    BY <1>1, <1>2, <2>1 DEF Routed, thrvars
  <2>5. SubSeq(VideoAnswer, 1, Blocks + 1) = VideoAnswer
    BY VideoIs, SubSeqFull
  <2>6. Given(t) \subseteq Given(t)'
    BY <1>1, <2>1, <2>3, <2>5 DEF Given
  <2> QED BY <1>1, <1>3, <2>1, <2>4, <2>6 DEF thrvars
<1>9. CASE CloseDir(t) \/ CloseFile(t)
  <2>1. /\ \/ pc[t] = "closedir" /\ pc' = [pc EXCEPT ![t] = "list"]
           \/ pc[t] = "closefile" /\ pc' = [pc EXCEPT ![t] = "close"]
        /\ CloseFd(file[t])
        /\ UNCHANGED <<queue, asked, uploaded, inbox, eof, peer, got, thrvars, pos>>
    BY <1>9 DEF CloseDir, CloseFile, Goto
  <2>2. \A c \in Clients : Names(file[t]) # Sock(c)
    BY <2>1, OwnNames, ResourcesDiffer DEF FileLabels
  <2>3. UNCHANGED state
    BY <1>1, <2>1, <2>2 DEF CloseFd
  <2>4. Routed(t)'
    BY <1>1, <1>2, <2>1 DEF Routed, thrvars
  <2>5. pc[t] = "closefile" => path'[t] = "/video/a.mp4"
    BY <1>2, <2>1 DEF Routed, thrvars
  <2>6. Given(t) \subseteq Given(t)'
    BY <1>1, <2>1, <2>5, VideoIs DEF Given
  <2> QED BY <1>1, <1>3, <2>1, <2>3, <2>4, <2>6 DEF netvars, thrvars
<1> QED BY <1>4, <1>5, <1>6, <1>7, <1>8, <1>9

\* The connection is closed, and its client has the whole answer or has left.
LEMMA Closes ==
    ASSUME OwnInv, ServiceInv, NEW t \in Threads, Close(t)
    PROVE  ServiceInv' /\ ServiceStep
<1>1. /\ pc[t] = "close" /\ pc' = [pc EXCEPT ![t] = "none"] /\ CloseFd(client[t])
      /\ UNCHANGED <<queue, asked, uploaded, inbox, eof, peer, got, thrvars, pos>>
      /\ pc \in [Threads -> Labels] /\ state \in [Clients -> {"idle", "queued", "open", "closed"}]
  BY DEF Close, Goto, OwnInv, TypeOK
<1>2. pc'[t] = "none" /\ \A u \in Threads : u # t => pc'[u] = pc[u]
  BY <1>1
<1>3. state' = [c \in Clients |-> IF serves[t] = c THEN "closed" ELSE state[c]]
  BY <1>1, OwnNames DEF CloseFd
<1>4. Routed(t)' /\ Served(t)'
  BY <1>2 DEF Routed, Served
<1>5. ServiceInv'
  <2>1. got' \in [Clients -> Seq(Messages)] /\ \A c \in Clients : state'[c] = state[c] \/ state'[c] = "closed"
    BY <1>1, <1>3 DEF ServiceInv
  <2> QED BY <1>1, <1>2, <1>4, <2>1, ThreadKeeps DEF thrvars
<1>6. CASE serves[t] = NoClient
  <2>1. UNCHANGED state
    BY <1>1, <1>3, <1>6, OwnNames
  <2> QED BY <1>1, <1>5, <2>1, Stutters
<1>7. CASE serves[t] # NoClient
  <2> PICK c \in Clients : c = serves[t]
    BY <1>1, <1>7, OwnNames
  <2>1. state[c] # "closed"
    BY <1>1, <1>7, OwnNames
  <2>2. peer[c] = "gone" \/ got[c] \in Answers(asked[c])
    <3>1. Given(t) = AnswersTo(path[t])
      BY <1>1 DEF Given
    <3>2. peer[c] # "gone" => got[c] \in Given(t)
      BY <1>1, <1>7 DEF ServiceInv, Served
    <3>3. AnswersTo(path[t]) \subseteq Answers(asked[c])
      BY <1>1, <1>7, AnswersMine DEF OwnInv
    <3> QED BY <3>1, <3>2, <3>3
  <2>3. [d \in Clients |-> state'[d] = "closed"] = [[d \in Clients |-> state[d] = "closed"] EXCEPT ![c] = TRUE]
    BY <1>3
  <2>4. Service!Close(c)
    BY <1>1, <2>1, <2>2, <2>3 DEF Service!Close
  <2> QED BY <1>5, <2>4 DEF ServiceStep, Service!Next
<1> QED BY <1>6, <1>7

\* A new thread, for a client that has been told nothing or for nobody.
LEMMA Accepts ==
    ASSUME OwnInv, ServiceInv, NEW t \in Threads, Accept(t) \/ AcceptFails(t)
    PROVE  ServiceInv' /\ ServiceStep
<1>1. /\ pc[t] = "none" /\ pc' = [pc EXCEPT ![t] = "read"]
      /\ UNCHANGED <<path, block, pos, asked, inbox, eof, peer, got>>
      /\ pc \in [Threads -> Labels] /\ serves \in [Threads -> Clients \cup {NoClient}]
      /\ state \in [Clients -> {"idle", "queued", "open", "closed"}] /\ NoClient \notin Clients
  BY ServerAssumption DEF Accept, AcceptFails, Spawn, Goto, netvars, OwnInv, TypeOK, ServerAssumption
<1>2. PICK c \in Clients \cup {NoClient} :
        /\ serves' = [serves EXCEPT ![t] = c]
        /\ c # NoClient => state[c] = "queued" /\ state' = [state EXCEPT ![c] = "open"]
        /\ c = NoClient => state' = state
  <2>1. CASE Accept(t)
    <3>1. queue \in Seq(Clients) /\ queue # <<>>
      BY <2>1 DEF Accept, OwnInv, TypeOK
    <3>2. Head(queue) = queue[1] /\ 1 \in DOMAIN queue /\ Head(queue) \in Clients
      BY <3>1
    <3>3. state[Head(queue)] = "queued"
      BY <3>2 DEF OwnInv, Alone
    <3> QED BY <1>1, <2>1, <3>2, <3>3 DEF Accept, Spawn
  <2>2. CASE AcceptFails(t)
    BY <2>2 DEF AcceptFails, Spawn, netvars
  <2> QED BY <2>1, <2>2
<1>3. \A d \in Clients : Untold(d) => Untold(d)'
  BY <1>1 DEF Untold
<1>4. \A d \in Clients : /\ state'[d] \in {"idle", "queued"} => state[d] = state'[d]
                         /\ (state[d] = "closed") = (state'[d] = "closed")
  BY <1>1, <1>2
<1>5. ASSUME NEW u \in Threads PROVE Routed(u)' /\ Served(u)'
  <2>1. CASE u = t
    <3>1. pc'[t] = "read" /\ serves'[t] = c
      BY <1>1, <1>2
    <3>2. Routed(t)'
      BY <3>1 DEF Routed
    <3>3. c # NoClient => Untold(c)' /\ got'[c] = <<>>
      BY <1>1, <1>2, <1>3 DEF ServiceInv, Untold
    <3>4. Given(t)' = {<<>>}
      BY <3>1 DEF Given
    <3>5. Served(t)'
      BY <3>1, <3>3, <3>4 DEF Served
    <3> QED BY <2>1, <3>2, <3>5
  <2>2. CASE u # t
    <3>1. /\ pc'[u] = pc[u] /\ serves'[u] = serves[u] /\ path'[u] = path[u] /\ pos'[u] = pos[u]
          /\ block'[u] = block[u] /\ serves[u] \in Clients \cup {NoClient}
      BY <1>1, <1>2, <2>2
    <3>2. Routed(u) /\ Served(u)
      BY DEF ServiceInv
    <3>3. Routed(u)'
      BY <3>1, <3>2 DEF Routed
    <3>4. Given(u)' = Given(u)
      BY <3>1 DEF Given
    <3>5. Served(u)'
      BY <1>1, <1>3, <3>1, <3>2, <3>4 DEF Served
    <3> QED BY <3>3, <3>5
  <2> QED BY <2>1, <2>2
<1>6. ServiceInv'
  BY <1>1, <1>3, <1>4, <1>5 DEF ServiceInv
<1> QED BY <1>1, <1>4, <1>6, Stutters

\* What clients do: only a client that could not be told yet asks.
LEMMA ClientServed ==
    ASSUME OwnInv, ServiceInv, NEW c \in Clients, ClientStep(c), ~Upload(c)
    PROVE  ServiceInv' /\ ServiceStep
<1>1. UNCHANGED <<got, pc, serves, path, block, pos>>
  BY DEF ClientStep, Connect, Ask, EndUpload, Stall, Resume, Leave, srvvars, thrvars
<1>2. /\ state \in [Clients -> {"idle", "queued", "open", "closed"}]
      /\ asked \in [Clients -> Asks \cup {NoAsk}] /\ path \in [Threads -> Paths]
      /\ inbox \in [Clients -> Seq(Paths \cup {"piece"})] /\ eof \in [Clients -> BOOLEAN]
      /\ peer \in [Clients -> {"reading", "stalled", "gone"}] /\ NoAsk \notin Paths
      /\ serves \in [Threads -> Clients \cup {NoClient}] /\ Asks \subseteq Paths
  BY ServerAssumption DEF OwnInv, TypeOK, NoAsk, Paths, ServerAssumption
<1>3. \A d \in Clients : Untold(d) => Untold(d)'
  <2>1. CASE Ask(c)
    <3>1. PICK a \in Asks : /\ asked[c] = NoAsk /\ asked' = [asked EXCEPT ![c] = a]
                            /\ inbox' = [inbox EXCEPT ![c] = Append(@, a)]
      BY <2>1 DEF Ask
    <3>2. Append(<<>>, a) = <<a>> /\ a # NoAsk
      BY <1>2, OneContinues
    <3> QED BY <1>1, <1>2, <3>1, <3>2 DEF Untold
  <2>2. CASE ~Ask(c)
    <3>1. UNCHANGED <<asked, inbox>>
      BY <2>2 DEF ClientStep, Connect, EndUpload, Stall, Resume, Leave
    <3> QED BY <1>1, <3>1 DEF Untold
  <2> QED BY <2>1, <2>2
<1>4. \A d \in Clients : /\ eof[d] => eof'[d]
                         /\ peer'[d] # "gone" => peer[d] # "gone"
                         /\ asked[d] # NoAsk => asked'[d] = asked[d]
                         /\ asked[d] = NoAsk /\ eof[d] => asked'[d] = NoAsk
                         /\ state'[d] \in {"idle", "queued"} => state[d] \in {"idle", "queued"}
                         /\ (state[d] = "closed") = (state'[d] = "closed")
  BY <1>2 DEF ClientStep, Connect, Ask, EndUpload, Stall, Resume, Leave
<1>5. ASSUME NEW u \in Threads PROVE Routed(u)' /\ Served(u)'
  <2>1. Routed(u) /\ Served(u)
    BY DEF ServiceInv
  <2>2. Routed(u)'
    BY <1>1, <2>1 DEF Routed
  <2>3. Given(u)' = Given(u)
    BY <1>1 DEF Given
  <2>4. Served(u)'
    BY <1>1, <1>2, <1>3, <1>4, <2>1, <2>3 DEF Served
  <2> QED BY <2>2, <2>4
<1>6. ServiceInv'
  BY <1>1, <1>3, <1>4, <1>5 DEF ServiceInv
<1>7. CASE Ask(c)
  <2>1. Service!Ask(c)
    BY <1>7 DEF Ask, Service!Ask, srvvars
  <2> QED BY <1>6, <2>1 DEF ServiceStep, Service!Next
<1>8. CASE Leave(c)
  <2>1. [d \in Clients |-> peer'[d] = "gone"] = [[d \in Clients |-> peer[d] = "gone"] EXCEPT ![c] = TRUE]
    BY <1>2, <1>8 DEF Leave
  <2>2. Service!Leave(c)
    BY <1>1, <1>8, <2>1 DEF Leave, Service!Leave
  <2> QED BY <1>6, <2>2 DEF ServiceStep, Service!Next
<1>9. CASE Connect(c) \/ EndUpload(c) \/ Stall(c) \/ Resume(c)
  <2>1. UNCHANGED <<asked, got>> /\ \A d \in Clients : (peer[d] = "gone") = (peer'[d] = "gone")
    BY <1>1, <1>2, <1>9 DEF Connect, EndUpload, Stall, Resume
  <2> QED BY <1>4, <1>6, <2>1, Stutters
<1> QED BY <1>7, <1>8, <1>9 DEF ClientStep

LEMMA InitServed == Init => ServiceInv
<1> SUFFICES ASSUME Init PROVE ServiceInv
  OBVIOUS
<1>1. got \in [Clients -> Seq(Messages)] /\ DOMAIN block = Threads
  BY DEF Init
<1>2. \A c \in Clients : Untold(c)
  BY DEF Init, Untold
<1>3. \A t \in Threads : pc[t] = "none"
  BY DEF Init
<1>4. \A t \in Threads : Routed(t) /\ Served(t)
  BY <1>3 DEF Routed, Served
<1> QED BY <1>1, <1>2, <1>4 DEF ServiceInv

\* While nobody uploads, every client of a process with any number of clients,
\* stacks and descriptors is served as if it were alone: it gets nothing but
\* an answer to its own request, in order, and its connection is closed when
\* it has the whole of it, or has left.
THEOREM ServesEachAlone ==
    ASSUME "/broadcast" \notin Asks
    PROVE  Spec => ImplementsService
<1>1. Init => Service!Init
  <2> SUFFICES ASSUME Init PROVE Service!Init
    OBVIOUS
  <2>1. /\ [c \in Clients |-> state[c] = "closed"] = [c \in Clients |-> FALSE]
        /\ [c \in Clients |-> peer[c] = "gone"] = [c \in Clients |-> FALSE]
    BY DEF Init
  <2> QED BY <2>1 DEF Init, Service!Init
<1>2. ASSUME OwnInv, ServiceInv, [Next]_vars PROVE ServiceInv' /\ ServiceStep
  <2>1. CASE UNCHANGED vars
    <3>1. UNCHANGED <<asked, got, state, peer, inbox, eof, serves, path, block, pc, pos>>
      BY <2>1 DEF vars, netvars, thrvars
    <3>2. /\ \A c \in Clients : Untold(c)' = Untold(c)
          /\ \A t \in Threads : Routed(t)' = Routed(t) /\ Given(t)' = Given(t)
      BY <3>1 DEF Untold, Routed, Given
    <3>3. ASSUME NEW t \in Threads PROVE Served(t)'
      <4>1. Served(t) /\ serves[t] \in Clients \cup {NoClient}
        BY <1>2 DEF ServiceInv, OwnInv, TypeOK
      <4> QED BY <3>1, <3>2, <4>1 DEF Served
    <3>4. ServiceInv'
      BY <1>2, <3>1, <3>2, <3>3 DEF ServiceInv
    <3> QED BY <3>1, <3>4, Stutters
  <2>2. ASSUME NEW t \in Threads, Accept(t) \/ AcceptFails(t) \/ ThreadStep(t) \/ Killed(t)
        PROVE  ServiceInv' /\ ServiceStep
    <3>1. ~(RecvPiece(t) \/ RecvEnd(t) \/ CloseLive(t))
      BY <1>2 DEF OwnInv, NoUploads, RecvPiece, RecvEnd, CloseLive
    <3> QED BY <1>2, <2>2, <3>1, FirstMessages, FurtherMessages, Routes, Prepares, Closes, Accepts DEF ThreadStep
  <2>3. ASSUME NEW c \in Clients, ClientStep(c) PROVE ServiceInv' /\ ServiceStep
    <3>1. ~Upload(c)
      BY <1>2 DEF Upload, OwnInv, TypeOK, NoAsk
    <3> QED BY <1>2, <2>3, <3>1, ClientServed
  <2> QED BY <1>2, <2>1, <2>2, <2>3 DEF Next, ClientStep
<1> QED BY <1>1, <1>2, InitServed, OwnAlways, PTL DEF Spec, ImplementsService, Service!Spec, ServiceStep

=============================================================================
