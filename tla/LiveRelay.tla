----------------------------- MODULE LiveRelay -----------------------------
(***************************************************************************)
(* The live stream of backend/main.c: broadcaster threads append what they *)
(* receive to live_buffer, viewer threads send what is in live_buffer and  *)
(* empty it, and live_lock is held around both critical sections.          *)
(*                                                                         *)
(* A byte is named by its origin: <<b, i>> is the i-th byte broadcaster b  *)
(* uploaded.  Every step below is what one thread does between two points  *)
(* where another thread can run; every send of send_all is a step.         *)
(***************************************************************************)
EXTENDS Integers, Sequences, FiniteSets

CONSTANTS
    Broadcasters,  \* connections served by handle_broadcast, one thread each
    Viewers,       \* connections served by handle_live_view, one thread each
    LIVE_BUF,      \* size of live_buffer
    BUFFER,        \* size of the buffer one recv fills
    MaxBytes,      \* bound of the model: bytes one broadcaster uploads
    Stalling,      \* viewers whose peer may stop reading
    Leaving,       \* viewers whose peer may disconnect
    NoThread,      \* live_lock is free
    NoByte         \* a byte of live_buffer nothing was copied to

ASSUME LiveAssumption ==
    /\ LIVE_BUF \in Nat \ {0}
    /\ BUFFER \in Nat \ {0}
    /\ MaxBytes \in Nat
    /\ Stalling \subseteq Viewers
    /\ Leaving \subseteq Viewers
    /\ Broadcasters \cap Viewers = {}
    /\ NoThread \notin Broadcasters \cup Viewers

ASSUME NoByteAssumption == NoByte \notin Broadcasters \X Nat

VARIABLES
    alive,        \* the server process runs (SIGPIPE ends it)
    lock,         \* the thread that holds live_lock, or NoThread
    live_buffer,
    live_size,
    bpc,          \* where each broadcaster thread is
    buf,          \* its local buf: the piece the last recv returned
    fed,          \* bytes recv has returned so far
    vpc,          \* where each viewer thread is
    len,          \* the len argument of the send_all of the buffer
    sent,         \* the local variable sent of that send_all
    peer,         \* whether the viewer's peer reads, has stalled or has gone
    out           \* the chunks the peer got

bvars == <<bpc, buf, fed>>
vvars == <<vpc, len, sent, out>>
vars  == <<alive, lock, live_buffer, live_size, bvars, vvars, peer>>

Threads == Broadcasters \cup Viewers
Bytes   == Broadcasters \X (1..MaxBytes)
Piece(b, first, n) == [i \in 1..n |-> <<b, first + i>>]
Slice(first, n) == [i \in 1..n |-> live_buffer[first + i - 1]]
Content == Slice(0, live_size)

\* What a peer makes of the bytes it gets: chunks, the last one still open.
NewChunk(n) == [size |-> n, body |-> <<>>, whole |-> FALSE]
AddToLast(chunks, bytes) == [chunks EXCEPT ![Len(chunks)].body = @ \o bytes]
CloseLast(chunks) == [chunks EXCEPT ![Len(chunks)].whole = TRUE]

Init ==
    /\ alive = TRUE
    /\ lock = NoThread
    /\ live_buffer = [i \in 0..LIVE_BUF - 1 |-> NoByte]
    /\ live_size = 0
    /\ bpc  = [b \in Broadcasters |-> "recv"]
    /\ buf  = [b \in Broadcasters |-> <<>>]
    /\ fed  = [b \in Broadcasters |-> 0]
    /\ vpc  = [v \in Viewers |-> "hello"]
    /\ len  = [v \in Viewers |-> 0]
    /\ sent = [v \in Viewers |-> 0]
    /\ peer = [v \in Viewers |-> "reading"]
    /\ out  = [v \in Viewers |-> <<>>]

----------------------------------------------------------------------------
\* handle_broadcast

BGoto(b, label) == bpc' = [bpc EXCEPT ![b] = label]

\* recv returns n > 0 bytes.
Recv(b) ==
    /\ bpc[b] = "recv"
    /\ \E n \in 1..BUFFER :
        /\ fed[b] + n <= MaxBytes
        /\ buf' = [buf EXCEPT ![b] = Piece(b, fed[b], n)]
        /\ fed' = [fed EXCEPT ![b] = @ + n]
    /\ BGoto(b, "lock")
    /\ UNCHANGED <<alive, lock, live_buffer, live_size, vvars, peer>>

\* recv returns 0 or an error: the loop ends and the thread with it.
RecvEnd(b) ==
    /\ bpc[b] = "recv"
    /\ BGoto(b, "done")
    /\ UNCHANGED <<alive, lock, live_buffer, live_size, buf, fed, vvars, peer>>

\* Mutant: the broadcaster does not take live_lock.
LockB_NoMutex(b) ==
    /\ bpc[b] = "lock"
    /\ BGoto(b, "check")
    /\ UNCHANGED <<alive, lock, live_buffer, live_size, buf, fed, vvars, peer>>

LockB(b) ==
    /\ bpc[b] = "lock"
    /\ lock = NoThread
    /\ lock' = b
    /\ BGoto(b, "check")
    /\ UNCHANGED <<alive, live_buffer, live_size, buf, fed, vvars, peer>>

\* Mutant: <= for <.
Check_OffByOne(b) ==
    /\ bpc[b] = "check"
    /\ BGoto(b, IF live_size + Len(buf[b]) <= LIVE_BUF THEN "copy" ELSE "unlock")
    /\ UNCHANGED <<alive, lock, live_buffer, live_size, buf, fed, vvars, peer>>

\* A piece that does not fit is dropped: nothing but the unlock follows.
Check(b) ==
    /\ bpc[b] = "check"
    /\ BGoto(b, IF live_size + Len(buf[b]) < LIVE_BUF THEN "copy" ELSE "unlock")
    /\ UNCHANGED <<alive, lock, live_buffer, live_size, buf, fed, vvars, peer>>

Copy(b) ==
    /\ bpc[b] = "copy"
    /\ live_buffer' = [i \in DOMAIN live_buffer |->
                         IF i - live_size \in 0..Len(buf[b]) - 1
                         THEN buf[b][i - live_size + 1]
                         ELSE live_buffer[i]]
    /\ BGoto(b, "grow")
    /\ UNCHANGED <<alive, lock, live_size, buf, fed, vvars, peer>>

\* Mutant: = for +=.
Grow_Overwrites(b) ==
    /\ bpc[b] = "grow"
    /\ live_size' = Len(buf[b])
    /\ BGoto(b, "unlock")
    /\ UNCHANGED <<alive, lock, live_buffer, buf, fed, vvars, peer>>

Grow(b) ==
    /\ bpc[b] = "grow"
    /\ live_size' = live_size + Len(buf[b])
    /\ BGoto(b, "unlock")
    /\ UNCHANGED <<alive, lock, live_buffer, buf, fed, vvars, peer>>

\* buf is dead from here to the next recv.
UnlockB(b) ==
    /\ bpc[b] = "unlock"
    /\ lock' = NoThread
    /\ buf' = [buf EXCEPT ![b] = <<>>]
    /\ BGoto(b, "recv")
    /\ UNCHANGED <<alive, live_buffer, live_size, fed, vvars, peer>>

BroadcasterStep(b) == LockB(b) \/ Check(b) \/ Copy(b) \/ Grow(b) \/ UnlockB(b)

----------------------------------------------------------------------------
\* handle_live_view and the send_all calls it makes

VGoto(v, label) == vpc' = [vpc EXCEPT ![v] = label]

\* A send blocks while the peer does not read.  Once the peer has gone it
\* delivers nothing, and the return of send_all is the same to the caller
\* whether the kernel swallowed the bytes or reported an error.
Writable(v) == peer[v] # "stalled"
Delivers(v) == peer[v] = "reading"

\* The response header; no chunk precedes it.
Hello(v) ==
    /\ vpc[v] = "hello"
    /\ Writable(v)
    /\ VGoto(v, "lock")
    /\ UNCHANGED <<alive, lock, live_buffer, live_size, bvars, len, sent, peer, out>>

LockV(v) ==
    /\ vpc[v] = "lock"
    /\ lock = NoThread
    /\ lock' = v
    /\ VGoto(v, "test")
    /\ UNCHANGED <<alive, live_buffer, live_size, bvars, len, sent, peer, out>>

\* Mutant: the viewer lets go of live_lock before it sends.
Test_UnlocksEarly(v) ==
    /\ vpc[v] = "test"
    /\ lock' = NoThread
    /\ VGoto(v, IF live_size > 0 THEN "head" ELSE "lock")
    /\ UNCHANGED <<alive, live_buffer, live_size, bvars, len, sent, peer, out>>

\* Mutant: an empty buffer sends the viewer back to sleep without an unlock.
Test_KeepsLock(v) ==
    /\ vpc[v] = "test"
    /\ VGoto(v, IF live_size > 0 THEN "head" ELSE "lock")
    /\ UNCHANGED <<alive, lock, live_buffer, live_size, bvars, len, sent, peer, out>>

\* Mutant: a single byte is not worth a chunk.
Test_OffByOne(v) ==
    /\ vpc[v] = "test"
    /\ VGoto(v, IF live_size > 1 THEN "head" ELSE "unlock")
    /\ UNCHANGED <<alive, lock, live_buffer, live_size, bvars, len, sent, peer, out>>

Test(v) ==
    /\ vpc[v] = "test"
    /\ VGoto(v, IF live_size > 0 THEN "head" ELSE "unlock")
    /\ UNCHANGED <<alive, lock, live_buffer, live_size, bvars, len, sent, peer, out>>

\* The chunk header announces the live_size of this moment ...
ChunkHeader(v) ==
    /\ vpc[v] = "head"
    /\ Writable(v)
    /\ out' = [out EXCEPT ![v] = IF Delivers(v) THEN Append(@, NewChunk(live_size)) ELSE @]
    /\ VGoto(v, "call")
    /\ UNCHANGED <<alive, lock, live_buffer, live_size, bvars, len, sent, peer>>

\* ... and send_all is called with the live_size of this one.
Call(v) ==
    /\ vpc[v] = "call"
    /\ len'  = [len EXCEPT ![v] = live_size]
    /\ sent' = [sent EXCEPT ![v] = 0]
    /\ VGoto(v, IF live_size > 0 THEN "body" ELSE "tail")
    /\ UNCHANGED <<alive, lock, live_buffer, live_size, bvars, peer, out>>

\* One send of the loop: the kernel takes k bytes and the peer gets them.
ChunkBody(v) ==
    /\ vpc[v] = "body"
    /\ Delivers(v)
    /\ \E k \in 1..len[v] - sent[v] :
        /\ sent' = [sent EXCEPT ![v] = @ + k]
        /\ out' = [out EXCEPT ![v] = AddToLast(@, Slice(sent[v], k))]
        /\ VGoto(v, IF sent[v] + k = len[v] THEN "tail" ELSE "body")
    /\ UNCHANGED <<alive, lock, live_buffer, live_size, bvars, len, peer>>

\* The peer has gone: send_all returns without delivering the rest.
ChunkBodyFails(v) ==
    /\ vpc[v] = "body"
    /\ peer[v] = "gone"
    /\ VGoto(v, "tail")
    /\ UNCHANGED <<alive, lock, live_buffer, live_size, bvars, len, sent, peer, out>>

ChunkTrailer(v) ==
    /\ vpc[v] = "tail"
    /\ Writable(v)
    /\ out' = [out EXCEPT ![v] = IF Delivers(v) THEN CloseLast(@) ELSE @]
    /\ VGoto(v, "reset")
    /\ UNCHANGED <<alive, lock, live_buffer, live_size, bvars, len, sent, peer>>

\* Mutant: live_size = 0 is forgotten.
Reset_Forgotten(v) ==
    /\ vpc[v] = "reset"
    /\ VGoto(v, "unlock")
    /\ UNCHANGED <<alive, lock, live_buffer, live_size, bvars, len, sent, peer, out>>

\* Mutant: live_size drops by a full buffer, not by what was sent.
Reset_ByBuffer(v) ==
    /\ vpc[v] = "reset"
    /\ live_size' = live_size - BUFFER
    /\ VGoto(v, "unlock")
    /\ UNCHANGED <<alive, lock, live_buffer, bvars, len, sent, peer, out>>

Reset(v) ==
    /\ vpc[v] = "reset"
    /\ live_size' = 0
    /\ VGoto(v, "unlock")
    /\ UNCHANGED <<alive, lock, live_buffer, bvars, len, sent, peer, out>>

\* The unlock and the usleep: the thread goes round its endless loop.
UnlockV(v) ==
    /\ vpc[v] = "unlock"
    /\ lock' = NoThread
    /\ VGoto(v, "lock")
    /\ UNCHANGED <<alive, live_buffer, live_size, bvars, len, sent, peer, out>>

\* send on a connection the peer has reset raises SIGPIPE, which the program
\* neither ignores nor handles: the process ends.
Killed(v) ==
    /\ vpc[v] \in {"hello", "head", "body", "tail"}
    /\ peer[v] = "gone"
    /\ alive' = FALSE
    /\ UNCHANGED <<lock, live_buffer, live_size, bvars, vvars, peer>>

ViewerStep(v) ==
    \/ Hello(v) \/ LockV(v) \/ Test(v) \/ ChunkHeader(v) \/ Call(v)
    \/ ChunkBody(v) \/ ChunkBodyFails(v) \/ ChunkTrailer(v) \/ Reset(v) \/ UnlockV(v)

----------------------------------------------------------------------------
\* The viewers' peers

Stall(v) ==
    /\ v \in Stalling
    /\ peer[v] = "reading"
    /\ peer' = [peer EXCEPT ![v] = "stalled"]
    /\ UNCHANGED <<alive, lock, live_buffer, live_size, bvars, vvars>>

Resume(v) ==
    /\ peer[v] = "stalled"
    /\ peer' = [peer EXCEPT ![v] = "reading"]
    /\ UNCHANGED <<alive, lock, live_buffer, live_size, bvars, vvars>>

Leave(v) ==
    /\ v \in Leaving
    /\ peer[v] # "gone"
    /\ peer' = [peer EXCEPT ![v] = "gone"]
    /\ UNCHANGED <<alive, lock, live_buffer, live_size, bvars, vvars>>

Next ==
    /\ alive
    /\ \/ \E b \in Broadcasters : Recv(b) \/ RecvEnd(b) \/ BroadcasterStep(b)
       \/ \E v \in Viewers : ViewerStep(v) \/ Killed(v)
       \/ \E v \in Viewers : Stall(v) \/ Resume(v) \/ Leave(v)

Spec == Init /\ [][Next]_vars

(* Both critical sections run to their end: a thread that has left its     *)
(* lock call behind is scheduled again, and a thread that waits for the    *)
(* mutex gets it, because every viewer sleeps 100 ms between its unlock    *)
(* and its next lock and every upload ends.  Nothing is assumed of the     *)
(* peers: no recv need return, and a send need not return while stalled.   *)
Fairness ==
    /\ \A b \in Broadcasters : WF_vars(alive /\ BroadcasterStep(b)) /\ SF_vars(alive /\ LockB(b))
    /\ \A v \in Viewers : WF_vars(alive /\ ViewerStep(v)) /\ SF_vars(alive /\ LockV(v))

FairSpec == Spec /\ Fairness

----------------------------------------------------------------------------
\* Properties

BLabel == {"recv", "lock", "check", "copy", "grow", "unlock", "done"}
VLabel == {"hello", "lock", "test", "head", "call", "body", "tail", "reset", "unlock"}
Chunk  == [size : Nat, body : Seq(Bytes \cup {NoByte}), whole : BOOLEAN]

\* The type of every variable.
TypeOK ==
    /\ alive \in BOOLEAN
    /\ lock \in Threads \cup {NoThread}
    /\ live_buffer \in [0..LIVE_BUF - 1 -> Bytes \cup {NoByte}]
    /\ live_size \in Nat
    /\ bpc \in [Broadcasters -> BLabel]
    /\ buf \in [Broadcasters -> Seq(Bytes)]
    /\ fed \in [Broadcasters -> Nat]
    /\ vpc \in [Viewers -> VLabel]
    /\ len \in [Viewers -> Nat]
    /\ sent \in [Viewers -> Nat]
    /\ peer \in [Viewers -> {"reading", "stalled", "gone"}]
    /\ out \in [Viewers -> Seq(Chunk)]

BCritical(b) == bpc[b] \in {"check", "copy", "grow", "unlock"}
VCritical(v) == vpc[v] \in {"test", "head", "call", "body", "tail", "reset", "unlock"}

\* A thread between its lock and its unlock of live_lock is the one the
\* mutex names, so live_buffer and live_size are never accessed by two.
MutualExclusion ==
    /\ \A b \in Broadcasters : BCritical(b) => lock = b
    /\ \A v \in Viewers : VCritical(v) => lock = v

\* memcpy stays inside live_buffer: the room Check found is still there when
\* the bytes are copied and when live_size is raised, and live_size never
\* reaches the size of the array (main.c:96-98).
BufferBound ==
    /\ live_size < LIVE_BUF
    /\ \A b \in Broadcasters :
         bpc[b] \in {"copy", "grow"} => live_size + Len(buf[b]) < LIVE_BUF

\* Every chunk a viewer got to its end has the number of bytes its header
\* announced (main.c:117-120 reads live_size twice).
ChunkHonest ==
    \A v \in Viewers : \A i \in DOMAIN out[v] :
        out[v][i].whole => Len(out[v][i].body) = out[v][i].size

\* No byte reaches two viewers or one viewer twice, no viewer gets a byte
\* nobody uploaded, and the bytes of one upload arrive in their order.
DeliveredOnceInOrder ==
    \A v, w \in Viewers : \A i \in DOMAIN out[v], j \in DOMAIN out[w] :
        \A p \in DOMAIN out[v][i].body, q \in DOMAIN out[w][j].body :
            LET x == out[v][i].body[p]
                y == out[w][j].body[q]
            IN  /\ x # NoByte
                /\ x = y => v = w /\ i = j /\ p = q
                /\ (v = w /\ x[1] = y[1] /\ (i < j \/ (i = j /\ p < q))) => x[2] < y[2]

\* While a viewer is between its chunk header and its reset, nobody changes
\* what it is sending or the size it works with.
StableSnapshot ==
    [][\A v \in Viewers :
         vpc[v] \in {"call", "body", "tail"} => UNCHANGED <<live_size, live_buffer>>]_vars

\* A piece that has been received is stored or dropped in the end: no
\* broadcaster waits for the mutex for ever (given peers that read).
PieceHandled == \A b \in Broadcasters : bpc[b] = "lock" ~> bpc[b] = "recv"

\* What has been stored is sent in the end.
Drained == live_size > 0 ~> live_size = 0

\* "Multiple devices can stream simultaneously" (readme.md:148): of two
\* viewers of the stream, neither misses what the other has while having
\* what the other misses.
ReceivedBy(v) ==
    UNION {{out[v][i].body[p] : p \in DOMAIN out[v][i].body} : i \in DOMAIN out[v]}
ViewersShareStream ==
    \A v, w \in Viewers :
        ReceivedBy(v) \subseteq ReceivedBy(w) \/ ReceivedBy(w) \subseteq ReceivedBy(v)

----------------------------------------------------------------------------
\* The relay as its users see it.  A piece leaves the broadcaster when it is
\* dropped or when live_size covers it; a chunk is handed over when its
\* trailer is sent, and from then to the reset live_buffer holds nothing.
\* The chunk a peer has not got to its end is none of what it got.

InHand(b) == bpc[b] \in {"lock", "check", "copy", "grow"}
InPart(v) == out[v] # <<>> /\ ~out[v][Len(out[v])].whole

HandedOver == \E v \in Viewers :
    /\ vpc[v] = "reset"
    /\ out[v] # <<>>
    /\ out[v][Len(out[v])].whole
    /\ out[v][Len(out[v])].body = Content

Taken    == [b \in Broadcasters |-> fed[b] - IF InHand(b) THEN Len(buf[b]) ELSE 0]
Pending  == IF HandedOver THEN <<>> ELSE Content
Received == [v \in Viewers |->
    [i \in 1..(IF InPart(v) THEN Len(out[v]) - 1 ELSE Len(out[v])) |-> out[v][i].body]]

Relay == INSTANCE LossyRelay WITH
    Capacity <- LIVE_BUF,
    MaxPiece <- BUFFER,
    taken    <- Taken,
    pending  <- Pending,
    got      <- Received

\* The threads implement the lossy relay.
ImplementsRelay == Relay!Spec
=============================================================================
