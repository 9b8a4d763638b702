-------------------------- MODULE LiveRelayProofs --------------------------
(***************************************************************************)
(* Proofs about LiveRelay for any number of broadcasters and viewers, any  *)
(* sizes of the buffers and any behaviour of the peers.                    *)
(*                                                                         *)
(* None of the properties is inductive alone.  What a viewer sends is what *)
(* it announced because live_size is frozen while it holds live_lock, and  *)
(* that is so because every write of live_size is made under the lock: the *)
(* invariant below joins the lock, the room a broadcaster was promised and *)
(* how far a viewer is with its chunk.                                     *)
(***************************************************************************)
EXTENDS LiveRelay, SequenceTheorems, TLAPS

Last(v) == out[v][Len(out[v])]

\* What a viewer relies on in the middle of a chunk.
SendInv == \A v \in Viewers :
    /\ vpc[v] \in {"head", "call"} => live_size > 0
    /\ vpc[v] = "body" => len[v] = live_size /\ sent[v] < len[v]
    /\ (vpc[v] \in {"call", "body", "tail"} /\ peer[v] # "gone") =>
         /\ out[v] # <<>>
         /\ Last(v).size = live_size /\ ~Last(v).whole
         /\ vpc[v] = "call" => Last(v).body = <<>>
         /\ vpc[v] = "body" => Len(Last(v).body) = sent[v]
         /\ vpc[v] = "tail" => Len(Last(v).body) = live_size

IInv == TypeOK /\ MutualExclusion /\ BufferBound /\ ChunkHonest /\ SendInv

----------------------------------------------------------------------------
\* The operators that build what a peer sees.

LEMMA SliceType ==
    ASSUME TypeOK, NEW first \in Nat, NEW n \in Nat, first + n <= LIVE_BUF
    PROVE  /\ Slice(first, n) \in Seq(Bytes \cup {NoByte})
           /\ Len(Slice(first, n)) = n
<1>1. \A i \in 1..n : live_buffer[first + i - 1] \in Bytes \cup {NoByte}
  BY LiveAssumption DEF TypeOK
<1>2. QED
  BY <1>1, IsASeq DEF Slice

LEMMA AddToLastType ==
    ASSUME NEW c \in Seq(Chunk), c # <<>>, NEW s \in Seq(Bytes \cup {NoByte})
    PROVE  /\ AddToLast(c, s) \in Seq(Chunk)
           /\ Len(AddToLast(c, s)) = Len(c)
           /\ \A j \in 1..Len(c) : j # Len(c) => AddToLast(c, s)[j] = c[j]
           /\ AddToLast(c, s)[Len(c)].size = c[Len(c)].size
           /\ AddToLast(c, s)[Len(c)].whole = c[Len(c)].whole
           /\ Len(AddToLast(c, s)[Len(c)].body) = Len(c[Len(c)].body) + Len(s)
<1> DEFINE n == Len(c)
           e == [c[n] EXCEPT !.body = @ \o s]
<1>1. n \in 1..Len(c) /\ c[n] \in Chunk
  BY EmptySeq, LenProperties
<1>2. /\ c[n].body \o s \in Seq(Bytes \cup {NoByte})
      /\ Len(c[n].body \o s) = Len(c[n].body) + Len(s)
  BY <1>1, ConcatProperties DEF Chunk
<1>3. /\ e \in Chunk
      /\ e.size = c[n].size /\ e.whole = c[n].whole /\ e.body = c[n].body \o s
  BY <1>1, <1>2 DEF Chunk
<1>4. AddToLast(c, s) = [c EXCEPT ![n] = e]
  BY DEF AddToLast
<1> HIDE DEF e
<1>5. /\ AddToLast(c, s) \in Seq(Chunk)
      /\ Len(AddToLast(c, s)) = Len(c)
      /\ \A j \in 1..Len(c) : AddToLast(c, s)[j] = IF j = n THEN e ELSE c[j]
  BY <1>1, <1>3, <1>4, ExceptSeq
<1>6. AddToLast(c, s)[n] = e
  BY <1>1, <1>5
<1>7. QED
  BY <1>2, <1>3, <1>5, <1>6

LEMMA CloseLastType ==
    ASSUME NEW c \in Seq(Chunk), c # <<>>
    PROVE  /\ CloseLast(c) \in Seq(Chunk)
           /\ Len(CloseLast(c)) = Len(c)
           /\ \A j \in 1..Len(c) : /\ CloseLast(c)[j].size = c[j].size
                                   /\ CloseLast(c)[j].body = c[j].body
                                   /\ j # Len(c) => CloseLast(c)[j] = c[j]
<1> DEFINE n == Len(c)
           e == [c[n] EXCEPT !.whole = TRUE]
<1>1. n \in 1..Len(c) /\ c[n] \in Chunk
  BY EmptySeq, LenProperties
<1>2. e \in Chunk /\ e.size = c[n].size /\ e.body = c[n].body
  BY <1>1 DEF Chunk
<1>3. CloseLast(c) = [c EXCEPT ![n] = e]
  BY DEF CloseLast
<1> HIDE DEF e
<1>4. QED
  BY <1>1, <1>2, <1>3, ExceptSeq

LEMMA PieceType ==
    ASSUME NEW b \in Broadcasters, NEW f \in Nat, NEW n \in Nat, f + n <= MaxBytes
    PROVE  Piece(b, f, n) \in Seq(Bytes)
<1>1. \A i \in 1..n : <<b, f + i>> \in Bytes
  BY LiveAssumption DEF Bytes
<1>2. QED
  BY <1>1, IsASeq DEF Piece

----------------------------------------------------------------------------
\* The type invariant needs the rest only where a viewer reads live_buffer or
\* its last chunk.

LEMMA TypeInit == Init => TypeOK
<1> SUFFICES ASSUME Init PROVE TypeOK
  OBVIOUS
<1>1. <<>> \in Seq(Bytes) /\ <<>> \in Seq(Chunk)
  BY EmptySeq
<1>2. QED
  BY <1>1, LiveAssumption DEF Init, TypeOK, Threads, BLabel, VLabel

LEMMA TypeOfBroadcaster ==
    ASSUME IInv, NEW b \in Broadcasters, Recv(b) \/ RecvEnd(b) \/ BroadcasterStep(b)
    PROVE  TypeOK'
<1> USE DEF TypeOK, IInv, BGoto, BLabel, bvars, vvars
<1>1. CASE Recv(b)
  <2>1. PICK n \in 1..BUFFER : /\ fed[b] + n <= MaxBytes
                               /\ buf' = [buf EXCEPT ![b] = Piece(b, fed[b], n)]
                               /\ fed' = [fed EXCEPT ![b] = @ + n]
    BY <1>1 DEF Recv
  <2>2. Piece(b, fed[b], n) \in Seq(Bytes)
    BY <2>1, PieceType, LiveAssumption
  <2>3. QED
    BY <1>1, <2>1, <2>2 DEF Recv
<1>2. CASE RecvEnd(b)
  BY <1>2 DEF RecvEnd
<1>3. CASE LockB(b)
  BY <1>3 DEF LockB, Threads
<1>4. CASE Check(b)
  BY <1>4 DEF Check
<1>5. CASE Copy(b)
  <2>1. \A k \in 1..Len(buf[b]) : buf[b][k] \in Bytes
    BY ElementOfSeq
  <2>2. Len(buf[b]) \in Nat
    BY LenProperties
  <2>3. ASSUME NEW i \in 0..LIVE_BUF - 1, i - live_size \in 0..Len(buf[b]) - 1
        PROVE  buf[b][i - live_size + 1] \in Bytes
    BY <2>1, <2>2, <2>3, LiveAssumption
  <2>4. live_buffer' \in [0..LIVE_BUF - 1 -> Bytes \cup {NoByte}]
    BY <1>5, <2>3 DEF Copy
  <2>5. QED
    BY <1>5, <2>4 DEF Copy
<1>6. CASE Grow(b)
  <2>1. Len(buf[b]) \in Nat
    BY LenProperties
  <2>2. QED
    BY <1>6, <2>1 DEF Grow
<1>7. CASE UnlockB(b)
  <2>1. <<>> \in Seq(Bytes)
    BY EmptySeq
  <2>2. QED
    BY <1>7, <2>1 DEF UnlockB
<1>8. QED
  BY <1>1, <1>2, <1>3, <1>4, <1>5, <1>6, <1>7 DEF BroadcasterStep

LEMMA TypeOfViewer ==
    ASSUME IInv, NEW v \in Viewers, ViewerStep(v)
    PROVE  TypeOK'
<1> USE DEF TypeOK, IInv, VGoto, VLabel, bvars, vvars
<1>1. CASE Hello(v)
  BY <1>1 DEF Hello
<1>2. CASE LockV(v)
  BY <1>2 DEF LockV, Threads
<1>3. CASE Test(v)
  BY <1>3 DEF Test
<1>4. CASE ChunkHeader(v)
  <2>1. NewChunk(live_size) \in Chunk
    BY EmptySeq DEF NewChunk, Chunk
  <2>2. Append(out[v], NewChunk(live_size)) \in Seq(Chunk)
    BY <2>1, AppendProperties
  <2>3. QED
    BY <1>4, <2>2 DEF ChunkHeader
<1>5. CASE Call(v)
  BY <1>5 DEF Call
<1>6. CASE ChunkBody(v)
  <2>1. PICK k \in 1..len[v] - sent[v] :
          /\ sent' = [sent EXCEPT ![v] = @ + k]
          /\ out' = [out EXCEPT ![v] = AddToLast(@, Slice(sent[v], k))]
          /\ VGoto(v, IF sent[v] + k = len[v] THEN "tail" ELSE "body")
    BY <1>6 DEF ChunkBody
  <2>2. /\ out[v] # <<>>
        /\ sent[v] + k <= LIVE_BUF
        /\ sent[v] \in Nat /\ k \in Nat
    BY <1>6, LiveAssumption DEF ChunkBody, SendInv, BufferBound, Delivers
  <2>3. AddToLast(out[v], Slice(sent[v], k)) \in Seq(Chunk)
    BY <2>2, SliceType, AddToLastType
  <2>4. out' \in [Viewers -> Seq(Chunk)]
    BY <2>1, <2>3
  <2>5. /\ sent' \in [Viewers -> Nat]
        /\ vpc' \in [Viewers -> VLabel]
    BY <2>1, <2>2
  <2>6. QED
    BY <1>6, <2>4, <2>5 DEF ChunkBody
<1>7. CASE ChunkBodyFails(v)
  BY <1>7 DEF ChunkBodyFails
<1>8. CASE ChunkTrailer(v)
  <2>1. Delivers(v) => CloseLast(out[v]) \in Seq(Chunk)
    BY <1>8, CloseLastType DEF ChunkTrailer, SendInv, Delivers
  <2>2. QED
    BY <1>8, <2>1 DEF ChunkTrailer
<1>9. CASE Reset(v)
  BY <1>9 DEF Reset
<1>10. CASE UnlockV(v)
  BY <1>10 DEF UnlockV
<1>11. QED
  BY <1>1, <1>2, <1>3, <1>4, <1>5, <1>6, <1>7, <1>8, <1>9, <1>10 DEF ViewerStep

LEMMA TypeOfPeer ==
    ASSUME TypeOK, NEW v \in Viewers, Killed(v) \/ Stall(v) \/ Resume(v) \/ Leave(v)
    PROVE  TypeOK'
BY DEF TypeOK, Killed, Stall, Resume, Leave, bvars, vvars

----------------------------------------------------------------------------
\* The lock, the buffer and the chunks.

LEMMA OthersOfBroadcaster ==
    ASSUME IInv, TypeOK', NEW b \in Broadcasters, Recv(b) \/ RecvEnd(b) \/ BroadcasterStep(b)
    PROVE  (MutualExclusion /\ BufferBound /\ ChunkHonest /\ SendInv)'
<1> USE LiveAssumption DEF TypeOK, IInv, BGoto, bvars, vvars
<1>1. MutualExclusion'
  <2> USE DEF MutualExclusion, BCritical, VCritical, Threads
  <2>1. CASE Recv(b)
    BY <2>1 DEF Recv
  <2>2. CASE RecvEnd(b)
    BY <2>2 DEF RecvEnd
  <2>3. CASE LockB(b)
    BY <2>3 DEF LockB
  <2>4. CASE Check(b)
    BY <2>4 DEF Check
  <2>5. CASE Copy(b)
    BY <2>5 DEF Copy
  <2>6. CASE Grow(b)
    BY <2>6 DEF Grow
  <2>7. CASE UnlockB(b)
    BY <2>7 DEF UnlockB
  <2>8. QED
    BY <2>1, <2>2, <2>3, <2>4, <2>5, <2>6, <2>7 DEF BroadcasterStep
<1>2. \A c \in Broadcasters : Len(buf[c]) \in Nat
  BY LenProperties
<1>3. BufferBound'
  <2>1. CASE Recv(b) \/ RecvEnd(b)
    BY <2>1 DEF Recv, RecvEnd, BufferBound
  <2>2. CASE LockB(b) \/ Check(b) \/ Copy(b)
    BY <2>2, <1>2 DEF LockB, Check, Copy, BufferBound
  <2>3. CASE Grow(b)
    BY <2>3, <1>2 DEF Grow, BufferBound, MutualExclusion, BCritical
  <2>4. CASE UnlockB(b)
    BY <2>4 DEF UnlockB, BufferBound
  <2>5. QED
    BY <2>1, <2>2, <2>3, <2>4 DEF BroadcasterStep
<1>4. UNCHANGED <<vpc, len, sent, out, peer>>
  BY DEF BroadcasterStep, Recv, RecvEnd, LockB, Check, Copy, Grow, UnlockB
<1>5. ChunkHonest'
  BY <1>4 DEF ChunkHonest
<1>6. UNCHANGED live_size \/ \A v \in Viewers : ~VCritical(v)
  BY DEF BroadcasterStep, Recv, RecvEnd, LockB, Check, Copy, Grow, UnlockB,
         MutualExclusion, BCritical
<1>7. SendInv'
  BY <1>4, <1>6 DEF SendInv, Last, VCritical
<1>8. QED
  BY <1>1, <1>3, <1>5, <1>7

LEMMA LockOfViewer ==
    ASSUME IInv, NEW v \in Viewers, ViewerStep(v)
    PROVE  (MutualExclusion /\ BufferBound)'
<1> USE LiveAssumption DEF TypeOK, IInv, VGoto, bvars, vvars
<1>1. MutualExclusion'
  <2> USE DEF MutualExclusion, BCritical, VCritical, Threads
  <2>1. CASE Hello(v)
    BY <2>1 DEF Hello
  <2>2. CASE LockV(v)
    BY <2>2 DEF LockV
  <2>3. CASE Test(v)
    BY <2>3 DEF Test
  <2>4. CASE ChunkHeader(v)
    BY <2>4 DEF ChunkHeader
  <2>5. CASE Call(v)
    BY <2>5 DEF Call
  <2>6. CASE ChunkBody(v)
    BY <2>6 DEF ChunkBody
  <2>7. CASE ChunkBodyFails(v)
    BY <2>7 DEF ChunkBodyFails
  <2>8. CASE ChunkTrailer(v)
    BY <2>8 DEF ChunkTrailer
  <2>9. CASE Reset(v)
    BY <2>9 DEF Reset
  <2>10. CASE UnlockV(v)
    BY <2>10 DEF UnlockV
  <2>11. QED
    BY <2>1, <2>2, <2>3, <2>4, <2>5, <2>6, <2>7, <2>8, <2>9, <2>10 DEF ViewerStep
<1>2. UNCHANGED <<bpc, buf>>
  BY DEF ViewerStep, Hello, LockV, Test, ChunkHeader, Call, ChunkBody, ChunkBodyFails,
         ChunkTrailer, Reset, UnlockV
<1>3. \/ UNCHANGED live_size
      \/ live_size' = 0 /\ \A b \in Broadcasters : ~BCritical(b)
  BY DEF ViewerStep, Hello, LockV, Test, ChunkHeader, Call, ChunkBody, ChunkBodyFails,
         ChunkTrailer, Reset, UnlockV, MutualExclusion, VCritical
<1>4. BufferBound'
  BY <1>2, <1>3 DEF BufferBound, BCritical
<1>5. QED
  BY <1>1, <1>4

LEMMA ChunksOfViewer ==
    ASSUME IInv, NEW v \in Viewers, ViewerStep(v)
    PROVE  ChunkHonest'
<1> USE LiveAssumption DEF TypeOK, IInv, VGoto, bvars, vvars
<1>1. \A w \in Viewers \ {v} : out'[w] = out[w]
  BY DEF ViewerStep, Hello, LockV, Test, ChunkHeader, Call, ChunkBody, ChunkBodyFails,
         ChunkTrailer, Reset, UnlockV
<1>2. SUFFICES ASSUME NEW i \in DOMAIN out'[v], out'[v][i].whole
               PROVE  Len(out'[v][i].body) = out'[v][i].size
  <2>1. \A w \in Viewers \ {v} : \A i \in DOMAIN out'[w] :
          out'[w][i].whole => Len(out'[w][i].body) = out'[w][i].size
    BY <1>1 DEF ChunkHonest
  <2>2. QED
    BY <2>1 DEF ChunkHonest
<1>3. DOMAIN out[v] = 1..Len(out[v]) /\ Len(out[v]) \in Nat
  BY LenProperties
<1>4. CASE out'[v] = out[v]
  BY <1>4, <1>2 DEF ChunkHonest
<1>5. CASE ChunkHeader(v) /\ Delivers(v)
  <2>1. out'[v] = Append(out[v], NewChunk(live_size))
    BY <1>5 DEF ChunkHeader
  <2>2. NewChunk(live_size) \in Chunk /\ ~NewChunk(live_size).whole
    BY EmptySeq DEF NewChunk, Chunk
  <2>3. i \in 1..Len(out[v]) /\ out'[v][i] = out[v][i]
    BY <2>1, <2>2, <1>2, <1>3, AppendProperties
  <2>4. QED
    BY <2>3, <1>2, <1>3 DEF ChunkHonest
<1>6. CASE ChunkBody(v)
  <2>1. PICK k \in 1..len[v] - sent[v] :
          out' = [out EXCEPT ![v] = AddToLast(@, Slice(sent[v], k))]
    BY <1>6 DEF ChunkBody
  <2>2. /\ out[v] # <<>> /\ ~Last(v).whole
        /\ sent[v] + k <= LIVE_BUF /\ sent[v] \in Nat /\ k \in Nat
    BY <1>6 DEF ChunkBody, SendInv, BufferBound, Delivers
  <2>3. /\ out'[v] = AddToLast(out[v], Slice(sent[v], k))
        /\ Slice(sent[v], k) \in Seq(Bytes \cup {NoByte})
    BY <2>1, <2>2, SliceType
  <2>4. /\ out'[v] \in Seq(Chunk)
        /\ Len(out'[v]) = Len(out[v])
        /\ \A j \in 1..Len(out[v]) : j # Len(out[v]) => out'[v][j] = out[v][j]
        /\ ~out'[v][Len(out[v])].whole
    <3>1. PICK c, s : c = out[v] /\ s = Slice(sent[v], k)
      OBVIOUS
    <3>2. c \in Seq(Chunk) /\ c # <<>> /\ s \in Seq(Bytes \cup {NoByte}) /\ ~c[Len(c)].whole
      BY <2>2, <2>3, <3>1 DEF Last
    <3>3. /\ AddToLast(c, s) \in Seq(Chunk)
          /\ Len(AddToLast(c, s)) = Len(c)
          /\ \A j \in 1..Len(c) : j # Len(c) => AddToLast(c, s)[j] = c[j]
          /\ ~AddToLast(c, s)[Len(c)].whole
      BY ONLY <3>2, AddToLastType
    <3> QED BY <2>3, <3>1, <3>3
  <2>5. i \in 1..Len(out[v]) /\ out'[v][i] = out[v][i]
    BY <2>4, <1>2, LenProperties, ZenonT(60)
  <2>6. QED
    BY <2>5, <1>2, <1>3 DEF ChunkHonest
<1>7. CASE ChunkTrailer(v) /\ Delivers(v)
  <2>1. /\ out[v] # <<>>
        /\ Last(v).size = live_size /\ Len(Last(v).body) = live_size
    BY <1>7 DEF ChunkTrailer, SendInv, Delivers
  <2>2. out'[v] = CloseLast(out[v])
    BY <1>7 DEF ChunkTrailer
  <2>3. /\ out'[v] \in Seq(Chunk)
        /\ Len(out'[v]) = Len(out[v])
        /\ \A j \in 1..Len(out[v]) : /\ out'[v][j].size = out[v][j].size
                                     /\ out'[v][j].body = out[v][j].body
                                     /\ j # Len(out[v]) => out'[v][j] = out[v][j]
    BY <2>1, <2>2, CloseLastType
  <2>4. i \in 1..Len(out[v])
    BY <2>3, <1>2, LenProperties
  <2>5. CASE i = Len(out[v])
    BY <2>1, <2>3, <2>4, <2>5 DEF Last
  <2>6. CASE i # Len(out[v])
    <3>1. out'[v][i] = out[v][i]
      BY <2>3, <2>4, <2>6
    <3>2. QED
      BY <3>1, <2>4, <1>2, <1>3 DEF ChunkHonest
  <2>7. QED
    BY <2>5, <2>6
<1>8. QED
  BY <1>4, <1>5, <1>6, <1>7 DEF ViewerStep, Hello, LockV, Test, ChunkHeader, Call,
     ChunkBody, ChunkBodyFails, ChunkTrailer, Reset, UnlockV

LEMMA SendingOfViewer ==
    ASSUME IInv, TypeOK', NEW v \in Viewers, ViewerStep(v)
    PROVE  SendInv'
<1> USE LiveAssumption DEF TypeOK, IInv, VGoto, bvars, vvars
<1>1. \A w \in Viewers \ {v} :
        UNCHANGED <<vpc[w], len[w], sent[w], out[w], peer[w]>>
  BY ZenonT(60) DEF ViewerStep, Hello, LockV, Test, ChunkHeader, Call, ChunkBody, ChunkBodyFails,
         ChunkTrailer, Reset, UnlockV
<1>2. \/ UNCHANGED live_size
      \/ \A w \in Viewers \ {v} : ~VCritical(w)
  BY DEF ViewerStep, Hello, LockV, Test, ChunkHeader, Call, ChunkBody, ChunkBodyFails,
         ChunkTrailer, Reset, UnlockV, MutualExclusion, VCritical
<1> DEFINE S(w) ==
      /\ vpc[w] \in {"head", "call"} => live_size > 0
      /\ vpc[w] = "body" => len[w] = live_size /\ sent[w] < len[w]
      /\ (vpc[w] \in {"call", "body", "tail"} /\ peer[w] # "gone") =>
           /\ out[w] # <<>>
           /\ Last(w).size = live_size /\ ~Last(w).whole
           /\ vpc[w] = "call" => Last(w).body = <<>>
           /\ vpc[w] = "body" => Len(Last(w).body) = sent[w]
           /\ vpc[w] = "tail" => Len(Last(w).body) = live_size
<1>3. ASSUME NEW w \in Viewers \ {v}
      PROVE  S(w)'
  BY <1>1, <1>2, SMTT(30) DEF SendInv, Last, VCritical
<1>4. S(v)'
  <2>1. CASE Hello(v) \/ LockV(v) \/ Test(v) \/ Reset(v) \/ UnlockV(v)
    BY <2>1 DEF Hello, LockV, Test, Reset, UnlockV
  <2>2. CASE ChunkHeader(v)
    <3>1. NewChunk(live_size) \in Chunk
      BY EmptySeq DEF NewChunk, Chunk
    <3>2. LET c == Append(out[v], NewChunk(live_size))
          IN  c # <<>> /\ c[Len(c)] = NewChunk(live_size)
      <4>1. out[v] \in Seq(Chunk)
        OBVIOUS
      <4> HIDE DEF TypeOK, IInv
      <4>2. QED
        BY <3>1, <4>1, AppendProperties
    <3>3. peer[v] # "gone" => out'[v] = Append(out[v], NewChunk(live_size))
      BY <2>2 DEF ChunkHeader, Writable, Delivers
    <3>4. vpc'[v] = "call" /\ live_size' = live_size /\ live_size > 0 /\ peer' = peer
      BY <2>2 DEF ChunkHeader, SendInv
    <3>5. QED
      BY <3>2, <3>3, <3>4 DEF Last, NewChunk
  <2>3. CASE Call(v)
    <3>1. /\ UNCHANGED <<live_size, out, peer>> /\ live_size > 0
          /\ len'[v] = live_size /\ sent'[v] = 0 /\ vpc'[v] = "body"
      BY <2>3 DEF Call, SendInv
    <3>2. peer[v] # "gone" => /\ out[v] # <<>>
                              /\ Last(v).size = live_size /\ ~Last(v).whole
                              /\ Last(v).body = <<>>
      BY <2>3 DEF Call, SendInv
    <3>3. Len(<<>>) = 0
      BY EmptySeq
    <3>4. QED
      BY <3>1, <3>2, <3>3 DEF Last
  <2>4. CASE ChunkBody(v)
    <3>1. PICK k \in 1..len[v] - sent[v] :
            /\ sent' = [sent EXCEPT ![v] = @ + k]
            /\ out' = [out EXCEPT ![v] = AddToLast(@, Slice(sent[v], k))]
            /\ VGoto(v, IF sent[v] + k = len[v] THEN "tail" ELSE "body")
      BY <2>4 DEF ChunkBody
    <3>2. /\ out[v] # <<>> /\ ~Last(v).whole /\ Last(v).size = live_size
          /\ Len(Last(v).body) = sent[v] /\ len[v] = live_size
          /\ sent[v] + k <= LIVE_BUF /\ sent[v] \in Nat /\ k \in Nat
      BY <2>4 DEF ChunkBody, SendInv, BufferBound, Delivers
    <3>3. /\ Slice(sent[v], k) \in Seq(Bytes \cup {NoByte})
          /\ Len(Slice(sent[v], k)) = k
      BY <3>2, SliceType
    <3>4. LET c == AddToLast(out[v], Slice(sent[v], k))
          IN  /\ Len(c) = Len(out[v])
              /\ c[Len(c)].size = live_size /\ ~c[Len(c)].whole
              /\ Len(c[Len(c)].body) = sent[v] + k
              /\ c # <<>>
      <4>1. AddToLast(out[v], Slice(sent[v], k)) \in Seq(Chunk)
            /\ Len(AddToLast(out[v], Slice(sent[v], k))) = Len(out[v])
        BY <3>2, <3>3, AddToLastType
      <4>2. AddToLast(out[v], Slice(sent[v], k)) # <<>>
        BY <3>2, <4>1, EmptySeq
      <4>3. LET c == AddToLast(out[v], Slice(sent[v], k))
                n == Len(out[v])
            IN  /\ c[n].size = out[v][n].size
                /\ c[n].whole = out[v][n].whole
                /\ Len(c[n].body) = Len(out[v][n].body) + Len(Slice(sent[v], k))
        <5>1. out[v] \in Seq(Chunk)
          OBVIOUS
        <5> HIDE DEF TypeOK, IInv
        <5>2. QED
          BY <5>1, <3>2, <3>3, AddToLastType
      <4>4. QED
        BY <3>2, <3>3, <4>1, <4>2, <4>3 DEF Last
    <3>5. out'[v] = AddToLast(out[v], Slice(sent[v], k))
      BY <3>1
    <3>6. /\ sent'[v] = sent[v] + k
          /\ vpc'[v] = IF sent[v] + k = len[v] THEN "tail" ELSE "body"
          /\ sent[v] + k <= len[v]
          /\ UNCHANGED <<len, live_size>>
      BY <2>4, <3>1 DEF ChunkBody
    <3>7. QED
      BY <3>2, <3>4, <3>5, <3>6 DEF Last
  <2>5. CASE ChunkBodyFails(v)
    BY <2>5 DEF ChunkBodyFails
  <2>6. CASE ChunkTrailer(v)
    BY <2>6 DEF ChunkTrailer
  <2>7. QED
    BY <2>1, <2>2, <2>3, <2>4, <2>5, <2>6 DEF ViewerStep
<1>5. \A w \in Viewers : S(w)'
  BY <1>3, <1>4
<1>6. QED
  BY <1>5 DEF SendInv

LEMMA OthersOfPeer ==
    ASSUME IInv, NEW v \in Viewers, Killed(v) \/ Stall(v) \/ Resume(v) \/ Leave(v)
    PROVE  (MutualExclusion /\ BufferBound /\ ChunkHonest /\ SendInv)'
<1>1. UNCHANGED <<lock, live_buffer, live_size, bpc, buf, fed, vpc, len, sent, out>>
  BY DEF Killed, Stall, Resume, Leave, bvars, vvars
<1>2. \A w \in Viewers : peer'[w] # "gone" => peer[w] # "gone"
  BY DEF Killed, Stall, Resume, Leave, IInv, TypeOK
<1>3. (MutualExclusion /\ BufferBound /\ ChunkHonest)'
  BY <1>1 DEF IInv, MutualExclusion, BufferBound, ChunkHonest, BCritical, VCritical
<1>4. SendInv'
  BY <1>1, <1>2 DEF IInv, SendInv, Last
<1>5. QED
  BY <1>3, <1>4

----------------------------------------------------------------------------

LEMMA InvInit == Init => IInv
<1> SUFFICES ASSUME Init PROVE IInv
  OBVIOUS
<1>1. TypeOK
  BY TypeInit
<1>2. Len(<<>>) = 0
  BY EmptySeq
<1>3. MutualExclusion /\ BufferBound /\ ChunkHonest /\ SendInv
  BY <1>2, LiveAssumption DEF Init, MutualExclusion, BufferBound, ChunkHonest, SendInv,
     BCritical, VCritical
<1>4. QED
  BY <1>1, <1>3 DEF IInv

LEMMA InvNext == IInv /\ [Next]_vars => IInv'
<1> SUFFICES ASSUME IInv, [Next]_vars PROVE IInv'
  OBVIOUS
<1>1. ASSUME NEW b \in Broadcasters, Recv(b) \/ RecvEnd(b) \/ BroadcasterStep(b)
      PROVE  IInv'
  BY <1>1, TypeOfBroadcaster, OthersOfBroadcaster DEF IInv
<1>2. ASSUME NEW v \in Viewers, ViewerStep(v)
      PROVE  IInv'
  BY <1>2, TypeOfViewer, LockOfViewer, ChunksOfViewer, SendingOfViewer DEF IInv
<1>3. ASSUME NEW v \in Viewers, Killed(v) \/ Stall(v) \/ Resume(v) \/ Leave(v)
      PROVE  IInv'
  BY <1>3, TypeOfPeer, OthersOfPeer DEF IInv
<1>4. CASE UNCHANGED vars
  BY <1>4 DEF vars, bvars, vvars, IInv, TypeOK, MutualExclusion, BufferBound, ChunkHonest,
     SendInv, BCritical, VCritical, Last
<1>5. QED
  BY <1>1, <1>2, <1>3, <1>4 DEF Next

LEMMA InvAlways == Spec => []IInv
BY InvInit, InvNext, PTL DEF Spec

\* Every variable keeps its type.
THEOREM TypeCorrect == Spec => []TypeOK
BY InvAlways, PTL DEF IInv

\* live_lock protects live_buffer and live_size: of all the threads that are
\* between a lock and an unlock of handle_broadcast and handle_live_view
\* there is one, the holder.
THEOREM LockExcludes == Spec => []MutualExclusion
BY InvAlways, PTL DEF IInv

\* memcpy never writes past live_buffer, whatever recv returns.
THEOREM CopyFits == Spec => []BufferBound
BY InvAlways, PTL DEF IInv

\* No viewer gets a chunk whose length differs from its header, although
\* live_size is read again for the body.
THEOREM ChunksAreHonest == Spec => []ChunkHonest
BY InvAlways, PTL DEF IInv

\* live_buffer and live_size are frozen while a viewer is in its chunk.
THEOREM SnapshotIsStable == Spec => StableSnapshot
<1> DEFINE Frozen == \A v \in Viewers :
      vpc[v] \in {"call", "body", "tail"} => UNCHANGED <<live_size, live_buffer>>
<1>1. IInv /\ [Next]_vars => [Frozen]_vars
  <2> SUFFICES ASSUME IInv, Next PROVE Frozen
    OBVIOUS
  <2>1. ASSUME NEW b \in Broadcasters, Recv(b) \/ RecvEnd(b) \/ BroadcasterStep(b)
        PROVE  Frozen
    BY <2>1, LiveAssumption DEF BroadcasterStep, Recv, RecvEnd, LockB, Check, Copy, Grow,
       UnlockB, IInv, MutualExclusion, BCritical, VCritical
  <2>2. ASSUME NEW w \in Viewers, ViewerStep(w)
        PROVE  Frozen
    BY <2>2 DEF ViewerStep, Hello, LockV, Test, ChunkHeader, Call, ChunkBody,
       ChunkBodyFails, ChunkTrailer, Reset, UnlockV, IInv, MutualExclusion, VCritical
  <2>3. ASSUME NEW w \in Viewers, Killed(w) \/ Stall(w) \/ Resume(w) \/ Leave(w)
        PROVE  Frozen
    BY <2>3 DEF Killed, Stall, Resume, Leave
  <2>4. QED
    BY <2>1, <2>2, <2>3 DEF Next
<1>2. QED
  BY <1>1, InvAlways, PTL DEF Spec, StableSnapshot

----------------------------------------------------------------------------
(***************************************************************************)
(* The order of the bytes: none of an upload reaches two viewers, or one   *)
(* viewer twice, or out of its order.                                      *)
(*                                                                         *)
(* What makes it so is an order between three places: what peers have got  *)
(* is older than the content of live_buffer, but for the chunk that is     *)
(* being sent, which is the front of the content; and the content is older *)
(* than the pieces in the hands of the broadcasters.                       *)
(***************************************************************************)

\* What broadcaster b has handed to live_buffer or dropped: the piece it
\* still has in its hands does not count.
Base(b) == IF bpc[b] \in {"lock", "check", "copy", "grow"} THEN fed[b] - Len(buf[b]) ELSE fed[b]

\* A piece in a broadcaster's hands follows what it has handed over; once
\* copied, it lies behind the content.
PieceInv == \A b \in Broadcasters :
    /\ bpc[b] \in {"lock", "check", "copy", "grow"} =>
         /\ Len(buf[b]) <= fed[b]
         /\ \A q \in 1..Len(buf[b]) : buf[b][q] = <<b, fed[b] - Len(buf[b]) + q>>
    /\ bpc[b] = "grow" => \A q \in 1..Len(buf[b]) : live_buffer[live_size + q - 1] = buf[b][q]

\* x comes before y, if they come from one upload.
Before(x, y) == x[1] = y[1] => x[2] < y[2]

HandedOn(x) == x \in Bytes /\ x[2] <= Base(x[1])

\* The content of live_buffer is in order, and all of it was handed over.
ContentInv ==
    /\ \A i \in 0..live_size - 1 : HandedOn(live_buffer[i])
    /\ \A i, j \in 0..live_size - 1 : i < j => Before(live_buffer[i], live_buffer[j])

Old(body) == \A p \in DOMAIN body : \A q \in 0..live_size - 1 : Before(body[p], live_buffer[q])
Prefix(body) == \A p \in DOMAIN body : p - 1 \in 0..live_size - 1 /\ body[p] = live_buffer[p - 1]
Sending(v, i) == vpc[v] \in {"call", "body", "tail", "reset"} /\ i = Len(out[v])

\* A chunk is older than the content, or it is the one being sent and holds
\* the front of the content.
ChunkInv == \A v \in Viewers :
    /\ \A i \in DOMAIN out[v] :
         /\ \A p \in DOMAIN out[v][i].body : HandedOn(out[v][i].body[p])
         /\ Old(out[v][i].body) \/ (Sending(v, i) /\ Prefix(out[v][i].body))
    /\ vpc[v] \in {"call", "body", "tail"} /\ peer[v] # "gone" => Prefix(out[v][Len(out[v])].body)

\* What DeliveredOnceInOrder says of two bytes.
InOrder(v, w, i, j, p, q) ==
    LET x == out[v][i].body[p]
        y == out[w][j].body[q]
    IN  /\ x # NoByte
        /\ x = y => v = w /\ i = j /\ p = q
        /\ (v = w /\ x[1] = y[1] /\ (i < j \/ (i = j /\ p < q))) => x[2] < y[2]

OrderInv == PieceInv /\ ContentInv /\ ChunkInv /\ DeliveredOnceInOrder

----------------------------------------------------------------------------
\* The initial states

LEMMA OrderInit == Init => OrderInv
<1> SUFFICES ASSUME Init PROVE OrderInv
  OBVIOUS
<1>1. /\ \A b \in Broadcasters : bpc[b] = "recv"
      /\ \A v \in Viewers : vpc[v] = "hello" /\ DOMAIN out[v] = {}
      /\ live_size = 0
  BY DEF Init
<1>2. PieceInv
  BY <1>1 DEF PieceInv
<1>3. ContentInv
  BY <1>1 DEF ContentInv
<1>4. ChunkInv
  BY <1>1 DEF ChunkInv
<1>5. DeliveredOnceInOrder
  BY <1>1 DEF DeliveredOnceInOrder
<1> QED BY <1>2, <1>3, <1>4, <1>5 DEF OrderInv

----------------------------------------------------------------------------
\* Steps that leave the content and what peers have got as they are

SameBodies == \A v \in Viewers :
    /\ DOMAIN out'[v] = DOMAIN out[v] /\ Len(out'[v]) = Len(out[v])
    /\ \A i \in DOMAIN out[v] : out'[v][i].body = out[v][i].body

SameContent ==
    /\ live_size' = live_size
    /\ \A i \in 0..live_size - 1 : live_buffer'[i] = live_buffer[i]

\* Nobody takes back what it has handed over.
BaseGrows == \A b \in Broadcasters : Base(b)' >= Base(b)

\* Viewers stay in the chunk they send, or were not in one.
SameSending == \A v \in Viewers :
    /\ vpc[v] \in {"call", "body", "tail", "reset"} => vpc'[v] \in {"call", "body", "tail", "reset"}
    /\ vpc'[v] \in {"call", "body", "tail"} /\ peer'[v] # "gone" =>
         vpc[v] \in {"call", "body", "tail"} /\ peer[v] # "gone"

LEMMA BaseType ==
    ASSUME TypeOK, PieceInv
    PROVE  \A b \in Broadcasters : Base(b) \in Nat
BY DEF TypeOK, PieceInv, Base

LEMMA HandedOnStays ==
    ASSUME TypeOK, PieceInv, TypeOK', PieceInv', BaseGrows
    PROVE  \A x : HandedOn(x) => HandedOn(x)'
<1> SUFFICES ASSUME NEW x, HandedOn(x) PROVE HandedOn(x)'
  OBVIOUS
<1>1. x \in Bytes /\ x[1] \in Broadcasters /\ x[2] \in Nat /\ x[2] <= Base(x[1])
  BY DEF HandedOn, Bytes
<1>2. ASSUME NEW b \in Broadcasters PROVE Base(b)' \in Nat
  <2>1. fed'[b] \in Nat /\ Len(buf'[b]) \in Nat
    BY LenProperties DEF TypeOK
  <2>2. bpc'[b] \in {"lock", "check", "copy", "grow"} => Len(buf'[b]) <= fed'[b]
    BY DEF PieceInv
  <2> QED BY <2>1, <2>2 DEF Base
<1>3. Base(x[1]) \in Nat /\ Base(x[1])' \in Nat /\ Base(x[1])' >= Base(x[1])
  BY <1>1, <1>2, BaseType DEF BaseGrows
<1> QED BY <1>1, <1>3 DEF HandedOn

LEMMA OrderKept ==
    ASSUME IInv, OrderInv, TypeOK', PieceInv', BaseGrows, SameContent, SameBodies, SameSending
    PROVE  OrderInv'
<1>1. \A x : HandedOn(x) => HandedOn(x)'
  BY HandedOnStays DEF OrderInv, IInv
<1>2. ContentInv'
  BY <1>1 DEF OrderInv, ContentInv, SameContent, Before
<1>3. \A body : (Old(body) => Old(body)') /\ (Prefix(body) => Prefix(body)')
  BY DEF Old, Prefix, SameContent
<1>4. \A v \in Viewers : \A i : Sending(v, i) => Sending(v, i)'
  BY DEF Sending, SameSending, SameBodies
<1>5. ASSUME NEW v \in Viewers, vpc'[v] \in {"call", "body", "tail"}, peer'[v] # "gone"
      PROVE  Prefix(out[v][Len(out[v])].body)'
  <2>1. vpc[v] \in {"call", "body", "tail"} /\ peer[v] # "gone"
    BY <1>5 DEF SameSending
  <2>2. Prefix(out[v][Len(out[v])].body)
    BY <2>1 DEF OrderInv, ChunkInv
  <2>3. out[v] \in Seq(Chunk) /\ out[v] # <<>> /\ Len(out[v]) \in DOMAIN out[v]
    BY <2>1, EmptySeq, LenProperties DEF IInv, SendInv, TypeOK
  <2>4. out'[v][Len(out'[v])].body = out[v][Len(out[v])].body
    BY <2>3 DEF SameBodies
  <2> QED BY <1>3, <2>2, <2>4
<1>6. ChunkInv'
  <2> SUFFICES ASSUME NEW v \in Viewers, NEW i \in DOMAIN out'[v]
               PROVE  /\ \A p \in DOMAIN out'[v][i].body : HandedOn(out[v][i].body[p])'
                      /\ Old(out[v][i].body)' \/ (Sending(v, i)' /\ Prefix(out[v][i].body)')
    BY <1>5 DEF ChunkInv
  <2>1. i \in DOMAIN out[v] /\ out'[v][i].body = out[v][i].body
    BY DEF SameBodies
  <2>2. /\ \A p \in DOMAIN out[v][i].body : HandedOn(out[v][i].body[p])
        /\ Old(out[v][i].body) \/ (Sending(v, i) /\ Prefix(out[v][i].body))
    BY <2>1 DEF OrderInv, ChunkInv
  <2> QED BY <1>1, <1>3, <1>4, <2>1, <2>2
<1>7. DeliveredOnceInOrder'
  <2> SUFFICES ASSUME NEW v \in Viewers, NEW w \in Viewers,
                      NEW i \in DOMAIN out'[v], NEW j \in DOMAIN out'[w],
                      NEW p \in DOMAIN out'[v][i].body, NEW q \in DOMAIN out'[w][j].body
               PROVE  InOrder(v, w, i, j, p, q)'
    BY DEF DeliveredOnceInOrder, InOrder
  <2>1. /\ i \in DOMAIN out[v] /\ out'[v][i].body = out[v][i].body
        /\ j \in DOMAIN out[w] /\ out'[w][j].body = out[w][j].body
    BY DEF SameBodies
  <2>2. InOrder(v, w, i, j, p, q)
    BY <2>1 DEF OrderInv, DeliveredOnceInOrder, InOrder
  <2> QED BY <2>1, <2>2 DEF InOrder
<1> QED BY <1>2, <1>6, <1>7 DEF OrderInv

----------------------------------------------------------------------------
\* The broadcasters

LEMMA PieceIs ==
    ASSUME NEW b \in Broadcasters, NEW f \in Nat, NEW n \in Nat, f + n <= MaxBytes
    PROVE  Len(Piece(b, f, n)) = n /\ \A q \in 1..n : Piece(b, f, n)[q] = <<b, f + q>>
<1>1. Piece(b, f, n) \in Seq(Bytes) /\ DOMAIN Piece(b, f, n) = 1..n
  BY PieceType DEF Piece
<1>2. Len(Piece(b, f, n)) = n
  BY <1>1, LenProperties
<1> QED BY <1>2 DEF Piece

LEMMA OthersPieces ==
    ASSUME PieceInv, NEW b \in Broadcasters,
           \A c \in Broadcasters \ {b} : UNCHANGED <<bpc[c], buf[c], fed[c]>>,
           SameContent, UNCHANGED live_buffer \/ \A c \in Broadcasters \ {b} : bpc[c] # "grow"
    PROVE  \A c \in Broadcasters \ {b} :
              /\ Base(c)' = Base(c)
              /\ bpc'[c] \in {"lock", "check", "copy", "grow"} =>
                   /\ Len(buf'[c]) <= fed'[c]
                   /\ \A q \in 1..Len(buf'[c]) : buf'[c][q] = <<c, fed'[c] - Len(buf'[c]) + q>>
              /\ bpc'[c] = "grow" =>
                   \A q \in 1..Len(buf'[c]) : live_buffer'[live_size' + q - 1] = buf'[c][q]
BY DEF PieceInv, SameContent, Base

LEMMA BroadcasterOrder ==
    ASSUME IInv, TypeOK', OrderInv, NEW b \in Broadcasters,
           Recv(b) \/ RecvEnd(b) \/ LockB(b) \/ Check(b) \/ Copy(b) \/ UnlockB(b)
    PROVE  OrderInv'
<1> USE DEF BGoto, bvars, vvars
<1>1. /\ UNCHANGED <<vvars, peer, live_size>>
      /\ \A c \in Broadcasters \ {b} : UNCHANGED <<bpc[c], buf[c], fed[c]>>
  BY DEF Recv, RecvEnd, LockB, Check, Copy, UnlockB, IInv, TypeOK
<1>2. SameBodies /\ SameSending
  BY <1>1 DEF SameBodies, SameSending
<1>3. SameContent
  <2>1. CASE Copy(b)
    <3> SUFFICES ASSUME NEW i \in 0..live_size - 1 PROVE live_buffer'[i] = live_buffer[i]
      BY <1>1 DEF SameContent
    <3>1. live_size \in Nat /\ live_size < LIVE_BUF /\ LIVE_BUF \in Nat
          /\ live_buffer \in [0..LIVE_BUF - 1 -> Bytes \cup {NoByte}]
      BY LiveAssumption DEF IInv, TypeOK, BufferBound, LiveAssumption
    <3>2. i \in DOMAIN live_buffer /\ i - live_size < 0 /\ i - live_size \in Int
      BY <3>1
    <3>3. i - live_size \notin 0..Len(buf[b]) - 1
      BY <3>2
    <3> QED BY <2>1, <3>2, <3>3 DEF Copy
  <2>2. CASE ~Copy(b)
    BY <1>1, <2>2 DEF Recv, RecvEnd, LockB, Check, UnlockB, SameContent
  <2> QED BY <2>1, <2>2
<1>4. UNCHANGED live_buffer \/ \A c \in Broadcasters \ {b} : bpc[c] # "grow"
  BY DEF Recv, RecvEnd, LockB, Check, Copy, UnlockB, IInv, MutualExclusion, BCritical
<1>5. /\ Base(b)' >= Base(b)
      /\ bpc'[b] \in {"lock", "check", "copy", "grow"} =>
           /\ Len(buf'[b]) <= fed'[b]
           /\ \A q \in 1..Len(buf'[b]) : buf'[b][q] = <<b, fed'[b] - Len(buf'[b]) + q>>
      /\ bpc'[b] = "grow" =>
           \A q \in 1..Len(buf'[b]) : live_buffer'[live_size' + q - 1] = buf'[b][q]
  <2>1. /\ bpc \in [Broadcasters -> BLabel] /\ buf \in [Broadcasters -> Seq(Bytes)]
        /\ fed \in [Broadcasters -> Nat] /\ live_size \in Nat
        /\ live_buffer \in [0..LIVE_BUF - 1 -> Bytes \cup {NoByte}]
        /\ fed[b] \in Nat /\ Len(buf[b]) \in Nat
    BY LenProperties DEF IInv, TypeOK
  <2>2. bpc[b] \in {"lock", "check", "copy", "grow"} =>
           /\ Len(buf[b]) <= fed[b]
           /\ \A q \in 1..Len(buf[b]) : buf[b][q] = <<b, fed[b] - Len(buf[b]) + q>>
    BY DEF OrderInv, PieceInv
  <2>3. CASE Recv(b)
    <3>1. PICK n \in 1..BUFFER :
            /\ fed[b] + n <= MaxBytes
            /\ buf' = [buf EXCEPT ![b] = Piece(b, fed[b], n)] /\ fed' = [fed EXCEPT ![b] = @ + n]
      BY <2>3 DEF Recv
    <3>2. n \in Nat /\ Len(Piece(b, fed[b], n)) = n /\ \A q \in 1..n : Piece(b, fed[b], n)[q] = <<b, fed[b] + q>>
      <4>1. n \in Nat
        BY LiveAssumption DEF LiveAssumption
      <4>2. fed[b] \in Nat /\ fed[b] + n <= MaxBytes
        BY <2>1, <3>1
      <4> QED BY <4>1, <4>2, PieceIs
    <3>3. buf'[b] = Piece(b, fed[b], n) /\ fed'[b] = fed[b] + n /\ bpc[b] = "recv" /\ bpc'[b] = "lock"
      BY <2>1, <2>3, <3>1 DEF Recv
    <3> QED BY <2>1, <3>2, <3>3 DEF Base
  <2>4. CASE RecvEnd(b) \/ LockB(b) \/ Check(b)
    <3>1. UNCHANGED <<buf, fed>> /\ bpc'[b] \notin {"recv", "grow"} /\ bpc[b] # "grow"
          /\ (bpc'[b] \in {"lock", "check", "copy"} => bpc[b] \in {"lock", "check"})
      BY <2>1, <2>4 DEF RecvEnd, LockB, Check
    <3> QED BY <2>1, <2>2, <3>1 DEF Base
  <2>5. CASE Copy(b)
    <3>1. UNCHANGED <<buf, fed, live_size>> /\ bpc'[b] = "grow" /\ bpc[b] = "copy"
      BY <2>1, <2>5 DEF Copy
    <3>2. live_size + Len(buf[b]) < LIVE_BUF
      BY <3>1 DEF IInv, BufferBound
    <3>3. \A q \in 1..Len(buf[b]) : live_buffer'[live_size + q - 1] = buf[b][q]
      <4> SUFFICES ASSUME NEW q \in 1..Len(buf[b]) PROVE live_buffer'[live_size + q - 1] = buf[b][q]
        OBVIOUS
      <4>1. live_size + q - 1 \in DOMAIN live_buffer
        BY <2>1, <3>2, LiveAssumption DEF LiveAssumption
      <4> PICK i \in DOMAIN live_buffer : i = live_size + q - 1
        BY <4>1
      <4>2. i - live_size \in 0..Len(buf[b]) - 1 /\ i - live_size + 1 = q
        BY <2>1
      <4>3. live_buffer'[i] = IF i - live_size \in 0..Len(buf[b]) - 1
                              THEN buf[b][i - live_size + 1] ELSE live_buffer[i]
        BY <2>5 DEF Copy
      <4> QED BY <4>2, <4>3
    <3> QED BY <2>1, <2>2, <3>1, <3>3 DEF Base
  <2>6. CASE UnlockB(b)
    <3>1. UNCHANGED fed /\ bpc'[b] = "recv" /\ bpc[b] = "unlock"
      BY <2>1, <2>6 DEF UnlockB
    <3> QED BY <2>1, <3>1 DEF Base
  <2> QED BY <2>3, <2>4, <2>5, <2>6
<1>6. \A c \in Broadcasters \ {b} :
              /\ Base(c)' = Base(c)
              /\ bpc'[c] \in {"lock", "check", "copy", "grow"} =>
                   /\ Len(buf'[c]) <= fed'[c]
                   /\ \A q \in 1..Len(buf'[c]) : buf'[c][q] = <<c, fed'[c] - Len(buf'[c]) + q>>
              /\ bpc'[c] = "grow" =>
                   \A q \in 1..Len(buf'[c]) : live_buffer'[live_size' + q - 1] = buf'[c][q]
  BY <1>1, <1>3, <1>4, OthersPieces DEF OrderInv
<1>7. PieceInv'
  BY <1>5, <1>6 DEF PieceInv
<1>8. \A c \in Broadcasters : Base(c) \in Nat
  BY BaseType DEF IInv, OrderInv
<1>9. BaseGrows
  BY <1>5, <1>6, <1>8 DEF BaseGrows
<1> QED BY <1>2, <1>3, <1>7, <1>9, OrderKept

\* What Grow adds to the content is younger than all that is there.
LEMMA GrowOrder ==
    ASSUME IInv, TypeOK', OrderInv, NEW b \in Broadcasters, Grow(b)
    PROVE  OrderInv'
<1> DEFINE n == Len(buf[b])
<1>1. /\ bpc[b] = "grow" /\ bpc' = [bpc EXCEPT ![b] = "unlock"] /\ live_size' = live_size + n
      /\ UNCHANGED <<lock, live_buffer, buf, fed, vpc, len, sent, out, peer>>
  BY DEF Grow, BGoto, vvars
<1>2. /\ bpc \in [Broadcasters -> BLabel] /\ live_size \in Nat /\ n \in Nat
      /\ fed \in [Broadcasters -> Nat] /\ n <= fed[b]
      /\ \A q \in 1..n : live_buffer[live_size + q - 1] = <<b, fed[b] - n + q>>
      /\ \A q \in 1..n : <<b, fed[b] - n + q>> \in Bytes
  <2>1. buf[b] \in Seq(Bytes) /\ \A q \in 1..n : buf[b][q] \in Bytes
    BY LenProperties, ElementOfSeq DEF IInv, TypeOK
  <2>2. /\ Len(buf[b]) <= fed[b]
        /\ \A q \in 1..Len(buf[b]) : buf[b][q] = <<b, fed[b] - Len(buf[b]) + q>>
        /\ \A q \in 1..Len(buf[b]) : live_buffer[live_size + q - 1] = buf[b][q]
    BY <1>1 DEF OrderInv, PieceInv
  <2>3. /\ bpc \in [Broadcasters -> BLabel] /\ live_size \in Nat /\ n \in Nat
        /\ fed \in [Broadcasters -> Nat]
    BY <2>1, LenProperties DEF IInv, TypeOK
  <2>4. \A q \in 1..n : <<b, fed[b] - n + q>> \in Bytes
    BY <2>1, <2>2
  <2> QED BY <2>2, <2>3, <2>4
<1>3. /\ \A v \in Viewers : ~VCritical(v)
      /\ \A c \in Broadcasters : c # b => bpc[c] # "grow"
  BY <1>1, LiveAssumption DEF IInv, MutualExclusion, BCritical, LiveAssumption
<1>4. PieceInv'
  BY <1>1, <1>2, <1>3 DEF OrderInv, PieceInv
<1>5. Base(b) = fed[b] - n /\ Base(b)' = fed[b]
  BY <1>1, <1>2 DEF Base
<1>6. \A c \in Broadcasters : c # b => Base(c)' = Base(c)
  BY <1>1, <1>2 DEF Base
<1>7. BaseGrows
  <2>1. \A c \in Broadcasters : Base(c) \in Nat
    BY BaseType DEF IInv, OrderInv
  <2> QED BY <1>2, <1>5, <1>6, <2>1 DEF BaseGrows
<1>8. \A x : HandedOn(x) => HandedOn(x)'
  BY <1>4, <1>7, HandedOnStays DEF OrderInv, IInv
<1> HIDE DEF n
<1>9. \A q \in 0..live_size' - 1 :
        q \in 0..live_size - 1 \/ \E r \in 1..n : q = live_size + r - 1
  <2> SUFFICES ASSUME NEW q \in 0..live_size' - 1, q \notin 0..live_size - 1
               PROVE  \E r \in 1..n : q = live_size + r - 1
    OBVIOUS
  <2>1. q - live_size + 1 \in 1..n /\ q = live_size + (q - live_size + 1) - 1
    BY <1>1, <1>2
  <2> QED BY <2>1
<1>10. \A x, q : HandedOn(x) /\ q \in 0..live_size' - 1 /\ q \notin 0..live_size - 1
          => Before(x, live_buffer[q])
  <2> SUFFICES ASSUME NEW x, HandedOn(x), NEW q \in 0..live_size' - 1, q \notin 0..live_size - 1,
                      x[1] = live_buffer[q][1]
               PROVE  x[2] < live_buffer[q][2]
    BY DEF Before
  <2>0. PICK r \in 1..n : q = live_size + r - 1
    BY <1>9
  <2>1. live_buffer[q] = <<b, fed[b] - n + r>>
    BY <1>2, <2>0
  <2>2. x[2] \in Nat /\ x[2] <= fed[b] - n
    BY <1>5, <2>1 DEF HandedOn, Bytes
  <2> QED BY <1>2, <2>1, <2>2
<1>11. ContentInv'
  <2>1. ASSUME NEW q \in 0..live_size' - 1 PROVE HandedOn(live_buffer[q])'
    <3>1. CASE q \in 0..live_size - 1
      BY <1>1, <1>8, <3>1 DEF OrderInv, ContentInv
    <3>2. CASE q \notin 0..live_size - 1
      <4>1. PICK r \in 1..n : q = live_size + r - 1
        BY <1>9, <3>2
      <4>2. live_buffer[q] = <<b, fed[b] - n + r>>
        BY <1>2, <4>1
      <4>3. live_buffer[q] \in Bytes
        BY <1>2, <4>2
      <4>4. live_buffer[q][2] <= fed[b]
        BY <1>2, <4>2
      <4> QED BY <1>1, <1>5, <4>2, <4>3, <4>4 DEF HandedOn
    <3> QED BY <3>1, <3>2
  <2>2. ASSUME NEW i \in 0..live_size' - 1, NEW j \in 0..live_size' - 1, i < j
        PROVE  Before(live_buffer[i], live_buffer[j])
    <3>1. CASE i \in 0..live_size - 1 /\ j \in 0..live_size - 1
      BY <2>2, <3>1 DEF OrderInv, ContentInv
    <3>2. CASE i \in 0..live_size - 1 /\ j \notin 0..live_size - 1
      BY <1>10, <3>2 DEF OrderInv, ContentInv
    <3>3. CASE i \notin 0..live_size - 1
      <4>1. PICK r \in 1..n : i = live_size + r - 1 /\ live_buffer[i] = <<b, fed[b] - n + r>>
        BY <1>2, <1>9, <3>3
      <4>2. j \notin 0..live_size - 1
        BY <1>2, <2>2, <4>1
      <4>3. PICK s \in 1..n : j = live_size + s - 1 /\ live_buffer[j] = <<b, fed[b] - n + s>>
        BY <1>2, <1>9, <4>2, ZenonT(60)
      <4>4. r < s
        BY <1>2, <2>2, <4>1, <4>3
      <4> QED BY <1>2, <4>1, <4>3, <4>4 DEF Before
    <3> QED BY <3>1, <3>2, <3>3
  <2>3. live_buffer' = live_buffer
    BY <1>1
  <2> QED BY <2>1, <2>2, <2>3 DEF ContentInv, Before
<1>12. ChunkInv'
  <2> SUFFICES ASSUME NEW v \in Viewers, NEW i \in DOMAIN out[v]
               PROVE  /\ \A p \in DOMAIN out[v][i].body : HandedOn(out[v][i].body[p])'
                      /\ Old(out[v][i].body)'
    BY <1>1, <1>3 DEF ChunkInv, VCritical
  <2>1. /\ \A p \in DOMAIN out[v][i].body : HandedOn(out[v][i].body[p])
        /\ Old(out[v][i].body)
    BY <1>3 DEF OrderInv, ChunkInv, Sending, VCritical
  <2>2. \A p \in DOMAIN out[v][i].body : HandedOn(out[v][i].body[p])'
    BY <1>1, <1>8, <2>1
  <2>3. \A p \in DOMAIN out[v][i].body, q \in 0..live_size' - 1 :
          Before(out[v][i].body[p], live_buffer[q])
    BY <1>10, <2>1 DEF Old
  <2>4. UNCHANGED <<live_buffer, out>>
    BY <1>1
  <2> QED BY <2>2, <2>3, <2>4 DEF Old, Before
<1>13. DeliveredOnceInOrder'
  BY <1>1 DEF OrderInv, DeliveredOnceInOrder
<1> QED BY <1>4, <1>11, <1>12, <1>13 DEF OrderInv

----------------------------------------------------------------------------
\* The viewers and their peers

LEMMA PiecesStay ==
    ASSUME PieceInv, UNCHANGED <<bvars, live_buffer, live_size>>
    PROVE  PieceInv' /\ SameContent /\ \A b \in Broadcasters : Base(b)' = Base(b)
BY DEF PieceInv, SameContent, Base, bvars

\* Steps that send nothing of the content.
LEMMA QuietViewerOrder ==
    ASSUME IInv, TypeOK', OrderInv, NEW v \in Viewers,
           \/ Hello(v) \/ LockV(v) \/ Test(v) \/ Call(v) \/ ChunkBodyFails(v) \/ ChunkTrailer(v)
           \/ UnlockV(v) \/ Killed(v) \/ Stall(v) \/ Resume(v) \/ Leave(v)
    PROVE  OrderInv'
<1> USE DEF VGoto, bvars, vvars
<1>1. UNCHANGED <<bvars, live_buffer, live_size>>
  BY DEF Hello, LockV, Test, Call, ChunkBodyFails, ChunkTrailer, UnlockV, Killed, Stall, Resume, Leave
<1>2. PieceInv' /\ SameContent /\ BaseGrows
  <2>1. \A b \in Broadcasters : Base(b) \in Nat
    BY BaseType DEF IInv, OrderInv
  <2> QED BY <1>1, <2>1, PiecesStay DEF OrderInv, BaseGrows
<1>3. SameSending
  BY DEF Hello, LockV, Test, Call, ChunkBodyFails, ChunkTrailer, UnlockV, Killed, Stall, Resume,
         Leave, SameSending, IInv, TypeOK
<1>4. SameBodies
  <2>1. CASE ~ChunkTrailer(v)
    BY <2>1 DEF Hello, LockV, Test, Call, ChunkBodyFails, UnlockV, Killed, Stall, Resume, Leave, SameBodies
  <2>2. CASE ChunkTrailer(v)
    <3>1. out \in [Viewers -> Seq(Chunk)]
      BY DEF IInv, TypeOK
    <3>2. CASE ~Delivers(v)
      BY <2>2, <3>1, <3>2 DEF ChunkTrailer, SameBodies
    <3>3. CASE Delivers(v)
      <4>1. out' = [out EXCEPT ![v] = CloseLast(@)] /\ out[v] # <<>>
        <5>1. vpc[v] = "tail" /\ peer[v] # "gone" /\ out' = [out EXCEPT ![v] = CloseLast(@)]
          BY <2>2, <3>3 DEF ChunkTrailer, Delivers
        <5> QED BY <5>1 DEF IInv, SendInv
      <4>2. DOMAIN CloseLast(out[v]) = DOMAIN out[v] /\ Len(CloseLast(out[v])) = Len(out[v])
            /\ \A i \in DOMAIN out[v] : CloseLast(out[v])[i].body = out[v][i].body
        <5>1. out[v] \in Seq(Chunk)
          BY <3>1
        <5> HIDE DEF bvars, vvars
        <5>2. DOMAIN out[v] = 1..Len(out[v]) /\ \A i \in DOMAIN out[v] : out[v][i] \in Chunk
          BY <5>1, LenProperties, ElementOfSeq
        <5>3. CloseLast(out[v]) \in Seq(Chunk) /\ Len(CloseLast(out[v])) = Len(out[v])
          BY <4>1, <5>1, CloseLastType
        <5>4. \A i \in DOMAIN out[v] : CloseLast(out[v])[i].body = out[v][i].body
          BY <5>2 DEF CloseLast, Chunk
        <5> QED BY <5>2, <5>3, <5>4, LenProperties
      <4> QED BY <3>1, <4>1, <4>2 DEF SameBodies
    <3> QED BY <3>2, <3>3
  <2> QED BY <2>1, <2>2
<1> QED BY <1>2, <1>3, <1>4, OrderKept

\* An emptied buffer leaves all chunks older than its content.
LEMMA ResetOrder ==
    ASSUME IInv, TypeOK', OrderInv, NEW v \in Viewers, Reset(v)
    PROVE  OrderInv'
<1>1. /\ vpc[v] = "reset" /\ vpc' = [vpc EXCEPT ![v] = "unlock"] /\ live_size' = 0
      /\ UNCHANGED <<lock, live_buffer, bpc, buf, fed, len, sent, peer, out>>
  BY DEF Reset, VGoto, bvars
<1>2. /\ \A b \in Broadcasters : bpc[b] # "grow"
      /\ \A w \in Viewers : vpc'[w] \notin {"call", "body", "tail"}
  BY <1>1, LiveAssumption DEF IInv, TypeOK, MutualExclusion, BCritical, VCritical, LiveAssumption
<1>3. PieceInv' /\ \A b \in Broadcasters : Base(b)' = Base(b)
  BY <1>1, <1>2 DEF OrderInv, PieceInv, Base
<1>4. \A x : HandedOn(x) => HandedOn(x)'
  BY <1>3 DEF HandedOn, Bytes
<1>5. ContentInv'
  BY <1>1 DEF ContentInv
<1>6. \A body : Old(body)'
  BY <1>1 DEF Old
<1>7. ChunkInv'
  BY <1>1, <1>2, <1>4, <1>6 DEF OrderInv, ChunkInv
<1>8. DeliveredOnceInOrder'
  BY <1>1 DEF OrderInv, DeliveredOnceInOrder
<1> QED BY <1>3, <1>5, <1>7, <1>8 DEF OrderInv

\* A chunk starts empty, and when it starts all others are older than the
\* content.
LEMMA HeaderOrder ==
    ASSUME IInv, TypeOK', OrderInv, NEW v \in Viewers, ChunkHeader(v)
    PROVE  OrderInv'
<1>1. /\ vpc[v] = "head" /\ vpc' = [vpc EXCEPT ![v] = "call"]
      /\ out' = [out EXCEPT ![v] = IF Delivers(v) THEN Append(@, NewChunk(live_size)) ELSE @]
      /\ peer[v] # "gone" => Delivers(v)
      /\ UNCHANGED <<lock, live_buffer, live_size, bvars, len, sent, peer>>
  BY DEF ChunkHeader, VGoto, Writable, Delivers, IInv, TypeOK
<1>2. /\ out \in [Viewers -> Seq(Chunk)] /\ vpc \in [Viewers -> VLabel] /\ live_size \in Nat
      /\ \A w \in Viewers : Len(out[w]) \in Nat /\ DOMAIN out[w] = 1..Len(out[w])
  BY LenProperties DEF IInv, TypeOK
<1>3. PieceInv' /\ SameContent /\ \A b \in Broadcasters : Base(b)' = Base(b)
  BY <1>1, PiecesStay DEF OrderInv
<1>4. \A x : HandedOn(x) => HandedOn(x)'
  BY <1>3 DEF HandedOn, Bytes
<1>5. ContentInv'
  BY <1>1, <1>4 DEF OrderInv, ContentInv
<1>6. NewChunk(live_size).body = <<>> /\ NewChunk(live_size) \in Chunk
  BY <1>2, EmptySeq DEF NewChunk, Chunk
<1>7. Delivers(v) => /\ DOMAIN out'[v] = 1..(Len(out[v]) + 1) /\ Len(out'[v]) = Len(out[v]) + 1
                     /\ \A i \in DOMAIN out[v] : out'[v][i] = out[v][i]
                     /\ out'[v][Len(out[v]) + 1].body = <<>>
  <2> SUFFICES ASSUME Delivers(v)
               PROVE  /\ DOMAIN out'[v] = 1..(Len(out[v]) + 1) /\ Len(out'[v]) = Len(out[v]) + 1
                      /\ \A i \in DOMAIN out[v] : out'[v][i] = out[v][i]
                      /\ out'[v][Len(out[v]) + 1].body = <<>>
    OBVIOUS
  <2>1. out[v] \in Seq(Chunk) /\ out'[v] = Append(out[v], NewChunk(live_size))
    BY <1>1, <1>2
  <2> QED BY <1>2, <1>6, <2>1, AppendProperties, LenProperties
<1>8. \A w \in Viewers : \A i \in DOMAIN out'[w] :
        (i \in DOMAIN out[w] /\ out'[w][i].body = out[w][i].body) \/ out'[w][i].body = <<>>
  <2> SUFFICES ASSUME NEW w \in Viewers, NEW i \in DOMAIN out'[w]
               PROVE  (i \in DOMAIN out[w] /\ out'[w][i].body = out[w][i].body) \/ out'[w][i].body = <<>>
    OBVIOUS
  <2>1. CASE w = v /\ Delivers(v)
    BY <1>2, <1>7, <2>1
  <2>2. CASE ~(w = v /\ Delivers(v))
    BY <1>1, <1>2, <2>2
  <2> QED BY <2>1, <2>2
<1>9. \A w \in Viewers : ~(vpc[w] \in {"call", "body", "tail", "reset"})
  BY <1>1 DEF IInv, MutualExclusion, VCritical
<1>10. ChunkInv'
  <2>1. ASSUME NEW w \in Viewers, NEW i \in DOMAIN out'[w]
        PROVE  /\ \A p \in DOMAIN out'[w][i].body : HandedOn(out[w][i].body[p])'
               /\ \A p \in DOMAIN out'[w][i].body : \A q \in 0..live_size - 1 :
                     Before(out'[w][i].body[p], live_buffer[q])
    <3>1. CASE out'[w][i].body = <<>>
      <4>1. DOMAIN out'[w][i].body = {}
        BY <3>1
      <4> QED BY <4>1
    <3>2. CASE i \in DOMAIN out[w] /\ out'[w][i].body = out[w][i].body
      <4>1. /\ \A p \in DOMAIN out[w][i].body : HandedOn(out[w][i].body[p])
            /\ Old(out[w][i].body)
        BY <1>9, <3>2 DEF OrderInv, ChunkInv, Sending
      <4> QED BY <1>4, <3>2, <4>1 DEF Old
    <3> QED BY <1>8, <3>1, <3>2
  <2>2. \A w \in Viewers : vpc'[w] \in {"call", "body", "tail"} => w = v
    BY <1>1, <1>2, <1>9
  <2>3. peer'[v] # "gone" => out'[v][Len(out'[v])].body = <<>>
    BY <1>1, <1>7
  <2>4. UNCHANGED <<live_buffer, live_size>>
    BY <1>1
  <2>5. \A w \in Viewers : vpc'[w] \in {"call", "body", "tail"} /\ peer'[w] # "gone" =>
          out'[w][Len(out'[w])].body = <<>>
    BY <2>2, <2>3
  <2>6. DOMAIN <<>> = {}
    OBVIOUS
  <2> QED BY <2>1, <2>4, <2>5, <2>6 DEF ChunkInv, Old, Prefix, Before
<1>11. DeliveredOnceInOrder'
  <2> SUFFICES ASSUME NEW u \in Viewers, NEW w \in Viewers,
                      NEW i \in DOMAIN out'[u], NEW j \in DOMAIN out'[w],
                      NEW p \in DOMAIN out'[u][i].body, NEW q \in DOMAIN out'[w][j].body
               PROVE  InOrder(u, w, i, j, p, q)'
    BY DEF DeliveredOnceInOrder, InOrder
  <2>1. /\ i \in DOMAIN out[u] /\ out'[u][i].body = out[u][i].body
        /\ j \in DOMAIN out[w] /\ out'[w][j].body = out[w][j].body
    BY <1>8
  <2>2. InOrder(u, w, i, j, p, q)
    BY <2>1 DEF OrderInv, DeliveredOnceInOrder, InOrder
  <2> QED BY <2>1, <2>2 DEF InOrder
<1> QED BY <1>3, <1>5, <1>10, <1>11 DEF OrderInv

\* The elements of one sequence put after another.
LEMMA PutAfter ==
    ASSUME NEW S, NEW s \in Seq(S), NEW t \in Seq(S)
    PROVE  /\ DOMAIN (s \o t) = 1..(Len(s) + Len(t))
           /\ \A p \in 1..(Len(s) + Len(t)) : (s \o t)[p] = IF p <= Len(s) THEN s[p] ELSE t[p - Len(s)]
<1>1. s \o t \in Seq(S) /\ Len(s \o t) = Len(s) + Len(t)
  BY ConcatProperties
<1>2. DOMAIN (s \o t) = 1..Len(s \o t)
  BY <1>1, LenProperties
<1>3. \A p \in 1..(Len(s) + Len(t)) : (s \o t)[p] = IF p <= Len(s) THEN s[p] ELSE t[p - Len(s)]
  BY ConcatProperties
<1> QED BY <1>1, <1>2, <1>3

\* What a chunk with the next bytes of the buffer has in it.
LEMMA Appended ==
    ASSUME IInv, OrderInv, NEW v \in Viewers, vpc[v] = "body", peer[v] = "reading",
           NEW k \in 1..len[v] - sent[v]
    PROVE  LET c == AddToLast(out[v], Slice(sent[v], k))
               n == Len(out[v])
           IN  /\ n \in DOMAIN out[v] /\ DOMAIN c = DOMAIN out[v] /\ Len(c) = n
               /\ \A j \in DOMAIN out[v] : j # n => c[j] = out[v][j]
               /\ DOMAIN c[n].body = 1..(sent[v] + k)
               /\ \A p \in 1..(sent[v] + k) : p - 1 \in 0..live_size - 1 /\ c[n].body[p] = live_buffer[p - 1]
<1> DEFINE c == AddToLast(out[v], Slice(sent[v], k))
           n == Len(out[v])
           old == out[v][n].body
           new == Slice(sent[v], k)
<1>1. /\ out[v] \in Seq(Chunk) /\ out[v] # <<>> /\ sent[v] \in Nat /\ live_size \in Nat
      /\ Len(old) = sent[v] /\ len[v] = live_size /\ live_size < LIVE_BUF /\ LIVE_BUF \in Nat
  BY LiveAssumption DEF IInv, TypeOK, SendInv, BufferBound, Last, LiveAssumption
<1>2. k \in Nat /\ sent[v] + k <= live_size /\ sent[v] + k <= LIVE_BUF
  BY <1>1
<1>3. n \in DOMAIN out[v] /\ DOMAIN out[v] = 1..n /\ out[v][n] \in Chunk
  BY <1>1, EmptySeq, LenProperties, ElementOfSeq
<1>4. old \in Seq(Bytes \cup {NoByte}) /\ Prefix(old)
  BY <1>3 DEF Chunk, OrderInv, ChunkInv
<1>5. new \in Seq(Bytes \cup {NoByte}) /\ Len(new) = k /\ \A i \in 1..k : new[i] = live_buffer[sent[v] + i - 1]
  BY <1>1, <1>2, SliceType DEF Slice, IInv
<1>6. /\ DOMAIN (old \o new) = 1..(sent[v] + k)
      /\ \A p \in 1..(sent[v] + k) : (old \o new)[p] = IF p <= sent[v] THEN old[p] ELSE new[p - sent[v]]
  <2>1. PICK s : s = old
    OBVIOUS
  <2>2. PICK t : t = new
    OBVIOUS
  <2>3. s \in Seq(Bytes \cup {NoByte}) /\ t \in Seq(Bytes \cup {NoByte}) /\ Len(s) = sent[v] /\ Len(t) = k
    BY <1>1, <1>4, <1>5, <2>1, <2>2
  <2> HIDE DEF old, new
  <2>4. /\ DOMAIN (s \o t) = 1..(Len(s) + Len(t))
        /\ \A p \in 1..(Len(s) + Len(t)) : (s \o t)[p] = IF p <= Len(s) THEN s[p] ELSE t[p - Len(s)]
    BY <2>3, PutAfter
  <2> QED BY <2>1, <2>2, <2>3, <2>4
<1>7. c[n].body = old \o new
  BY <1>3 DEF AddToLast, Chunk
<1>8. DOMAIN c = DOMAIN out[v] /\ Len(c) = n /\ \A j \in DOMAIN out[v] : j # n => c[j] = out[v][j]
  <2>1. c \in Seq(Chunk) /\ Len(c) = Len(out[v]) /\ \A j \in 1..Len(out[v]) : j # Len(out[v]) => c[j] = out[v][j]
    BY <1>1, <1>5, AddToLastType
  <2> QED BY <1>3, <2>1, LenProperties
<1>9. ASSUME NEW p \in 1..(sent[v] + k) PROVE p - 1 \in 0..live_size - 1 /\ (old \o new)[p] = live_buffer[p - 1]
  <2>1. p - 1 \in 0..live_size - 1
    BY <1>1, <1>2
  <2>2. CASE p <= sent[v]
    <3>1. p \in DOMAIN old
      BY <1>1, <1>4, <2>2, LenProperties
    <3> QED BY <1>4, <1>6, <2>1, <2>2, <3>1 DEF Prefix
  <2>3. CASE ~(p <= sent[v])
    <3> HIDE DEF old, new
    <3>1. p - sent[v] \in 1..k /\ sent[v] + (p - sent[v]) - 1 = p - 1
      BY <1>1, <1>2, <2>3
    <3>2. new[p - sent[v]] = live_buffer[sent[v] + (p - sent[v]) - 1]
      BY <1>5, <3>1
    <3>3. (old \o new)[p] = new[p - sent[v]]
      BY <1>6, <2>3
    <3>4. (old \o new)[p] = live_buffer[p - 1]
      BY <3>1, <3>2, <3>3
    <3> QED BY <2>1, <3>4
  <2> QED BY <2>2, <2>3
<1> QED BY <1>3, <1>6, <1>7, <1>8, <1>9

LEMMA BodyOrder ==
    ASSUME IInv, TypeOK', OrderInv, NEW v \in Viewers, ChunkBody(v)
    PROVE  OrderInv'
<1> PICK n : n = Len(out[v])
  OBVIOUS
<1>1. /\ vpc[v] = "body" /\ peer[v] = "reading"
      /\ UNCHANGED <<lock, live_buffer, live_size, bvars, len, peer>>
  BY DEF ChunkBody, Delivers
<1>2. PICK k \in 1..len[v] - sent[v] :
        /\ out' = [out EXCEPT ![v] = AddToLast(@, Slice(sent[v], k))]
        /\ vpc' = [vpc EXCEPT ![v] = IF sent[v] + k = len[v] THEN "tail" ELSE "body"]
  BY DEF ChunkBody, VGoto
<1>3. /\ out \in [Viewers -> Seq(Chunk)] /\ vpc \in [Viewers -> VLabel]
      /\ out'[v] = AddToLast(out[v], Slice(sent[v], k))
      /\ \A w \in Viewers : w # v => out'[w] = out[w] /\ vpc'[w] = vpc[w]
      /\ vpc'[v] \in {"tail", "body"}
  BY <1>2 DEF IInv, TypeOK
<1> DEFINE body == out'[v][n].body
<1>4. /\ n \in DOMAIN out[v] /\ DOMAIN out'[v] = DOMAIN out[v] /\ Len(out'[v]) = n
      /\ \A j \in DOMAIN out[v] : j # n => out'[v][j] = out[v][j]
      /\ DOMAIN body = 1..(sent[v] + k)
      /\ \A p \in DOMAIN body : p - 1 \in 0..live_size - 1 /\ body[p] = live_buffer[p - 1]
  <2>1. PICK c : c = AddToLast(out[v], Slice(sent[v], k))
    OBVIOUS
  <2>2. /\ n \in DOMAIN out[v] /\ DOMAIN c = DOMAIN out[v] /\ Len(c) = n
        /\ \A j \in DOMAIN out[v] : j # n => c[j] = out[v][j]
        /\ DOMAIN c[n].body = 1..(sent[v] + k)
        /\ \A p \in 1..(sent[v] + k) : p - 1 \in 0..live_size - 1 /\ c[n].body[p] = live_buffer[p - 1]
    BY <1>1, <2>1, Appended
  <2>3. out'[v] = c
    BY <1>3, <2>1
  <2> QED BY <2>2, <2>3
<1>5. PieceInv' /\ \A b \in Broadcasters : Base(b)' = Base(b)
  BY <1>1, PiecesStay DEF OrderInv
<1>6. \A x : HandedOn(x) => HandedOn(x)'
  BY <1>5 DEF HandedOn, Bytes
<1>7. ContentInv'
  BY <1>1, <1>6 DEF OrderInv, ContentInv
<1>8. \A w \in Viewers : w # v => ~VCritical(w)
  BY <1>1 DEF IInv, MutualExclusion, VCritical
<1>9. \A w \in Viewers : \A j \in DOMAIN out'[w] : ~(w = v /\ j = n) =>
        /\ j \in DOMAIN out[w] /\ out'[w][j].body = out[w][j].body
        /\ Old(out[w][j].body)
        /\ \A p \in DOMAIN out[w][j].body : HandedOn(out[w][j].body[p])
  <2> SUFFICES ASSUME NEW w \in Viewers, NEW j \in DOMAIN out'[w], ~(w = v /\ j = n)
               PROVE  /\ j \in DOMAIN out[w] /\ out'[w][j].body = out[w][j].body
                      /\ Old(out[w][j].body)
                      /\ \A p \in DOMAIN out[w][j].body : HandedOn(out[w][j].body[p])
    OBVIOUS
  <2>1. j \in DOMAIN out[w] /\ out'[w][j].body = out[w][j].body
    BY <1>3, <1>4
  <2>2. ~Sending(w, j)
    BY <1>8 DEF Sending, VCritical
  <2> QED BY <2>1, <2>2 DEF OrderInv, ChunkInv
<1>10. \A p \in DOMAIN body : HandedOn(body[p])
  BY <1>4 DEF OrderInv, ContentInv
<1> HIDE DEF body
<1>11. ChunkInv'
  <2>1. ASSUME NEW w \in Viewers, NEW j \in DOMAIN out'[w]
        PROVE  /\ \A p \in DOMAIN out'[w][j].body : HandedOn(out[w][j].body[p])'
               /\ Old(out[w][j].body)' \/ (Sending(w, j)' /\ Prefix(out[w][j].body)')
    <3>1. CASE w = v /\ j = n
      <4>1. out'[w][j].body = body
        BY <3>1 DEF body
      <4>2. Sending(w, j)'
        BY <1>3, <1>4, <3>1 DEF Sending
      <4>3. Prefix(out[w][j].body)'
        BY <1>1, <1>4, <4>1 DEF Prefix
      <4> QED BY <1>6, <1>10, <4>1, <4>2, <4>3
    <3>2. CASE ~(w = v /\ j = n)
      <4>1. /\ out'[w][j].body = out[w][j].body /\ Old(out[w][j].body)
            /\ \A p \in DOMAIN out[w][j].body : HandedOn(out[w][j].body[p])
        BY <1>9, <3>2
      <4>2. Old(out[w][j].body)'
        BY <1>1, <4>1 DEF Old, Before
      <4> QED BY <1>6, <4>1, <4>2
    <3> QED BY <3>1, <3>2
  <2>2. Prefix(out[v][Len(out[v])].body)'
    BY <1>1, <1>4 DEF Prefix, body
  <2>3. \A w \in Viewers : vpc'[w] \in {"call", "body", "tail"} => w = v
    BY <1>3, <1>8 DEF VCritical
  <2> QED BY <2>1, <2>2, <2>3 DEF ChunkInv
<1>12. \A p, q \in DOMAIN body : /\ body[p] # NoByte
                                 /\ body[p] = body[q] => p = q
                                 /\ p < q => Before(body[p], body[q])
  <2> SUFFICES ASSUME NEW p \in DOMAIN body, NEW q \in DOMAIN body
               PROVE  /\ body[p] # NoByte
                      /\ body[p] = body[q] => p = q
                      /\ p < q => Before(body[p], body[q])
    OBVIOUS
  <2>1. p \in Int /\ q \in Int
    BY <1>4
  <2>2. body[p] \in Bytes /\ body[q] \in Bytes
    BY <1>10 DEF HandedOn
  <2>3. body[p] # NoByte /\ body[p][2] \in Int
    BY <2>2, NoByteAssumption, LiveAssumption DEF Bytes, NoByteAssumption, LiveAssumption
  <2>4. (p < q => Before(body[p], body[q])) /\ (q < p => Before(body[q], body[p]))
    BY <1>4, <2>1 DEF OrderInv, ContentInv
  <2> QED BY <2>1, <2>3, <2>4 DEF Before
<1>13. \A w \in Viewers : \A j \in DOMAIN out'[w] : ~(w = v /\ j = n) =>
         \A p \in DOMAIN out'[w][j].body, q \in DOMAIN body :
           /\ out'[w][j].body[p] # NoByte
           /\ Before(out'[w][j].body[p], body[q])
           /\ out'[w][j].body[p] # body[q]
  <2> SUFFICES ASSUME NEW w \in Viewers, NEW j \in DOMAIN out'[w], ~(w = v /\ j = n),
                      NEW p \in DOMAIN out'[w][j].body, NEW q \in DOMAIN body
               PROVE  /\ out'[w][j].body[p] # NoByte
                      /\ Before(out'[w][j].body[p], body[q])
                      /\ out'[w][j].body[p] # body[q]
    OBVIOUS
  <2>1. /\ out'[w][j].body = out[w][j].body /\ Old(out[w][j].body)
        /\ HandedOn(out[w][j].body[p])
    BY <1>9
  <2>2. Before(out[w][j].body[p], body[q])
    BY <1>4, <2>1 DEF Old
  <2>3. body[q] \in Bytes /\ body[q][2] \in Int
    BY <1>10 DEF HandedOn, Bytes
  <2> QED BY <2>1, <2>2, <2>3, NoByteAssumption, LiveAssumption
         DEF Before, HandedOn, Bytes, NoByteAssumption, LiveAssumption
<1>14. DeliveredOnceInOrder'
  <2> SUFFICES ASSUME NEW u \in Viewers, NEW w \in Viewers,
                      NEW i \in DOMAIN out'[u], NEW j \in DOMAIN out'[w],
                      NEW p \in DOMAIN out'[u][i].body, NEW q \in DOMAIN out'[w][j].body
               PROVE  InOrder(u, w, i, j, p, q)'
    BY DEF DeliveredOnceInOrder, InOrder
  <2>1. CASE (u = v /\ i = n) /\ (w = v /\ j = n)
    <3>1. out'[u][i].body = body /\ out'[w][j].body = body
      BY <2>1 DEF body
    <3>2. ~(i < j)
      BY <1>4, <2>1, <1>3 DEF IInv, TypeOK
    <3> QED BY <1>12, <2>1, <3>1, <3>2 DEF InOrder, Before
  <2>2. CASE (u = v /\ i = n) /\ ~(w = v /\ j = n)
    <3>1. out'[u][i].body = body
      BY <2>2 DEF body
    <3>2. u = w => ~(i < j) /\ i # j
      <4>1. DOMAIN out'[v] = 1..n /\ n \in Int
        BY <1>3, <1>4, LenProperties
      <4> QED BY <2>2, <4>1
    <3> QED BY <1>12, <1>13, <2>2, <3>1, <3>2 DEF InOrder
  <2>3. CASE ~(u = v /\ i = n) /\ (w = v /\ j = n)
    <3>1. out'[w][j].body = body
      BY <2>3 DEF body
    <3> QED BY <1>13, <2>3, <3>1 DEF InOrder, Before
  <2>4. CASE ~(u = v /\ i = n) /\ ~(w = v /\ j = n)
    <3>1. /\ i \in DOMAIN out[u] /\ out'[u][i].body = out[u][i].body
          /\ j \in DOMAIN out[w] /\ out'[w][j].body = out[w][j].body
      BY <1>9, <2>4
    <3>2. InOrder(u, w, i, j, p, q)
      BY <3>1 DEF OrderInv, DeliveredOnceInOrder, InOrder
    <3> QED BY <3>1, <3>2 DEF InOrder
  <2> QED BY <2>1, <2>2, <2>3, <2>4
<1> QED BY <1>5, <1>7, <1>11, <1>14 DEF OrderInv

----------------------------------------------------------------------------

LEMMA OrderAlways == Spec => []OrderInv
<1>1. Init => OrderInv
  BY OrderInit
<1>2. IInv /\ IInv' /\ OrderInv /\ [Next]_vars => OrderInv'
  <2> SUFFICES ASSUME IInv, IInv', OrderInv, [Next]_vars PROVE OrderInv'
    OBVIOUS
  <2>1. CASE UNCHANGED vars
    <3>1. UNCHANGED <<bvars, live_buffer, live_size, vpc, out, peer>>
      BY <2>1 DEF vars, vvars
    <3>2. PieceInv' /\ SameContent /\ BaseGrows
      <4>1. \A b \in Broadcasters : Base(b) \in Nat
        BY BaseType DEF IInv, OrderInv
      <4> QED BY <3>1, <4>1, PiecesStay DEF OrderInv, BaseGrows
    <3> QED BY <3>1, <3>2, OrderKept DEF SameBodies, SameSending, IInv
  <2>2. CASE Next
    BY <2>2, BroadcasterOrder, GrowOrder, QuietViewerOrder, ResetOrder, HeaderOrder, BodyOrder
       DEF Next, BroadcasterStep, ViewerStep, IInv
  <2> QED BY <2>1, <2>2
<1> QED BY <1>1, <1>2, InvAlways, PTL DEF Spec

\* No byte reaches two viewers or one viewer twice, nothing is sent that nobody
\* uploaded, and each viewer gets the bytes of an upload in their order:
\* whatever the number of threads, wherever a peer stalls or leaves.
THEOREM DeliversOnceInOrder == Spec => []DeliveredOnceInOrder
BY OrderAlways, PTL DEF OrderInv

----------------------------------------------------------------------------
(***************************************************************************)
(* The threads implement the lossy relay.  Taken changes where a piece is  *)
(* dropped (Check) or covered by live_size (Grow), Received where a        *)
(* trailer is delivered; every other step leaves what users see as it is,  *)
(* but for the reset after a viewer left, which loses the content.         *)
(***************************************************************************)

\* A piece in hand is one recv may return, a viewer sends only what there is,
\* and a peer that has not left has all its chunks to the end but the one
\* being sent; after the trailer that one is the whole content.
RelayInv ==
    /\ \A b \in Broadcasters : fed[b] <= MaxBytes /\ (InHand(b) => Len(buf[b]) \in 1..BUFFER)
    /\ \A v \in Viewers :
         /\ vpc[v] \in {"head", "call", "body", "tail"} => live_size > 0
         /\ peer[v] = "gone" => v \in Leaving
         /\ peer[v] # "gone" /\ vpc[v] \notin {"call", "body", "tail"} => ~InPart(v)
         /\ peer[v] # "gone" /\ vpc[v] = "reset" =>
              out[v] # <<>> /\ out[v][Len(out[v])].body = Content

LEMMA RelayInit == Init => RelayInv
BY LiveAssumption DEF Init, RelayInv, InHand, InPart, LiveAssumption

LEMMA ContentType ==
    ASSUME IInv
    PROVE  Content \in Seq(Bytes \cup {NoByte}) /\ Len(Content) = live_size
<1>1. live_size \in Nat /\ 0 + live_size <= LIVE_BUF
  BY LiveAssumption DEF IInv, TypeOK, BufferBound, LiveAssumption
<1> QED BY <1>1, SliceType DEF Content, IInv

LEMMA ContentTypeNext ==
    ASSUME IInv'
    PROVE  (Content \in Seq(Bytes \cup {NoByte}) /\ Len(Content) = live_size)'
<1>1. TypeOK' /\ BufferBound'
  BY DEF IInv
<1>2. PICK n : n = live_size'
  OBVIOUS
<1>3. n \in Nat /\ n < LIVE_BUF /\ LIVE_BUF \in Nat
  BY <1>1, <1>2, LiveAssumption DEF TypeOK, BufferBound, LiveAssumption
<1>4. PICK mem : mem = live_buffer'
  OBVIOUS
<1>5. mem \in [0..LIVE_BUF - 1 -> Bytes \cup {NoByte}]
  BY <1>1, <1>4 DEF TypeOK
<1>6. \A i \in 1..n : mem[0 + i - 1] \in Bytes \cup {NoByte}
  BY <1>3, <1>5
<1>7. Content' = [i \in 1..n |-> mem[0 + i - 1]]
  BY <1>2, <1>4 DEF Content, Slice
<1>8. Content' \in Seq(Bytes \cup {NoByte}) /\ Len(Content') = n
  BY <1>3, <1>6, <1>7, IsASeq
<1> QED BY <1>2, <1>8

LEMMA ContentStays ==
    ASSUME UNCHANGED <<live_buffer, live_size>>
    PROVE  Content' = Content
BY DEF Content, Slice

\* A broadcaster writes where no viewer is between its lock and its unlock.
LEMMA RelayOfBroadcaster ==
    ASSUME IInv, IInv', RelayInv, NEW b \in Broadcasters, Recv(b) \/ RecvEnd(b) \/ BroadcasterStep(b)
    PROVE  RelayInv'
<1>1. UNCHANGED <<vpc, out, peer>>
  BY DEF Recv, RecvEnd, BroadcasterStep, LockB, Check, Copy, Grow, UnlockB, vvars
<1>2. \/ UNCHANGED <<live_buffer, live_size>>
      \/ \A v \in Viewers : ~VCritical(v)
  <2>1. CASE Copy(b) \/ Grow(b)
    BY <2>1, LiveAssumption DEF Copy, Grow, IInv, MutualExclusion, BCritical, LiveAssumption
  <2>2. CASE ~(Copy(b) \/ Grow(b))
    BY <2>2 DEF Recv, RecvEnd, BroadcasterStep, LockB, Check, UnlockB
  <2> QED BY <2>1, <2>2
<1>3. ASSUME NEW v \in Viewers
      PROVE  /\ vpc'[v] \in {"head", "call", "body", "tail"} => live_size' > 0
             /\ peer'[v] = "gone" => v \in Leaving
             /\ peer'[v] # "gone" /\ vpc'[v] \notin {"call", "body", "tail"} => ~InPart(v)'
             /\ peer'[v] # "gone" /\ vpc'[v] = "reset" =>
                  out'[v] # <<>> /\ out'[v][Len(out'[v])].body = Content'
  BY <1>1, <1>2, ContentStays DEF RelayInv, InPart, VCritical
<1>4. ASSUME NEW c \in Broadcasters
      PROVE  fed'[c] <= MaxBytes /\ (InHand(c)' => Len(buf'[c]) \in 1..BUFFER)
  <2>1. CASE Recv(b) /\ c = b
    <3>1. PICK n \in 1..BUFFER : /\ fed[b] + n <= MaxBytes
                                 /\ buf' = [buf EXCEPT ![b] = Piece(b, fed[b], n)]
                                 /\ fed' = [fed EXCEPT ![b] = @ + n]
      BY <2>1 DEF Recv
    <3>2. fed \in [Broadcasters -> Nat] /\ buf \in [Broadcasters -> Seq(Bytes)] /\ n \in Nat
      BY LiveAssumption DEF IInv, TypeOK, LiveAssumption
    <3>3. Len(Piece(b, fed[b], n)) = n
      BY <3>1, <3>2, PieceIs
    <3> QED BY <2>1, <3>1, <3>2, <3>3
  <2>2. CASE ~(Recv(b) /\ c = b)
    <3>1. fed'[c] = fed[c] /\ (InHand(c)' => InHand(c) /\ buf'[c] = buf[c])
      BY <2>2 DEF Recv, RecvEnd, BroadcasterStep, LockB, Check, Copy, Grow, UnlockB, BGoto, InHand,
                  IInv, TypeOK
    <3> QED BY <3>1 DEF RelayInv
  <2> QED BY <2>1, <2>2
<1> QED BY <1>3, <1>4 DEF RelayInv

\* The last chunk after one that is new, one that grows and one that ends.
LEMMA LastChunk ==
    ASSUME IInv, NEW v \in Viewers
    PROVE  /\ ChunkHeader(v) /\ Delivers(v) =>
                /\ InPart(v)'
                /\ Len(out'[v]) = Len(out[v]) + 1
                /\ \A i \in 1..Len(out[v]) : out'[v][i] = out[v][i]
           /\ ChunkBody(v) =>
                /\ InPart(v) /\ InPart(v)'
                /\ Len(out'[v]) = Len(out[v])
                /\ \A i \in 1..(Len(out[v]) - 1) : out'[v][i] = out[v][i]
           /\ ChunkTrailer(v) /\ Delivers(v) =>
                /\ InPart(v) /\ ~InPart(v)'
                /\ Len(out'[v]) = Len(out[v]) /\ out'[v] # <<>>
                /\ \A i \in 1..Len(out[v]) : out'[v][i].body = out[v][i].body
<1> PICK c : c = out[v]
  OBVIOUS
<1>1. c \in Seq(Chunk) /\ out \in [Viewers -> Seq(Chunk)] /\ Len(c) \in Nat
  BY LenProperties DEF IInv, TypeOK
<1>2. ASSUME ChunkHeader(v), Delivers(v)
      PROVE  /\ InPart(v)'
             /\ Len(out'[v]) = Len(out[v]) + 1
             /\ \A i \in 1..Len(out[v]) : out'[v][i] = out[v][i]
  <2>1. NewChunk(live_size) \in Chunk /\ ~NewChunk(live_size).whole
    BY EmptySeq DEF NewChunk, Chunk, IInv, TypeOK
  <2>2. PICK e : e = NewChunk(live_size)
    OBVIOUS
  <2>3. out'[v] = Append(c, e)
    BY <1>1, <1>2, <2>2 DEF ChunkHeader
  <2>4. /\ Append(c, e) \in Seq(Chunk) /\ Len(Append(c, e)) = Len(c) + 1
        /\ \A i \in 1..Len(c) : Append(c, e)[i] = c[i]
        /\ Append(c, e)[Len(c) + 1] = e
    BY <1>1, <2>1, <2>2, AppendProperties
  <2>5. Append(c, e) # <<>>
    BY <1>1, <2>4, EmptySeq
  <2> QED BY <2>1, <2>2, <2>3, <2>4, <2>5 DEF InPart
<1>3. ASSUME ChunkBody(v)
      PROVE  /\ InPart(v) /\ InPart(v)'
             /\ Len(out'[v]) = Len(out[v])
             /\ \A i \in 1..(Len(out[v]) - 1) : out'[v][i] = out[v][i]
  <2>1. PICK k \in 1..len[v] - sent[v] : out' = [out EXCEPT ![v] = AddToLast(@, Slice(sent[v], k))]
    BY <1>3 DEF ChunkBody
  <2>2. c # <<>> /\ ~c[Len(c)].whole /\ InPart(v)
    BY <1>3 DEF ChunkBody, Delivers, IInv, SendInv, InPart, Last
  <2>3. Slice(sent[v], k) \in Seq(Bytes \cup {NoByte})
    <3>1. sent[v] \in Nat /\ k \in Nat /\ sent[v] + k <= LIVE_BUF
      BY <1>3, LiveAssumption DEF IInv, TypeOK, SendInv, BufferBound, ChunkBody, LiveAssumption
    <3> QED BY <3>1, SliceType DEF IInv
  <2>4. PICK s : s = Slice(sent[v], k)
    OBVIOUS
  <2>5. out'[v] = AddToLast(c, s)
    BY <1>1, <2>1, <2>4
  <2>6. /\ AddToLast(c, s) \in Seq(Chunk) /\ Len(AddToLast(c, s)) = Len(c)
        /\ \A j \in 1..Len(c) : j # Len(c) => AddToLast(c, s)[j] = c[j]
        /\ ~AddToLast(c, s)[Len(c)].whole
    BY <1>1, <2>2, <2>3, <2>4, AddToLastType
  <2>7. PICK d : d = AddToLast(c, s)
    OBVIOUS
  <2>8. d # <<>>
    BY <1>1, <2>2, <2>6, <2>7, EmptySeq
  <2>9. out'[v] = d /\ Len(d) = Len(c) /\ ~d[Len(c)].whole /\ \A j \in 1..(Len(c) - 1) : d[j] = c[j]
    BY <1>1, <2>5, <2>6, <2>7
  <2> QED BY <2>2, <2>8, <2>9 DEF InPart
<1>4. ASSUME ChunkTrailer(v), Delivers(v)
      PROVE  /\ InPart(v) /\ ~InPart(v)'
             /\ Len(out'[v]) = Len(out[v]) /\ out'[v] # <<>>
             /\ \A i \in 1..Len(out[v]) : out'[v][i].body = out[v][i].body
  <2>1. c # <<>> /\ ~c[Len(c)].whole /\ InPart(v)
    BY <1>4 DEF ChunkTrailer, Delivers, IInv, SendInv, InPart, Last
  <2>2. PICK d : d = CloseLast(c)
    OBVIOUS
  <2>3. out'[v] = d
    BY <1>1, <1>4, <2>2 DEF ChunkTrailer
  <2>4. d \in Seq(Chunk) /\ Len(d) = Len(c) /\ \A j \in 1..Len(c) : d[j].body = c[j].body
    BY <1>1, <2>1, <2>2, CloseLastType
  <2>5. Len(c) \in DOMAIN c /\ c[Len(c)] \in Chunk
    BY <1>1, <2>1, EmptySeq, LenProperties, ElementOfSeq
  <2>6. d[Len(c)].whole
    BY <2>2, <2>5 DEF CloseLast, Chunk
  <2>7. d # <<>>
    BY <1>1, <2>1, <2>4, EmptySeq
  <2> QED BY <2>1, <2>3, <2>4, <2>6, <2>7 DEF InPart
<1> QED BY <1>2, <1>3, <1>4

\* What a viewer has sent when its peer got all of it is the content.
LEMMA WholeIsContent ==
    ASSUME IInv, OrderInv, NEW v \in Viewers, vpc[v] = "tail", peer[v] # "gone"
    PROVE  Last(v).body = Content
<1>1. out[v] # <<>> /\ Len(Last(v).body) = live_size /\ Prefix(Last(v).body)
  BY DEF IInv, SendInv, OrderInv, ChunkInv, Last
<1>2. Last(v) \in Chunk
  BY <1>1, EmptySeq, LenProperties, ElementOfSeq DEF Last, IInv, TypeOK
<1>3. PICK s \in Seq(Bytes \cup {NoByte}) : s = Last(v).body
  BY <1>2 DEF Chunk
<1>4. PICK t \in Seq(Bytes \cup {NoByte}) : t = Content
  BY ContentType
<1>5. Len(s) = live_size /\ Len(t) = live_size /\ live_size \in Nat
  BY <1>1, <1>3, <1>4, ContentType DEF IInv, TypeOK
<1>6. \A p \in 1..live_size : s[p] = live_buffer[p - 1]
  BY <1>1, <1>3, <1>5, LenProperties DEF Prefix
<1>7. \A p \in 1..live_size : t[p] = live_buffer[0 + p - 1] /\ 0 + p - 1 = p - 1
  BY <1>4, <1>5 DEF Content, Slice
<1>8. \A p \in 1..live_size : s[p] = t[p]
  BY <1>6, <1>7
<1>9. s = t
  BY <1>5, <1>8, SeqEqual
<1> QED BY <1>3, <1>4, <1>9

LEMMA RelayOfViewer ==
    ASSUME IInv, IInv', OrderInv, RelayInv, NEW v \in Viewers, ViewerStep(v)
    PROVE  RelayInv'
<1>1. UNCHANGED <<bpc, buf, fed, peer, live_buffer>>
  BY DEF ViewerStep, Hello, LockV, Test, ChunkHeader, Call, ChunkBody, ChunkBodyFails,
         ChunkTrailer, Reset, UnlockV, bvars
<1>2. \A b \in Broadcasters : fed'[b] <= MaxBytes /\ (InHand(b)' => Len(buf'[b]) \in 1..BUFFER)
  BY <1>1 DEF RelayInv, InHand
<1>3. ASSUME NEW w \in Viewers, w # v
      PROVE  /\ vpc'[w] \in {"head", "call", "body", "tail"} => live_size' > 0
             /\ peer'[w] # "gone" /\ vpc'[w] \notin {"call", "body", "tail"} => ~InPart(w)'
             /\ peer'[w] # "gone" /\ vpc'[w] = "reset" =>
                  out'[w] # <<>> /\ out'[w][Len(out'[w])].body = Content'
  <2>1. vpc'[w] = vpc[w] /\ out'[w] = out[w]
    BY <1>3 DEF ViewerStep, Hello, LockV, Test, ChunkHeader, Call, ChunkBody, ChunkBodyFails,
         ChunkTrailer, Reset, UnlockV, VGoto, IInv, TypeOK
  <2>2. UNCHANGED live_size \/ Reset(v)
    BY DEF ViewerStep, Hello, LockV, Test, ChunkHeader, Call, ChunkBody, ChunkBodyFails,
         ChunkTrailer, Reset, UnlockV
  <2>3. Reset(v) => ~VCritical(w)
    BY <1>3 DEF Reset, IInv, MutualExclusion, VCritical
  <2> QED BY <1>1, <2>1, <2>2, <2>3, ContentStays DEF RelayInv, InPart, VCritical
<1>4. /\ vpc'[v] \in {"head", "call", "body", "tail"} => live_size' > 0
      /\ peer'[v] # "gone" /\ vpc'[v] \notin {"call", "body", "tail"} => ~InPart(v)'
      /\ peer'[v] # "gone" /\ vpc'[v] = "reset" =>
           out'[v] # <<>> /\ out'[v][Len(out'[v])].body = Content'
  <2> USE DEF VGoto, IInv, TypeOK
  <2>1. CASE Hello(v) \/ LockV(v) \/ Test(v) \/ Call(v) \/ ChunkBodyFails(v) \/ Reset(v) \/ UnlockV(v)
    BY <1>1, <2>1 DEF Hello, LockV, Test, Call, ChunkBodyFails, Reset, UnlockV, RelayInv, InPart
  <2>2. CASE ChunkHeader(v)
    BY <2>2 DEF ChunkHeader, RelayInv
  <2>3. CASE ChunkBody(v)
    BY <2>3 DEF ChunkBody, RelayInv
  <2>4. CASE ChunkTrailer(v)
    <3>1. vpc[v] = "tail" /\ vpc'[v] = "reset" /\ UNCHANGED <<live_size, peer>> /\ (peer[v] = "gone" \/ Delivers(v))
      BY <2>4 DEF ChunkTrailer, Writable, Delivers
    <3>2. CASE Delivers(v)
      <4>1. /\ ~InPart(v)' /\ out'[v] # <<>> /\ Len(out'[v]) = Len(out[v])
            /\ InPart(v)
            /\ \A i \in 1..Len(out[v]) : out'[v][i].body = out[v][i].body
        BY <2>4, <3>2, LastChunk
      <4>2. out[v] \in Seq(Chunk) /\ out[v] # <<>>
        BY <4>1 DEF InPart
      <4>3. Len(out[v]) \in 1..Len(out[v]) /\ out[v][Len(out[v])] \in Chunk
        BY <4>2, EmptySeq, LenProperties, ElementOfSeq
      <4>4. out'[v][Len(out'[v])].body = Last(v).body
        BY <4>1, <4>3 DEF Last
      <4>5. Last(v).body = Content
        BY <3>1, <3>2, <4>3, WholeIsContent DEF Delivers
      <4>6. Content' = Content
        BY <1>1, <3>1, ContentStays
      <4> QED BY <3>1, <4>1, <4>4, <4>5, <4>6
    <3> QED BY <3>1, <3>2
  <2> QED BY <2>1, <2>2, <2>3, <2>4 DEF ViewerStep
<1> QED BY <1>1, <1>2, <1>3, <1>4 DEF RelayInv

LEMMA RelayNext == IInv /\ IInv' /\ OrderInv /\ RelayInv /\ [Next]_vars => RelayInv'
<1> SUFFICES ASSUME IInv, IInv', OrderInv, RelayInv, [Next]_vars PROVE RelayInv'
  OBVIOUS
<1>1. ASSUME NEW v \in Viewers, Killed(v) \/ Stall(v) \/ Resume(v) \/ Leave(v)
      PROVE  RelayInv'
  <2>1. UNCHANGED <<live_buffer, live_size, bpc, buf, fed, vpc, out>>
    BY <1>1 DEF Killed, Stall, Resume, Leave, bvars, vvars
  <2>2. \A w \in Viewers : /\ peer'[w] # "gone" => peer[w] # "gone"
                           /\ peer'[w] = "gone" => peer[w] = "gone" \/ w \in Leaving
    BY <1>1 DEF Killed, Stall, Resume, Leave, IInv, TypeOK
  <2> QED BY <2>1, <2>2, ContentStays DEF RelayInv, InHand, InPart
<1>2. CASE UNCHANGED vars
  BY <1>2, ContentStays DEF vars, bvars, vvars, RelayInv, InHand, InPart
<1> QED BY <1>1, <1>2, RelayOfBroadcaster, RelayOfViewer DEF Next

----------------------------------------------------------------------------
\* What users see of a step

LEMMA Unseen ==
    ASSUME UNCHANGED <<live_buffer, live_size, out, Taken>>,
           \A v \in Viewers : vpc'[v] = "reset" <=> vpc[v] = "reset"
    PROVE  UNCHANGED Relay!relayvars
<1>1. Content' = Content
  BY ContentStays
<1>2. HandedOver' = HandedOver
  BY <1>1 DEF HandedOver
<1>3. Pending' = Pending
  BY <1>1, <1>2 DEF Pending
<1>4. Received' = Received
  BY DEF Received, InPart
<1> QED BY <1>3, <1>4 DEF Relay!relayvars

\* A piece that leaves the broadcaster's hands leaves it as a whole.
LEMMA LetsGo ==
    ASSUME IInv, IInv', OrderInv, RelayInv, NEW b \in Broadcasters,
           bpc[b] \in {"check", "grow"}, bpc' = [bpc EXCEPT ![b] = "unlock"], UNCHANGED <<buf, fed, vpc, out>>,
           Pending' = IF Len(Pending) + Len(buf[b]) < LIVE_BUF
                      THEN Pending \o Piece(b, Taken[b], Len(buf[b]))
                      ELSE Pending
    PROVE  Relay!Offer(b)
<1>1. /\ bpc \in [Broadcasters -> BLabel] /\ fed[b] \in Nat /\ Len(buf[b]) \in Nat
      /\ Len(buf[b]) \in 1..BUFFER /\ fed[b] <= MaxBytes /\ Len(buf[b]) <= fed[b]
  BY LenProperties DEF IInv, TypeOK, RelayInv, InHand, OrderInv, PieceInv
<1>2. Taken[b] = fed[b] - Len(buf[b])
  BY DEF Taken, InHand
<1>3. Taken' = [Taken EXCEPT ![b] = Taken[b] + Len(buf[b])]
  <2>1. Taken'[b] = fed[b]
    BY <1>1 DEF Taken, InHand
  <2>2. \A c \in Broadcasters : c # b => Taken'[c] = Taken[c]
    BY <1>1 DEF Taken, InHand
  <2>3. Taken = [c \in Broadcasters |-> Taken[c]] /\ Taken' = [c \in Broadcasters |-> Taken'[c]]
    BY DEF Taken
  <2>4. Taken[b] + Len(buf[b]) = fed[b]
    BY <1>1, <1>2
  <2> HIDE DEF Taken
  <2> QED BY <2>1, <2>2, <2>3, <2>4
<1>4. Taken[b] + Len(buf[b]) <= MaxBytes
  BY <1>1, <1>2, LiveAssumption DEF LiveAssumption
<1>5. UNCHANGED Received
  BY DEF Received, InPart
<1>6. Pending' = IF Len(Pending) + Len(buf[b]) < LIVE_BUF
                 THEN Pending \o [i \in 1..Len(buf[b]) |-> <<b, Taken[b] + i>>]
                 ELSE Pending
  BY DEF Piece
<1> QED BY <1>1, <1>3, <1>4, <1>5, <1>6 DEF Relay!Offer

LEMMA BroadcasterRelays ==
    ASSUME IInv, IInv', OrderInv, RelayInv, NEW b \in Broadcasters, Recv(b) \/ RecvEnd(b) \/ BroadcasterStep(b)
    PROVE  [Relay!Next]_(Relay!relayvars)
<1>1. UNCHANGED <<vpc, out, peer>>
  BY DEF Recv, RecvEnd, BroadcasterStep, LockB, Check, Copy, Grow, UnlockB, vvars
<1>2. bpc \in [Broadcasters -> BLabel] /\ fed \in [Broadcasters -> Nat] /\ buf \in [Broadcasters -> Seq(Bytes)]
  BY DEF IInv, TypeOK
<1>3. CASE Recv(b)
  <2>1. PICK n \in 1..BUFFER : /\ fed[b] + n <= MaxBytes
                               /\ buf' = [buf EXCEPT ![b] = Piece(b, fed[b], n)]
                               /\ fed' = [fed EXCEPT ![b] = @ + n]
    BY <1>3 DEF Recv
  <2>2. n \in Nat /\ fed[b] \in Nat
    BY <1>2, LiveAssumption DEF LiveAssumption
  <2>3. Len(Piece(b, fed[b], n)) = n
    BY <2>1, <2>2, PieceIs
  <2>4. /\ bpc[b] = "recv" /\ bpc' = [bpc EXCEPT ![b] = "lock"] /\ UNCHANGED <<live_buffer, live_size>>
        /\ buf'[b] = Piece(b, fed[b], n) /\ fed'[b] = fed[b] + n
        /\ \A c \in Broadcasters : c # b => buf'[c] = buf[c] /\ fed'[c] = fed[c] /\ bpc'[c] = bpc[c]
    BY <1>2, <1>3, <2>1 DEF Recv, BGoto
  <2>5. fed'[b] - Len(buf'[b]) = fed[b] - 0
    BY <2>2, <2>3, <2>4
  <2>6. Taken' = Taken
    BY <1>2, <2>4, <2>5 DEF Taken, InHand
  <2> QED BY <1>1, <2>4, <2>6, Unseen
<1>4. CASE RecvEnd(b) \/ LockB(b) \/ UnlockB(b) \/ (Check(b) /\ bpc'[b] = "copy")
  <2>1. UNCHANGED <<live_buffer, live_size, fed>> /\ \A c \in Broadcasters :
          (InHand(c)' <=> InHand(c)) /\ (InHand(c) => buf'[c] = buf[c])
    BY <1>2, <1>4 DEF RecvEnd, LockB, UnlockB, Check, BGoto, InHand
  <2>2. Taken' = Taken
    BY <2>1 DEF Taken
  <2> QED BY <1>1, <2>1, <2>2, Unseen
<1>5. ASSUME Check(b) \/ Copy(b) \/ Grow(b)
      PROVE  /\ \A v \in Viewers : ~VCritical(v)
             /\ ~HandedOver /\ ~HandedOver' /\ Pending = Content /\ Pending' = Content'
             /\ Content \in Seq(Bytes \cup {NoByte}) /\ Len(Content) = live_size
             /\ Content' \in Seq(Bytes \cup {NoByte}) /\ Len(Content') = live_size'
  <2>1. \A v \in Viewers : ~VCritical(v)
    BY <1>5, LiveAssumption DEF Check, Copy, Grow, IInv, MutualExclusion, BCritical, LiveAssumption
  <2>2. ~HandedOver /\ ~HandedOver'
    BY <1>1, <2>1 DEF HandedOver, VCritical
  <2>3. Content \in Seq(Bytes \cup {NoByte}) /\ Len(Content) = live_size
    BY ContentType
  <2>4. Content' \in Seq(Bytes \cup {NoByte}) /\ Len(Content') = live_size'
    BY ContentTypeNext
  <2> QED BY <2>1, <2>2, <2>3, <2>4 DEF Pending
<1>6. CASE Check(b) /\ bpc'[b] # "copy"
  <2>1. /\ bpc[b] = "check" /\ bpc' = [bpc EXCEPT ![b] = "unlock"] /\ ~(live_size + Len(buf[b]) < LIVE_BUF)
        /\ UNCHANGED <<live_buffer, live_size, buf, fed>>
    BY <1>2, <1>6 DEF Check, BGoto
  <2>2. Pending' = Pending /\ Len(Pending) = live_size
    BY <1>5, <1>6, <2>1, ContentStays
  <2>3. Relay!Offer(b)
    BY <1>1, <2>1, <2>2, LetsGo
  <2> QED BY <2>3 DEF Relay!Next
<1>7. CASE Copy(b)
  <2>1. /\ live_size \in Nat /\ Len(buf[b]) \in Nat /\ UNCHANGED <<live_size, buf, fed>>
        /\ bpc[b] = "copy" /\ bpc' = [bpc EXCEPT ![b] = "grow"]
        /\ live_buffer' = [i \in DOMAIN live_buffer |->
              IF i - live_size \in 0..Len(buf[b]) - 1 THEN buf[b][i - live_size + 1] ELSE live_buffer[i]]
        /\ DOMAIN live_buffer = 0..LIVE_BUF - 1 /\ live_size < LIVE_BUF
    BY <1>2, <1>7, LenProperties DEF Copy, BGoto, IInv, TypeOK, BufferBound
  <2>2. \A i \in 1..live_size : live_buffer'[0 + i - 1] = live_buffer[0 + i - 1]
    BY <2>1, LiveAssumption DEF LiveAssumption
  <2>3. Content' = Content
    BY <2>1, <2>2 DEF Content, Slice
  <2>4. Pending' = Pending
    BY <1>5, <1>7, <2>3
  <2>5. Taken' = Taken
    BY <1>2, <2>1 DEF Taken, InHand
  <2>6. Received' = Received
    BY <1>1 DEF Received, InPart
  <2> QED BY <2>4, <2>5, <2>6 DEF Relay!relayvars
<1>8. CASE Grow(b)
  <2> DEFINE n == Len(buf[b])
  <2>1. /\ bpc[b] = "grow" /\ bpc' = [bpc EXCEPT ![b] = "unlock"] /\ live_size' = live_size + n
        /\ UNCHANGED <<live_buffer, buf, fed>>
    BY <1>8 DEF Grow, BGoto
  <2>2. /\ live_size \in Nat /\ n \in Nat /\ live_size + n < LIVE_BUF /\ n <= fed[b] /\ fed[b] \in Nat /\ fed[b] <= MaxBytes
        /\ \A q \in 1..n : live_buffer[live_size + q - 1] = <<b, fed[b] - n + q>>
    BY <1>2, <2>1, LenProperties DEF IInv, TypeOK, BufferBound, OrderInv, PieceInv, RelayInv
  <2>3. Taken[b] = fed[b] - n /\ Taken[b] \in Nat /\ Taken[b] + n <= MaxBytes
    BY <2>1, <2>2, LiveAssumption DEF Taken, InHand, LiveAssumption
  <2>4. PICK piece : piece = Piece(b, Taken[b], n)
    OBVIOUS
  <2> HIDE DEF n
  <2>5. /\ piece \in Seq(Bytes \cup {NoByte}) /\ Len(piece) = n
        /\ \A q \in 1..n : piece[q] = <<b, Taken[b] + q>>
    <3>1. Seq(Bytes) \subseteq Seq(Bytes \cup {NoByte})
      BY SeqMonotonic
    <3> QED BY <2>2, <2>3, <2>4, <3>1, PieceType, PieceIs
  <2>6. PICK s, t : s = Content /\ t = Content'
    OBVIOUS
  <2>7. /\ s \in Seq(Bytes \cup {NoByte}) /\ Len(s) = live_size
        /\ t \in Seq(Bytes \cup {NoByte}) /\ Len(t) = live_size + n
    BY <1>5, <1>8, <2>1, <2>6
  <2>8. /\ \A i \in 1..live_size : s[i] = live_buffer[0 + i - 1]
        /\ \A i \in 1..(live_size + n) : t[i] = live_buffer[0 + i - 1]
    BY <2>1, <2>6 DEF Content, Slice
  <2>9. /\ s \o piece \in Seq(Bytes \cup {NoByte}) /\ Len(s \o piece) = live_size + n
        /\ \A i \in 1..(live_size + n) :
             (s \o piece)[i] = IF i <= live_size THEN s[i] ELSE piece[i - live_size]
    BY <2>5, <2>7, ConcatProperties
  <2>10. ASSUME NEW i \in 1..(live_size + n) PROVE t[i] = (s \o piece)[i]
    <3>1. CASE i <= live_size
      <4>1. i \in 1..live_size
        BY <2>2, <3>1
      <4> QED BY <2>8, <2>9, <3>1, <4>1
    <3>2. CASE ~(i <= live_size)
      <4>1. i - live_size \in 1..n /\ live_size + (i - live_size) - 1 = 0 + i - 1
        BY <2>2, <3>2
      <4>2. PICK q \in 1..n : q = i - live_size /\ live_size + q - 1 = 0 + i - 1
        BY <4>1
      <4>3. t[i] = live_buffer[live_size + q - 1] /\ (s \o piece)[i] = piece[q]
        BY <2>8, <2>9, <3>2, <4>2
      <4> QED BY <2>2, <2>3, <2>5, <4>3
    <3> QED BY <3>1, <3>2
  <2>11. t = s \o piece
    BY <2>2, <2>7, <2>9, <2>10, SeqEqual
  <2>12. Pending' = Pending \o Piece(b, Taken[b], n) /\ Len(Pending) + n < LIVE_BUF
    BY <1>5, <1>8, <2>2, <2>4, <2>6, <2>7, <2>11
  <2>13. Relay!Offer(b)
    BY <1>1, <2>1, <2>12, LetsGo DEF n
  <2> QED BY <2>13 DEF Relay!Next
<1> QED BY <1>3, <1>4, <1>6, <1>7, <1>8 DEF BroadcasterStep

\* A chunk begins and grows where users do not see it.
LEMMA SendingUnseen ==
    ASSUME IInv, RelayInv, NEW v \in Viewers, (ChunkHeader(v) /\ Delivers(v)) \/ ChunkBody(v)
    PROVE  Received' = Received
<1>1. /\ vpc[v] \in {"head", "body"} /\ peer[v] # "gone"
      /\ \A w \in Viewers : w # v => out'[w] = out[w]
  BY DEF ChunkHeader, ChunkBody, Delivers, IInv, TypeOK
<1>2. Len(out[v]) \in Nat
  BY LenProperties DEF IInv, TypeOK
<1>3. Received'[v] = Received[v]
  <2>1. CASE ChunkHeader(v) /\ Delivers(v)
    <3>1. ~InPart(v)
      BY <2>1 DEF RelayInv, ChunkHeader, Delivers
    <3>2. /\ InPart(v)' /\ Len(out'[v]) - 1 = Len(out[v])
          /\ \A i \in 1..Len(out[v]) : out'[v][i] = out[v][i]
      BY <1>2, <2>1, LastChunk
    <3> QED BY <3>1, <3>2 DEF Received
  <2>2. CASE ChunkBody(v)
    <3>1. /\ InPart(v) /\ InPart(v)' /\ Len(out'[v]) = Len(out[v])
          /\ \A i \in 1..(Len(out[v]) - 1) : out'[v][i] = out[v][i]
      BY <2>2, LastChunk
    <3> QED BY <3>1 DEF Received
  <2> QED BY <2>1, <2>2
<1>4. \A w \in Viewers : w # v => Received'[w] = Received[w]
  BY <1>1 DEF Received, InPart
<1>5. Received = [w \in Viewers |-> Received[w]] /\ Received' = [w \in Viewers |-> Received'[w]]
  BY DEF Received
<1> HIDE DEF Received
<1> QED BY <1>3, <1>4, <1>5

\* The trailer of a chunk hands over the content.
LEMMA TrailerTakes ==
    ASSUME IInv, IInv', OrderInv, RelayInv, NEW v \in Viewers, ChunkTrailer(v), Delivers(v)
    PROVE  Relay!Take(v)
<1>1. /\ vpc[v] = "tail" /\ vpc'[v] = "reset" /\ peer[v] # "gone"
      /\ UNCHANGED <<bpc, buf, fed, live_buffer, live_size>>
      /\ \A w \in Viewers : w # v => out'[w] = out[w]
  BY DEF ChunkTrailer, Delivers, VGoto, bvars, IInv, TypeOK
<1>2. ~HandedOver
  BY <1>1 DEF HandedOver, IInv, MutualExclusion, VCritical
<1>3. /\ InPart(v) /\ ~InPart(v)' /\ Len(out'[v]) = Len(out[v]) /\ out'[v] # <<>>
      /\ \A i \in 1..Len(out[v]) : out'[v][i].body = out[v][i].body
  BY LastChunk
<1>4. out[v] \in Seq(Chunk) /\ Len(out[v]) \in Nat /\ Len(out[v]) \in 1..Len(out[v])
  BY <1>3, EmptySeq, LenProperties DEF InPart, IInv, TypeOK
<1>5. out[v][Len(out[v])].body = Content
  BY <1>1, WholeIsContent DEF Last
<1>6. Content' = Content
  BY <1>1, ContentStays
<1>7. HandedOver'
  <2>1. out'[v][Len(out'[v])].whole
    BY <1>3 DEF InPart
  <2> QED BY <1>1, <1>3, <1>4, <1>5, <1>6, <2>1 DEF HandedOver
<1>8. Pending = Content /\ Pending' = <<>>
  BY <1>2, <1>7 DEF Pending
<1>9. Content # <<>>
  <2>1. Len(Content) = live_size /\ live_size > 0 /\ live_size \in Nat
    BY <1>1, ContentType DEF RelayInv, IInv, TypeOK
  <2> QED BY <2>1, EmptySeq
<1>10. Received' = [Received EXCEPT ![v] = Append(@, Content)]
  <2>1. PICK n \in Nat : n = Len(out[v]) - 1 /\ n + 1 = Len(out[v])
    BY <1>4
  <2>2. Received[v] = [i \in 1..n |-> out[v][i].body]
    BY <1>3, <2>1 DEF Received
  <2>3. Received'[v] = [i \in 1..(n + 1) |-> out'[v][i].body]
    BY <1>3, <2>1 DEF Received
  <2>4. Received'[v] = Append(Received[v], Content)
    <3>1. PICK s : s = Received[v]
      OBVIOUS
    <3>2. \A i \in 1..n : out[v][i].body \in Seq(Bytes \cup {NoByte})
      <4> SUFFICES ASSUME NEW i \in 1..n PROVE out[v][i].body \in Seq(Bytes \cup {NoByte})
        OBVIOUS
      <4>1. i \in 1..Len(out[v])
        BY <1>4, <2>1
      <4>2. out[v][i] \in Chunk
        BY <1>4, <4>1, ElementOfSeq
      <4> QED BY <4>2 DEF Chunk
    <3>3. s \in Seq(Seq(Bytes \cup {NoByte})) /\ Len(s) = n /\ \A i \in 1..n : s[i] = out[v][i].body
      BY <2>2, <3>1, <3>2, IsASeq
    <3>4. PICK c \in Seq(Bytes \cup {NoByte}) : c = Content
      BY ContentType
    <3>5. /\ Append(s, c) \in Seq(Seq(Bytes \cup {NoByte})) /\ Len(Append(s, c)) = n + 1
          /\ \A i \in 1..n : Append(s, c)[i] = s[i]
          /\ Append(s, c)[n + 1] = c
      BY <3>3, AppendProperties
    <3>6. PICK t : t = Received'[v]
      OBVIOUS
    <3>7. \A i \in 1..(n + 1) : t[i] = out[v][i].body
      BY <1>3, <2>1, <2>3, <3>6
    <3>8. \A i \in 1..(n + 1) : t[i] = Append(s, c)[i]
      <4>1. \A i \in 1..(n + 1) : i \in 1..n \/ i = n + 1
        OBVIOUS
      <4> QED BY <1>5, <2>1, <3>3, <3>4, <3>5, <3>7, <4>1
    <3>9. t \in Seq(Seq(Bytes \cup {NoByte})) /\ Len(t) = n + 1
      <4>1. t = [i \in 1..(n + 1) |-> out'[v][i].body] /\ n + 1 \in Nat
        BY <2>3, <3>6
      <4>2. \A i \in 1..(n + 1) : out'[v][i].body \in Seq(Bytes \cup {NoByte})
        <5>1. \A i \in 1..(n + 1) : i \in 1..n \/ i = n + 1
          OBVIOUS
        <5> QED BY <1>3, <1>5, <2>1, <3>2, <3>4, <5>1
      <4> QED BY <4>1, <4>2, IsASeq
    <3>10. t = Append(s, c)
      BY <3>5, <3>8, <3>9, SeqEqual
    <3> QED BY <3>1, <3>4, <3>6, <3>10
  <2>5. \A w \in Viewers : w # v => Received'[w] = Received[w]
    BY <1>1 DEF Received, InPart
  <2>6. Received = [w \in Viewers |-> Received[w]] /\ Received' = [w \in Viewers |-> Received'[w]]
    BY DEF Received
  <2> HIDE DEF Received
  <2> QED BY <2>4, <2>5, <2>6
<1>11. Taken' = Taken
  BY <1>1 DEF Taken, InHand
<1> QED BY <1>8, <1>9, <1>10, <1>11 DEF Relay!Take

LEMMA ViewerRelays ==
    ASSUME IInv, IInv', OrderInv, RelayInv, NEW v \in Viewers, ViewerStep(v)
    PROVE  [Relay!Next]_(Relay!relayvars)
<1>1. UNCHANGED <<bpc, buf, fed, peer, live_buffer>> /\ Taken' = Taken
  BY DEF ViewerStep, Hello, LockV, Test, ChunkHeader, Call, ChunkBody, ChunkBodyFails,
         ChunkTrailer, Reset, UnlockV, bvars, Taken, InHand
<1>2. \A w \in Viewers : w # v => vpc'[w] = vpc[w] /\ out'[w] = out[w]
  BY DEF ViewerStep, Hello, LockV, Test, ChunkHeader, Call, ChunkBody, ChunkBodyFails,
         ChunkTrailer, Reset, UnlockV, VGoto, IInv, TypeOK
<1>3. CASE Hello(v) \/ LockV(v) \/ Test(v) \/ Call(v) \/ ChunkBodyFails(v)
  <2>1. UNCHANGED <<live_size, out>> /\ vpc[v] # "reset" /\ vpc'[v] # "reset"
    BY <1>3 DEF Hello, LockV, Test, Call, ChunkBodyFails, VGoto, IInv, TypeOK
  <2> QED BY <1>1, <1>2, <2>1, Unseen
<1>4. ASSUME vpc[v] \in {"head", "body", "tail"}, UNCHANGED live_size, Received' = Received,
             vpc'[v] # "reset"
      PROVE  UNCHANGED Relay!relayvars
  <2>1. ~HandedOver /\ ~HandedOver'
    BY <1>2, <1>4 DEF HandedOver, IInv, MutualExclusion, VCritical
  <2>2. Pending' = Pending
    BY <1>1, <1>4, <2>1, ContentStays DEF Pending
  <2> QED BY <1>1, <1>4, <2>2 DEF Relay!relayvars
<1>5. CASE ChunkHeader(v)
  <2>1. vpc[v] = "head" /\ vpc'[v] = "call" /\ UNCHANGED live_size
    BY <1>5 DEF ChunkHeader, VGoto, IInv, TypeOK
  <2>2. CASE Delivers(v)
    BY <1>4, <1>5, <2>1, <2>2, SendingUnseen
  <2>3. CASE ~Delivers(v)
    <3>1. out' = out
      BY <1>5, <2>3 DEF ChunkHeader, IInv, TypeOK
    <3>2. Received' = Received
      BY <3>1 DEF Received, InPart
    <3> QED BY <1>4, <2>1, <3>2
  <2> QED BY <2>2, <2>3
<1>6. CASE ChunkBody(v)
  <2>1. vpc[v] = "body" /\ vpc'[v] # "reset" /\ UNCHANGED live_size
    BY <1>6 DEF ChunkBody, VGoto, IInv, TypeOK
  <2> QED BY <1>4, <1>6, <2>1, SendingUnseen
<1>7. CASE ChunkTrailer(v)
  <2>1. CASE Delivers(v)
    BY <1>7, <2>1, TrailerTakes DEF Relay!Next
  <2>2. CASE ~Delivers(v)
    <3>1. /\ vpc[v] = "tail" /\ peer[v] = "gone" /\ out' = out /\ UNCHANGED live_size
      BY <1>7, <2>2 DEF ChunkTrailer, Writable, Delivers, IInv, TypeOK
    <3>2. Received' = Received
      BY <3>1 DEF Received, InPart
    <3>3. Leaving # {}
      BY <3>1 DEF RelayInv
    <3>4. Pending = Content /\ Content' = Content
      BY <1>1, <3>1, ContentStays DEF Pending, HandedOver, IInv, MutualExclusion, VCritical
    <3>5. Pending' = Pending \/ Pending' = <<>>
      BY <3>4 DEF Pending
    <3> QED BY <1>1, <3>2, <3>3, <3>5 DEF Relay!Next, Relay!Lose, Relay!relayvars
  <2> QED BY <2>1, <2>2
<1>8. CASE Reset(v)
  <2>1. vpc[v] = "reset" /\ vpc'[v] = "unlock" /\ out' = out /\ live_size' = 0
    BY <1>8 DEF Reset, VGoto, IInv, TypeOK
  <2>2. Received' = Received
    BY <2>1 DEF Received, InPart
  <2>3. Pending' = <<>>
    <3>1. Len(Content') = 0 /\ Content' \in Seq(Bytes \cup {NoByte})
      BY <2>1, ContentTypeNext
    <3>2. Content' = <<>>
      BY <3>1, EmptySeq
    <3> QED BY <3>2 DEF Pending
  <2>4. CASE peer[v] = "gone"
    <3>1. Leaving # {}
      BY <2>4 DEF RelayInv
    <3> QED BY <1>1, <2>2, <2>3, <3>1 DEF Relay!Next, Relay!Lose
  <2>5. CASE peer[v] # "gone"
    <3>1. HandedOver
      BY <2>1, <2>5 DEF RelayInv, HandedOver, InPart
    <3>2. Pending = <<>>
      BY <3>1 DEF Pending
    <3> QED BY <1>1, <2>2, <2>3, <3>2 DEF Relay!relayvars
  <2> QED BY <2>4, <2>5
<1>9. CASE UnlockV(v)
  <2>1. UNCHANGED <<live_size, out>> /\ vpc[v] # "reset" /\ vpc'[v] # "reset"
    BY <1>9 DEF UnlockV, VGoto, IInv, TypeOK
  <2> QED BY <1>1, <1>2, <2>1, Unseen
<1> QED BY <1>3, <1>5, <1>6, <1>7, <1>8, <1>9 DEF ViewerStep

LEMMA AllAlways == Spec => [](IInv /\ OrderInv /\ RelayInv)
BY InvAlways, OrderAlways, RelayInit, RelayNext, PTL DEF Spec

\* To its users the live stream is the lossy relay: a piece is taken over or
\* dropped as a whole, and what was taken over goes to one viewer, in one chunk
\* and in order, or is lost with a viewer that left.
THEOREM RelayIsLossy == Spec => ImplementsRelay
<1>1. Init => Relay!Init
  <2> SUFFICES ASSUME Init PROVE Relay!Init
    OBVIOUS
  <2>1. /\ bpc = [b \in Broadcasters |-> "recv"] /\ fed = [b \in Broadcasters |-> 0]
        /\ vpc = [v \in Viewers |-> "hello"] /\ out = [v \in Viewers |-> <<>>] /\ live_size = 0
    BY DEF Init
  <2>2. Taken = [b \in Broadcasters |-> 0]
    BY <2>1 DEF Taken, InHand
  <2>3. Pending = <<>>
    <3>1. Content = <<>>
      BY <2>1, InvInit, ContentType, EmptySeq
    <3> QED BY <3>1 DEF Pending
  <2>4. Received = [v \in Viewers |-> <<>>]
    <3>1. ASSUME NEW v \in Viewers PROVE Received[v] = <<>>
      <4>1. out[v] = <<>> /\ Len(<<>>) = 0
        BY <2>1, EmptySeq
      <4>2. Received[v] = [i \in 1..0 |-> out[v][i].body]
        BY <4>1 DEF Received, InPart
      <4> QED BY <4>2
    <3> QED BY <3>1 DEF Received
  <2> QED BY <2>2, <2>3, <2>4 DEF Relay!Init
<1>2. IInv /\ IInv' /\ OrderInv /\ RelayInv /\ [Next]_vars => [Relay!Next]_(Relay!relayvars)
  <2> SUFFICES ASSUME IInv, IInv', OrderInv, RelayInv, [Next]_vars
               PROVE  [Relay!Next]_(Relay!relayvars)
    OBVIOUS
  <2>1. ASSUME NEW v \in Viewers, Killed(v) \/ Stall(v) \/ Resume(v) \/ Leave(v)
        PROVE  UNCHANGED Relay!relayvars
    <3>1. UNCHANGED <<live_buffer, live_size, bpc, buf, fed, vpc, out>>
      BY <2>1 DEF Killed, Stall, Resume, Leave, bvars, vvars
    <3> QED BY <3>1, Unseen DEF Taken, InHand
  <2>2. CASE UNCHANGED vars
    BY <2>2, Unseen DEF vars, bvars, vvars, Taken, InHand
  <2> QED BY <2>1, <2>2, BroadcasterRelays, ViewerRelays DEF Next
<1> QED BY <1>1, <1>2, AllAlways, PTL DEF Spec, ImplementsRelay, Relay!Spec
=============================================================================
