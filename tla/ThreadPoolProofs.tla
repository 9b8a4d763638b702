-------------------------- MODULE ThreadPoolProofs --------------------------
(* Proofs about ThreadPool, for any number of threads, callers and jobs and *)
(* for both builds.                                                         *)
EXTENDS ThreadPool, FiniteSetTheorems, TLAPS

----------------------------------------------------------------------------
\* Types

Adding  == {"lock", "push", "signal", "unlock"}    \* callers that have a job
Holding == {"pop", "unlock", "run"}                \* workers that have one

\* TypeOK, and who has a job and how far the destructor has counted.
Types ==
    /\ TypeOK
    /\ \A c \in Callers : cpc[c] \in Adding => adding[c] \in Jobs
    /\ \A w \in Workers : wpc[w] \in Holding => job[w] \in Jobs
    /\ opc \in {"create", "return", "open"} => signals = 0
    /\ opc = "signal" => signals < Cardinality(Workers)
    /\ \A o \in Objects : \A w \in waiters[o] : wpc[w] = "asleep"
    /\ \A o \in Objects \ {Own} : waiters[o] = {}

LEMMA WorkersCount == Cardinality(Workers) \in Nat \ {0}
BY PoolAssumption, FS_CardinalityType, FS_EmptySet DEF PoolAssumption

LEMMA InitTypes == Init => Types
<1> SUFFICES ASSUME Init PROVE Types
  OBVIOUS
<1> USE PoolAssumption DEF PoolAssumption, Init, Objects
<1>1. elided \in BOOLEAN
  OBVIOUS
<1>2. lock \in [Objects -> Threads \cup {Nobody}]
  BY <1>1 DEF Own, Threads
<1>3. TypeOK
  <2>1. /\ elided \in BOOLEAN /\ unprompted \in BOOLEAN /\ crashed \in BOOLEAN
        /\ lock \in [Objects -> Threads \cup {Nobody}]
        /\ waiters \in [Objects -> SUBSET Workers]
        /\ active \in [Objects -> {0, 1}]
        /\ opc \in {"create", "return", "open", "signal", "join", "closed"}
    BY <1>1, <1>2
  <2>2. /\ work \in [Objects -> Queues]
        /\ signals \in 0..Cardinality(Workers)
        /\ added \in Queues /\ taken \in Queues
        /\ ran \subseteq Jobs
    BY WorkersCount DEF Queues
  <2>3. /\ cpc \in [Callers -> {"idle", "lock", "push", "signal", "unlock"}]
        /\ adding \in [Callers -> Jobs \cup {NoJob}]
        /\ wpc \in [Workers -> {"none", "test", "lock", "wait", "asleep", "relock",
                                "peek", "pop", "unlock", "run", "done"}]
        /\ job \in [Workers -> Jobs \cup {NoJob}]
    OBVIOUS
  <2> QED BY <2>1, <2>2, <2>3 DEF TypeOK
<1> QED BY <1>3 DEF Types, Adding, Holding

\* What pthread_cond_signal does.
LEMMA SignalTypes ==
    ASSUME Types, NEW o \in Objects, Signal(o)
    PROVE  /\ waiters' \in [Objects -> SUBSET Workers]
           /\ wpc' \in [Workers -> {"none", "test", "lock", "wait", "asleep", "relock",
                                    "peek", "pop", "unlock", "run", "done"}]
           /\ \A w \in Workers : wpc'[w] # wpc[w] => wpc[w] = "asleep" /\ wpc'[w] = "relock"
           /\ \A p \in Objects : \A w \in waiters'[p] : w \in waiters[p] /\ wpc'[w] = "asleep"
BY DEF Types, TypeOK, Signal, WGoto, Objects, Own

\* The owner's steps keep the types.
LEMMA OwnerTypes == Types /\ (OwnerStep \/ Deactivate) => Types'
<1> SUFFICES ASSUME Types, OwnerStep \/ Deactivate PROVE Types'
  OBVIOUS
<1> USE PoolAssumption, WorkersCount
    DEF PoolAssumption, TypeOK, Objects, Own, Threads, Queues, Adding, Holding, objvars
<1>1. ASSUME NEW w \in Workers, Create(w) PROVE Types'
  BY <1>1 DEF Create, WGoto, Types
<1>2. CASE Created
  BY <1>2 DEF Created, Types
<1>3. CASE Return
  BY <1>3 DEF Return, Types
<1>4. CASE SignalOne
  <2>1. Signal("result") /\ "result" \in Objects
    BY <1>4 DEF SignalOne
  <2> QED BY <1>4, <2>1, SignalTypes DEF SignalOne, Types
<1>5. CASE JoinAll
  BY <1>5 DEF JoinAll, Types
<1>6. CASE Deactivate
  BY <1>6 DEF Deactivate, Types
<1> QED BY <1>1, <1>2, <1>3, <1>4, <1>5, <1>6 DEF OwnerStep

\* add_work keeps the types.
LEMMA CallerTypes ==
    ASSUME Types, NEW c \in Callers, Call(c) \/ AddStep(c)
    PROVE  Types'
<1> USE PoolAssumption
    DEF PoolAssumption, TypeOK, Objects, Own, Threads, Queues, Adding, Holding, objvars, CGoto
<1>1. CASE Call(c)
  BY <1>1 DEF Call, Types
<1>2. CASE AddLock(c)
  BY <1>2 DEF AddLock, Types
<1>3. CASE Push(c)
  BY <1>3 DEF Push, Types
<1>4. CASE AddSignal(c)
  <2>1. Signal("result") /\ "result" \in Objects
    BY <1>4 DEF AddSignal
  <2> QED BY <1>4, <2>1, SignalTypes DEF AddSignal, Types
<1>5. CASE AddUnlock(c)
  BY <1>5 DEF AddUnlock, Types, NoJob
<1> QED BY <1>1, <1>2, <1>3, <1>4, <1>5 DEF AddStep

\* The threads' loop keeps the types.
LEMMA WorkerTypes ==
    ASSUME Types, NEW w \in Workers, WorkerStep(w) \/ WakeSpuriously(w) \/ UseDeadFrame(w)
    PROVE  Types'
<1> USE PoolAssumption
    DEF PoolAssumption, TypeOK, Objects, Own, Threads, Queues, Adding, Holding, objvars, WGoto
<1>1. CASE Test(w)
  BY <1>1 DEF Test, Types
<1>2. CASE Lock(w)
  BY <1>2 DEF Lock, Types
<1>3. CASE Wait(w)
  BY <1>3 DEF Wait, Types
<1>4. CASE PeekNull(w)
  BY <1>4 DEF PeekNull, Types
<1>5. CASE Peek(w)
  BY <1>5 DEF Peek, Types
<1>6. CASE Pop(w)
  BY <1>6 DEF Pop, Types
<1>7. CASE Unlock(w)
  BY <1>7 DEF Unlock, Types
<1>8. CASE Run(w)
  BY <1>8 DEF Run, Types, NoJob
<1>9. CASE WakeSpuriously(w)
  BY <1>9 DEF WakeSpuriously, Types
<1>10. CASE UseDeadFrame(w)
  BY <1>10 DEF UseDeadFrame, Types
<1> QED BY <1>1, <1>2, <1>3, <1>4, <1>5, <1>6, <1>7, <1>8, <1>9, <1>10 DEF WorkerStep

LEMMA NextTypes == Types /\ [Next]_vars => Types'
<1>1. Types /\ UNCHANGED vars => Types'
  BY DEF vars, objvars, Types, TypeOK, Own
<1> QED BY <1>1, OwnerTypes, CallerTypes, WorkerTypes DEF Next

\* Every variable keeps its type.
THEOREM TypeCorrect == Spec => []TypeOK
<1>1. Types => TypeOK
  BY DEF Types
<1> QED BY <1>1, InitTypes, NextTypes, PTL DEF Spec

----------------------------------------------------------------------------
\* The mutexes

CallerInside(c) == cpc[c] \in {"push", "signal", "unlock"}
WorkerInside(w) == wpc[w] \in {"wait", "peek", "pop", "unlock"}

\* Callers work under the mutex of the result, threads under that of the
\* constructor's object, and nobody calls before the constructor is done.
Mutex ==
    /\ \A c \in Callers : CallerInside(c) => lock["result"] = c
    /\ \A w \in Workers : WorkerInside(w) => lock[Own] = w
    /\ opc = "create" => lock[Own] = "owner"
    /\ opc \in {"create", "return"} => \A c \in Callers : cpc[c] = "idle"
    /\ opc = "closed" => \A w \in Workers : wpc[w] = "done"

LEMMA InitMutex == Init => Mutex
BY DEF Init, Mutex, CallerInside, WorkerInside, Own, Objects

LEMMA OwnerMutex == Types /\ Mutex /\ (OwnerStep \/ Deactivate) => Mutex'
<1> SUFFICES ASSUME Types, Mutex, OwnerStep \/ Deactivate PROVE Mutex'
  OBVIOUS
<1> USE PoolAssumption
    DEF PoolAssumption, Types, TypeOK, Objects, Own, Threads, objvars, Mutex, CallerInside, WorkerInside
<1>1. ASSUME NEW w \in Workers, Create(w) PROVE Mutex'
  BY <1>1 DEF Create, WGoto
<1>2. CASE Created
  BY <1>2 DEF Created
<1>3. CASE Return
  BY <1>3 DEF Return
<1>4. CASE SignalOne
  <2>1. Signal("result") /\ "result" \in Objects
    BY <1>4 DEF SignalOne
  <2> QED BY <1>4, <2>1, SignalTypes DEF SignalOne
<1>5. CASE JoinAll
  BY <1>5 DEF JoinAll
<1>6. CASE Deactivate
  BY <1>6 DEF Deactivate
<1> QED BY <1>1, <1>2, <1>3, <1>4, <1>5, <1>6 DEF OwnerStep

LEMMA CallerMutex ==
    ASSUME Types, Mutex, NEW c \in Callers, Call(c) \/ AddStep(c)
    PROVE  Mutex'
<1> USE PoolAssumption
    DEF PoolAssumption, Types, TypeOK, Objects, Own, Threads, objvars, CGoto, Mutex, CallerInside,
        WorkerInside
<1>1. CASE Call(c)
  BY <1>1 DEF Call
<1>2. CASE AddLock(c)
  BY <1>2 DEF AddLock
<1>3. CASE Push(c)
  BY <1>3 DEF Push
<1>4. CASE AddSignal(c)
  <2>1. Signal("result") /\ "result" \in Objects
    BY <1>4 DEF AddSignal
  <2> QED BY <1>4, <2>1, SignalTypes DEF AddSignal
<1>5. CASE AddUnlock(c)
  BY <1>5 DEF AddUnlock
<1> QED BY <1>1, <1>2, <1>3, <1>4, <1>5 DEF AddStep

LEMMA WorkerMutex ==
    ASSUME Types, Mutex, NEW w \in Workers, WorkerStep(w) \/ WakeSpuriously(w) \/ UseDeadFrame(w)
    PROVE  Mutex'
<1> USE PoolAssumption
    DEF PoolAssumption, Types, TypeOK, Objects, Own, Threads, objvars, WGoto, Mutex, CallerInside,
        WorkerInside
<1>1. CASE Test(w)
  BY <1>1 DEF Test
<1>2. CASE Lock(w)
  BY <1>2 DEF Lock
<1>3. CASE Wait(w)
  BY <1>3 DEF Wait
<1>4. CASE PeekNull(w)
  BY <1>4 DEF PeekNull
<1>5. CASE Peek(w)
  BY <1>5 DEF Peek
<1>6. CASE Pop(w)
  BY <1>6 DEF Pop
<1>7. CASE Unlock(w)
  BY <1>7 DEF Unlock
<1>8. CASE Run(w)
  BY <1>8 DEF Run
<1>9. CASE WakeSpuriously(w)
  BY <1>9 DEF WakeSpuriously
<1>10. CASE UseDeadFrame(w)
  BY <1>10 DEF UseDeadFrame
<1> QED BY <1>1, <1>2, <1>3, <1>4, <1>5, <1>6, <1>7, <1>8, <1>9, <1>10 DEF WorkerStep

LEMMA NextMutex == Types /\ Mutex /\ [Next]_vars => Mutex'
<1>1. Mutex /\ UNCHANGED vars => Mutex'
  BY DEF vars, objvars, Mutex, CallerInside, WorkerInside, Own
<1> QED BY <1>1, OwnerMutex, CallerMutex, WorkerMutex DEF Next

----------------------------------------------------------------------------
\* The jobs

Popping == \E w \in Workers : wpc[w] = "pop"

\* JobsConserved, and what makes peek and pop one step: a thread between them has
\* found a job.  The threads of a pool that was copied have a queue of their own,
\* which stays empty.
Conserved ==
    /\ JobsConserved
    /\ opc # "closed" => \A w \in Workers : wpc[w] = "pop" => work["result"] # <<>>
    /\ opc \in {"create", "return"} => added = <<>> /\ work["result"] = <<>>
    /\ ~elided => work["frame"] = <<>> /\ taken = <<>> /\ ~Popping

LEMMA InitConserved == Init => Conserved
BY DEF Init, Conserved, JobsConserved, Objects, Popping

\* Sequences, as peek, pop and push need them.
LEMMA MoveHead ==
    ASSUME NEW S, NEW s \in Seq(S), NEW t \in Seq(S), t # <<>>
    PROVE  Append(s, Head(t)) \o Tail(t) = s \o t
OBVIOUS

LEMMA AppendBehind ==
    \A s, t \in Seq(Jobs) : \A x \in Jobs : Append(s \o t, x) = s \o Append(t, x)
OBVIOUS

\* Steps that leave the queue and its history, and who is between peek and pop.
LEMMA OtherSteps ==
    ASSUME Types, Mutex, Conserved, UNCHANGED <<elided, work, added, taken>>,
           \A w \in Workers : wpc'[w] = "pop" <=> wpc[w] = "pop",
           opc' \in {"create", "return"} => opc \in {"create", "return"},
           opc = "closed" => opc' = "closed"
    PROVE  Conserved'
<1>1. Popping' <=> Popping
  BY DEF Popping
<1>2. JobsConserved'
  BY <1>1 DEF Conserved, JobsConserved, Popping
<1> QED BY <1>1, <1>2 DEF Conserved

LEMMA OwnerConserved == Types /\ Mutex /\ Conserved /\ (OwnerStep \/ Deactivate) => Conserved'
<1> SUFFICES ASSUME Types, Mutex, Conserved, OwnerStep \/ Deactivate PROVE Conserved'
  OBVIOUS
<1> USE DEF objvars
<1>1. ASSUME NEW w \in Workers, Create(w) PROVE Conserved'
  BY <1>1, OtherSteps DEF Create, WGoto, Types, TypeOK
<1>2. CASE Created
  BY <1>2, OtherSteps DEF Created
<1>3. CASE Return
  <2>1. work'["result"] = work["result"] /\ work'["frame"] = work["frame"]
    BY <1>3 DEF Return, Types, TypeOK, Objects, Own, Conserved
  <2> QED BY <1>3, <2>1 DEF Return, Conserved, JobsConserved, Popping
<1>4. CASE SignalOne
  <2>1. Signal("result") /\ "result" \in Objects
    BY <1>4 DEF SignalOne, Objects
  <2>2. \A w \in Workers : wpc'[w] = "pop" <=> wpc[w] = "pop"
    BY <2>1, SignalTypes
  <2> QED BY <1>4, <2>2, OtherSteps DEF SignalOne
<1>5. CASE JoinAll
  BY <1>5 DEF JoinAll, Conserved, JobsConserved, Popping, Types, TypeOK, Objects
<1>6. CASE Deactivate
  BY <1>6, OtherSteps DEF Deactivate
<1> QED BY <1>1, <1>2, <1>3, <1>4, <1>5, <1>6 DEF OwnerStep

LEMMA CallerConserved ==
    ASSUME Types, Mutex, Conserved, NEW c \in Callers, Call(c) \/ AddStep(c)
    PROVE  Conserved'
<1> USE DEF objvars, CGoto
<1>1. CASE Call(c)
  BY <1>1, OtherSteps DEF Call
<1>2. CASE AddLock(c)
  BY <1>2, OtherSteps DEF AddLock
<1>3. CASE Push(c)
  <2>1. /\ cpc[c] = "push" /\ added' = Append(added, adding[c]) /\ adding[c] \in Jobs
        /\ work' = [work EXCEPT !["result"] = Append(@, adding[c])]
        /\ UNCHANGED <<elided, wpc, taken, opc>>
    BY <1>3 DEF Push, Types, Adding
  <2>2. ~Popping /\ opc \notin {"create", "return"}
    BY <2>1, PoolAssumption
       DEF Mutex, CallerInside, WorkerInside, Popping, Conserved, Own, PoolAssumption
  <2>3. taken \in Seq(Jobs) /\ work["result"] \in Seq(Jobs)
    BY DEF Types, TypeOK, Queues, Objects
  <2>4. work'["result"] = Append(work["result"], adding[c]) /\ work'["frame"] = work["frame"]
    BY <2>1 DEF Types, TypeOK, Objects
  <2>5. opc # "closed" => added' = taken' \o work'["result"]
    <3>1. opc # "closed" => added = taken \o work["result"]
      BY <2>2 DEF Conserved, JobsConserved, Popping
    <3>2. Append(taken \o work["result"], adding[c]) = taken \o Append(work["result"], adding[c])
      <4>1. adding[c] \in Jobs
        BY <2>1
      <4> QED BY <2>3, <4>1, AppendBehind, Zenon
    <3> QED BY <2>1, <2>4, <3>1, <3>2
  <2>6. work'["result"] # <<>> /\ ~Popping'
    BY <2>1, <2>2, <2>3, <2>4 DEF Popping
  <2>7. JobsConserved'
    BY <2>1, <2>5, <2>6 DEF JobsConserved, Popping
  <2> QED BY <2>1, <2>2, <2>4, <2>6, <2>7 DEF Conserved
<1>4. CASE AddSignal(c)
  <2>1. Signal("result") /\ "result" \in Objects
    BY <1>4 DEF AddSignal, Objects
  <2>2. \A w \in Workers : wpc'[w] = "pop" <=> wpc[w] = "pop"
    BY <2>1, SignalTypes
  <2> QED BY <1>4, <2>2, OtherSteps DEF AddSignal
<1>5. CASE AddUnlock(c)
  BY <1>5, OtherSteps DEF AddUnlock
<1> QED BY <1>1, <1>2, <1>3, <1>4, <1>5 DEF AddStep

LEMMA WorkerConserved ==
    ASSUME Types, Mutex, Conserved, NEW w \in Workers,
           WorkerStep(w) \/ WakeSpuriously(w) \/ UseDeadFrame(w)
    PROVE  Conserved'
<1>1. CASE Test(w) \/ Lock(w) \/ Wait(w) \/ PeekNull(w) \/ Unlock(w) \/ Run(w) \/ UseDeadFrame(w)
  BY <1>1, OtherSteps
     DEF Test, Lock, Wait, PeekNull, Unlock, Run, UseDeadFrame, objvars, WGoto, Types, TypeOK
<1>2. CASE WakeSpuriously(w)
  <2>1. wpc[w] = "asleep"
    BY <1>2 DEF WakeSpuriously, Types, Own, Objects
  <2> QED BY <1>2, <2>1, OtherSteps DEF WakeSpuriously, WGoto, Types, TypeOK
<1>3. CASE Peek(w)
  <2>1. /\ wpc[w] = "peek" /\ work[Own] # <<>> /\ taken' = Append(taken, Head(work[Own]))
        /\ UNCHANGED <<elided, work, opc, added>> /\ wpc' = [wpc EXCEPT ![w] = "pop"]
    BY <1>3 DEF Peek, WGoto, objvars
  <2>2. elided /\ Own = "result" /\ opc # "closed"
    BY <2>1 DEF Conserved, Own, Mutex
  <2>3. ~Popping
    BY <2>1 DEF Popping, Mutex, WorkerInside
  <2>4. wpc'[w] = "pop" /\ Popping'
    BY <2>1 DEF Types, TypeOK, Popping
  <2>5. taken \in Seq(Jobs) /\ work["result"] \in Seq(Jobs)
    BY DEF Types, TypeOK, Queues, Objects
  <2>6. added = taken' \o Tail(work["result"])
    BY <2>1, <2>2, <2>3, <2>5, MoveHead DEF Conserved, JobsConserved, Popping
  <2>7. JobsConserved'
    BY <2>1, <2>4, <2>6 DEF JobsConserved, Popping
  <2> QED BY <2>1, <2>2, <2>7 DEF Conserved
<1>4. CASE Pop(w)
  <2>1. /\ wpc[w] = "pop" /\ UNCHANGED <<elided, opc, added, taken>>
        /\ work' = [work EXCEPT ![Own] = IF @ = <<>> THEN @ ELSE Tail(@)]
        /\ wpc' = [wpc EXCEPT ![w] = "unlock"]
    BY <1>4 DEF Pop, WGoto
  <2>2. elided /\ Own = "result" /\ opc # "closed" /\ Popping /\ work["result"] # <<>>
    BY <2>1 DEF Conserved, Own, Popping, Mutex
  <2>3. ~Popping'
    BY <2>1 DEF Popping, Mutex, WorkerInside, Types, TypeOK
  <2>4. work'["result"] = Tail(work["result"])
    BY <2>1, <2>2 DEF Types, TypeOK, Objects
  <2>5. added = taken \o work'["result"]
    BY <2>2, <2>4 DEF Conserved, JobsConserved, Popping
  <2>6. JobsConserved'
    BY <2>1, <2>3, <2>5 DEF JobsConserved, Popping
  <2> QED BY <2>1, <2>2, <2>3, <2>4, <2>6 DEF Conserved, Popping, Mutex
<1> QED BY <1>1, <1>2, <1>3, <1>4 DEF WorkerStep

LEMMA NextConserved == Types /\ Mutex /\ Conserved /\ [Next]_vars => Conserved'
<1>1. Types /\ Mutex /\ Conserved /\ UNCHANGED vars => Conserved'
  BY OtherSteps DEF vars, objvars
<1> QED BY <1>1, OwnerConserved, CallerConserved, WorkerConserved DEF Next

\* For any number of threads and callers, no job is lost, taken twice or
\* overtaken, although peek and pop are two calls.
THEOREM ConservesJobs == Spec => []JobsConserved
<1>1. Conserved => JobsConserved
  BY DEF Conserved
<1> QED BY <1>1, InitTypes, NextTypes, InitMutex, NextMutex, InitConserved, NextConserved, PTL DEF Spec


----------------------------------------------------------------------------
\* The signals, in the build that makes the pool in place

Signalling == {c \in Callers : cpc[c] = "signal"}
Due == Cardinality(Woken) + (IF Signalling = {} THEN 0 ELSE 1)

\* WokenHaveWork, with the job of the caller that has pushed and not signalled.
Signalled ==
    elided /\ ~unprompted /\ opc \in {"create", "return", "open"} =>
        ~crashed /\ Due <= Len(work["result"])

LEMMA WokenFinite ==
    ASSUME Types
    PROVE  IsFiniteSet(Woken) /\ Cardinality(Woken) \in Nat /\ Len(work["result"]) \in Nat
<1>1. IsFiniteSet(Woken)
  BY PoolAssumption, FS_Subset DEF PoolAssumption, Woken
<1> QED BY <1>1, FS_CardinalityType DEF Types, TypeOK, Queues, Objects

LEMMA InitSignalled == Init => Signalled
<1> SUFFICES ASSUME Init PROVE Signalled
  OBVIOUS
<1>1. Woken = {} /\ Signalling = {} /\ ~crashed /\ work["result"] = <<>>
  BY DEF Init, Woken, Signalling, Objects
<1> QED BY <1>1, FS_EmptySet DEF Signalled, Due

\* Steps that wake nobody, queue nothing and signal nothing.
LEMMA QuietSteps ==
    ASSUME Signalled, Woken' = Woken, Signalling' = Signalling,
           UNCHANGED <<elided, unprompted, crashed>>,
           elided => work'["result"] = work["result"],
           opc' \in {"create", "return", "open"} => opc \in {"create", "return", "open"}
    PROVE  Signalled'
BY DEF Signalled, Due

\* pthread_cond_signal wakes at most one thread.
LEMMA SignalWakes ==
    ASSUME Types, NEW o \in Objects, Signal(o)
    PROVE  Cardinality(Woken') <= Cardinality(Woken) + 1
<1>1. CASE waiters[o] = {}
  BY <1>1, WokenFinite DEF Signal, Woken
<1>2. CASE waiters[o] # {}
  <2>1. PICK w \in waiters[o] : wpc' = [wpc EXCEPT ![w] = "relock"]
    BY <1>2 DEF Signal, WGoto
  <2>2. w \in Workers
    BY DEF Types, TypeOK
  <2>3. Woken' = Woken \cup {w}
    BY <2>1, <2>2 DEF Woken, Types, TypeOK
  <2>4. Cardinality(Woken \cup {w}) <= Cardinality(Woken) + 1
    <3>1. Cardinality(Woken \cup {w}) = IF w \in Woken THEN Cardinality(Woken) ELSE Cardinality(Woken) + 1
      BY WokenFinite, FS_AddElement, Zenon
    <3> QED BY <3>1, WokenFinite
  <2> QED BY <2>3, <2>4
<1> QED BY <1>1, <1>2

LEMMA OwnerSignalled == Types /\ Mutex /\ Signalled /\ (OwnerStep \/ Deactivate) => Signalled'
<1> SUFFICES ASSUME Types, Mutex, Signalled, OwnerStep \/ Deactivate PROVE Signalled'
  OBVIOUS
<1> USE DEF objvars
<1>1. ASSUME NEW w \in Workers, Create(w) PROVE Signalled'
  <2>1. Woken' = Woken /\ Signalling' = Signalling
    BY <1>1 DEF Create, WGoto, Types, TypeOK, Woken, Signalling
  <2> QED BY <1>1, <2>1, QuietSteps DEF Create
<1>2. CASE Created
  BY <1>2, QuietSteps DEF Created, Woken, Signalling
<1>3. CASE Return
  <2>1. elided => work'["result"] = work["result"]
    BY <1>3 DEF Return, Own, Types, TypeOK, Objects
  <2> QED BY <1>3, <2>1, QuietSteps DEF Return, Woken, Signalling
<1>4. CASE SignalOne \/ JoinAll \/ Deactivate
  BY <1>4 DEF SignalOne, JoinAll, Deactivate, Signalled
<1> QED BY <1>1, <1>2, <1>3, <1>4 DEF OwnerStep

LEMMA CallerSignalled ==
    ASSUME Types, Mutex, Signalled, NEW c \in Callers, Call(c) \/ AddStep(c)
    PROVE  Signalled'
<1> USE DEF objvars, CGoto
<1>1. CASE Call(c)
  <2>1. Woken' = Woken /\ Signalling' = Signalling
    BY <1>1 DEF Call, Types, TypeOK, Woken, Signalling
  <2> QED BY <1>1, <2>1, QuietSteps DEF Call
<1>2. CASE AddLock(c)
  <2>1. Woken' = Woken /\ Signalling' = Signalling
    BY <1>2 DEF AddLock, Types, TypeOK, Woken, Signalling
  <2> QED BY <1>2, <2>1, QuietSteps DEF AddLock
<1>3. CASE Push(c)
  <2>1. /\ cpc[c] = "push" /\ cpc' = [cpc EXCEPT ![c] = "signal"] /\ UNCHANGED <<elided, unprompted, crashed, opc, wpc>>
        /\ work' = [work EXCEPT !["result"] = Append(@, adding[c])]
    BY <1>3 DEF Push
  <2>2. Signalling = {} /\ Woken' = Woken
    BY <2>1 DEF Mutex, CallerInside, Signalling, Woken
  <2>3. work["result"] \in Seq(Jobs) /\ Len(work'["result"]) = Len(work["result"]) + 1
    BY <2>1 DEF Types, TypeOK, Queues, Objects
  <2>4. Due = Cardinality(Woken) /\ Due' <= Cardinality(Woken) + 1
    BY <2>2, WokenFinite DEF Due
  <2>5. Due \in Int /\ Due' \in Int
    BY <2>2, WokenFinite DEF Due
  <2>6. Due <= Len(work["result"]) => Due' <= Len(work'["result"])
    BY <2>3, <2>4, <2>5, WokenFinite
  <2> QED BY <2>1, <2>6 DEF Signalled
<1>4. CASE AddSignal(c)
  <2>1. /\ Signal("result") /\ "result" \in Objects /\ cpc[c] = "signal"
        /\ cpc' = [cpc EXCEPT ![c] = "unlock"]
        /\ UNCHANGED <<elided, unprompted, crashed, opc, work>>
    BY <1>4 DEF AddSignal, Objects
  <2>2. c \in Signalling /\ Signalling' = {}
    BY <2>1 DEF Signalling, Mutex, CallerInside, Types, TypeOK
  <2>3. Cardinality(Woken') <= Cardinality(Woken) + 1
    BY <2>1, SignalWakes
  <2>4. Due = Cardinality(Woken) + 1 /\ Due' = Cardinality(Woken') + 0
    BY <2>2 DEF Due
  <2>5. Types'
    BY CallerTypes
  <2>6. Cardinality(Woken') \in Nat
    <3>1. IsFiniteSet(Woken')
      BY PoolAssumption, FS_Subset DEF PoolAssumption, Woken
    <3> QED BY <3>1, FS_CardinalityType
  <2> QED BY <2>1, <2>3, <2>4, <2>6, WokenFinite DEF Signalled
<1>5. CASE AddUnlock(c)
  <2>1. Woken' = Woken /\ Signalling' = Signalling
    BY <1>5 DEF AddUnlock, Types, TypeOK, Woken, Signalling
  <2> QED BY <1>5, <2>1, QuietSteps DEF AddUnlock
<1> QED BY <1>1, <1>2, <1>3, <1>4, <1>5 DEF AddStep

LEMMA WorkerSignalled ==
    ASSUME Types, Mutex, Conserved, Signalled, NEW w \in Workers,
           WorkerStep(w) \/ WakeSpuriously(w) \/ UseDeadFrame(w)
    PROVE  Signalled'
<1> USE DEF objvars, WGoto
<1>1. CASE Test(w) \/ Lock(w) \/ Wait(w) \/ Peek(w) \/ Unlock(w) \/ Run(w)
  <2>1. Woken' = Woken /\ Signalling' = Signalling
    BY <1>1 DEF Test, Lock, Wait, Peek, Unlock, Run, Types, TypeOK, Woken, Signalling
  <2>2. UNCHANGED <<elided, unprompted, crashed, work, opc>>
    BY <1>1 DEF Test, Lock, Wait, Peek, Unlock, Run
  <2> QED BY <2>1, <2>2, QuietSteps
<1>2. CASE PeekNull(w)
  <2>1. w \in Woken /\ work[Own] = <<>> /\ UNCHANGED <<elided, unprompted, opc>>
    BY <1>2 DEF PeekNull, Woken
  <2>2. Cardinality(Woken) # 0
    BY <2>1, WokenFinite, FS_EmptySet
  <2>3. elided => Len(work["result"]) = 0
    BY <2>1 DEF Own
  <2>4. ~(elided /\ ~unprompted /\ opc \in {"create", "return", "open"})
    BY <2>2, <2>3, WokenFinite DEF Signalled, Due
  <2> QED BY <2>1, <2>4 DEF Signalled
<1>3. CASE Pop(w)
  <2>1. /\ wpc[w] = "pop" /\ wpc' = [wpc EXCEPT ![w] = "unlock"]
        /\ UNCHANGED <<elided, unprompted, crashed, opc, cpc>>
        /\ work' = [work EXCEPT ![Own] = IF @ = <<>> THEN @ ELSE Tail(@)]
    BY <1>3 DEF Pop
  <2>2. w \in Woken /\ Woken' = Woken \ {w} /\ Signalling' = Signalling
    BY <2>1 DEF Woken, Signalling, Types, TypeOK
  <2>3. Cardinality(Woken') = Cardinality(Woken) - 1
    BY <2>2, WokenFinite, FS_RemoveElement
  <2>4. Due' = Due - 1
    BY <2>2, <2>3, WokenFinite DEF Due
  <2>5. work["result"] # <<>> /\ work["result"] \in Seq(Jobs)
    BY <2>1 DEF Conserved, Mutex, Types, TypeOK, Queues, Objects
  <2>6. elided => Len(work'["result"]) = Len(work["result"]) - 1
    BY <2>1, <2>5 DEF Own, Types, TypeOK, Objects
  <2>7. Due \in Int /\ Due' \in Int
    BY <2>4, WokenFinite DEF Due
  <2> QED BY <2>1, <2>4, <2>6, <2>7, WokenFinite DEF Signalled
<1>4. CASE WakeSpuriously(w)
  BY <1>4 DEF WakeSpuriously, Signalled
<1>5. CASE UseDeadFrame(w)
  BY <1>5 DEF UseDeadFrame, Signalled
<1> QED BY <1>1, <1>2, <1>3, <1>4, <1>5 DEF WorkerStep

\* For any number of threads and callers, in the build that makes the pool in
\* place, before it is destroyed and without spurious wakeups, no thread finds
\* the queue empty.
THEOREM NoNullPeek == Spec => []WokenHaveWork
<1>1. Types /\ Mutex /\ Conserved /\ Signalled /\ [Next]_vars => Signalled'
  <2>1. Signalled /\ UNCHANGED vars => Signalled'
    BY QuietSteps DEF vars, objvars, Woken, Signalling
  <2> QED BY <2>1, OwnerSignalled, CallerSignalled, WorkerSignalled DEF Next
<1>2. Types /\ Signalled => WokenHaveWork
  BY WokenFinite DEF Signalled, WokenHaveWork, Due
<1> QED BY <1>1, <1>2, InitTypes, NextTypes, InitMutex, NextMutex, InitConserved, NextConserved,
           InitSignalled, PTL DEF Spec

=============================================================================
