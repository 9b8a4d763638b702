----------------------------- MODULE ThreadPool -----------------------------
(***************************************************************************)
(* Systems/ThreadPool.c: the constructor that starts the threads, add_work *)
(* that queues a job and signals, the threads that wait for the signal,    *)
(* take the first job and run it, and the destructor.                      *)
(*                                                                         *)
(* The constructor fills a local struct, gives its address to the threads  *)
(* and returns it by value.  What the threads use is then the dead frame   *)
(* of the constructor, and what the caller uses is a copy of it, unless    *)
(* the build makes the result in place: elided says which.                 *)
(***************************************************************************)
EXTENDS Integers, Sequences, FiniteSets

CONSTANTS
    Workers,    \* the threads of the pool
    Callers,    \* the threads that call add_work
    Jobs,       \* the jobs they add, each once
    Builds,     \* the values of elided the build can have
    Spurious,   \* pthread_cond_wait may return without a signal
    Destroys,   \* the pool is destroyed when all jobs have been added
    Nobody      \* the mutex is free

ASSUME PoolAssumption ==
    /\ Builds \subseteq BOOLEAN /\ Spurious \in BOOLEAN /\ Destroys \in BOOLEAN
    /\ IsFiniteSet(Workers) /\ Workers # {}
    /\ Workers \cap Callers = {}
    /\ Nobody \notin Workers \cup Callers \cup {"owner"}
    /\ "owner" \notin Workers \cup Callers

VARIABLES
    elided,     \* the result is made in place: the frame is the result
    unprompted, \* history: a wait has returned without a signal
    crashed,    \* the process has dereferenced NULL or the dead frame
    lock,       \* of each object: the holder of the mutex
    waiters,    \* of each object: the threads asleep on the condition
    active,     \* of each object
    work,       \* of each object: the queue
    opc,        \* where the owner is: constructor, then destructor
    signals,    \* the destructor's i
    cpc,        \* where each caller is in add_work
    adding,     \* the job it adds
    wpc,        \* where each worker is
    job,        \* the job it has taken
    added,      \* history: the jobs in the order they were pushed
    taken,      \* history: the jobs in the order they were taken
    ran         \* history: the jobs that were run

objvars == <<elided, unprompted, lock, waiters, active, work>>
vars == <<crashed, objvars, opc, signals, cpc, adding, wpc, job, added, taken, ran>>

Objects == {"frame", "result"}
\* The object the constructor fills and the threads have the address of.
Own == IF elided THEN "result" ELSE "frame"
NoJob == <<>>

Init ==
    /\ elided \in Builds
    /\ unprompted = FALSE
    /\ crashed = FALSE
    /\ lock    = [o \in Objects |-> IF o = Own THEN "owner" ELSE Nobody]
    /\ waiters = [o \in Objects |-> {}]
    /\ active  = [o \in Objects |-> 1]
    /\ work    = [o \in Objects |-> <<>>]
    /\ opc     = "create"
    /\ signals = 0
    /\ cpc     = [c \in Callers |-> "idle"]
    /\ adding  = [c \in Callers |-> NoJob]
    /\ wpc     = [w \in Workers |-> "none"]
    /\ job     = [w \in Workers |-> NoJob]
    /\ added   = <<>>
    /\ taken   = <<>>
    /\ ran     = {}

WGoto(w, label) == wpc' = [wpc EXCEPT ![w] = label]
CGoto(c, label) == cpc' = [cpc EXCEPT ![c] = label]

\* pthread_cond_signal: one of the threads asleep on it, if there is one,
\* goes on to take the mutex again.
Signal(o) ==
    IF waiters[o] = {}
    THEN UNCHANGED <<waiters, wpc>>
    ELSE \E w \in waiters[o] :
           /\ waiters' = [waiters EXCEPT ![o] = @ \ {w}]
           /\ WGoto(w, "relock")

----------------------------------------------------------------------------
\* thread_pool_constructor, from the lock on

Create(w) ==
    /\ opc = "create"
    /\ wpc[w] = "none"
    /\ WGoto(w, "test")
    /\ UNCHANGED <<crashed, objvars, opc, signals, cpc, adding, job, added, taken, ran>>

Created ==
    /\ opc = "create"
    /\ \A w \in Workers : wpc[w] # "none"
    /\ lock' = [lock EXCEPT ![Own] = Nobody]
    /\ opc' = "return"
    /\ UNCHANGED <<elided, unprompted, crashed, waiters, active, work, signals, cpc, adding, wpc, job, added, taken, ran>>

\* The struct is copied as it is, a mutex some thread holds included; the
\* threads that sleep on the condition sleep on the frame's.
Return ==
    /\ opc = "return"
    /\ lock'   = [lock EXCEPT !["result"] = lock[Own]]
    /\ active' = [active EXCEPT !["result"] = active[Own]]
    /\ work'   = [work EXCEPT !["result"] = work[Own]]
    /\ opc' = "open"
    /\ UNCHANGED <<elided, unprompted, crashed, waiters, signals, cpc, adding, wpc, job, added, taken, ran>>

----------------------------------------------------------------------------
\* add_work, called on the result

Call(c) == \E j \in Jobs :
    /\ opc = "open"
    /\ cpc[c] = "idle"
    /\ \A i \in DOMAIN added : added[i] # j
    /\ \A d \in Callers : adding[d] # j
    /\ adding' = [adding EXCEPT ![c] = j]
    /\ CGoto(c, "lock")
    /\ UNCHANGED <<crashed, objvars, opc, signals, wpc, job, added, taken, ran>>

AddLock(c) ==
    /\ cpc[c] = "lock"
    /\ lock["result"] = Nobody
    /\ lock' = [lock EXCEPT !["result"] = c]
    /\ CGoto(c, "push")
    /\ UNCHANGED <<elided, unprompted, crashed, waiters, active, work, opc, signals, adding, wpc, job, added, taken, ran>>

Push(c) ==
    /\ cpc[c] = "push"
    /\ work' = [work EXCEPT !["result"] = Append(@, adding[c])]
    /\ added' = Append(added, adding[c])
    /\ CGoto(c, "signal")
    /\ UNCHANGED <<elided, unprompted, crashed, lock, waiters, active, opc, signals, adding, wpc, job, taken, ran>>

\* Mutant: pthread_cond_broadcast for pthread_cond_signal.
AddSignal_All(c) ==
    /\ cpc[c] = "signal"
    /\ waiters' = [waiters EXCEPT !["result"] = {}]
    /\ wpc' = [w \in Workers |-> IF w \in waiters["result"] THEN "relock" ELSE wpc[w]]
    /\ CGoto(c, "unlock")
    /\ UNCHANGED <<elided, unprompted, crashed, lock, active, work, opc, signals, adding, job, added, taken, ran>>

AddSignal(c) ==
    /\ cpc[c] = "signal"
    /\ Signal("result")
    /\ CGoto(c, "unlock")
    /\ UNCHANGED <<elided, unprompted, crashed, lock, active, work, opc, signals, adding, job, added, taken, ran>>

AddUnlock(c) ==
    /\ cpc[c] = "unlock"
    /\ lock' = [lock EXCEPT !["result"] = Nobody]
    /\ adding' = [adding EXCEPT ![c] = NoJob]
    /\ CGoto(c, "idle")
    /\ UNCHANGED <<elided, unprompted, crashed, waiters, active, work, opc, signals, wpc, job, added, taken, ran>>

AddStep(c) == AddLock(c) \/ Push(c) \/ AddSignal(c) \/ AddUnlock(c)

----------------------------------------------------------------------------
\* generic_thread_function, on the object of the constructor

Test(w) ==
    /\ wpc[w] = "test"
    /\ WGoto(w, IF active[Own] = 1 THEN "lock" ELSE "done")
    /\ UNCHANGED <<crashed, objvars, opc, signals, cpc, adding, job, added, taken, ran>>

\* At the top of the loop, and when pthread_cond_wait returns.
Lock(w) ==
    /\ wpc[w] \in {"lock", "relock"}
    /\ lock[Own] = Nobody
    /\ lock' = [lock EXCEPT ![Own] = w]
    /\ WGoto(w, IF wpc[w] = "lock" THEN "wait" ELSE "peek")
    /\ UNCHANGED <<elided, unprompted, crashed, waiters, active, work, opc, signals, cpc, adding, job, added, taken, ran>>

\* The wait is not guarded by a look at the queue.
Wait(w) ==
    /\ wpc[w] = "wait"
    /\ lock' = [lock EXCEPT ![Own] = Nobody]
    /\ waiters' = [waiters EXCEPT ![Own] = @ \cup {w}]
    /\ WGoto(w, "asleep")
    /\ UNCHANGED <<elided, unprompted, crashed, active, work, opc, signals, cpc, adding, job, added, taken, ran>>

WakeSpuriously(w) ==
    /\ Spurious
    /\ w \in waiters[Own]
    /\ waiters' = [waiters EXCEPT ![Own] = @ \ {w}]
    /\ unprompted' = TRUE
    /\ WGoto(w, "relock")
    /\ UNCHANGED <<elided, crashed, lock, active, work, opc, signals, cpc, adding, job, added, taken, ran>>

\* peek of an empty queue is NULL, and it is dereferenced.
PeekNull(w) ==
    /\ wpc[w] = "peek"
    /\ work[Own] = <<>>
    /\ crashed' = TRUE
    /\ UNCHANGED <<objvars, opc, signals, cpc, adding, wpc, job, added, taken, ran>>

\* Mutant: the mutex is released between peek and pop.
Peek_Unlocks(w) ==
    /\ wpc[w] = "peek"
    /\ work[Own] # <<>>
    /\ job' = [job EXCEPT ![w] = Head(work[Own])]
    /\ taken' = Append(taken, Head(work[Own]))
    /\ lock' = [lock EXCEPT ![Own] = Nobody]
    /\ WGoto(w, "pop")
    /\ UNCHANGED <<elided, unprompted, crashed, waiters, active, work, opc, signals, cpc, adding, added, ran>>

Peek(w) ==
    /\ wpc[w] = "peek"
    /\ work[Own] # <<>>
    /\ job' = [job EXCEPT ![w] = Head(work[Own])]
    /\ taken' = Append(taken, Head(work[Own]))
    /\ WGoto(w, "pop")
    /\ UNCHANGED <<crashed, objvars, opc, signals, cpc, adding, added, ran>>

Pop(w) ==
    /\ wpc[w] = "pop"
    /\ work' = [work EXCEPT ![Own] = IF @ = <<>> THEN @ ELSE Tail(@)]
    /\ WGoto(w, "unlock")
    /\ UNCHANGED <<elided, unprompted, crashed, lock, waiters, active, opc, signals, cpc, adding, job, added, taken, ran>>

\* Mutant: the unlock before the job is forgotten.
Unlock_Forgotten(w) ==
    /\ wpc[w] = "unlock"
    /\ WGoto(w, "run")
    /\ UNCHANGED <<crashed, objvars, opc, signals, cpc, adding, job, added, taken, ran>>

Unlock(w) ==
    /\ wpc[w] = "unlock"
    /\ lock' = [lock EXCEPT ![Own] = Nobody]
    /\ WGoto(w, "run")
    /\ UNCHANGED <<elided, unprompted, crashed, waiters, active, work, opc, signals, cpc, adding, job, added, taken, ran>>

Run(w) ==
    /\ wpc[w] = "run"
    /\ ran' = ran \cup {job[w]}
    /\ job' = [job EXCEPT ![w] = NoJob]
    /\ WGoto(w, "test")
    /\ UNCHANGED <<crashed, objvars, opc, signals, cpc, adding, added, taken>>

\* Undefined behaviour: the frame is dead and may have been overwritten.  A
\* thread may see it as it was (the actions above), find active changed, or
\* crash on what it finds.
UseDeadFrame(w) ==
    /\ ~elided
    /\ opc \notin {"create", "return"}
    /\ \/ /\ wpc[w] = "test"
          /\ WGoto(w, "done")
          /\ UNCHANGED crashed
       \/ /\ wpc[w] \in {"test", "lock", "wait", "relock", "peek", "pop", "unlock"}
          /\ crashed' = TRUE
          /\ UNCHANGED wpc
    /\ UNCHANGED <<objvars, opc, signals, cpc, adding, job, added, taken, ran>>

WorkerStep(w) ==
    \/ Test(w) \/ Lock(w) \/ Wait(w) \/ PeekNull(w) \/ Peek(w) \/ Pop(w) \/ Unlock(w) \/ Run(w)

----------------------------------------------------------------------------
\* thread_pool_destructor

\* active is written without the mutex.
Deactivate ==
    /\ Destroys
    /\ opc = "open"
    /\ Len(added) = Cardinality(Jobs)
    /\ \A c \in Callers : cpc[c] = "idle"
    /\ active' = [active EXCEPT !["result"] = 0]
    /\ opc' = "signal"
    /\ UNCHANGED <<elided, unprompted, crashed, lock, waiters, work, signals, cpc, adding, wpc, job, added, taken, ran>>

\* Mutant: the loop ends one thread too early.
SignalOne_Short ==
    /\ opc = "signal"
    /\ Signal("result")
    /\ signals' = signals + 1
    /\ opc' = IF signals + 2 >= Cardinality(Workers) THEN "join" ELSE "signal"
    /\ UNCHANGED <<elided, unprompted, crashed, lock, active, work, cpc, adding, job, added, taken, ran>>

\* Mutant: <= for < in the loop.
SignalOne_Extra ==
    /\ opc = "signal"
    /\ Signal("result")
    /\ signals' = signals + 1
    /\ opc' = IF signals = Cardinality(Workers) THEN "join" ELSE "signal"
    /\ UNCHANGED <<elided, unprompted, crashed, lock, active, work, cpc, adding, job, added, taken, ran>>

SignalOne ==
    /\ opc = "signal"
    /\ Signal("result")
    /\ signals' = signals + 1
    /\ opc' = IF signals + 1 = Cardinality(Workers) THEN "join" ELSE "signal"
    /\ UNCHANGED <<elided, unprompted, crashed, lock, active, work, cpc, adding, job, added, taken, ran>>

\* All threads are joined, then the queue is destroyed.
JoinAll ==
    /\ opc = "join"
    /\ \A w \in Workers : wpc[w] = "done"
    /\ work' = [work EXCEPT !["result"] = <<>>]
    /\ opc' = "closed"
    /\ UNCHANGED <<elided, unprompted, crashed, lock, waiters, active, signals, cpc, adding, wpc, job, added, taken, ran>>

OwnerStep == (\E w \in Workers : Create(w)) \/ Created \/ Return \/ SignalOne \/ JoinAll

Next ==
    /\ ~crashed
    /\ \/ OwnerStep \/ Deactivate
       \/ \E c \in Callers : Call(c) \/ AddStep(c)
       \/ \E w \in Workers : WorkerStep(w) \/ WakeSpuriously(w) \/ UseDeadFrame(w)

Spec == Init /\ [][Next]_vars

(* The threads are scheduled, and a thread that waits for a mutex that is  *)
(* free again and again gets it.  Signals are never spurious by fairness.  *)
Fairness ==
    /\ WF_vars(~crashed /\ OwnerStep)
    /\ \A c \in Callers : WF_vars(~crashed /\ AddStep(c)) /\ SF_vars(~crashed /\ AddLock(c))
    /\ \A w \in Workers : WF_vars(~crashed /\ WorkerStep(w)) /\ SF_vars(~crashed /\ Lock(w))

FairSpec == Spec /\ Fairness

----------------------------------------------------------------------------
\* Properties

Threads == Workers \cup Callers \cup {"owner"}
Queues  == Seq(Jobs)

\* The type of every variable.
TypeOK ==
    /\ elided \in BOOLEAN /\ unprompted \in BOOLEAN
    /\ crashed \in BOOLEAN
    /\ lock \in [Objects -> Threads \cup {Nobody}]
    /\ waiters \in [Objects -> SUBSET Workers]
    /\ active \in [Objects -> {0, 1}]
    /\ work \in [Objects -> Queues]
    /\ opc \in {"create", "return", "open", "signal", "join", "closed"}
    /\ signals \in 0..Cardinality(Workers)
    /\ cpc \in [Callers -> {"idle", "lock", "push", "signal", "unlock"}]
    /\ adding \in [Callers -> Jobs \cup {NoJob}]
    /\ wpc \in [Workers -> {"none", "test", "lock", "wait", "asleep", "relock",
                            "peek", "pop", "unlock", "run", "done"}]
    /\ job \in [Workers -> Jobs \cup {NoJob}]
    /\ added \in Queues /\ taken \in Queues
    /\ ran \subseteq Jobs

\* What was added is what was taken followed by what is queued: no job is
\* lost, taken twice or overtaken, although peek and pop are two calls.
JobsConserved ==
    opc # "closed" =>
        added = taken \o (IF \E w \in Workers : wpc[w] = "pop"
                          THEN Tail(work["result"]) ELSE work["result"])

Woken == {w \in Workers : wpc[w] \in {"relock", "peek", "pop"}}

\* As long as the pool is not being destroyed and only signals wake, every
\* thread on its way from the wait to the queue finds a job there: no NULL is
\* dereferenced (in the build that makes the pool in place).
WokenHaveWork ==
    (elided /\ ~unprompted /\ opc \in {"create", "return", "open"}) =>
        ~crashed /\ Cardinality(Woken) <= Len(work["result"])

\* "Adds work to the queue in a thread safe way" (ThreadPool.c:83): in that
\* build add_work comes back, whatever the threads and the other callers do.
AddReturns == \A c \in Callers :
    (elided /\ cpc[c] = "lock") ~> (cpc[c] = "idle" \/ crashed)

\* The destructor of a pool made in place returns, or a thread that it wakes
\* finds the queue empty and crashes, or it joins for ever a thread that went to
\* sleep too late for its signals: one that was asleep when it started to signal
\* is never missed, although any thread that waits by then can take a signal,
\* and nothing else keeps the destructor (ThreadPool.c:42-54).
DestructorReturns == \A S \in SUBSET Workers :
    (elided /\ opc = "signal" /\ signals = 0 /\ S = {w \in Workers : wpc[w] = "asleep"})
        ~> \/ opc = "closed" \/ crashed
           \/ \E w \in Workers \ S : [](wpc[w] = "asleep")

\* "It allows each thread to await a ThreadJob object and execute its
\* contents" (ThreadPool.c:59): a job that has been added is run.
JobsRun == \A j \in Jobs : (\E i \in DOMAIN added : added[i] = j) ~> j \in ran \/ crashed

=============================================================================
