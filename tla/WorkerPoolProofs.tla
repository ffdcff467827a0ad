-------------------------- MODULE WorkerPoolProofs --------------------------
(***************************************************************************)
(* Proofs about WorkerPool, for any number of workers, clients, jobs and   *)
(* calls of stop. The inductive invariant PoolInv ties the program points  *)
(* of the workers to the mutex and to the set of blocked threads; the two  *)
(* absence-of-lost-wakeup properties are inductive relative to it.         *)
(***************************************************************************)
EXTENDS WorkerPool, SequenceTheorems, TLAPS

\* Workers stand at points of Worker::run, clients at points of the API calls.
Points ==
  /\ \A w \in Workers : at[w] \in WorkerPoints
  /\ \A c \in Clients : at[c] \in ClientPoints

\* The mutex is held exactly by the worker inside the wait of Worker::run.
Holder == \A w \in Workers : m_queueMutex = w <=> at[w] \in {"test", "block", "pop"}

\* The condition variable's queue.
Blocked == \A w \in Workers : w \in waiting <=> at[w] = "waiting"

\* A worker goes to sleep only on an empty queue.
BlocksOnEmpty == \A w \in Workers : at[w] = "block" => m_jobs = <<>>

PoolInv == TypeOK /\ Points /\ Holder /\ Blocked /\ BlocksOnEmpty
             /\ NoSleepThroughStop /\ NoSleepOnWork

\* The queue holds the jobs that were submitted and not yet taken, in order;
\* a worker has a job exactly while it runs it.
Numbered ==
  /\ Len(m_jobs) <= submitted
  /\ \A i \in 1..Len(m_jobs) : m_jobs[i] = submitted - Len(m_jobs) + i
  /\ \A w \in Workers : job[w] = 0 <=> at[w] # "run"

\* Without a restart, a worker past the wait has a job or a stopped pool.
PopGuarded ==
  ~Restart => \A w \in Workers : /\ at[w] = "pop" => m_jobs # <<>> \/ ~m_running
                                 /\ at[w] # "broken"

USE DEF Move, Threads, WorkerPoints, ClientPoints

\* The first element and the rest of a non-empty sequence.
LEMMA HeadTail ==
  ASSUME NEW S, NEW s \in Seq(S), s # <<>>
  PROVE  /\ Head(s) = s[1] /\ Head(s) \in S /\ Tail(s) \in Seq(S)
         /\ Len(s) \in Nat \ {0} /\ Len(Tail(s)) = Len(s) - 1
         /\ \A i \in 1..Len(Tail(s)) : Tail(s)[i] = s[i + 1]
OBVIOUS

\* The invariant holds initially.
LEMMA PoolInit == Init => PoolInv
<1> SUFFICES ASSUME Init PROVE PoolInv
  OBVIOUS
<1> USE PoolAssumption DEF Init
<1>1. TypeOK
  BY DEF TypeOK
<1>2. Points /\ Holder /\ Blocked /\ BlocksOnEmpty
  BY DEF Points, Holder, Blocked, BlocksOnEmpty
<1>3. NoSleepThroughStop /\ NoSleepOnWork
  BY DEF NoSleepThroughStop, NoSleepOnWork
<1> QED BY <1>1, <1>2, <1>3 DEF PoolInv

\* Every step keeps the types.
LEMMA PoolTypeStep == PoolInv /\ [Next]_vars => TypeOK'
<1> SUFFICES ASSUME PoolInv, [Next]_vars PROVE TypeOK'
  OBVIOUS
<1> USE PoolAssumption DEF PoolInv, TypeOK
<1>1. CASE UNCHANGED vars BY <1>1 DEF vars
<1>2. ASSUME NEW w \in Workers, WorkerStep(w) PROVE TypeOK'
  <2>1. CASE Loop(w) BY <2>1 DEF Loop
  <2>2. CASE Lock(w) BY <2>2 DEF Lock
  <2>3. CASE Test(w) BY <2>3 DEF Test
  <2>4. CASE Block(w) BY <2>4 DEF Block
  <2>5. CASE Pop(w)
    <3>1. CASE m_jobs = <<>> BY <2>5, <3>1 DEF Pop
    <3>2. CASE m_jobs # <<>>
      <4>1. Head(m_jobs) \in 1..MaxJobs /\ Tail(m_jobs) \in Seq(1..MaxJobs)
        BY <3>2, HeadTail
      <4>2. job' = [job EXCEPT ![w] = Head(m_jobs)] /\ m_jobs' = Tail(m_jobs)
        BY <2>5, <3>2 DEF Pop
      <4>3. job' \in [Workers -> 0..MaxJobs] /\ m_jobs' \in Seq(1..MaxJobs)
        BY <4>1, <4>2
      <4>4. UNCHANGED <<m_running, waiting, notifying, submitted, stops>>
              /\ m_queueMutex' = None /\ at' = [at EXCEPT ![w] = "run"]
        BY <2>5, <3>2 DEF Pop
      <4> QED BY <4>3, <4>4
    <3> QED BY <3>1, <3>2
  <2>6. CASE JobEnd(w) BY <2>6 DEF JobEnd
  <2>7. CASE NotifyOne(w) BY <2>7 DEF NotifyOne
  <2> QED BY <1>2, <2>1, <2>2, <2>3, <2>4, <2>5, <2>6, <2>7 DEF WorkerStep
<1>3. ASSUME NEW c \in Clients, ClientStep(c) PROVE TypeOK'
  <2>1. CASE NotifyOne(c) BY <2>1 DEF NotifyOne
  <2>2. CASE Fence(c) BY <2>2 DEF Fence
  <2>3. CASE NotifyAll(c) BY <2>3 DEF NotifyAll
  <2>4. CASE Join(c) BY <2>4 DEF Join
  <2> QED BY <1>3, <2>1, <2>2, <2>3, <2>4 DEF ClientStep
<1>4. ASSUME NEW th \in Threads, Push(th) PROVE TypeOK'
  BY <1>4 DEF Push
<1>5. ASSUME NEW c \in Clients, Stop(c) \/ Run(c) PROVE TypeOK'
  <2>1. CASE Stop(c)
    <3>1. at' \in [Threads -> WorkerPoints \cup ClientPoints] BY <2>1 DEF Stop
    <3>2. stops' \in 0..MaxStops BY <2>1 DEF Stop
    <3> QED BY <2>1, <3>1, <3>2 DEF Stop
  <2>2. CASE Run(c) BY <2>2 DEF Run
  <2> QED BY <1>5, <2>1, <2>2
<1>6. ASSUME NEW w \in Workers, SpuriousWake(w) PROVE TypeOK'
  BY <1>6 DEF SpuriousWake
<1> QED BY <1>1, <1>2, <1>3, <1>4, <1>5, <1>6 DEF Next, Environment

\* The program points agree with the mutex, the blocked threads and the queue.
LEMMA PoolShapeStep ==
  PoolInv /\ [Next]_vars => (Points /\ Holder /\ Blocked /\ BlocksOnEmpty)'
<1> SUFFICES ASSUME PoolInv, [Next]_vars
             PROVE  (Points /\ Holder /\ Blocked /\ BlocksOnEmpty)'
  OBVIOUS
<1> USE PoolAssumption DEF PoolInv, TypeOK, Points, Holder, Blocked, BlocksOnEmpty
<1>1. CASE UNCHANGED vars BY <1>1 DEF vars
<1>2. ASSUME NEW w \in Workers, WorkerStep(w)
      PROVE  (Points /\ Holder /\ Blocked /\ BlocksOnEmpty)'
  <2>1. CASE Loop(w) BY <2>1 DEF Loop
  <2>2. CASE Lock(w) BY <2>2 DEF Lock
  <2>3. CASE Test(w) BY <2>3 DEF Test
  <2>4. CASE Block(w) BY <2>4 DEF Block
  <2>5. CASE Pop(w)
    <3>1. PICK p \in {"exited", "run", "broken"} : at' = [at EXCEPT ![w] = p]
      BY <2>5 DEF Pop
    <3>2. m_queueMutex' = None /\ waiting' = waiting /\ m_queueMutex = w
      BY <2>5 DEF Pop
    <3>3. \A v \in Workers : at[v] # "block"
      BY <2>5, <3>2 DEF Pop
    <3> QED BY <3>1, <3>2, <3>3
  <2>6. CASE JobEnd(w) BY <2>6 DEF JobEnd
  <2>7. CASE NotifyOne(w) BY <2>7 DEF NotifyOne
  <2> QED BY <1>2, <2>1, <2>2, <2>3, <2>4, <2>5, <2>6, <2>7 DEF WorkerStep
<1>3. ASSUME NEW c \in Clients, ClientStep(c)
      PROVE  (Points /\ Holder /\ Blocked /\ BlocksOnEmpty)'
  <2>1. CASE NotifyOne(c) BY <2>1 DEF NotifyOne
  <2>2. CASE Fence(c) BY <2>2 DEF Fence
  <2>3. CASE NotifyAll(c) BY <2>3 DEF NotifyAll
  <2>4. CASE Join(c) BY <2>4 DEF Join
  <2> QED BY <1>3, <2>1, <2>2, <2>3, <2>4 DEF ClientStep
<1>4. ASSUME NEW th \in Threads, Push(th)
      PROVE  (Points /\ Holder /\ Blocked /\ BlocksOnEmpty)'
  BY <1>4 DEF Push
<1>5. ASSUME NEW c \in Clients, Stop(c) \/ Run(c)
      PROVE  (Points /\ Holder /\ Blocked /\ BlocksOnEmpty)'
  <2>1. CASE Stop(c) BY <2>1 DEF Stop
  <2>2. CASE Run(c) BY <2>2 DEF Run
  <2> QED BY <1>5, <2>1, <2>2
<1>6. ASSUME NEW w \in Workers, SpuriousWake(w)
      PROVE  (Points /\ Holder /\ Blocked /\ BlocksOnEmpty)'
  BY <1>6 DEF SpuriousWake
<1> QED BY <1>1, <1>2, <1>3, <1>4, <1>5, <1>6 DEF Next, Environment

\* stop: whoever is blocked, or about to block, will be notified.
LEMMA PoolStopStep == PoolInv /\ [Next]_vars => NoSleepThroughStop'
<1> SUFFICES ASSUME PoolInv, [Next]_vars PROVE NoSleepThroughStop'
  OBVIOUS
<1> USE PoolAssumption DEF PoolInv, TypeOK, Points, Holder, Blocked, NoSleepThroughStop
<1>1. CASE UNCHANGED vars BY <1>1 DEF vars
<1>2. ASSUME NEW w \in Workers, WorkerStep(w) PROVE NoSleepThroughStop'
  <2>1. CASE Loop(w) BY <2>1 DEF Loop
  <2>2. CASE Lock(w) BY <2>2 DEF Lock
  <2>3. CASE Test(w) BY <2>3 DEF Test
  <2>4. CASE Block(w) BY <2>4 DEF Block
  <2>5. CASE Pop(w)
    <3>1. PICK p \in {"exited", "run", "broken"} : at' = [at EXCEPT ![w] = p]
      BY <2>5 DEF Pop
    <3>2. m_running' = m_running BY <2>5 DEF Pop
    <3> QED BY <3>1, <3>2
  <2>6. CASE JobEnd(w) BY <2>6 DEF JobEnd
  <2>7. CASE NotifyOne(w) BY <2>7 DEF NotifyOne
  <2> QED BY <1>2, <2>1, <2>2, <2>3, <2>4, <2>5, <2>6, <2>7 DEF WorkerStep
<1>3. ASSUME NEW c \in Clients, ClientStep(c) PROVE NoSleepThroughStop'
  <2>1. CASE NotifyOne(c) BY <2>1 DEF NotifyOne
  <2>2. CASE Fence(c)
    <3>1. \A w \in Workers : at[w] # "block" BY <2>2 DEF Fence
    <3>2. at' = [at EXCEPT ![c] = "notify_all"] /\ m_running' = m_running
      BY <2>2 DEF Fence
    <3> QED BY <3>1, <3>2
  <2>3. CASE NotifyAll(c) BY <2>3 DEF NotifyAll
  <2>4. CASE Join(c) BY <2>4 DEF Join
  <2> QED BY <1>3, <2>1, <2>2, <2>3, <2>4 DEF ClientStep
<1>4. ASSUME NEW th \in Threads, Push(th) PROVE NoSleepThroughStop'
  BY <1>4 DEF Push
<1>5. ASSUME NEW c \in Clients, Stop(c) \/ Run(c) PROVE NoSleepThroughStop'
  <2>1. CASE Stop(c)
    <3>1. CASE m_running
      <4>1. at' = [at EXCEPT ![c] = "fence"] BY <2>1, <3>1 DEF Stop
      <4> QED BY <4>1
    <3>2. CASE ~m_running
      <4>1. at[c] = "idle" /\ at' = [at EXCEPT ![c] = "notify_all"]
        BY <2>1, <3>2 DEF Stop
      <4> QED BY <3>2, <4>1
    <3> QED BY <3>1, <3>2
  <2>2. CASE Run(c) BY <2>2 DEF Run
  <2> QED BY <1>5, <2>1, <2>2
<1>6. ASSUME NEW w \in Workers, SpuriousWake(w) PROVE NoSleepThroughStop'
  BY <1>6 DEF SpuriousWake
<1> QED BY <1>1, <1>2, <1>3, <1>4, <1>5, <1>6 DEF Next, Environment

\* enqueue: a non-empty queue has somebody to look at it.
LEMMA PoolWorkStep == PoolInv /\ [Next]_vars => NoSleepOnWork'
<1> SUFFICES ASSUME PoolInv, [Next]_vars PROVE NoSleepOnWork'
  OBVIOUS
<1> USE PoolAssumption
    DEF PoolInv, TypeOK, Points, Holder, Blocked, BlocksOnEmpty, NoSleepOnWork, Awake
<1>1. CASE UNCHANGED vars BY <1>1 DEF vars
<1>2. ASSUME NEW w \in Workers, WorkerStep(w) PROVE NoSleepOnWork'
  <2>1. CASE Loop(w) BY <2>1 DEF Loop
  <2>2. CASE Lock(w) BY <2>2 DEF Lock
  <2>3. CASE Test(w) BY <2>3 DEF Test
  <2>4. CASE Block(w) BY <2>4 DEF Block
  <2>5. CASE Pop(w)
    <3>1. PICK p \in {"exited", "run", "broken"} : at' = [at EXCEPT ![w] = p]
      BY <2>5 DEF Pop
    <3> QED BY <3>1
  <2>6. CASE JobEnd(w) BY <2>6 DEF JobEnd
  <2>7. CASE NotifyOne(w) BY <2>7 DEF NotifyOne
  <2> QED BY <1>2, <2>1, <2>2, <2>3, <2>4, <2>5, <2>6, <2>7 DEF WorkerStep
<1>3. ASSUME NEW c \in Clients, ClientStep(c) PROVE NoSleepOnWork'
  <2>1. CASE NotifyOne(c) BY <2>1 DEF NotifyOne
  <2>2. CASE Fence(c) BY <2>2 DEF Fence
  <2>3. CASE NotifyAll(c) BY <2>3 DEF NotifyAll
  <2>4. CASE Join(c) BY <2>4 DEF Join
  <2> QED BY <1>3, <2>1, <2>2, <2>3, <2>4 DEF ClientStep
<1>4. ASSUME NEW th \in Threads, Push(th) PROVE NoSleepOnWork'
  <2>1. notifying' # {} BY <1>4 DEF Push
  <2> QED BY <2>1
<1>5. ASSUME NEW c \in Clients, Stop(c) \/ Run(c) PROVE NoSleepOnWork'
  <2>1. CASE Stop(c)
    <3>1. PICK p \in {"fence", "notify_all"} : at' = [at EXCEPT ![c] = p]
      BY <2>1 DEF Stop
    <3>2. UNCHANGED <<m_jobs, notifying>> BY <2>1 DEF Stop
    <3> QED BY <3>1, <3>2
  <2>2. CASE Run(c) BY <2>2 DEF Run
  <2> QED BY <1>5, <2>1, <2>2
<1>6. ASSUME NEW w \in Workers, SpuriousWake(w) PROVE NoSleepOnWork'
  BY <1>6 DEF SpuriousWake
<1> QED BY <1>1, <1>2, <1>3, <1>4, <1>5, <1>6 DEF Next, Environment

\* PoolInv is an invariant of the pool.
THEOREM PoolInvariant == Spec => []PoolInv
<1>1. PoolInv /\ [Next]_vars => PoolInv'
  BY PoolTypeStep, PoolShapeStep, PoolStopStep, PoolWorkStep DEF PoolInv
<1> QED BY PoolInit, <1>1, PTL DEF Spec

\* For any pool: no worker sleeps through a stop, however stop, run, enqueue
\* and spurious wakeups interleave (TaskScheduler.cpp:24-45, 76-90).
THEOREM StopIsNeverMissed == Spec => []NoSleepThroughStop
<1>1. PoolInv => NoSleepThroughStop BY DEF PoolInv
<1> QED BY PoolInvariant, <1>1, PTL

\* For any pool: a queued job is never left with every worker
\* asleep and no notification to come (TaskScheduler.cpp:24-45, 92-98).
THEOREM WorkIsNeverMissed == Spec => []NoSleepOnWork
<1>1. PoolInv => NoSleepOnWork BY DEF PoolInv
<1> QED BY PoolInvariant, <1>1, PTL

\* For any pool: the variables keep their types.
THEOREM PoolTypes == Spec => []TypeOK
<1>1. PoolInv => TypeOK BY DEF PoolInv
<1> QED BY PoolInvariant, <1>1, PTL

-----------------------------------------------------------------------------
(* Refinement of JobQueue, for a pool that is not restarted.               *)

\* The part of the invariant that only the refinement needs.
QueueInv == PoolInv /\ Numbered /\ PopGuarded

\* Initially nothing is queued and nothing runs.
LEMMA QueueInit == Init => QueueInv
<1> SUFFICES ASSUME Init PROVE Numbered /\ PopGuarded
  BY PoolInit DEF QueueInv
<1> QED BY PoolAssumption DEF Init, Numbered, PopGuarded

\* The queue stays a segment of the job numbers.
LEMMA QueueNumberedStep == QueueInv /\ [Next]_vars => Numbered'
<1> SUFFICES ASSUME QueueInv, [Next]_vars PROVE Numbered'
  OBVIOUS
<1> USE PoolAssumption DEF QueueInv, PoolInv, TypeOK, Points, Blocked, Numbered
<1>1. CASE UNCHANGED vars BY <1>1 DEF vars
<1>2. ASSUME NEW w \in Workers, WorkerStep(w) PROVE Numbered'
  <2>1. CASE Loop(w) BY <2>1 DEF Loop
  <2>2. CASE Lock(w) BY <2>2 DEF Lock
  <2>3. CASE Test(w) BY <2>3 DEF Test
  <2>4. CASE Block(w) BY <2>4 DEF Block
  <2>5. CASE Pop(w)
    <3>1. CASE m_jobs = <<>> BY <2>5, <3>1 DEF Pop
    <3>2. CASE m_jobs # <<>>
      <4>1. /\ m_jobs' = Tail(m_jobs) /\ submitted' = submitted
            /\ at' = [at EXCEPT ![w] = "run"] /\ job' = [job EXCEPT ![w] = Head(m_jobs)]
        BY <2>5, <3>2 DEF Pop
      <4>2. /\ Head(m_jobs) = m_jobs[1] /\ Head(m_jobs) \in 1..MaxJobs
            /\ Len(m_jobs) \in Nat \ {0} /\ Len(Tail(m_jobs)) = Len(m_jobs) - 1
            /\ \A i \in 1..Len(Tail(m_jobs)) : Tail(m_jobs)[i] = m_jobs[i + 1]
        BY <3>2, HeadTail
      <4>3. Len(m_jobs') = Len(m_jobs) - 1 /\ Len(m_jobs') <= submitted'
        BY <4>1, <4>2
      <4>4. \A i \in 1..Len(m_jobs') : m_jobs'[i] = submitted' - Len(m_jobs') + i
        BY <4>1, <4>2, <4>3
      <4>5. \A v \in Workers : job'[v] = 0 <=> at'[v] # "run"
        BY <4>1, <4>2
      <4> QED BY <4>3, <4>4, <4>5
    <3> QED BY <3>1, <3>2
  <2>6. CASE JobEnd(w) BY <2>6 DEF JobEnd
  <2>7. CASE NotifyOne(w) BY <2>7 DEF NotifyOne
  <2> QED BY <1>2, <2>1, <2>2, <2>3, <2>4, <2>5, <2>6, <2>7 DEF WorkerStep
<1>3. ASSUME NEW c \in Clients, ClientStep(c) PROVE Numbered'
  <2>1. CASE NotifyOne(c) BY <2>1 DEF NotifyOne
  <2>2. CASE Fence(c) BY <2>2 DEF Fence
  <2>3. CASE NotifyAll(c) BY <2>3 DEF NotifyAll
  <2>4. CASE Join(c) BY <2>4 DEF Join
  <2> QED BY <1>3, <2>1, <2>2, <2>3, <2>4 DEF ClientStep
<1>4. ASSUME NEW th \in Threads, Push(th) PROVE Numbered'
  <2>1. /\ m_jobs' = Append(m_jobs, submitted + 1) /\ submitted' = submitted + 1
        /\ UNCHANGED <<at, job>>
    BY <1>4 DEF Push
  <2>2. Len(m_jobs') = Len(m_jobs) + 1 BY <2>1
  <2>3. \A i \in 1..Len(m_jobs') :
          m_jobs'[i] = IF i <= Len(m_jobs) THEN m_jobs[i] ELSE submitted + 1
    BY <2>1
  <2>4. \A i \in 1..Len(m_jobs') : m_jobs'[i] = submitted' - Len(m_jobs') + i
    BY <2>1, <2>2, <2>3
  <2> QED BY <2>1, <2>2, <2>4
<1>5. ASSUME NEW c \in Clients, Stop(c) \/ Run(c) PROVE Numbered'
  <2>1. CASE Stop(c) BY <2>1 DEF Stop
  <2>2. CASE Run(c) BY <2>2 DEF Run
  <2> QED BY <1>5, <2>1, <2>2
<1>6. ASSUME NEW w \in Workers, SpuriousWake(w) PROVE Numbered'
  BY <1>6 DEF SpuriousWake
<1> QED BY <1>1, <1>2, <1>3, <1>4, <1>5, <1>6 DEF Next, Environment

\* Without run(), what the wait's predicate established holds when the job is
\* popped: the mutex is held in between and a stopped pool stays stopped.
LEMMA PopGuardedStep == QueueInv /\ [Next]_vars => PopGuarded'
<1> SUFFICES ASSUME QueueInv, [Next]_vars, ~Restart PROVE PopGuarded'
  BY DEF PopGuarded
<1> USE PoolAssumption DEF QueueInv, PoolInv, TypeOK, Points, Holder, Blocked, PopGuarded
<1>1. CASE UNCHANGED vars BY <1>1 DEF vars
<1>2. ASSUME NEW w \in Workers, WorkerStep(w) PROVE PopGuarded'
  <2>1. CASE Loop(w) BY <2>1 DEF Loop
  <2>2. CASE Lock(w) BY <2>2 DEF Lock
  <2>3. CASE Test(w) BY <2>3 DEF Test
  <2>4. CASE Block(w) BY <2>4 DEF Block
  <2>5. CASE Pop(w)
    <3>1. PICK p \in {"exited", "run"} : at' = [at EXCEPT ![w] = p]
      BY <2>5 DEF Pop
    <3>2. \A v \in Workers \ {w} : at[v] # "pop"
      BY <2>5 DEF Pop
    <3> QED BY <3>1, <3>2
  <2>6. CASE JobEnd(w) BY <2>6 DEF JobEnd
  <2>7. CASE NotifyOne(w) BY <2>7 DEF NotifyOne
  <2> QED BY <1>2, <2>1, <2>2, <2>3, <2>4, <2>5, <2>6, <2>7 DEF WorkerStep
<1>3. ASSUME NEW c \in Clients, ClientStep(c) PROVE PopGuarded'
  <2>1. CASE NotifyOne(c) BY <2>1 DEF NotifyOne
  <2>2. CASE Fence(c) BY <2>2 DEF Fence
  <2>3. CASE NotifyAll(c) BY <2>3 DEF NotifyAll
  <2>4. CASE Join(c) BY <2>4 DEF Join
  <2> QED BY <1>3, <2>1, <2>2, <2>3, <2>4 DEF ClientStep
<1>4. ASSUME NEW th \in Threads, Push(th) PROVE PopGuarded'
  BY <1>4 DEF Push
<1>5. ASSUME NEW c \in Clients, Stop(c) \/ Run(c) PROVE PopGuarded'
  <2>1. CASE Stop(c) BY <2>1 DEF Stop
  <2>2. CASE Run(c) BY <2>2 DEF Run
  <2> QED BY <1>5, <2>1, <2>2
<1>6. ASSUME NEW w \in Workers, SpuriousWake(w) PROVE PopGuarded'
  BY <1>6 DEF SpuriousWake
<1> QED BY <1>1, <1>2, <1>3, <1>4, <1>5, <1>6 DEF Next, Environment

\* QueueInv is an invariant of the pool.
THEOREM QueueInvariant == Spec => []QueueInv
<1>1. QueueInv /\ [Next]_vars => QueueInv'
  BY PoolTypeStep, PoolShapeStep, PoolStopStep, PoolWorkStep, QueueNumberedStep,
     PopGuardedStep DEF QueueInv, PoolInv
<1> QED BY QueueInit, <1>1, PTL DEF Spec

\* A pool that is not restarted never pops from an empty queue
\* (TaskScheduler.cpp:29-38).
THEOREM PopAlwaysFindsJob == ~Restart => (Spec => []PopFindsJob)
<1> SUFFICES ASSUME ~Restart PROVE Spec => []PopFindsJob
  OBVIOUS
<1>1. QueueInv => PopFindsJob BY DEF QueueInv, PopGuarded, PopFindsJob
<1> QED BY QueueInvariant, <1>1, PTL

\* Steps that JobQueue does not see.
LEMMA HiddenStep ==
  ASSUME UNCHANGED <<m_jobs, m_running, job, submitted>>,
         {w \in Workers : at[w] # "exited"}' = {w \in Workers : at[w] # "exited"}
  PROVE  UNCHANGED Queue!vars
BY DEF Queue!vars

\* Every step of a pool that is not restarted is a step of JobQueue or hidden.
LEMMA RefinementStep ==
  ~Restart /\ QueueInv /\ [Next]_vars => [Queue!Next]_(Queue!vars)
<1> SUFFICES ASSUME ~Restart, QueueInv, [Next]_vars PROVE [Queue!Next]_(Queue!vars)
  OBVIOUS
<1> USE PoolAssumption DEF QueueInv, PoolInv, TypeOK, Points, Holder, Blocked
<1> DEFINE active == {v \in Workers : at[v] # "exited"}
<1>1. CASE UNCHANGED vars
  BY <1>1, HiddenStep DEF vars
<1>2. ASSUME NEW w \in Workers, WorkerStep(w) PROVE [Queue!Next]_(Queue!vars)
  <2>1. CASE Loop(w)
    <3>1. CASE m_running BY <2>1, <3>1, HiddenStep DEF Loop
    <3>2. CASE ~m_running
      <4>1. w \in active /\ job[w] = 0 /\ active' = active \ {w}
        BY <2>1, <3>2 DEF Loop, Numbered
      <4>2. UNCHANGED <<m_jobs, m_running, job, submitted>> BY <2>1 DEF Loop
      <4>3. Queue!Exit(w) BY <3>2, <4>1, <4>2 DEF Queue!Exit
      <4> QED BY <4>3 DEF Queue!Next
    <3> QED BY <3>1, <3>2
  <2>2. CASE Lock(w) BY <2>2, HiddenStep DEF Lock
  <2>3. CASE Test(w) BY <2>3, HiddenStep DEF Test
  <2>4. CASE Block(w) BY <2>4, HiddenStep DEF Block
  <2>5. CASE Pop(w)
    <3>1. CASE m_jobs = <<>>
      <4>1. w \in active /\ job[w] = 0 /\ active' = active \ {w}
        BY <2>5, <3>1 DEF Pop, Numbered, PopGuarded
      <4>2. UNCHANGED <<m_jobs, m_running, job, submitted>> /\ ~m_running
        BY <2>5, <3>1 DEF Pop, PopGuarded
      <4>3. Queue!Exit(w) BY <4>1, <4>2 DEF Queue!Exit
      <4> QED BY <4>3 DEF Queue!Next
    <3>2. CASE m_jobs # <<>>
      <4>1. /\ m_jobs' = Tail(m_jobs) /\ submitted' = submitted /\ m_running' = m_running
            /\ at' = [at EXCEPT ![w] = "run"] /\ job' = [job EXCEPT ![w] = Head(m_jobs)]
            /\ at[w] = "pop"
        BY <2>5, <3>2 DEF Pop
      <4>2. /\ Head(m_jobs) = m_jobs[1] /\ Len(m_jobs) \in Nat \ {0}
            /\ Len(Tail(m_jobs)) = Len(m_jobs) - 1
        BY <3>2, HeadTail
      <4>3. Head(m_jobs) = submitted - Len(m_jobs) + 1
        BY <4>2 DEF Numbered
      <4>4. /\ submitted - Len(m_jobs) < submitted
            /\ (submitted - Len(m_jobs))' = submitted - Len(m_jobs) + 1
        BY <4>1, <4>2
      <4>5. w \in active /\ active' = active /\ job[w] = 0
        BY <4>1 DEF Numbered
      <4>6. Queue!Take(w) BY <4>1, <4>3, <4>4, <4>5 DEF Queue!Take
      <4> QED BY <4>6 DEF Queue!Next
    <3> QED BY <3>1, <3>2
  <2>6. CASE JobEnd(w)
    <3>1. job[w] # 0 /\ active' = active BY <2>6 DEF JobEnd, Numbered
    <3>2. Queue!Finish(w) BY <2>6, <3>1 DEF JobEnd, Queue!Finish
    <3> QED BY <3>2 DEF Queue!Next
  <2>7. CASE NotifyOne(w) BY <2>7, HiddenStep DEF NotifyOne
  <2> QED BY <1>2, <2>1, <2>2, <2>3, <2>4, <2>5, <2>6, <2>7 DEF WorkerStep
<1>3. ASSUME NEW c \in Clients, ClientStep(c) PROVE [Queue!Next]_(Queue!vars)
  <2>1. CASE NotifyOne(c) BY <2>1, HiddenStep DEF NotifyOne
  <2>2. CASE Fence(c) BY <2>2, HiddenStep DEF Fence
  <2>3. CASE NotifyAll(c) BY <2>3, HiddenStep DEF NotifyAll
  <2>4. CASE Join(c) BY <2>4, HiddenStep DEF Join
  <2> QED BY <1>3, <2>1, <2>2, <2>3, <2>4 DEF ClientStep
<1>4. ASSUME NEW th \in Threads, Push(th) PROVE [Queue!Next]_(Queue!vars)
  <2>1. Len(m_jobs') = Len(m_jobs) + 1 BY <1>4 DEF Push
  <2>2. /\ submitted < MaxJobs /\ submitted' = submitted + 1
        /\ UNCHANGED <<m_running, at, job>>
    BY <1>4 DEF Push
  <2>3. (submitted - Len(m_jobs))' = submitted - Len(m_jobs) BY <2>1, <2>2
  <2>4. Queue!Submit BY <2>2, <2>3 DEF Queue!Submit
  <2> QED BY <2>4 DEF Queue!Next
<1>5. ASSUME NEW c \in Clients, Stop(c) \/ Run(c) PROVE [Queue!Next]_(Queue!vars)
  <2>1. CASE Stop(c)
    <3>1. active' = active BY <2>1 DEF Stop
    <3>2. Queue!Close BY <2>1, <3>1 DEF Stop, Queue!Close
    <3> QED BY <3>2 DEF Queue!Next
  <2>2. CASE Run(c) BY <2>2, HiddenStep DEF Run
  <2> QED BY <1>5, <2>1, <2>2
<1>6. ASSUME NEW w \in Workers, SpuriousWake(w) PROVE [Queue!Next]_(Queue!vars)
  BY <1>6, HiddenStep DEF SpuriousWake
<1> QED BY <1>1, <1>2, <1>3, <1>4, <1>5, <1>6 DEF Next, Environment

\* For any pool that is not restarted: jobs are started in the order of their
\* submission, each exactly once, and workers end only between jobs of a stopped
\* pool (TaskScheduler.cpp:24-45, 92-98).
THEOREM PoolImplementsQueue == ~Restart => (Spec => ImplementsJobQueue)
<1> SUFFICES ASSUME ~Restart PROVE Spec => Queue!Spec
  BY DEF ImplementsJobQueue
<1>1. Init => Queue!Init
  <2> SUFFICES ASSUME Init PROVE Queue!Init
    OBVIOUS
  <2>1. submitted = 0 /\ m_jobs = <<>> /\ m_jobs \in Seq(1..MaxJobs)
    BY PoolInit DEF Init, PoolInv, TypeOK
  <2>2. submitted - Len(m_jobs) = 0
    <3>1. Len(m_jobs) = 0 BY <2>1, EmptySeq, Zenon
    <3>2. submitted = 0 BY <2>1
    <3> QED BY <3>1, <3>2
  <2>3. {w \in Workers : at[w] # "exited"} = Workers BY DEF Init
  <2> QED BY <2>1, <2>2, <2>3 DEF Init, Queue!Init
<1>2. QueueInv /\ [Next]_vars => [Queue!Next]_(Queue!vars)
  BY RefinementStep
<1> QED BY QueueInvariant, <1>1, <1>2, PTL DEF Spec, Queue!Spec
=============================================================================
