----------------------------- MODULE WorkerPool -----------------------------
(***************************************************************************)
(* The job queue of soul::async::TaskScheduler in full detail: m_jobs,     *)
(* m_queueMutex, m_queueCv and the loop of Worker::run                     *)
(* (src/Async/TaskScheduler.cpp). Jobs are opaque and numbered in the      *)
(* order of submission; a job may itself enqueue.                          *)
(***************************************************************************)
EXTENDS Integers, Sequences, FiniteSets

CONSTANTS Workers,   \* the pool threads
          Clients,   \* the threads that call enqueue, stop and run
          None,      \* no owner of the mutex
          MaxJobs,   \* bound on the number of jobs
          MaxStops,  \* bound on the number of calls of stop
          Restart    \* whether run() may be called after a stop()

Threads == Workers \cup Clients

ASSUME PoolAssumption ==
  /\ MaxJobs \in Nat /\ MaxStops \in Nat
  /\ Restart \in BOOLEAN
  /\ Workers \cap Clients = {}
  /\ None \notin Threads

VARIABLES
  m_jobs,       \* TaskScheduler::m_jobs
  m_running,    \* TaskScheduler::m_running
  m_queueMutex, \* the thread that holds it, or None
  waiting,      \* the workers blocked in m_queueCv
  notifying,    \* the threads between the push and notify_one of enqueue
  at,           \* where each thread stands
  job,          \* the job each worker executes, 0 for none
  submitted,    \* number of jobs pushed so far
  stops         \* number of calls of stop so far

vars == <<m_jobs, m_running, m_queueMutex, waiting, notifying, at, job, submitted, stops>>

WorkerPoints == {"loop", "lock", "test", "block", "waiting", "pop", "run", "exited", "broken"}
ClientPoints == {"idle", "fence", "notify_all", "join"}

Init ==
  /\ m_jobs = <<>>
  /\ m_running = TRUE
  /\ m_queueMutex = None
  /\ waiting = {} /\ notifying = {}
  /\ at = [th \in Threads |-> IF th \in Workers THEN "loop" ELSE "idle"]
  /\ job = [w \in Workers |-> 0]
  /\ submitted = 0 /\ stops = 0

Move(th, from, to) == at[th] = from /\ at' = [at EXCEPT ![th] = to]

-----------------------------------------------------------------------------
(* Worker::run                                                             *)

Loop(w) ==
  /\ Move(w, "loop", IF m_running THEN "lock" ELSE "exited")
  /\ UNCHANGED <<m_jobs, m_running, m_queueMutex, waiting, notifying, job, submitted, stops>>

Lock(w) ==
  /\ m_queueMutex = None
  /\ m_queueMutex' = w
  /\ Move(w, "lock", "test")
  /\ UNCHANGED <<m_jobs, m_running, waiting, notifying, job, submitted, stops>>

\* Mutant of Test: the wait has no predicate.
TestAlways(w) ==
  /\ Move(w, "test", "pop")
  /\ UNCHANGED <<m_jobs, m_running, m_queueMutex, waiting, notifying, job, submitted, stops>>

\* The predicate of m_queueCv.wait, evaluated with the mutex held.
Test(w) ==
  /\ Move(w, "test", IF ~m_running \/ m_jobs # <<>> THEN "pop" ELSE "block")
  /\ UNCHANGED <<m_jobs, m_running, m_queueMutex, waiting, notifying, job, submitted, stops>>

\* The wait releases the mutex and blocks in one step.
Block(w) ==
  /\ Move(w, "block", "waiting")
  /\ m_queueMutex' = None
  /\ waiting' = waiting \cup {w}
  /\ UNCHANGED <<m_jobs, m_running, notifying, job, submitted, stops>>

\* A condition variable may wake a thread without any notification.
SpuriousWake(w) ==
  /\ w \in waiting
  /\ Move(w, "waiting", "lock")
  /\ waiting' = waiting \ {w}
  /\ UNCHANGED <<m_jobs, m_running, m_queueMutex, notifying, job, submitted, stops>>

\* Mutant of Pop: pop_front() is forgotten.
PopKeeps(w) ==
  /\ at[w] = "pop"
  /\ m_queueMutex' = None
  /\ \/ /\ ~m_running /\ m_jobs = <<>>
        /\ Move(w, "pop", "exited")
        /\ UNCHANGED job
     \/ /\ m_jobs # <<>>
        /\ Move(w, "pop", "run")
        /\ job' = [job EXCEPT ![w] = Head(m_jobs)]
  /\ UNCHANGED <<m_jobs, m_running, waiting, notifying, submitted, stops>>

\* m_running is read a second time; front() of an empty deque is undefined.
Pop(w) ==
  /\ at[w] = "pop"
  /\ m_queueMutex' = None
  /\ \/ /\ ~m_running /\ m_jobs = <<>>
        /\ Move(w, "pop", "exited")
        /\ UNCHANGED <<m_jobs, job>>
     \/ /\ m_jobs # <<>>
        /\ Move(w, "pop", "run")
        /\ job' = [job EXCEPT ![w] = Head(m_jobs)]
        /\ m_jobs' = Tail(m_jobs)
     \/ /\ m_running /\ m_jobs = <<>>
        /\ Move(w, "pop", "broken")
        /\ UNCHANGED <<m_jobs, job>>
  /\ UNCHANGED <<m_running, waiting, notifying, submitted, stops>>

JobEnd(w) ==
  /\ w \notin notifying
  /\ Move(w, "run", "loop")
  /\ job' = [job EXCEPT ![w] = 0]
  /\ UNCHANGED <<m_jobs, m_running, m_queueMutex, waiting, notifying, submitted, stops>>

-----------------------------------------------------------------------------
(* TaskScheduler::enqueue, by a client or by a running job                 *)

Push(th) ==
  /\ at[th] \in {"idle", "run"} /\ th \notin notifying
  /\ m_queueMutex = None
  /\ submitted < MaxJobs
  /\ submitted' = submitted + 1
  /\ m_jobs' = Append(m_jobs, submitted + 1)
  /\ notifying' = notifying \cup {th}
  /\ UNCHANGED <<m_running, m_queueMutex, waiting, at, job, stops>>

\* Mutant of NotifyOne: enqueue does not notify.
NotifyNobody(th) ==
  /\ th \in notifying
  /\ notifying' = notifying \ {th}
  /\ UNCHANGED <<m_jobs, m_running, m_queueMutex, waiting, at, job, submitted, stops>>

NotifyOne(th) ==
  /\ th \in notifying
  /\ notifying' = notifying \ {th}
  /\ \/ /\ waiting = {}
        /\ UNCHANGED <<waiting, at>>
     \/ \E w \in waiting :
          /\ waiting' = waiting \ {w}
          /\ at' = [at EXCEPT ![w] = "lock"]
  /\ UNCHANGED <<m_jobs, m_running, m_queueMutex, job, submitted, stops>>

-----------------------------------------------------------------------------
(* TaskScheduler::stop and run                                             *)

\* Mutant of Stop: notify_all without the empty critical section.
StopWithoutFence(c) ==
  /\ c \notin notifying
  /\ \A d \in Clients : at[d] = "idle"
  /\ stops < MaxStops
  /\ Move(c, "idle", "notify_all")
  /\ m_running' = FALSE
  /\ stops' = stops + 1
  /\ UNCHANGED <<m_jobs, m_queueMutex, waiting, notifying, job, submitted>>

\* compare_exchange_strong: the winner passes through the mutex once, whoever
\* finds m_running false already goes straight to notify_all. Calls of stop do
\* not overlap: nothing synchronises worker.reset() on m_workers.
Stop(c) ==
  /\ c \notin notifying
  /\ \A d \in Clients : at[d] = "idle"
  /\ stops < MaxStops
  /\ Move(c, "idle", IF m_running THEN "fence" ELSE "notify_all")
  /\ m_running' = FALSE
  /\ stops' = stops + 1
  /\ UNCHANGED <<m_jobs, m_queueMutex, waiting, notifying, job, submitted>>

\* The empty critical section.
Fence(c) ==
  /\ m_queueMutex = None
  /\ Move(c, "fence", "notify_all")
  /\ UNCHANGED <<m_jobs, m_running, m_queueMutex, waiting, notifying, job, submitted, stops>>

NotifyAll(c) ==
  /\ at[c] = "notify_all"
  /\ at' = [th \in Threads |-> IF th = c THEN "join"
                               ELSE IF th \in waiting THEN "lock" ELSE at[th]]
  /\ waiting' = {}
  /\ UNCHANGED <<m_jobs, m_running, m_queueMutex, notifying, job, submitted, stops>>

Join(c) ==
  /\ \A w \in Workers : at[w] = "exited"
  /\ Move(c, "join", "idle")
  /\ UNCHANGED <<m_jobs, m_running, m_queueMutex, waiting, notifying, job, submitted, stops>>

\* Of a running pool it changes nothing.
Run(c) ==
  /\ Restart \/ m_running
  /\ at[c] = "idle" /\ c \notin notifying
  /\ m_running' = TRUE
  /\ UNCHANGED <<m_jobs, m_queueMutex, waiting, notifying, at, job, submitted, stops>>

-----------------------------------------------------------------------------
WorkerStep(w) ==
  \/ Loop(w) \/ Lock(w) \/ Test(w) \/ Block(w) \/ Pop(w) \/ JobEnd(w)
  \/ NotifyOne(w)

\* What a thread completes once it has begun it.
ClientStep(c) == NotifyOne(c) \/ Fence(c) \/ NotifyAll(c) \/ Join(c)

Environment ==
  \/ \E th \in Threads : Push(th)
  \/ \E c \in Clients : Stop(c) \/ Run(c)
  \/ \E w \in Workers : SpuriousWake(w)

Next ==
  \/ \E w \in Workers : WorkerStep(w)
  \/ \E c \in Clients : ClientStep(c)
  \/ Environment

\* Threads run; nobody has to submit jobs, call stop, or be woken spuriously,
\* and no fairness of the mutex is assumed.
Fairness ==
  /\ \A w \in Workers : WF_vars(WorkerStep(w))
  /\ \A c \in Clients : WF_vars(ClientStep(c))

Spec == Init /\ [][Next]_vars /\ Fairness

-----------------------------------------------------------------------------
(* Properties                                                              *)

TypeOK ==
  /\ m_jobs \in Seq(1..MaxJobs)
  /\ m_running \in BOOLEAN
  /\ m_queueMutex \in Workers \cup {None}
  /\ waiting \subseteq Workers
  /\ notifying \subseteq Threads
  /\ at \in [Threads -> WorkerPoints \cup ClientPoints]
  /\ job \in [Workers -> 0..MaxJobs]
  /\ submitted \in 0..MaxJobs
  /\ stops \in 0..MaxStops

\* The workers that will look at the queue again without being notified.
Awake(w) == at[w] \in {"loop", "lock", "test", "pop", "run"}

\* enqueue notifies after it has released the mutex (TaskScheduler.cpp:92-98):
\* the pool never sleeps on a non-empty queue. Either a notification is on its
\* way or a worker is awake, unless a stop has already ended workers.
NoSleepOnWork ==
  m_jobs # <<>> /\ Workers # {} =>
    \/ notifying # {}
    \/ \E w \in Workers : Awake(w) \/ at[w] \in {"exited", "broken"}

\* The empty critical section of stop (TaskScheduler.cpp:78-82): no worker stays
\* blocked, or is about to block, on a stopped pool without a notify_all to come.
NoSleepThroughStop ==
  ~m_running =>
    \A w \in Workers :
      /\ at[w] = "block" => \E c \in Clients : at[c] = "fence"
      /\ at[w] = "waiting" => \E c \in Clients : at[c] \in {"fence", "notify_all"}

\* Task.h:91, "processes queued jobs": a worker that leaves the wait to run a
\* job finds one (TaskScheduler.cpp:29-38).
PopFindsJob == \A w \in Workers : at[w] # "broken"

Queue == INSTANCE JobQueue WITH
           taken <- submitted - Len(m_jobs),
           active <- {w \in Workers : at[w] # "exited"},
           open <- m_running
\* The pool starts jobs in the order of submission, each once; see JobQueue.
ImplementsJobQueue == Queue!Spec

\* A call of stop returns, however jobs, notifications and stops interleave.
StopReturns == \A c \in Clients : at[c] = "fence" \/ at[c] = "join" ~> at[c] = "idle"

\* A submitted job is started unless the pool is stopped.
JobsAreTaken == \A j \in 1..MaxJobs : submitted >= j ~> (submitted - Len(m_jobs) >= j \/ ~m_running)
=============================================================================
