--------------------------- MODULE TaskScheduler ---------------------------
(***************************************************************************)
(* soul::async: lazy coroutine tasks, their shared states and the worker   *)
(* pool that resumes them (include/Async/Task.h,                           *)
(* src/Async/TaskScheduler.cpp).                                           *)
(*                                                                         *)
(* Every thread (pool worker or client) is a stack of activation records;  *)
(* one action is one critical section or one access to an atomic, so all   *)
(* the interleavings the locks and atomics of the code allow are explored. *)
(* What coroutines, run_async functions and client threads do with the API *)
(* is the constant Program: a sequence of API calls for each of them.      *)
(* The job queue is used through whole critical sections here; its mutex   *)
(* and condition variable are the subject of module WorkerPool.            *)
(***************************************************************************)
EXTENDS Integers, Sequences, FiniteSets

CONSTANTS Coroutines, \* tasks made by a coroutine: lazy, resumable
          Functions,  \* tasks made by run_async: state->coroutine is null
          Workers,    \* the pool threads
          Clients,    \* threads outside the pool
          Program,    \* Program[p]: the API calls of task or client p, in order
          MayThrow,   \* tasks whose body may end with an exception
          Modulus     \* 2^32 in the code: range of pendingDependencies

Tasks == Coroutines \cup Functions
Threads == Workers \cup Clients
Owners == Tasks \cup Clients

\* One API call. `deps' is the dependency list of schedule, without the empty
\* tokens, which its loop skips.
Calls == [op : STRING, task : Tasks, deps : Seq(Tasks)]

ASSUME ModulusAssumption == Modulus \in Nat \ {0}
ASSUME OwnersAssumption ==
  /\ Coroutines \cap Functions = {}
  /\ Workers \cap Clients = {}
  /\ Tasks \cap Clients = {}
  /\ MayThrow \subseteq Tasks
\* co_await is legal in a coroutine only.
ASSUME ProgramAssumption ==
  /\ Program \in [Owners -> Seq(Calls)]
  /\ \A p \in Owners \ Coroutines : \A i \in DOMAIN Program[p] : Program[p][i].op # "await"

VARIABLES
  completed,           \* TaskStateBase::completed
  scheduler,           \* TaskStateBase::scheduler is not null
  pendingDependencies, \* TaskStateBase::pendingDependencies
  dependents,          \* TaskStateBase::dependents
  continuations,       \* TaskStateBase::continuations
  exception,           \* TaskStateBase::exception is set
  suspendedAt,         \* call at which the coroutine frame is suspended (0: initial)
  done,                \* coroutine_handle::done()
  m_jobs,              \* TaskScheduler::m_jobs
  m_running,           \* TaskScheduler::m_running
  worker,              \* where an idle worker stands in Worker::run
  stack                \* the activation records of each thread, innermost last

taskVars == <<completed, scheduler, pendingDependencies, dependents,
              continuations, exception, suspendedAt, done>>
poolVars == <<m_jobs, m_running, worker>>
vars == <<taskVars, poolVars, stack>>

-----------------------------------------------------------------------------
(* Activation records.                                                     *)

\* "call" .. "join" are the points inside a body or a client;
\* the others are points inside a function of the library.
BodyPoints == {"call", "register", "fetch_add", "blocked", "join"}
CompletionPoints == {"on_completed", "resume_continuations", "continue",
                     "on_task_finished", "ready"}
Points == BodyPoints \cup CompletionPoints
            \cup {"add_continuation", "produce", "resume", "crashed"}

Frames == [at : Points, who : Owners, pc : Nat, list : Seq(Tasks), n : Nat]
Jobs == [kind : {"function", "resume"}, task : Tasks]

Frame(at, who, pc, list) == [at |-> at, who |-> who, pc |-> pc, list |-> list, n |-> 0]
Body(p, pc) == Frame("call", p, pc, <<>>)

Top(th) == stack[th][Len(stack[th])]
At(th, point) == stack[th] # <<>> /\ Top(th).at = point

\* Replaces the innermost record of th by the records fs (none: a return).
Goto(th, fs) ==
  stack' = [stack EXCEPT ![th] = SubSeq(@, 1, Len(@) - 1) \o fs]

Records(th) == {stack[th][i] : i \in 1..Len(stack[th])}

\* th stands at an API call `op' of the body it executes.
Call(th) == Program[Top(th).who][Top(th).pc]
AtCall(th, op) ==
  /\ At(th, "call")
  /\ Top(th).pc \in DOMAIN Program[Top(th).who]
  /\ Call(th).op = op

Step(th) == [Top(th) EXCEPT !.pc = @ + 1, !.at = "call", !.n = 0, !.list = <<>>]

-----------------------------------------------------------------------------
Init ==
  /\ completed = [t \in Tasks |-> FALSE]
  /\ scheduler = [t \in Tasks |-> FALSE]
  /\ pendingDependencies = [t \in Tasks |-> 0]
  /\ dependents = [t \in Tasks |-> <<>>]
  /\ continuations = [t \in Tasks |-> <<>>]
  /\ exception = [t \in Tasks |-> FALSE]
  /\ suspendedAt = [t \in Tasks |-> 0]
  /\ done = [t \in Tasks |-> FALSE]
  /\ m_jobs = <<>>
  /\ m_running = TRUE
  /\ worker = [w \in Workers |-> "loop"]
  /\ stack = [th \in Threads |-> IF th \in Clients THEN <<Body(th, 1)>> ELSE <<>>]

enqueue(kind, t) == m_jobs' = Append(m_jobs, [kind |-> kind, task |-> t])

\* The test both kinds of resuming job make: the handle is set and not done().
Resumable(t) == t \in Coroutines /\ ~done[t]

(* Worker::run, TaskScheduler::enqueue, run, stop.                         *)

\* The loop's test of m_running.
WorkerLoop(w) ==
  /\ stack[w] = <<>> /\ worker[w] = "loop"
  /\ worker' = [worker EXCEPT ![w] = IF m_running THEN "wait" ELSE "exited"]
  /\ UNCHANGED <<taskVars, m_jobs, m_running, stack>>

\* Past m_queueCv.wait with a job: it is taken even after stop().
WorkerTake(w) ==
  /\ stack[w] = <<>> /\ worker[w] = "wait"
  /\ m_jobs # <<>>
  /\ m_jobs' = Tail(m_jobs)
  /\ worker' = [worker EXCEPT ![w] = "loop"]
  /\ LET job == Head(m_jobs) IN
       stack' = [stack EXCEPT ![w] =
                  IF job.kind = "function" THEN <<Body(job.task, 1)>>
                  ELSE IF Resumable(job.task) THEN <<Frame("resume", job.task, 0, <<>>)>>
                  ELSE <<>>]
  /\ UNCHANGED <<taskVars, m_running>>

WorkerExit(w) ==
  /\ stack[w] = <<>> /\ worker[w] = "wait"
  /\ ~m_running /\ m_jobs = <<>>
  /\ worker' = [worker EXCEPT ![w] = "exited"]
  /\ UNCHANGED <<taskVars, m_jobs, m_running, stack>>

run(th) ==
  /\ AtCall(th, "run")
  /\ m_running' = TRUE
  /\ Goto(th, <<Step(th)>>)
  /\ UNCHANGED <<taskVars, m_jobs, worker>>

\* Mutant of stop: m_running is left as it is.
stopKeepsRunning(th) ==
  /\ AtCall(th, "stop")
  /\ Goto(th, <<[Top(th) EXCEPT !.at = "join"]>>)
  /\ UNCHANGED <<taskVars, poolVars>>

stop(th) ==
  /\ AtCall(th, "stop")
  /\ m_running' = FALSE
  /\ Goto(th, <<[Top(th) EXCEPT !.at = "join"]>>)
  /\ UNCHANGED <<taskVars, m_jobs, worker>>

\* worker.reset() of every worker: joins the threads.
join(th) ==
  /\ At(th, "join")
  /\ \A w \in Workers : stack[w] = <<>> /\ worker[w] = "exited"
  /\ Goto(th, <<Step(th)>>)
  /\ UNCHANGED <<taskVars, poolVars>>

-----------------------------------------------------------------------------
(* TaskScheduler::schedule and run_async.                                  *)

\* Mutants: the test under the lock, the increment, the wrap-around of the
\* unsigned counter and the test of its old value are left out.
MustWaitUnchecked(u) == TRUE
fetch_addForgotten(n) == n
fetch_subSigned(n) == n - 1
LastOneUnchecked(n) == TRUE
NonePendingUnchecked(n) == TRUE

\* The test of `completed' with continuationMutex held: a registration with u
\* is needed, whether as a dependent or as an awaiter.
MustWait(u) == ~completed[u]

\* The atomic std::uint32_t pendingDependencies.
fetch_add(n) == (n + 1) % Modulus
fetch_sub(n) == (n + Modulus - 1) % Modulus
LastOne(n) == n = 1

\* schedule's own count of the registrations it has made.
NonePending(n) == n = 0

run_async(th) ==
  /\ AtCall(th, "run_async")
  /\ scheduler' = [scheduler EXCEPT ![Call(th).task] = TRUE]
  /\ enqueue("function", Call(th).task)
  /\ Goto(th, <<Step(th)>>)
  /\ UNCHANGED <<completed, pendingDependencies, dependents, continuations,
                 exception, suspendedAt, done, m_running, worker>>

schedule(th) ==
  /\ AtCall(th, "schedule")
  /\ scheduler' = [scheduler EXCEPT ![Call(th).task] = TRUE]
  /\ Goto(th, <<[Top(th) EXCEPT !.at = "register", !.list = Call(th).deps]>>)
  /\ UNCHANGED <<completed, pendingDependencies, dependents, continuations,
                 exception, suspendedAt, done, poolVars>>

\* One turn of the loop: the critical section on the dependency's mutex.
Register(th) ==
  /\ At(th, "register") /\ Top(th).list # <<>>
  /\ LET f == Top(th)
         d == Head(f.list)
     IN \/ /\ ~MustWait(d)
           /\ Goto(th, <<[f EXCEPT !.list = Tail(@)]>>)
           /\ UNCHANGED dependents
        \/ /\ MustWait(d)
           /\ dependents' = [dependents EXCEPT ![d] = Append(@, Call(th).task)]
           /\ Goto(th, <<[f EXCEPT !.list = Tail(@), !.at = "fetch_add"]>>)
  /\ UNCHANGED <<completed, scheduler, pendingDependencies, continuations,
                 exception, suspendedAt, done, poolVars>>

\* ++pending and fetch_add, after the dependency's mutex has been released.
FetchAdd(th) ==
  /\ At(th, "fetch_add")
  /\ pendingDependencies' =
       [pendingDependencies EXCEPT ![Call(th).task] = fetch_add(@)]
  /\ Goto(th, <<[Top(th) EXCEPT !.at = "register", !.n = @ + 1]>>)
  /\ UNCHANGED <<completed, scheduler, dependents, continuations,
                 exception, suspendedAt, done, poolVars>>

ScheduleEnd(th) ==
  /\ At(th, "register") /\ Top(th).list = <<>>
  /\ IF NonePending(Top(th).n) THEN enqueue("resume", Call(th).task) ELSE UNCHANGED m_jobs
  /\ Goto(th, <<Step(th)>>)
  /\ UNCHANGED <<taskVars, m_running, worker>>

-----------------------------------------------------------------------------
(* Task::await_ready, await_suspend, await_resume, get; wait.              *)

\* Mutant of Return: the stored exception is swallowed.
ReturnSwallows(th, p, pc, u) ==
  /\ Goto(th, <<Body(p, pc + 1)>>)
  /\ UNCHANGED exception

\* Leaving co_await u or u.get(): a stored exception is rethrown, which ends
\* the body of a task (unhandled_exception); a client thread handles it.
Return(th, p, pc, u) ==
  IF exception[u] /\ p \in Tasks
    THEN /\ exception' = [exception EXCEPT ![p] = TRUE]
         /\ Goto(th, <<Body(p, Len(Program[p]) + 1)>>)
    ELSE /\ Goto(th, <<Body(p, pc + 1)>>)
         /\ UNCHANGED exception

\* await_ready reads `completed' without the lock; if it is false the frame
\* is suspended, hence resumable by anyone, before await_suspend runs.
await(th) ==
  /\ AtCall(th, "await")
  /\ LET t == Top(th).who
         u == Call(th).task
     IN \/ /\ completed[u]
           /\ Return(th, t, Top(th).pc, u)
           /\ UNCHANGED suspendedAt
        \/ /\ ~completed[u]
           /\ suspendedAt' = [suspendedAt EXCEPT ![t] = Top(th).pc]
           /\ Goto(th, <<Frame("add_continuation", u, 0, <<t>>)>>)
           /\ UNCHANGED exception
  /\ UNCHANGED <<completed, scheduler, pendingDependencies, dependents,
                 continuations, done, poolVars>>

\* Mutant of add_continuation: registered and resumed immediately as well.
add_continuationTwice(th) ==
  /\ At(th, "add_continuation")
  /\ LET u == Top(th).who
         t == Head(Top(th).list)
     IN /\ continuations' = [continuations EXCEPT ![u] = Append(@, t)]
        /\ enqueue("resume", t)
        /\ Goto(th, <<Frame("produce", u, 0, <<>>)>>)
  /\ UNCHANGED <<completed, scheduler, pendingDependencies, dependents,
                 exception, suspendedAt, done, m_running, worker>>

add_continuation(th) ==
  /\ At(th, "add_continuation")
  /\ LET u == Top(th).who
         t == Head(Top(th).list)
         rest == Frame("produce", u, 0, <<>>)
     IN \/ /\ MustWait(u)
           /\ continuations' = [continuations EXCEPT ![u] = Append(@, t)]
           /\ Goto(th, <<rest>>)
           /\ UNCHANGED m_jobs
        \/ /\ ~MustWait(u) /\ scheduler[u]
           /\ enqueue("resume", t)
           /\ Goto(th, <<rest>>)
           /\ UNCHANGED continuations
        \/ /\ ~MustWait(u) /\ ~scheduler[u]
           /\ Goto(th, <<rest, Frame("resume", t, 0, <<>>)>>)
           /\ UNCHANGED <<continuations, m_jobs>>
  /\ UNCHANGED <<completed, scheduler, pendingDependencies, dependents,
                 exception, suspendedAt, done, m_running, worker>>

\* The producer is resumed "if needed": through the queue or on this thread.
\* `after' are the records left on the stack of th.
Produce(th, u, after) ==
  \/ /\ ~Resumable(u)
     /\ Goto(th, after)
     /\ UNCHANGED m_jobs
  \/ /\ Resumable(u) /\ scheduler[u]
     /\ enqueue("resume", u)
     /\ Goto(th, after)
  \/ /\ Resumable(u) /\ ~scheduler[u]
     /\ Goto(th, Append(after, Frame("resume", u, 0, <<>>)))
     /\ UNCHANGED m_jobs

await_suspend(th) ==
  /\ At(th, "produce")
  /\ Produce(th, Top(th).who, <<>>)
  /\ UNCHANGED <<taskVars, m_running, worker>>

\* coroutine.resume(): from the initial suspension, or into await_resume of
\* the call at which the frame was suspended. Resuming a frame that stands at
\* its final suspension point jumps through a null resume function.
resume(th) ==
  /\ At(th, "resume")
  /\ LET t == Top(th).who
         i == suspendedAt[t]
     IN \/ /\ done[t]
           /\ Goto(th, <<Frame("crashed", t, 0, <<>>)>>)
           /\ UNCHANGED exception
        \/ /\ ~done[t] /\ i = 0
           /\ Goto(th, <<Body(t, 1)>>)
           /\ UNCHANGED exception
        \/ /\ ~done[t] /\ i # 0
           /\ Return(th, t, i, Program[t][i].task)
  /\ UNCHANGED <<completed, scheduler, pendingDependencies, dependents,
                 continuations, suspendedAt, done, poolVars>>

get(th) ==
  /\ AtCall(th, "get")
  /\ LET u == Call(th).task
         blocked == [Top(th) EXCEPT !.at = "blocked"]
     IN \/ completed[u] /\ Goto(th, <<blocked>>) /\ UNCHANGED m_jobs
        \/ ~completed[u] /\ Produce(th, u, <<blocked>>)
  /\ UNCHANGED <<taskVars, m_running, worker>>

\* TaskStateBase::wait, then rethrow or extract.
GetReturn(th) ==
  /\ At(th, "blocked")
  /\ completed[Call(th).task]
  /\ Return(th, Top(th).who, Top(th).pc, Call(th).task)
  /\ UNCHANGED <<completed, scheduler, pendingDependencies, dependents,
                 continuations, suspendedAt, done, poolVars>>

\* TaskScheduler::wait: blocks, never resumes and never throws.
wait(th) ==
  /\ AtCall(th, "wait")
  /\ completed[Call(th).task]
  /\ Goto(th, <<Step(th)>>)
  /\ UNCHANGED <<taskVars, poolVars>>

-----------------------------------------------------------------------------
(* The end of a body: final_suspend, on_completed, on_task_finished.       *)

\* An exception leaves the body; unhandled_exception (or the catch clause of
\* the run_async job) stores it.
Throw(th) ==
  /\ At(th, "call") /\ Top(th).who \in MayThrow
  /\ ~exception[Top(th).who]
  /\ exception' = [exception EXCEPT ![Top(th).who] = TRUE]
  /\ Goto(th, <<Body(Top(th).who, Len(Program[Top(th).who]) + 1)>>)
  /\ UNCHANGED <<completed, scheduler, pendingDependencies, dependents,
                 continuations, suspendedAt, done, poolVars>>

BodyEnd(th) ==
  /\ At(th, "call")
  /\ Top(th).pc = Len(Program[Top(th).who]) + 1
  /\ LET p == Top(th).who IN
       IF p \in Tasks
         THEN /\ done' = [done EXCEPT ![p] = p \in Coroutines]
              /\ Goto(th, <<Frame("on_completed", p, 0, <<>>)>>)
         ELSE Goto(th, <<>>) /\ UNCHANGED done
  /\ UNCHANGED <<completed, scheduler, pendingDependencies, dependents,
                 continuations, exception, suspendedAt, poolVars>>

\* The first critical section; notify_all releases the threads in wait().
on_completed(th) ==
  /\ At(th, "on_completed")
  /\ completed' = [completed EXCEPT ![Top(th).who] = TRUE]
  /\ Goto(th, <<[Top(th) EXCEPT !.at = "resume_continuations"]>>)
  /\ UNCHANGED <<scheduler, pendingDependencies, dependents, continuations,
                 exception, suspendedAt, done, poolVars>>

\* pending.swap(continuations)
resume_continuations(th) ==
  /\ At(th, "resume_continuations")
  /\ LET t == Top(th).who IN
       /\ continuations' = [continuations EXCEPT ![t] = <<>>]
       /\ Goto(th, <<[Top(th) EXCEPT !.at = "continue", !.list = continuations[t]]>>)
  /\ UNCHANGED <<completed, scheduler, pendingDependencies, dependents,
                 exception, suspendedAt, done, poolVars>>

\* One awaiter: through the queue, or nested on this thread.
Continue(th) ==
  /\ At(th, "continue") /\ Top(th).list # <<>>
  /\ LET f == Top(th)
         rest == [f EXCEPT !.list = Tail(@)]
     IN \/ /\ scheduler[f.who]
           /\ enqueue("resume", Head(f.list))
           /\ Goto(th, <<rest>>)
        \/ /\ ~scheduler[f.who]
           /\ Goto(th, <<rest, Frame("resume", Head(f.list), 0, <<>>)>>)
           /\ UNCHANGED m_jobs
  /\ UNCHANGED <<taskVars, m_running, worker>>

ContinueEnd(th) ==
  /\ At(th, "continue") /\ Top(th).list = <<>>
  /\ Goto(th, IF scheduler[Top(th).who]
                THEN <<[Top(th) EXCEPT !.at = "on_task_finished"]>> ELSE <<>>)
  /\ UNCHANGED <<taskVars, poolVars>>

\* One dependent of the loop under the lock: fetch_sub(1) == 1 makes it ready.
\* No dependent is added meanwhile: the task is completed.
Release(th) ==
  /\ At(th, "on_task_finished")
  /\ LET f == Top(th) IN
       /\ dependents[f.who] # <<>>
       /\ LET d == Head(dependents[f.who]) IN
            /\ pendingDependencies' = [pendingDependencies EXCEPT ![d] = fetch_sub(@)]
            /\ Goto(th, <<[f EXCEPT !.list =
                             IF LastOne(pendingDependencies[d]) THEN Append(@, d) ELSE @]>>)
       /\ dependents' = [dependents EXCEPT ![f.who] = Tail(@)]
  /\ UNCHANGED <<completed, scheduler, continuations, exception, suspendedAt, done,
                 poolVars>>

ReleaseEnd(th) ==
  /\ At(th, "on_task_finished")
  /\ dependents[Top(th).who] = <<>>
  /\ Goto(th, <<[Top(th) EXCEPT !.at = "ready"]>>)
  /\ UNCHANGED <<taskVars, poolVars>>

\* schedule_state of a ready dependent; the end of the loop is a return.
Ready(th) ==
  /\ At(th, "ready")
  /\ LET f == Top(th) IN
       IF f.list = <<>>
         THEN Goto(th, <<>>) /\ UNCHANGED m_jobs
         ELSE /\ enqueue("resume", Head(f.list))
              /\ Goto(th, <<[f EXCEPT !.list = Tail(@)]>>)
  /\ UNCHANGED <<taskVars, m_running, worker>>

-----------------------------------------------------------------------------
ApiStep(th) ==
  \/ run(th) \/ stop(th) \/ join(th)
  \/ run_async(th) \/ schedule(th) \/ Register(th) \/ FetchAdd(th) \/ ScheduleEnd(th)
  \/ await(th) \/ add_continuation(th) \/ await_suspend(th) \/ resume(th)
  \/ get(th) \/ GetReturn(th) \/ wait(th)

CompletionStep(th) ==
  \/ Throw(th) \/ BodyEnd(th)
  \/ on_completed(th) \/ resume_continuations(th) \/ Continue(th) \/ ContinueEnd(th)
  \/ Release(th) \/ ReleaseEnd(th) \/ Ready(th)

WorkerStep(w) == WorkerLoop(w) \/ WorkerTake(w) \/ WorkerExit(w)

ThreadStep(th) == ApiStep(th) \/ CompletionStep(th) \/ (th \in Workers /\ WorkerStep(th))

Next == \E th \in Threads : ThreadStep(th)

\* The operating system runs every thread that can take a step.
Fairness == \A th \in Threads : WF_vars(ThreadStep(th))

Spec == Init /\ [][Next]_vars /\ Fairness

-----------------------------------------------------------------------------
(* Properties.                                                             *)

TypeOK ==
  /\ completed \in [Tasks -> BOOLEAN]
  /\ scheduler \in [Tasks -> BOOLEAN]
  /\ pendingDependencies \in [Tasks -> 0..(Modulus - 1)]
  /\ dependents \in [Tasks -> Seq(Tasks)]
  /\ continuations \in [Tasks -> Seq(Tasks)]
  /\ exception \in [Tasks -> BOOLEAN]
  /\ suspendedAt \in [Tasks -> Nat]
  /\ done \in [Tasks -> BOOLEAN]
  /\ m_jobs \in Seq(Jobs)
  /\ m_running \in BOOLEAN
  /\ worker \in [Workers -> {"loop", "wait", "exited"}]
  /\ stack \in [Threads -> Seq(Frames)]

\* Thread th is executing on_completed of t, at one of the given points.
Completing(th, t, points) == \E f \in Records(th) : f.who = t /\ f.at \in points

\* add_continuation against on_completed (Task.h:457-510): an awaiter that was
\* registered with a task is never left behind once the task is completed: the
\* thread that completed the task is still to swap the list out.
NoLostContinuation ==
  \A u \in Tasks :
    completed[u] /\ continuations[u] # <<>>
      => \E th \in Threads : Completing(th, u, {"resume_continuations"})

\* The registration in schedule() against on_task_finished: a dependent that is
\* registered with a completed task is still to be released by the thread that
\* completed it.
NoStrandedDependent ==
  \A d \in Tasks :
    completed[d] /\ dependents[d] # <<>>
      => \E th \in Threads : Completing(th, d, CompletionPoints \ {"on_completed", "ready"})

\* How often t is waiting in a dependents list, and how many of these
\* registrations schedule() has not yet added to the counter.
Registrations(t) ==
  Cardinality(UNION {{<<d, i>> : i \in {j \in 1..Len(dependents[d]) : dependents[d][j] = t}}
                      : d \in Tasks})
Uncounted(t) == Cardinality({th \in Threads : At(th, "fetch_add") /\ Call(th).task = t})

\* The atomic counter and the dependents lists agree in every state, up to the
\* registrations in flight; the counter wraps below zero when a dependency
\* finishes before its fetch_add (Task.h:541-553, TaskScheduler.cpp:112-118).
CounterMatchesRegistrations ==
  \A t \in Tasks :
    (pendingDependencies[t] + Uncounted(t)) % Modulus = Registrations(t) % Modulus

\* The calls of p that precede its current or its suspended one.
PassedCalls(p) ==
  {i \in DOMAIN Program[p] :
     \/ \E th \in Threads : \E f \in Records(th) :
          f.who = p /\ f.at \in BodyPoints /\ i < f.pc
     \/ p \in Tasks /\ i < suspendedAt[p]}

\* Task.h:268-291, 297-315: whoever gets past co_await u or u.get() finds u
\* completed, and an exception of u has become an exception of the awaiting task.
PassedCallsCompleted ==
  \A p \in Owners : (p \in Tasks => ~exception[p]) =>
    \A i \in PassedCalls(p) :
      /\ Program[p][i].op \in {"await", "get", "wait"} => completed[Program[p][i].task]
      /\ p \in Tasks /\ Program[p][i].op \in {"await", "get"} => ~exception[Program[p][i].task]

Activations(t) ==
  UNION {{<<th, i>> : i \in {j \in 1..Len(stack[th]) :
                               stack[th][j].who = t /\ stack[th][j].at \in BodyPoints}}
          : th \in Threads}

\* Task.h:233-235, "copying is deliberately disallowed to avoid double
\* resumption": a coroutine or a function is executed by one thread at a time,
\* it completes once, and no finished frame is resumed.
NoDoubleResumption ==
  /\ \A t \in Tasks : Cardinality(Activations(t)) <= 1
  /\ \A t \in Tasks : completed[t] =>
       /\ Activations(t) = {}
       /\ \A th \in Threads : ~Completing(th, t, {"on_completed"})
  /\ \A th \in Threads : ~At(th, "crashed")

\* The tasks named by the dependency list with which t is scheduled.
Deps == [t \in Tasks |->
  {d \in Tasks : \E p \in Owners : \E i \in DOMAIN Program[p] :
     /\ Program[p][i].op = "schedule" /\ Program[p][i].task = t
     /\ \E j \in DOMAIN Program[p][i].deps : Program[p][i].deps[j] = d}]

\* The tasks that some body or client schedules.
Scheduled == {t \in Tasks : \E p \in Owners : \E i \in DOMAIN Program[p] :
                Program[p][i].op = "schedule" /\ Program[p][i].task = t}

\* The body of t has been entered.
Begun(t) ==
  \/ suspendedAt[t] # 0
  \/ Activations(t) # {}
  \/ \E th \in Threads : Completing(th, t, CompletionPoints)

\* Task.h:104, "tokens that must complete before this task begins".
StartsAfterDependencies ==
  \A t \in Tasks : Begun(t) => \A d \in Deps[t] : completed[d]

\* The promise of module TaskDag, with the threads, the queue and the counters
\* hidden: safety, and that every scheduled task does begin and complete.
phaseOf == [t \in Tasks |-> IF completed[t] THEN "completed"
                            ELSE IF Begun(t) THEN "running" ELSE "created"]
Dag == INSTANCE TaskDag WITH phase <- phaseOf
ImplementsTaskDag == Dag!Spec

\* docs/Architecture.md:102, "tasks start when dependencies finish".
TasksStartWhenDependenciesFinish ==
  \A t \in Tasks :
    [](scheduler[t] /\ (\A d \in Deps[t] : completed[d]) => <>Begun(t) \/ []~m_running)

\* Every get(), wait() and stop() of the clients returns.
EveryClientReturns == <>(\A c \in Clients : stack[c] = <<>>)
=============================================================================
