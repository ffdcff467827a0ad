# SoulLib in TLA+

Models of SoulLib: the coroutine task scheduler with its worker pool, the frame scheduler,
the reliable-UDP layer and its transports, the file system with its encryption, memory
tracking and logging, the allocators, the containers, the legacy time services and the
time client. TLC checks them on small instances; TLAPS proves the invariants that the
passing runs check for every value of the constants. `PROJECT.json` maps definitions to
source lines and lists runs, mutants, hazards, findings and theorems.

Source paths below are relative to the repository root.

## 1. Inventory

| component | source | state | operations | model |
|---|---|---|---|---|
| tasks and scheduler | `include/Async/Task.h`, `src/Async/TaskScheduler.cpp` | `TaskStateBase` (completed, continuations, dependents, counter, exception), `m_jobs`, `m_running` | schedule, run_async, co_await, get, wait, run, stop, completion | `TaskScheduler`, promise in `TaskDag`, proofs in `TaskSchedulerProofs`, `ResumptionProofs` |
| worker pool | `src/Async/TaskScheduler.cpp` | queue, mutex, condition variable, flag | worker loop, enqueue, stop, run | `WorkerPool`, promise in `JobQueue`, proofs in `WorkerPoolProofs` |
| FrameScheduler | `src/time/FrameScheduler.cpp` | `m_tokens` | schedule, schedule_after, wait_for_all | `FrameScheduler`, proofs in `ResumptionProofs` |
| NetworkManager | `src/Networking/NetworkManager.cpp` | per channel: numbers, masks, pending table; configuration | send, receive, acknowledgments, retransmission, configuration | `NetworkManager`, proofs in `NetworkManagerProofs` |
| transports | `src/Networking/{Udp,Tcp}Transport.cpp` | sockets | bind, send, receive, close | packets in `NetworkManager`, descriptors in `TransportSockets`, proofs in `ServicesProofs` |
| file system | `src/FileSystem` | files, streams, strategy | read, write, save, load, remove, encrypt, decrypt | `FileStore`, `Cipher`, proofs in `FileStoreProofs` |
| memory tracking | `src/Memory/Core`, `include/Memory` | allocation table, registry pointer, debug mode | get, set, reset, register, unregister, report, clear, snapshot | `MemoryTracking`, `MemoryDelta`, proofs in `StorageProofs`, `ContainerProofs` |
| allocators | `include/Memory/Core/{Pool,Arena}Allocator.h` | free list, offset | allocate, deallocate, reset | `BlockAllocators`, proofs in `StorageProofs` |
| SoulVector | `include/containers/Sequential/SoulVector.h` | storage, size, capacity, allocator | insert, erase, remove, reserve, shrink, copy, move, swap | `SoulVector`, proofs in `StorageProofs` |
| maps | `SoulFlatMap.h`, `SoulMap.h`, `SoulUnorderedMap.h` | entries | insert, remove, subscript, sort, lookup | `SoulMaps`, proofs in `StorageProofs` |
| other containers | `include/containers`, `src/containers` | wrapped standard containers | insert, remove, sort, search | `SoulContainers`, proofs in `ContainerProofs` |
| events | `src/time/EventScheduler.cpp` | priority queue | schedule, update, cancel, reschedule | `EventScheduler`, proofs in `ServicesProofs` |
| timers | `src/time/{TimeService,TimerManager,TimedTask}.cpp`, `demo/main.cpp` | clock offset, task list | synchronise, update, add, complete, extend | `TimedLoop`, proofs in `ServicesProofs` |
| Client / HostServer | `src/network` | socket, connected flag, threads | connect, request, serve, disconnect | `TimeClient`, proofs in `ServicesProofs` |
| debug | `src/debug` | channels, configuration, mutex | init, log, register, shutdown | `DebugLog`, proofs in `StorageProofs` |
| profiler, tools, benchmarks | `src/Memory/Profiler`, `tools`, `benchmarks` | none of their own | | not modelled |

How the parts interact. Everything asynchronous is a `Task`; bodies run on the pool's
workers and call the API from there. FrameScheduler calls `TaskScheduler::schedule` and
`wait`. NetworkManager awaits transport coroutines, which put their socket calls into
`run_async` jobs, and schedules a `retransmit_after` coroutine for each packet it sent.
Shared state is guarded by one mutex per task state, one for the queue, one for the
network manager; `pendingDependencies` and `m_running` are atomics. The asynchronous file
operations are `run_async` jobs on files that FileManager uses too. Allocators and smart
pointers register with the manager that the registry names, which logs while it holds its
mutex. The remaining parts are used by one thread each and share nothing.

What is hard here: the interleavings of schedule() with the completion of its
dependencies; awaiting against completing; sleeping against notifying; the order of
stop, run and queued work; lost, late, reordered and duplicated datagrams; timers that
fire after the answer; numbers that wrap; a descriptor or an address that is given back
and handed out again; a file that is truncated while others use it; constructors that
throw halfway; time that is cut off at every update. `PROJECT.json` lists the hazards
by line with the properties that cover them.

What makes each component correct:

* tasks: a task begins after its dependencies and once; co_await, get and wait return
  after completion with the exception; nobody who registered is forgotten;
* pool: jobs start once, in order; no worker sleeps on work or through a stop;
* frames: the barrier covers all tasks of the frame, delays elapse first;
* network: a packet leaves the pending table because it arrived or its budget is spent;
  duplicates are bounded; every pending packet has exactly one timer chain; no socket is
  leaked or closed under its owner;
* files: an undisturbed read returns what was written; overlapping operations blend
  contents but never shift them; everything queued ends;
* memory: a manager lists an address exactly while an object registered with it lives
  there; blocks and pieces are handed out once; a vector's elements, blocks and allocators
  stay accounted for, also where a constructor throws while it grows;
* containers: behind the same interface they hold the same values;
* time: the service lags by less than a millisecond per update; timers are reported once;
  no event is lost or runs early, and the due ones run by priority and time; a time request
  yields the timestamp the server sent.

## 2. Modules

**TaskScheduler** models every thread (worker or client) as a stack of activation
records `[at, who, pc, list, n]`. A record at a `BodyPoints` point is a body (coroutine,
`run_async` function or client thread) in front of or inside an API call; the other
points are inside library functions (`add_continuation`, `resume_continuations`,
`on_task_finished`, ...). One action is one critical section or one access to an atomic.
Resuming a coroutine on the current thread pushes a record, so nested resumption is as in
the code. `suspendedAt` and `done` are the coroutine frame: resuming it enters the body
at the call where it was suspended, whoever resumes it and why. The constant `Program`
says what bodies and clients do; the MC module defines one program per run.
`completed` is a plain bool that `await_ready` and `get` read without the lock. This is a
data race in C++; the model reads the current value, which is what the generated byte
load does. A stale false only leads to the locked path.

**TaskDag** is the promise to a caller: created, running, completed, in dependency order,
and every scheduled task does run. `ImplementsTaskDag` hides threads, queue and counters.

**WorkerPool** opens the critical sections that TaskScheduler takes as steps: the mutex,
the predicate, blocking (release and sleep in one step), spurious wake-ups, `notify_one`
after the unlock, the compare-and-exchange of `stop` and its empty critical section.
Jobs are numbers. Calls of `stop` do not overlap (`m_workers` is not synchronised; the
destructor's call follows). **JobQueue** is its promise.

**FrameScheduler** extends TaskScheduler by `m_tokens`. `FrameSchedule` and
`ScheduleAfter` are the calls that the two methods make; `emplace` and `wait_for_all`
are actions of their own. The sleeping coroutine of schedule_after is a task with an
empty body: the model lets any amount of time pass before it completes.

**NetworkManager** has two managers, one connection and one channel. A send or a receive is
a chain of actions, one for each critical section of `m_mutex` and each operation of a
transport. `net` loses by never delivering (a TCP connection or send that fails loses the
packet too), reorders by delivering in any order, and duplicates when the set-up says so
(`setup`). A timer may fire at any time: relative speeds are unknown. `Start` is the number
after which the modelled traffic begins, with everything before it received in order;
starting just below the wrap-around explores it. `accepted`, `delivered`, `transmissions`
and `dropped` are history variables.

**TransportSockets** has the descriptor each transport keeps. Every read and write of
`m_socket` is a step, because nothing guards it; numbers are reused lowest first. A job
works on the number it copied. `leaked` are the sockets of accepted connections whose
payload could not be allocated (TcpTransport.cpp:206 throws past the closing). `overlapped`
records that two threads were creating, binding or closing one transport; what follows is
not claimed to be safe, and the model stops there.

**FileStore** executes a few operations of different kinds on one path. A file is an inode,
so a stream outlives the removal of its name. `CallerReusesBuffer` lets the caller overwrite
its buffer after `write` has returned. `saved` is what the last write that nothing disturbed
was given; a write whose buffer was changed before the coroutine copied it counts as
disturbed, and FileBufferReuse is about that case. **Cipher** is the XOR stream with its
rotating key, bit by bit: the cumulative rotation of the loop is written in closed form.

**EventScheduler** keeps the heap as a set and its front, with `Compare` as it is written.
`execute` and `Pop` are two steps, between which a callback may throw or call the
scheduler; `displaced` records that pop() then removed another event than the one that
ran. (The code also uses the moved or freed event in that case; the model takes the outcome
in which the program goes on.) **TimedLoop**
composes TimeService, TimerManager and TimedTask by the demo's polling loop, with a clock
finer than a millisecond and other threads that synchronise or update the service;
**TimeClient** is the client against the server's threads, with every system call that
may fail; a timestamp is the sequence of its bytes in the server's memory, and the
conversion of the client reverses each half, as ntohl does on a little-endian host.

**MemoryTracking** extends **DebugLog**: threads allocate, delete, report and log while
an administrator changes the registry, the debug mode and the channels. `operator new`
returns any free address, also one just deleted by another thread. **MemoryDelta** takes
any two ledgers and compares their snapshots as the demo prints them.

**BlockAllocators**, **SoulVector**, **SoulMaps** and **SoulContainers** are sequential
components under any sequence of calls. SoulVector's state is one record that member
functions map to the next, so that they call each other as in the code; cells that hold no
object are `Raw`, and touching one sets `bad`. A block is granted by an allocator for a
number of elements and has to go back to it with the same number. (TaggedMemoryAllocator
ignores the number; the template's other allocators need not.) A constructor may throw in
reallocate(), which undoes what it did, and in move_to_small(), which does not: `torn`
records that, and the model of the vectors stops there. In BlockAllocators the arena's
pieces have addresses, `ArenaBuffer` being aligned to `kAlignment` (max_align_t) only.
SoulMaps and SoulContainers run the same calls on several containers, whose agreement is the
property.

**MCServices** and **MCStorage** put the components that share nothing into one instance
each: `focus`, chosen initially, names the one that moves.

Definitions marked "Mutant of ..." are plausible mistakes in the definition that follows
them. No specification uses them; they are there to show that each property fails when
the code is wrong in that way.

## 3. Runs

Passing:

| run | states | what it shows |
|---|---|---|
| TaskDagOrder | 95k | dependents first, next to get() of a lazy coroutine over a lazy coroutine over a job that may throw: TaskDag is implemented, nothing runs twice, exceptions travel up, clients return |
| TaskAnything | 462k | barrier and delay of one frame; then any mix of calls, the unsafe ones included, under which the bookkeeping stays consistent |
| PoolFifo | 7.2k | no sleep on work, none through a stop; JobQueue is implemented; stop() returns; jobs are started |
| UdpTraffic | 707k | reliable, plain and TCP packets in several set-ups (`setup`): numbers 7, 0, 1 of 8, windows 1 and 2, a duplicating network, reliability and retry budget changed on both sides while timers sleep |
| Services | 571k | files, events, timers, time client, sockets, one at a time |
| Storage | 434k | tracking with logging, pool, arena, vector, maps, containers, snapshots, one at a time |

Violations, each a disagreement between code and a statement of the repository
(`findings` in `PROJECT.json` quotes it):

| run | what the counterexample is |
|---|---|
| TaskRootsFirst | the first dependency completes while schedule() still registers the second: the task is queued at once |
| TaskLostDependent | the dependency completes between registration and `fetch_add`: the counter wraps and the task is never queued |
| FrameNameReuse | wait_for_all ignores the second task of a name |
| UdpPlainDuplicate | the second unreliable packet of a reliable channel is dropped |
| FileBufferReuse | the caller changes its buffer after write() has returned: the file gets the new contents |
| ClientByteOrder | the server sends host byte order, the client applies ntohl: the answer is not the server's time |

The models contain other behaviours that a reader may not expect. They need no run of
their own; a program of a few calls shows each:

* get() of a task that schedule() has queued puts its coroutine into the queue a second time
  (Task.h:302), and two workers may resume it at once. get() and co_await do the same to a
  task that waits for its dependencies, and to one that is suspended in a co_await of its
  own, which goes on before the awaited task has completed (`Produce` tests `done` only,
  Task.h:300, 276). Architecture.md:104 offers both, and Task.h:235 forbids copies "to avoid
  double resumption". NoDoubleResumption and PassedCallsCompleted are therefore checked on
  programs that get and await lazy tasks.
* run() after stop() starts no thread (TaskScheduler.cpp:73), and if it falls between the
  two reads of `m_running` in the worker loop the worker takes the front of an empty
  deque. Hence the assumption `~Restart` of PoolFifo and of two theorems.
* schedule_after inherits the race of TaskRootsFirst: a prerequisite that ends during the
  registration starts the task before its delay is over, where FrameScheduler.h:50 says "once
  the delay and dependencies resolve". TaskAnything delays a task without prerequisites.
* A newer packet shifts `receivedMask` without setting the bit of the previous newest one
  (NetworkManager.cpp:163). In-order packets are acknowledged once only, and a
  retransmission of one is delivered again: `DeliveredAtMostTwice` is the exact bound.
* An unreliable packet carries number and acknowledgment 0, and `record_ack` reads them
  like any other (NetworkManager.cpp:36, 54). Only after 2^32 packets is 0 a number of the
  traffic again; then an unreliable packet acknowledges it although it never arrived. The
  theorems exclude it by `HarmlessBlanks`.
* receive() polls TCP once and then blocks in recvfrom (NetworkManager.cpp:44): a TCP
  packet that arrives later waits for the next datagram.
* A dependency that is awaited but never handed to schedule() or run_async() has no
  scheduler and does not release its dependents (`ContinueEnd`, Task.h:507).
* Two overlapping writes of a path leave the end of the longer buffer behind the shorter
  one; BytesKeepTheirPlace is what remains true.
* EventScheduler serves events of one priority in no order of time: Compare asks both for
  shouldTrigger(0) (EventScheduler.h:14, "Compare by trigger time"). An event that is not due
  can stay in front of due ones of its priority, and update() ends. EventsAccounted says
  that nothing else holds a due event back.
* A `repeatInterval` repeats nothing: execute() moves the event's time on (TimedEvent.cpp:15)
  and update() pops it all the same (EventScheduler.cpp:11). No text of the repository says
  what it is for, so EventsAccounted claims nothing of such events after their first run.
* A callback that schedules an event of higher priority makes pop() remove that one and
  leaves the event that ran in the queue; one that cancels the last event makes pop() act
  on an empty queue (EventScheduler.cpp:10, 11). After the first, EventsAccounted
  no longer says where an event went, only that none starts early and what update() leaves;
  after the second the model stops ("undefined").
* An arena rounds up the offset, not the address: an alignment beyond that of max_align_t is
  met or not as the buffer happens to lie (ArenaAllocator.h:47, 65). PiecesDisjoint claims
  addresses for the alignments that the buffer itself has.
* shrink_to_fit() left by an exception of move_to_small() (SoulVector.h:294) has destroyed
  elements that `size_` still counts. StorageSound claims nothing after that.
* A TCP payload that cannot be allocated leaks the accepted socket (TcpTransport.cpp:206);
  SocketsAccounted says that it is the only leak.
* SoulFlatMap::sort with another order than the keys' makes later searches miss (`order`
  is "lost" after one); sorting back by key before searching repairs it.
* SoulArray ignores inserts when it is full, and SoulArray and SoulMultimap remove one of
  several equal values where the other containers remove all.
* Two first uses of an unbound transport may both create a socket; one is lost.
* connectToServer on a connected client forgets the first socket and its WSAStartup.

TaskDagOrder passes because its dependents are scheduled before the tasks they depend on
(their tokens exist before they are scheduled), which is the order in which the race of
TaskRootsFirst and TaskLostDependent cannot happen; `c` is scheduled by the thread that
afterwards schedules `a` and `b`.

`CHECK_DEADLOCK FALSE` is set throughout: programs end, pools stop, traffic is bounded.
Where stopping would be wrong a liveness property says so.

Bounds. Two workers and one or two clients suffice for every race in the code between a
registering and a completing thread, and for nested resumption on either; three tasks plus
jobs give a counter of 2 and a chain of two awaits; `Modulus = 4` (2^32) exceeds every
counter value and keeps the wrap below zero visible. Three jobs and two stops let each
worker be inside a job, in the wait and at its exit while another is pushed. `SeqMod = 8`
(2^32) with at most three packets keeps the half-range comparison away from its ambiguity,
as 32-bit numbers do; windows of 1 and 2 (32) make packets leave the window; budgets of 1
and 2 give packets that are dropped at once and packets that are retransmitted, also when
the budget changes in between. Three file operations on one path with one worker, a buffer
longer and one shorter than the stream's, give every overlap of a long and a short writer
with a reader. Two threads and four descriptors let a number be reused while a job holds it;
two threads and two addresses do the same for memory. Two ticks to a millisecond and two
ticks of delay let a millisecond begin between any two steps of the loop. Vectors grow to
size 3 over a small storage of 2, so that each change between small storage and block
happens in both directions and an exception can leave move_to_small() between two elements;
alignments go up to twice that of the arena's buffer; five heap blocks are one more than
there are vectors, the local ones of swap and assignment included; four keys make a
bisection of three steps; containers hold up to four of three values, so equal ones occur.

Fairness. Weak fairness of every thread: the operating system runs each thread that can
take a step. No fairness of mutexes, none for spurious wake-ups, none for clients to
call anything. In NetworkManager the pool runs its coroutines and the application keeps
calling receive; the network owes nobody a packet, so `ReceiveUdp` has no fairness and
PendingDrains holds for a network that loses everything. In Services a file operation
that has been queued goes on (the pool's workers run), the clock ticks, the demo's thread
runs, and client and server threads take the steps they can; nobody is obliged to call
anything, and no I/O error is obliged to happen. In Storage a thread inside a call goes
on; mutexes are not fair.

## 4. Proofs

`TaskSchedulerProofs` proves, for every `Program`, every set of tasks, workers and clients
and every counter width (`ModulusAssumption`, `OwnersAssumption`, `ProgramAssumption`: the
sets are disjoint, programs are sequences of API calls, co_await occurs in coroutines
only):

* `TaskTypes`: TypeOK. It is not inductive: one must know that a record inside an API call
  stands at a call that exists, that records of library functions belong to tasks, and
  that add_continuation has somebody to register. `Fits` says so point by point,
  `GoodFrames` are the records that fit, and `TaskInv` asks for stacks of good records.
  Every action of a thread replaces its innermost record by good ones (`GoodGoto`), which
  one lemma per group of actions shows; the types of the other variables follow.
* `AwaitersAreNeverLost`: NoLostContinuation. Relative to `TaskInv` it is inductive: the
  record of the completing thread at `resume_continuations` is passed only by the action
  that swaps the list out (`SwapStays`), and a registration happens only while the task
  is not completed.
* `Move` lists what may replace the innermost record of a thread (a library record, an
  entered body, a point inside the same call, the next call if the present one is
  `Passable`, the end of a body that threw, the continuation of a suspended one);
  `RecordsStep` reduces every step to it, so that invariants about records are proved once
  per kind of move and not once per action.
* `CountersAlways`: CounterMatchesRegistrations. Cardinalities of the places in the
  dependents lists change by one at `Append` and `Tail` (`PlacesAppend`, `PlacesTail`), and
  threads at `fetch_add` stand there with their innermost record (`NestInv`), so each of
  the three steps moves one unit between the counter, the lists and the threads in flight,
  modulo the counter's range.
* `DependentsAlways`: NoStrandedDependent, for programs that name as dependencies only
  tasks that the same body or client has scheduled or started before (`OrderedPrograms`).
  `AnnounceInv` carries that such tasks have a scheduler along calls, suspensions and
  registrations; then a completed task with dependents has a thread on its way through
  `resume_continuations`, `continue` and `on_task_finished` (`DependentsKept`). Without
  the hypothesis it is false: a dependency that nobody schedules does not release its
  dependents (section 3).

`ResumptionProofs` proves what holds of programs that use the scheduler as `SoundUse` says:
every task is started by one call (schedule, run_async, or the co_await or get of a lazy
coroutine); schedule() gets at most one dependency, or is called before the same owner
starts the dependencies; dependencies are distinct, and fewer than the counter's range.
The program of TaskDagOrder satisfies it, and so does the frame of TaskAnything taken by
itself; the programs of TaskRootsFirst and
TaskAnything do not, and the properties are false for them (section 3).

* `ResumedOnce`: NoDoubleResumption. A coroutine is never resumed twice because only one
  place holds it at a time. A place is the queue, a continuation list, the dependents lists
  taken together, or a record of a stack that executes, resumes, hands on or schedules it.
  `TokenInv` says that nothing is held in two places or twice in one (`OnePlace`,
  `OnceEach`), what holds of a task in each kind of place (`Placed`: where it may be resumed
  its dependencies are met and what it awaits is completed; where it waits it awaits that
  task; where schedule() has it, every dependency is completed, has it in its dependents or
  is still to be looked at), what the library's own records rely on (`RecordsSound`), and
  that calls still to come start tasks that nobody holds (`FreshInv`). The counter is where
  this is hard: by CountersAlways it is the number of registrations less the `fetch_add`s
  to come, and under SoundUse the release that takes it from 1 to 0 is the last one. One
  lemma per group of actions shows where an action moves the one place.
* `DependenciesFirst`: StartsAfterDependencies, from the conjuncts `Placed` and `BegunInv`.
* `WaitsAreOver`: PassedCallsCompleted. `PassInv` carries along each body and each
  suspension that the calls before it are over; a body goes on from a co_await only out of
  a place where what it awaits is completed.
* `ScheduleIsADag`: the safety part of ImplementsTaskDag, step by step. A task that begins
  in a step is entered by the thread that takes it (`Enters`), with its dependencies met,
  and does not complete in the same step; one that completes is completed by that thread,
  and no other task changes.

About frames it proves `DelaysElapse`: DelayElapsesFirst, under SoundUse, from
DependenciesFirst, as the sleeping coroutine is a dependency of the delayed task.
schedule_after starts that coroutine before it schedules the task, so SoundUse covers
delayed tasks without further prerequisites; with one more, section 3 shows the race.
It also proves `BarrierAlways`: BarrierCompletes, for programs in which
every task has a name of its own and clients do the waiting (`FrameUse`; FrameNameReuse
shows that names must differ). `BarrierInv` says of each client record what the calls
before it have left behind: a recorded token after emplace, completed tasks after
wait_for_all; tokens are found under the names of their tasks (`TokensOK`).

`WorkerPoolProofs` proves, for every set of workers and clients and every bound on jobs
and stops (`PoolAssumption`: bounds are naturals, workers and clients are disjoint,
`None` is no thread):

* `PoolTypes`, `StopIsNeverMissed`, `WorkIsNeverMissed`, with restarts allowed;
* `PopAlwaysFindsJob` and `PoolImplementsQueue` (the step-by-step refinement of JobQueue)
  without restart; section 3 says why the assumption is needed.

The argument. NoSleepThroughStop is not inductive: one must know that a worker in front
of blocking holds the mutex, so that the empty critical section of stop() orders itself
after it. `PoolInv` adds where each kind of thread can stand (`Points`), that the
mutex is held exactly by the one worker between lock and release (`Holder`), that
`waiting` is the set of workers at that point (`Blocked`), and that a worker about to
block has seen an empty queue that cannot have grown since (`BlocksOnEmpty`). `QueueInv`
adds that the queue holds consecutive numbers up to `submitted` (`Numbered`) and that a
worker at the pop has a job or sees the pool stopped (`PopGuarded`); with these every
step maps to a step of JobQueue or to a stutter. One lemma per conjunct, one case per
action.

`NetworkManagerProofs` proves, for every window, number range, traffic below half of the
range, every set-up (`setup`) and any loss, delay, reordering and duplication:

* `OneChainAlways` and `BudgetAlways`: `ChainInv` says that a number is with the transport
  or with a timer, never both, and with exactly one of them while it is pending;
  `BudgetInv` relates transmissions and attempts; `SentInv` says which numbers have been
  used, so that a new packet's number is fresh.
* `AcknowledgmentsAlways`: NoFalseAck under `HarmlessBlanks` (no plain packets, or a
  traffic that begins at number 0; section 3). `AckInv` says that a receiver's newest
  number and mask, and every acknowledgment in flight, name accepted numbers only. The
  shift of the mask by the distance of the new number is the heart of it, modulo the
  range.
* `DeliveriesAlways`: DeliveredAtMostTwice under `AlwaysReliable` (additionally, the
  channel's reliability is not switched). `WindowInv` says how often a number can have
  been delivered: not at all ahead of the newest one, once as the newest, once inside the
  window while its bit is not set, twice otherwise; `NumberInv` that all numbers in play
  are numbers of the traffic, which keeps the half-range comparison exact.

`ServicesProofs` proves about the components that TLC checks in the run Services:

* `EventsAlways`: EventsAccounted, for any events and any calls by callbacks. `EventInv` says
  that keys are given out once and that the front is an event that Compare ranks below no
  other, which push, pop and the rebuilding of the heap each keep.
* `SocketsAlways`: SocketsAccounted, for any threads, transports and descriptors. Under
  `~overlapped`, `SocketInv` says who owns each open descriptor (`Owners`), that at most
  one thread is creating, binding or closing a transport (`Turns`), and what a bound
  transport keeps (`Bindings`); leaked descriptors are nobody's and are never closed.
* `WinsockAlways` and `AnswersAlways`: `ClientInv` has the balance of WSAStartup, sockets
  (`Balance`), that what waits in a stream is the end of one timestamp and what the call in
  progress has received comes right before it (`Streams`), byte by byte, and that a
  connection that has answered has nothing left to give (`Exhausted`).
* `LagAlways`: LagBelowOneMsPerUpdate, for every number of ticks to a millisecond.
  `ClockInv` states the lag in ticks, where an update loses less than `TicksPerMs`; in
  milliseconds the statement is not inductive.
* `ReportsAlways`: RemovedMeansReported; `ReportInv` counts the reports of each task
  between the steps of the loop.

`StorageProofs` proves about the components that TLC checks in the run Storage:

* `LedgersAlways`: LedgerExact, for any threads, addresses, managers and tags. `MemInv` says
  that a living object is owned by the thread inside a call on it, if there is one, and by
  no other (`CallInv`), so that an address deleted by one thread and reused by another is
  never unregistered twice, that lists and objects agree (`Listed`), and that a manager
  installed by Set stays (`Installed`).
* `ChannelsAlways`: ChannelsAgree, because whoever writes holds logMutex and writes the
  latest entry, so that no channel gets an older entry after a younger one (`LogInv`).
* `ArenaPiecesAreDisjoint`: PiecesDisjoint, for every capacity, buffer address and set of
  sizes and of alignments that are powers of two (`BlockAssumption`: the buffer has the
  alignment of max_align_t, the largest sum is below the width of size_t). `ArenaInv` adds
  that every piece ends at or before `offset_`; `Aligned` shows that align() does not go
  below it and that no sum wraps; an offset and a buffer that are both multiples of an
  alignment add up to an address that is one.
* `FreeListAlways`: FreeListSound, for every number of blocks. `PoolInv` says that the free
  blocks form a chain through their words from the head to null (`Chain`); allocate takes
  its first link, deallocate puts one in front, and a user writes only to words outside
  it. That the walk in the property follows exactly this chain (`WalkIsChain`) is shown by
  looking at the least length at which it would not (`LeastNatural`): the library's
  induction theorems cannot be used, the well-foundedness of < can.
* `StorageAlways`: StorageSound, for any vectors, every small capacity and every bound on
  sizes. `VectorInv` says that there are sequences c, one for each vector and each local
  vector of the member functions, that the storage represents: a vector's cells hold c up to
  its size, and its block was granted by its allocator for its capacity (`VectorOK`), no two
  vectors share an area (`Apart`), no block in use is without a vector (`OwnersOK`), and
  every other cell is raw (`RestRaw`). Between calls the local vectors are empty (`Parked`).
  Each member function is one lemma about what it does to c and what it leaves alone
  (`Only`), so that swap is three moves and copy assignment a construction and a swap, as in
  the code. The loops over elements (`AppendAll`, `Remaining`) again go by the least round
  that would go wrong (`LoopRuns`). `VectorAssumption` says that names differ and that the
  heap has a block left when every vector has one: operator new does not fail. The exception
  that leaves move_to_small() halfway ends the claim (`VectorsUntilTorn`).
* `MapsAlways`: MapsAgree, for any keys, values and sizes. `MapInv` takes the tree map as
  the abstract value of the other two: the hash map equals it, the flat map holds exactly
  its entries (`Holds`), and in the order of the keys while `order` says so. The bisection
  is right at every length: each round keeps the place looked for within what is left
  (`Between`, `HalveKeeps`), and as many rounds as there are entries leave nothing. A
  stable sort is a permutation whatever the comparator (`Shuffled`), so it keeps `Holds`
  and filling the hash map again gives the same map back (`RefilledIs`). insert_range is
  right for ranges of every length (`InsertAllHolds`). `MapAssumption` says that keys are
  integers and mapped_type{} a value.

`ContainerProofs` goes on from there, with what a sequence holds whatever its order:

* `DeltaAlways`: DeltaAddsUp, for any two ledgers over finitely many pointers
  (`DeltaAssumption`). `DeltaInv` says what has been printed; the rest is about sums. A sum
  along a set does not depend on the order of the walk: take out the last member of one
  walk and the other still adds up to what is left (`AddsLess`, `AddsOnce`). So the
  difference of two ledgers is the sum of the differences of their tags, by adding one
  tag at a time (`OneTagMore`, `AllTagsDiffer`); a tag has one line at most, and none only
  where nothing has changed (`Reported`); and sorting the lines changes no sum.
* `ContainersAlways`: ContainersAgree, for any integers, array capacity and length.
  `ContainersInv` takes the deque as the abstract value: list and stack equal it, forward
  list, heap and multiset have every value as often (`SameBag`), and the array and the
  multimap (`ArrayInv`, `MultiInv`) agree while `exact` says so. Values are counted by
  the places they have (`Count`), so that insertion anywhere is one more (`CountOneMore`)
  and a sort none; an ordered sequence is determined by its counts (`OneOrder`), which
  turns equal counts into equal results. std::remove keeps order and the other counts
  (`WithoutLeaves`); where a value occurs once it is the array's remove (`WithoutOnce`),
  which is what `exact` rests on. The bisection of Searcher is the one of the maps, here
  over sequences with equal elements (`FoundByBoth`).

`FileStoreProofs` proves for any operations, paths, pool sizes and I/O errors:

* `PlacesAlways`: BytesKeepTheirPlace. `FileInv` has the stages of an operation and that an
  inode belongs to one path; `PlaceInv` says of every byte on disk which writer's buffer
  it came from, and overlaying a buffer at the start of a file shifts nothing.
* `ReadsAlways`: ReadsBackWhatWasWritten. `CalmInv` says what an operation that met nobody
  finds: a calm writer an empty file, a calm reader what was saved; `SavedInv` that a path
  is known to hold saved data only while no writer streams to it; `BufferInv` that a
  writer's buffer is its data encrypted; `ResultInv` what a reader has returned.
* `DecryptInvertsEncrypt`, which ReadsAlways uses, for every width, period, key, iv and
  length (`CipherAssumption`): the key stream depends on the index only, each of its
  values is a byte, and exclusive or undoes itself.

Only model-checked:

* the liveness properties, and the fairness part of the refinements: the prover has
  neither ENABLED nor fairness.

## 5. Not modelled

* Lifetimes: destruction of tasks, frames and sockets. `await_suspend` reading `m_state`
  after the awaiter may have been resumed is listed as a hazard without a property.
* Result values of tasks (`extract` moves them out once).
* stop() from a job and overlapping calls of stop().
* The bytes of the TCP framing; several channels of a connection.
* The pool behind NetworkManager: blocking recvfrom and sleep_for use up the workers.
* Run after stop, a peer that restarts (nothing identifies a session), stop() with jobs
  still queued: the code handles none of them and no document promises anything.
* Inserting an element of a SoulVector into itself (the reference dies in reallocate):
  undefined behaviour. What a program does with a vector after move_to_small() threw.
* A callback of EventScheduler that calls update() again.
* read_text and write_text of AsyncFileManager: conversions around read and write, which
  throw where those report an error.
* UniquePtr::release() and reset(p) (UniquePtr.h:51): after release() the manager goes on
  listing an address that its new owner deletes.
* A block returned twice to a pool, sizes near 2^64 and alignments that are no
  powers of two in an arena: not defended against.
* BinarySerializer, JsonFileIO (another mode letter), log formatting and files, the
  assertion handler, profiler and visualizers: conversions and output without state.
* pop and peek of the adapters, findAll and findFirst (filters of getAll),
  ContainerManager, the container memory optimizer.
* Demos other than the scheduler loop and the memory report; benchmarks and tools.

## 6. Plan

1. Composition: NetworkManager and FileStore over a bounded pool, for the exhaustion of
   workers by blocking calls.
2. Lifetimes of tasks and coroutine frames.
