----------------------------- MODULE TimedLoop ------------------------------
(***************************************************************************)
(* TimeService, TimerManager and TimedTask, composed by the loop of        *)
(* runSchedulerDemo (demo/main.cpp): synchronise, add the tasks, then poll *)
(* until no task is active. Other threads may use the same TimeService,    *)
(* whose operations hold its mutex and are therefore one step each.        *)
(* The steady clock counts ticks, TicksPerMs of them to a millisecond, so  *)
(* that what duration_cast cuts off is visible.                            *)
(***************************************************************************)
EXTENDS Integers, FiniteSets

CONSTANTS
  TimedTasks,
  TaskSpecs,    \* the configurations: [TimedTasks -> [offset, duration]]
  ServerTimes,  \* arguments of syncWithServerTime
  Durations,    \* arguments of restart; extend also gets one that wraps around
  TicksPerMs, PollInterval, \* PollInterval in ticks
  TimeMod,      \* 2^64
  MaxClock,     \* bound on the clock
  MaxDelay,     \* bound on the ticks by which the loop is late or slow
  MaxEdits      \* bound on the calls of others

ASSUME LoopAssumption ==
  /\ PollInterval \in Nat /\ TicksPerMs \in 1..PollInterval
  /\ TimeMod \in Nat \ {0} /\ ServerTimes \subseteq 0..(TimeMod - 1) /\ Durations \subseteq Nat
  /\ TaskSpecs \subseteq [TimedTasks -> [offset : Nat, duration : Nat]]

VARIABLES
  clock,                                    \* steady_clock::now(), in ticks
  synced, serverTimeAtSync, lastSyncLocalTime,
  origin,      \* history: [clock, time] of the last syncWithServerTime
  updates,     \* history: updateRealTime calls since then
  edits,
  loop,        \* the demo's program counter
  wake,        \* the earliest end of its sleep
  now,         \* its local variable
  spec,        \* its configuration
  activeTasks, startTime, endTime,
  next,        \* history: the tasks getNextToComplete could announce
  reported     \* its set `completed', with the time of the report

clockVars == <<synced, serverTimeAtSync, lastSyncLocalTime, origin, updates>>
timerVars == <<activeTasks, startTime, endTime, next, reported>>
loopVars == <<clock, clockVars, edits, loop, wake, now, spec, timerVars>>

-----------------------------------------------------------------------------
(* TimeService                                                             *)

ElapsedMs == (clock - lastSyncLocalTime) \div TicksPerMs

getCurrentTime == IF synced THEN (serverTimeAtSync + ElapsedMs) % TimeMod ELSE 0

syncWithServerTime(serverTime) ==
  /\ lastSyncLocalTime' = clock
  /\ serverTimeAtSync' = serverTime
  /\ synced' = TRUE
  /\ origin' = [clock |-> clock, time |-> serverTime] /\ updates' = 0

\* Mutant of updateRealTime: lastSyncLocalTime is not moved.
AddElapsed ==
  /\ synced
  /\ serverTimeAtSync' = (serverTimeAtSync + ElapsedMs) % TimeMod
  /\ updates' = updates + 1
  /\ UNCHANGED <<synced, origin, lastSyncLocalTime>>

\* Whole milliseconds are added; the rest of the elapsed time is forgotten.
updateRealTime ==
  /\ synced
  /\ serverTimeAtSync' = (serverTimeAtSync + ElapsedMs) % TimeMod
  /\ lastSyncLocalTime' = clock
  /\ updates' = updates + 1
  /\ UNCHANGED <<synced, origin>>

-----------------------------------------------------------------------------
(* TimedTask and TimerManager                                              *)

isComplete(t, when) == when >= endTime[t]

getRemainingTime(t, when) == IF when >= endTime[t] THEN 0 ELSE endTime[t] - when

Completed(when) == {t \in activeTasks : isComplete(t, when)}

\* The scan keeps the first of those with the least remaining time; which one
\* is first depends on the order of insertion.
getNextToComplete(when) ==
  {t \in activeTasks : \A u \in activeTasks : getRemainingTime(t, when) <= getRemainingTime(u, when)}

-----------------------------------------------------------------------------
LoopInit ==
  /\ clock = 0
  /\ synced = FALSE /\ serverTimeAtSync = 0 /\ lastSyncLocalTime = 0
  /\ origin = [clock |-> 0, time |-> 0] /\ updates = 0 /\ edits = 0
  /\ loop = "start" /\ wake = 0 /\ now = 0
  /\ spec \in TaskSpecs
  /\ activeTasks = {} /\ startTime = [t \in TimedTasks |-> 0]
  /\ endTime = [t \in TimedTasks |-> 0]
  /\ next = {} /\ reported = {}

Tick ==
  /\ loop \notin {"start", "end"} /\ clock < wake + MaxDelay /\ clock < MaxClock
  /\ clock' = clock + 1
  /\ UNCHANGED <<clockVars, edits, loop, wake, now, spec, timerVars>>

DemoSync ==
  /\ loop = "start"
  /\ \E s \in ServerTimes : syncWithServerTime(s)
  /\ loop' = "add"
  /\ UNCHANGED <<clock, edits, wake, now, spec, timerVars>>

\* One task of tasksConfig; its start is read from the service.
DemoAdd(t) ==
  /\ loop = "add" /\ t \notin activeTasks
  /\ startTime' = [startTime EXCEPT ![t] = (getCurrentTime + spec[t].offset) % TimeMod]
  /\ endTime' = [endTime EXCEPT ![t] = (startTime'[t] + spec[t].duration) % TimeMod]
  /\ activeTasks' = activeTasks \cup {t}
  /\ UNCHANGED <<clock, clockVars, edits, loop, wake, now, spec, next, reported>>

\* while (!getActiveTasks().empty()) sleep_for(pollInterval)
DemoSleep ==
  /\ \/ loop = "add" /\ activeTasks = TimedTasks
     \/ loop = "poll" /\ activeTasks # {}
  /\ loop' = "sleep" /\ wake' = clock + PollInterval
  /\ UNCHANGED <<clock, clockVars, edits, now, spec, timerVars>>

\* updateRealTime, and then getCurrentTime under a second lock.
DemoUpdate ==
  /\ loop = "sleep" /\ clock >= wake
  /\ updateRealTime
  /\ loop' = "read"
  /\ UNCHANGED <<clock, edits, wake, now, spec, timerVars>>

\* updateAll does nothing, since TimedTask::tick is empty.
DemoRead ==
  /\ loop = "read"
  /\ now' = getCurrentTime
  /\ next' = getNextToComplete(now')
  /\ loop' = "report"
  /\ UNCHANGED <<clock, clockVars, edits, wake, spec, activeTasks, startTime, endTime, reported>>

DemoReport ==
  /\ loop = "report"
  /\ reported' = reported \cup {[task |-> t, at |-> now] : t \in Completed(now)}
  /\ loop' = "remove"
  /\ UNCHANGED <<clock, clockVars, edits, wake, now, spec, activeTasks, startTime, endTime, next>>

\* Mutant of DemoRemove: the time is read again.
RemoveLater ==
  /\ loop = "remove"
  /\ activeTasks' = activeTasks \ Completed(getCurrentTime)
  /\ loop' = "poll"
  /\ UNCHANGED <<clock, clockVars, edits, wake, now, spec, startTime, endTime, next, reported>>

DemoRemove ==
  /\ loop = "remove"
  /\ activeTasks' = activeTasks \ Completed(now)
  /\ loop' = "poll"
  /\ UNCHANGED <<clock, clockVars, edits, wake, now, spec, startTime, endTime, next, reported>>

DemoEnd ==
  /\ loop = "poll" /\ activeTasks = {}
  /\ loop' = "end"
  /\ UNCHANGED <<clock, clockVars, edits, wake, now, spec, timerVars>>

-----------------------------------------------------------------------------
(* Others, at most MaxEdits times: threads that synchronise or update the  *)
(* service at any moment, and the demo's thread, which holds the tasks,    *)
(* between two rounds.                                                     *)

Edit == loop # "start" /\ edits < MaxEdits /\ edits' = edits + 1

OtherSync ==
  /\ Edit /\ \E s \in ServerTimes : syncWithServerTime(s)
  /\ UNCHANGED <<clock, loop, wake, now, spec, timerVars>>

OtherUpdate ==
  /\ Edit /\ updateRealTime
  /\ UNCHANGED <<clock, loop, wake, now, spec, timerVars>>

ChangeEnd(t, end) ==
  /\ Edit /\ loop = "poll"
  /\ endTime' = [endTime EXCEPT ![t] = end]
  /\ UNCHANGED <<clock, clockVars, loop, wake, now, spec, activeTasks, startTime, next, reported>>

extend(t, duration) == ChangeEnd(t, (endTime[t] + duration) % TimeMod)

\* The new duration counts from the original start.
restart(t, duration) == ChangeEnd(t, (startTime[t] + duration) % TimeMod)

forceComplete(t) == ChangeEnd(t, 0)

DemoStep ==
  \/ DemoSync \/ \E t \in TimedTasks : DemoAdd(t)
  \/ DemoSleep \/ DemoUpdate \/ DemoRead \/ DemoReport \/ DemoRemove \/ DemoEnd

LoopNext ==
  \/ Tick \/ DemoStep \/ OtherSync \/ OtherUpdate
  \/ \E t \in TimedTasks : \/ \E d \in Durations \cup {TimeMod - 1} : extend(t, d)
                           \/ \E d \in Durations : restart(t, d)
                           \/ forceComplete(t)

-----------------------------------------------------------------------------
(* Properties                                                              *)

\* The service never runs ahead of the time that has really passed since the
\* last synchronisation, and every updateRealTime costs it less than one
\* millisecond, whoever called it. (While no wrap-around is possible.)
LagBelowOneMsPerUpdate ==
  synced =>
    LET real == origin.time + (clock - origin.clock) \div TicksPerMs IN
    real < TimeMod => /\ getCurrentTime <= real
                      /\ getCurrentTime >= real - updates

\* Each task the loop has removed was reported, once, at a time it had read
\* before, although the service went on or was set back in between; and where a
\* task is removed, so is every task that was announced as next to complete.
RemovedMeansReported ==
  /\ loop \in {"poll", "end"} =>
       \A t \in TimedTasks \ activeTasks :
         Cardinality({r \in reported : r.task = t}) = 1
  /\ loop = "remove" /\ Completed(now) # {} => next \subseteq Completed(now)

\* The loop ends: every poll moves the service on, because a poll interval is
\* at least one millisecond long.
DemoTerminates == loop = "add" ~> loop = "end"
=============================================================================
