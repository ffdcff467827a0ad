-------------------------- MODULE MCFrameScheduler --------------------------
(***************************************************************************)
(* Small programs over FrameScheduler for TLC.                             *)
(***************************************************************************)
EXTENDS FrameScheduler, TLC

CONSTANTS a, b, c, now, later, x, pause, work, main, w1, w2

OwnName == [t \in Tasks |-> t]
SharedName == [t \in Tasks |-> IF t = b THEN a ELSE t]

Do(op, t) == [op |-> op, task |-> t, deps |-> <<>>]
Sched(t, deps) == [op |-> "schedule", task |-> t, deps |-> deps]

\* A frame: an immediate task now that awaits a job, a delayed task later, the barrier.
\* Then whatever the API lets a program do: roots first, a dependency that finishes
\* during schedule(), get() of a scheduled task, two awaiters of one task.
ProgramAnything ==
  (now :> <<Do("run_async", work), Do("await", work)>>) @@
  (later :> <<>>) @@ (pause :> <<>>) @@ (work :> <<>>) @@
  (a :> <<Do("run_async", x), Do("await", x)>>) @@
  (b :> <<Do("await", a)>>) @@ (x :> <<>>) @@ (c :> <<>>) @@
  (main :> FrameSchedule(now, <<>>) \o ScheduleAfter(pause, later, <<>>) \o WaitForAll(now)
             \o <<Sched(a, <<>>), Sched(b, <<>>), Sched(c, <<b, a>>), Do("get", a)>>)

\* Two frames that use one name.
ProgramTwoFrames ==
  (a :> <<>>) @@ (b :> <<>>) @@
  (main :> FrameSchedule(a, <<>>) \o WaitForAll(a) \o FrameSchedule(b, <<>>) \o WaitForAll(a))
=============================================================================
