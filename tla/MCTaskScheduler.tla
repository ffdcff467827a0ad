-------------------------- MODULE MCTaskScheduler --------------------------
(***************************************************************************)
(* Small programs over the task API, one constant definition each, for TLC *)
(***************************************************************************)
EXTENDS TaskScheduler, TLC

CONSTANTS a, b, c, x, y, z, main, other, w1, w2

Do(op, t) == [op |-> op, task |-> t, deps |-> <<>>]
Sched(t, deps) == [op |-> "schedule", task |-> t, deps |-> deps]
Stop == Do("stop", a)
Run == Do("run", a)

\* Dependents first, as Task::token() allows: the tokens of a and b are taken
\* before these are scheduled. A second client follows the pattern of
\* test/network and test/FileSystem: get() of a lazy coroutine y that awaits a
\* lazy coroutine z, which awaits a run_async job x.
ProgramDag ==
  (a :> <<>>) @@ (b :> <<>>) @@ (x :> <<>>) @@
  (c :> <<Do("await", a)>>) @@
  (y :> <<Do("await", z)>>) @@
  (z :> <<Do("run_async", x), Do("await", x)>>) @@
  (main :> <<Run, Sched(c, <<a, b>>), Sched(a, <<>>), Sched(b, <<>>),
             Do("wait", c), Do("wait", y), Stop>>) @@
  (other :> <<Do("get", y)>>)

ProgramRootsFirst ==
  (a :> <<>>) @@ (b :> <<>>) @@ (c :> <<>>) @@
  (main :> <<Sched(a, <<>>), Sched(b, <<>>), Sched(c, <<a, b>>), Do("wait", c)>>)

ProgramOneDependency ==
  (a :> <<>>) @@ (b :> <<>>) @@
  (main :> <<Sched(a, <<>>), Sched(b, <<a>>)>>)
=============================================================================
