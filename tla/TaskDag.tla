------------------------------ MODULE TaskDag ------------------------------
(***************************************************************************)
(* What TaskScheduler promises to a caller that wires tasks into a DAG     *)
(* (docs/Architecture.md: "schedule(Task<T>, dependencies) wires explicit  *)
(* DAG edges; tasks start when dependencies finish"): a task begins once,  *)
(* after all of its dependencies have completed, and completes once.       *)
(* Threads, queues, counters and locks are not part of the promise.        *)
(***************************************************************************)

CONSTANTS Tasks,     \* the tasks
          Deps,      \* Deps[t]: the set of tasks that t depends on
          Scheduled  \* the tasks handed to the scheduler; the others are lazy

VARIABLE phase

vars == phase

Phases == {"created", "running", "completed"}

TypeOK == phase \in [Tasks -> Phases]

Init == phase = [t \in Tasks |-> "created"]

Begin(t) ==
  /\ phase[t] = "created"
  /\ \A d \in Deps[t] : phase[d] = "completed"
  /\ phase' = [phase EXCEPT ![t] = "running"]

Complete(t) ==
  /\ phase[t] = "running"
  /\ phase' = [phase EXCEPT ![t] = "completed"]

Next == \E t \in Tasks : Begin(t) \/ Complete(t)

Spec == Init /\ [][Next]_vars /\ \A t \in Scheduled : WF_vars(Begin(t) \/ Complete(t))
=============================================================================
