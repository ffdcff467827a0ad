------------------------------ MODULE JobQueue ------------------------------
(***************************************************************************)
(* What the worker pool of TaskScheduler promises about its jobs: they are *)
(* numbered in the order of submission, started in that order, each by one *)
(* worker and at most once; a worker ends only between two jobs and only   *)
(* after the pool was closed.                                              *)
(***************************************************************************)
EXTENDS Naturals

CONSTANTS Workers, MaxJobs

VARIABLES submitted,  \* number of jobs submitted
          taken,      \* number of jobs started
          job,        \* job[w]: the job w executes, 0 for none
          active,     \* the workers that have not ended
          open        \* the pool has not been told to stop

vars == <<submitted, taken, job, active, open>>

Init ==
  /\ submitted = 0 /\ taken = 0
  /\ job = [w \in Workers |-> 0]
  /\ active = Workers
  /\ open = TRUE

Submit ==
  /\ submitted < MaxJobs
  /\ submitted' = submitted + 1
  /\ UNCHANGED <<taken, job, active, open>>

Take(w) ==
  /\ w \in active /\ job[w] = 0
  /\ taken < submitted
  /\ taken' = taken + 1
  /\ job' = [job EXCEPT ![w] = taken + 1]
  /\ UNCHANGED <<submitted, active, open>>

Finish(w) ==
  /\ job[w] # 0
  /\ job' = [job EXCEPT ![w] = 0]
  /\ UNCHANGED <<submitted, taken, active, open>>

Close == open' = FALSE /\ UNCHANGED <<submitted, taken, job, active>>

Exit(w) ==
  /\ w \in active /\ job[w] = 0 /\ ~open
  /\ active' = active \ {w}
  /\ UNCHANGED <<submitted, taken, job, open>>

Next == Submit \/ Close \/ \E w \in Workers : Take(w) \/ Finish(w) \/ Exit(w)

Spec == Init /\ [][Next]_vars
=============================================================================
