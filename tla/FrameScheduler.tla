--------------------------- MODULE FrameScheduler ---------------------------
(***************************************************************************)
(* soul::time::FrameScheduler (src/time/FrameScheduler.cpp): tasks are     *)
(* scheduled under names, optionally after a delay, and wait_for_all is a  *)
(* barrier over the tokens that were recorded. It has no state but         *)
(* m_tokens; everything else happens in TaskScheduler, so its operations   *)
(* are sequences of the calls of that module and two calls of their own,   *)
(* "emplace" and "wait_for_all".                                           *)
(***************************************************************************)
EXTENDS TaskScheduler

CONSTANT Name    \* Name[t]: the name under which t is scheduled

VARIABLE m_tokens  \* name -> task

frameVars == <<vars, m_tokens>>

-----------------------------------------------------------------------------
(* schedule and schedule_after, as calls of TaskScheduler                  *)

FrameSchedule(t, deps) ==
  <<[op |-> "schedule", task |-> t, deps |-> deps],
    [op |-> "emplace", task |-> t, deps |-> <<>>]>>

\* `delay' is the coroutine that sleeps; its token goes last.
ScheduleAfter(delay, t, deps) ==
  <<[op |-> "schedule", task |-> delay, deps |-> <<>>]>>
    \o FrameSchedule(t, Append(deps, delay))

WaitForAll(t) == <<[op |-> "wait_for_all", task |-> t, deps |-> <<>>]>>

-----------------------------------------------------------------------------
\* unordered_map::emplace keeps the entry of a name that is already there.
emplace(th) ==
  /\ AtCall(th, "emplace")
  /\ LET t == Call(th).task IN
       m_tokens' = [n \in DOMAIN m_tokens \cup {Name[t]} |->
                      IF n \in DOMAIN m_tokens THEN m_tokens[n] ELSE t]
  /\ Goto(th, <<Step(th)>>)
  /\ UNCHANGED <<taskVars, poolVars>>

\* Mutant of wait_for_all: the loop ends after one token.
wait_for_any(th) ==
  /\ AtCall(th, "wait_for_all")
  /\ \E n \in DOMAIN m_tokens : completed[m_tokens[n]]
  /\ Goto(th, <<Step(th)>>)
  /\ UNCHANGED <<taskVars, poolVars, m_tokens>>

\* The loop waits for one token after the other; a completed task stays
\* completed, so it ends when all of them are.
wait_for_all(th) ==
  /\ AtCall(th, "wait_for_all")
  /\ \A n \in DOMAIN m_tokens : completed[m_tokens[n]]
  /\ Goto(th, <<Step(th)>>)
  /\ UNCHANGED <<taskVars, poolVars, m_tokens>>

FrameInit == Init /\ m_tokens = [n \in {} |-> n]

FrameThreadStep(th) ==
  \/ ThreadStep(th) /\ UNCHANGED m_tokens
  \/ emplace(th) \/ wait_for_all(th)

FrameNext == \E th \in Threads : FrameThreadStep(th)

FrameSpec ==
  FrameInit /\ [][FrameNext]_frameVars /\ \A th \in Threads : WF_frameVars(FrameThreadStep(th))

-----------------------------------------------------------------------------
(* Properties                                                              *)

\* FrameScheduler.h:59, "Blocks until all in-flight frame tasks reach completion":
\* whoever is past wait_for_all finds every task it scheduled before completed.
BarrierCompletes ==
  \A p \in Owners : \A i \in PassedCalls(p) :
    Program[p][i].op = "wait_for_all" =>
      \A j \in 1..(i - 1) :
        Program[p][j].op = "emplace" => completed[Program[p][j].task]

\* Call i of p schedules the sleeping coroutine for the task of call i + 1, in whose
\* dependency list it comes last, as schedule_after does.
Delays(p, i) ==
  /\ i + 1 \in DOMAIN Program[p]
  /\ Program[p][i].op = "schedule" /\ Program[p][i + 1].op = "schedule"
  /\ LET deps == Program[p][i + 1].deps IN
       deps # <<>> /\ deps[Len(deps)] = Program[p][i].task

\* FrameScheduler.h:48, "Duration to wait before the task becomes eligible for
\* execution": the delay is over before the body is entered.
DelayElapsesFirst ==
  \A p \in Owners : \A i \in DOMAIN Program[p] :
    Delays(p, i) /\ Begun(Program[p][i + 1].task) => completed[Program[p][i].task]
=============================================================================
