------------------------ MODULE TaskSchedulerProofs ------------------------
(***************************************************************************)
(* Proofs about TaskScheduler, for any program, any number of workers and  *)
(* clients and any tasks: types; no awaiter is ever lost between           *)
(* add_continuation and on_completed; stop() returns after the workers;    *)
(* the dependency counters agree with the registrations; and no dependent  *)
(* is stranded when programs name started tasks only.                      *)
(***************************************************************************)
EXTENDS TaskScheduler, FiniteSetTheorems, TLAPS

\* The points inside a call of a body, and those of library functions.
InsidePoints == BodyPoints \ {"call"}
LibraryPoints == Points \ BodyPoints

\* What the code relies on at point a of p's record: inside a call of a body the
\* call exists and is the one the point belongs to; the records of library
\* functions belong to tasks; somebody is to be registered by add_continuation.
Fits(a, p, i, l) ==
  /\ a \in Points
  /\ a \in InsidePoints => i \in DOMAIN Program[p]
  /\ a \in {"register", "fetch_add"} => Program[p][i].op = "schedule"
  /\ a = "blocked" => Program[p][i].op = "get"
  /\ a = "join" => Program[p][i].op = "stop"
  /\ a \in LibraryPoints => p \in Tasks
  /\ a = "add_continuation" => l # <<>>

GoodFrames == {f \in Frames : Fits(f.at, f.who, f.pc, f.list)}

StackOK == stack \in [Threads -> Seq(GoodFrames)]

\* The part of TypeOK about the states of the tasks and about the pool.
TasksOK ==
  /\ completed \in [Tasks -> BOOLEAN]
  /\ scheduler \in [Tasks -> BOOLEAN]
  /\ pendingDependencies \in [Tasks -> 0..(Modulus - 1)]
  /\ dependents \in [Tasks -> Seq(Tasks)]
  /\ continuations \in [Tasks -> Seq(Tasks)]
  /\ exception \in [Tasks -> BOOLEAN]
  /\ suspendedAt \in [Tasks -> Nat]
  /\ done \in [Tasks -> BOOLEAN]

PoolOK ==
  /\ m_jobs \in Seq(Jobs)
  /\ m_running \in BOOLEAN
  /\ worker \in [Workers -> {"loop", "wait", "exited"}]

TaskInv == TasksOK /\ PoolOK /\ StackOK

\* The names of the points.
LEMMA PointNames ==
  /\ "call" \in Points /\ "call" \notin InsidePoints /\ "call" \notin LibraryPoints
  /\ \A a \in {"register", "fetch_add", "blocked", "join"} :
       a \in Points /\ a \in InsidePoints /\ a \notin LibraryPoints /\ a # "add_continuation"
  /\ \A a \in {"produce", "resume", "crashed", "on_completed", "resume_continuations",
               "continue", "on_task_finished", "ready"} :
       a \in Points /\ a \in LibraryPoints /\ a \notin InsidePoints /\ a # "add_continuation"
  /\ "add_continuation" \in Points /\ "add_continuation" \in LibraryPoints
  /\ "add_continuation" \notin InsidePoints
BY DEF Points, InsidePoints, LibraryPoints, BodyPoints, CompletionPoints

\* The fields of a good record.
LEMMA FrameFields ==
  ASSUME NEW f \in GoodFrames
  PROVE  /\ f \in Frames /\ f.at \in Points /\ f.who \in Owners /\ f.pc \in Nat
         /\ f.list \in Seq(Tasks) /\ f.n \in Nat /\ Fits(f.at, f.who, f.pc, f.list)
BY DEF GoodFrames, Frames

\* A record made from its fields, and a record moved on.
LEMMA MakeGood ==
  ASSUME NEW a, NEW p \in Owners, NEW i \in Nat, NEW l \in Seq(Tasks), NEW k \in Nat,
         Fits(a, p, i, l)
  PROVE  [at |-> a, who |-> p, pc |-> i, list |-> l, n |-> k] \in GoodFrames
<1>1. a \in Points BY DEF Fits
<1> QED BY <1>1 DEF GoodFrames, Frames

\* The same record at another point.
LEMMA MoveGood ==
  ASSUME NEW f \in GoodFrames, NEW a, Fits(a, f.who, f.pc, f.list),
         NEW g, g = [f EXCEPT !.at = a]
  PROVE  g \in GoodFrames /\ g.at = a /\ g.who = f.who /\ g.pc = f.pc
<1>1. a \in Points BY DEF Fits
<1>2. g \in Frames /\ g.at = a /\ g.who = f.who /\ g.pc = f.pc /\ g.list = f.list
  BY <1>1, FrameFields DEF Frames
<1> QED BY <1>2 DEF GoodFrames

\* The good records of the same body, at the same call, that stand at point a
\* with list l.
Moved(f, a, l) ==
  {g \in GoodFrames : g.at = a /\ g.who = f.who /\ g.pc = f.pc /\ g.list = l}

\* The same record with another list.
LEMMA RelistGood ==
  ASSUME NEW f \in GoodFrames, NEW l \in Seq(Tasks), Fits(f.at, f.who, f.pc, l)
  PROVE  [f EXCEPT !.list = l] \in Moved(f, f.at, l)
<1> DEFINE g == [f EXCEPT !.list = l]
<1>1. g \in Frames /\ g.at = f.at /\ g.who = f.who /\ g.pc = f.pc /\ g.list = l
  BY FrameFields DEF Frames
<1> QED BY <1>1 DEF GoodFrames, Moved

\* Another point and another list.
LEMMA RelistMoveGood ==
  ASSUME NEW f \in GoodFrames, NEW a, NEW l \in Seq(Tasks), Fits(a, f.who, f.pc, l)
  PROVE  [f EXCEPT !.at = a, !.list = l] \in Moved(f, a, l)
<1> DEFINE h == [f EXCEPT !.at = a, !.list = l]
<1>1. a \in Points BY DEF Fits
<1>2. h \in Frames /\ h.at = a /\ h.who = f.who /\ h.pc = f.pc /\ h.list = l
  BY <1>1, FrameFields DEF Frames
<1> QED BY <1>2 DEF GoodFrames, Moved

\* Another point and another count.
LEMMA CountGood ==
  ASSUME NEW f \in GoodFrames, NEW a, NEW k \in Nat, Fits(a, f.who, f.pc, f.list)
  PROVE  [f EXCEPT !.at = a, !.n = k] \in Moved(f, a, f.list)
<1> DEFINE g == [f EXCEPT !.at = a, !.n = k]
<1>1. a \in Points BY DEF Fits
<1>2. g \in Frames /\ g.at = a /\ g.who = f.who /\ g.pc = f.pc /\ g.list = f.list
  BY <1>1, FrameFields DEF Frames
<1> QED BY <1>2 DEF GoodFrames, Moved

\* The next call of the body.
LEMMA NextCallGood ==
  ASSUME NEW f \in GoodFrames,
         NEW g, g = [f EXCEPT !.pc = @ + 1, !.at = "call", !.n = 0, !.list = <<>>]
  PROVE  g \in GoodFrames /\ g.at = "call" /\ g.who = f.who /\ g.pc = f.pc + 1
<1>1. "call" \in Points /\ <<>> \in Seq(Tasks) /\ f.pc + 1 \in Nat /\ f \in Frames
  BY PointNames, FrameFields
<1>2. g \in Frames
  BY <1>1 DEF Frames
<1>3. g.at = "call" /\ g.who = f.who /\ g.pc = f.pc + 1
  BY <1>1 DEF Frames
<1> QED BY <1>2, <1>3, PointNames DEF GoodFrames, Fits

\* The innermost record.
LEMMA TopGood ==
  ASSUME StackOK, NEW th \in Threads, stack[th] # <<>>
  PROVE  /\ Top(th) \in GoodFrames
         /\ Len(stack[th]) \in Nat \ {0}
BY DEF StackOK, Top

-----------------------------------------------------------------------------
(* What a step of a thread may put in place of its innermost record.       *)

\* The API call of the innermost record of th may be left: whoever waits for a
\* task does so until it is completed, stop() until the workers have ended.
AllExited == \A w \in Workers : stack[w] = <<>> /\ worker[w] = "exited"
Passable(th) ==
  LET p == Top(th).who
      call == Program[p][Top(th).pc]
  IN \/ call.op = "run"
     \/ call.op = "schedule" /\ Top(th).at = "register"
     \/ call.op = "run_async" /\ scheduler'[call.task]
     \/ call.op = "wait" /\ completed[call.task]
     \/ call.op \in {"await", "get"} /\ completed[call.task] /\ (p \in Tasks => ~exception[call.task])
     \/ call.op = "stop" /\ AllExited

EntersBody(g) == g.at = "call" /\ g.who \in Tasks /\ g.pc = 1
Registering(th) ==
  At(th, "register") /\ Top(th).list # <<>> /\ MustWait(Head(Top(th).list))
ListStep(th, g) ==
  \/ AtCall(th, "schedule") /\ scheduler'[Call(th).task] /\ g.list = Call(th).deps
  \/ /\ Top(th).at \in {"register", "fetch_add"}
     /\ \/ g.list = Top(th).list
        \/ Top(th).list # <<>> /\ g.list = Tail(Top(th).list)
InsideACall(th, g) ==
  /\ g.at \in InsidePoints /\ g.who = Top(th).who /\ g.pc = Top(th).pc
  /\ Top(th).at \in BodyPoints
  /\ g.at = "fetch_add" => Registering(th)
  /\ g.at \in {"register", "fetch_add"} => ListStep(th, g)
PassesCall(th, g) ==
  /\ g.at = "call" /\ g.who = Top(th).who /\ g.pc = Top(th).pc + 1
  /\ Top(th).at \in BodyPoints /\ Top(th).pc \in DOMAIN Program[Top(th).who]
  /\ Passable(th)
EndsBody(g) == g.at = "call" /\ g.who \in Tasks /\ exception'[g.who] /\ g.pc = Len(Program[g.who]) + 1
ContinuesBody(th, g) ==
  /\ g.at = "call" /\ g.who = Top(th).who /\ Top(th).at = "resume"
  /\ suspendedAt[g.who] # 0 /\ g.pc = suspendedAt[g.who] + 1

Move(th, g) ==
  \/ g.at \in LibraryPoints
  \/ EntersBody(g) \/ InsideACall(th, g) \/ PassesCall(th, g) \/ EndsBody(g) \/ ContinuesBody(th, g)

\* The records on which another one can lie: they wait for a nested resume().
NestingPoints == {"produce", "blocked", "continue"}

\* The records fs may replace the innermost record of th.
GoodMoves(th, fs) ==
  /\ fs \in Seq(GoodFrames)
  /\ \A k \in 1..Len(fs) : Move(th, fs[k])
  /\ \A k \in 1..(Len(fs) - 1) : fs[k].at \in NestingPoints

\* th returns from its innermost record, or replaces it by good ones.
GoodGoto(th) == stack[th] # <<>> /\ \E fs : Goto(th, fs) /\ GoodMoves(th, fs)

\* What Goto does to the stack of its thread.
LEMMA GotoStack ==
  ASSUME StackOK, NEW th \in Threads, stack[th] # <<>>, NEW fs \in Seq(GoodFrames), Goto(th, fs)
  PROVE  /\ StackOK'
         /\ \A x \in Threads \ {th} : stack'[x] = stack[x]
         /\ Len(stack'[th]) = Len(stack[th]) - 1 + Len(fs)
         /\ \A i \in 1..(Len(stack[th]) - 1) : stack'[th][i] = stack[th][i]
         /\ \A i \in 1..Len(fs) : stack'[th][Len(stack[th]) - 1 + i] = fs[i]
<1> DEFINE rest == SubSeq(stack[th], 1, Len(stack[th]) - 1)
<1>1. stack[th] \in Seq(GoodFrames) /\ Len(stack[th]) - 1 \in Nat
  BY DEF StackOK
<1>2. /\ rest \in Seq(GoodFrames) /\ Len(rest) = Len(stack[th]) - 1
      /\ \A i \in 1..(Len(stack[th]) - 1) : rest[i] = stack[th][i]
  BY <1>1
<1>3. /\ rest \o fs \in Seq(GoodFrames) /\ Len(rest \o fs) = Len(rest) + Len(fs)
      /\ \A i \in 1..Len(rest) : (rest \o fs)[i] = rest[i]
      /\ \A i \in 1..Len(fs) : (rest \o fs)[Len(rest) + i] = fs[i]
  BY <1>2
<1>4. stack' = [stack EXCEPT ![th] = rest \o fs]
  BY DEF Goto
<1>5. stack'[th] = rest \o fs /\ \A x \in Threads \ {th} : stack'[x] = stack[x]
  BY <1>4 DEF StackOK
<1>6. StackOK'
  BY <1>3, <1>4 DEF StackOK
<1> HIDE DEF rest
<1> QED BY <1>2, <1>3, <1>5, <1>6

\* A record replaced by one: that one is innermost.
LEMMA GotoTop ==
  ASSUME StackOK, NEW th \in Threads, stack[th] # <<>>, NEW h \in GoodFrames, Goto(th, <<h>>)
  PROVE  stack'[th] # <<>> /\ Top(th)' = h
<1> DEFINE m == Len(stack[th])
<1>1. m \in Nat \ {0} /\ <<h>> \in Seq(GoodFrames) /\ Len(<<h>>) = 1 /\ <<h>>[1] = h
  BY TopGood
<1>2. /\ Len(stack'[th]) = m - 1 + Len(<<h>>)
      /\ \A i \in 1..Len(<<h>>) : stack'[th][m - 1 + i] = <<h>>[i]
  BY <1>1, GotoStack, Zenon
<1>3. Len(stack'[th]) = m /\ stack'[th][m] = h
  BY <1>1, <1>2
<1> HIDE DEF m
<1> QED BY <1>1, <1>3 DEF Top

\* The call in front of which a body stands.
LEMMA CallType ==
  ASSUME StackOK, NEW th \in Threads, NEW op, AtCall(th, op)
  PROVE  /\ stack[th] # <<>> /\ Top(th) \in GoodFrames /\ Top(th).at = "call"
         /\ Top(th).pc \in DOMAIN Program[Top(th).who]
         /\ Program[Top(th).who][Top(th).pc] = Call(th)
         /\ Program[Top(th).who][Top(th).pc].op = op
         /\ Call(th) \in Calls /\ Call(th).task \in Tasks /\ Call(th).deps \in Seq(Tasks)
         /\ op = "await" => Top(th).who \in Coroutines
<1>1. stack[th] # <<>> /\ Top(th).at = "call"
  BY DEF AtCall, At
<1>2. Top(th) \in GoodFrames
  BY <1>1, TopGood
<1>3. Top(th).who \in Owners /\ Top(th).pc \in DOMAIN Program[Top(th).who] /\ Call(th).op = op
  BY <1>2 DEF AtCall, GoodFrames, Frames
<1>4. Call(th) \in Calls
  BY <1>3, ProgramAssumption DEF Call
<1>5. Call(th).task \in Tasks /\ Call(th).deps \in Seq(Tasks)
  BY <1>4 DEF Calls
<1>6. op = "await" => Top(th).who \in Coroutines
  BY <1>3, ProgramAssumption DEF Call
<1>7. Program[Top(th).who][Top(th).pc] = Call(th)
  BY DEF Call
<1> QED BY <1>1, <1>2, <1>3, <1>4, <1>5, <1>6, <1>7

-----------------------------------------------------------------------------
(* Every action of a thread is a Goto with good records.                   *)

\* A body is entered or continued.
LEMMA BodyGood ==
  ASSUME NEW p \in Owners, NEW i \in Nat
  PROVE  /\ Body(p, i) \in GoodFrames
         /\ Body(p, i).at = "call" /\ Body(p, i).who = p /\ Body(p, i).pc = i
<1>1. Fits("call", p, i, <<>>) BY PointNames DEF Fits
<1>2. <<>> \in Seq(Tasks) /\ 0 \in Nat OBVIOUS
<1> QED BY <1>1, <1>2, MakeGood DEF Body, Frame

\* A function of the library is entered for a task.
LEMMA LibraryGood ==
  ASSUME NEW t \in Tasks, NEW a \in {"produce", "resume", "crashed", "on_completed"}, NEW th
  PROVE  /\ Frame(a, t, 0, <<>>) \in GoodFrames /\ Frame(a, t, 0, <<>>).at = a
         /\ Move(th, Frame(a, t, 0, <<>>))
<1>1. Fits(a, t, 0, <<>>) BY PointNames DEF Fits
<1>2. t \in Owners /\ <<>> \in Seq(Tasks) /\ 0 \in Nat BY DEF Owners
<1>3. Frame(a, t, 0, <<>>).at = a BY DEF Frame
<1> QED BY <1>1, <1>2, <1>3, MakeGood, PointNames DEF Frame, Move

\* A record that registers an awaiter.
LEMMA AwaiterGood ==
  ASSUME NEW t \in Tasks, NEW u \in Tasks, NEW th
  PROVE  /\ Frame("add_continuation", u, 0, <<t>>) \in GoodFrames
         /\ Move(th, Frame("add_continuation", u, 0, <<t>>))
<1>1. <<t>> \in Seq(Tasks) /\ <<t>> # <<>>
  OBVIOUS
<1>2. Fits("add_continuation", u, 0, <<t>>) BY <1>1, PointNames DEF Fits
<1>3. u \in Owners BY DEF Owners
<1>4. Frame("add_continuation", u, 0, <<t>>).at = "add_continuation" BY DEF Frame
<1> QED BY <1>1, <1>2, <1>3, <1>4, MakeGood, PointNames DEF Frame, Move

\* A call that may be left is left for the next one.
LEMMA StepGood ==
  ASSUME StackOK, NEW th \in Threads, stack[th] # <<>>, Top(th).at \in BodyPoints,
         Top(th).pc \in DOMAIN Program[Top(th).who], Passable(th)
  PROVE  Step(th) \in GoodFrames /\ Move(th, Step(th))
<1>1. /\ Step(th) \in GoodFrames /\ Step(th).at = "call" /\ Step(th).who = Top(th).who
      /\ Step(th).pc = Top(th).pc + 1
  BY TopGood, NextCallGood DEF Step
<1> QED BY <1>1 DEF Move, PassesCall

\* A return.
LEMMA GotoNone ==
  ASSUME NEW th \in Threads, stack[th] # <<>>, Goto(th, <<>>)
  PROVE  GoodGoto(th)
<1>1. GoodMoves(th, <<>>)
  BY DEF GoodMoves
<1> QED BY <1>1 DEF GoodGoto

\* A record replaced by one.
LEMMA GotoOne ==
  ASSUME NEW th \in Threads, stack[th] # <<>>, NEW f \in GoodFrames, Move(th, f), Goto(th, <<f>>)
  PROVE  GoodGoto(th)
<1>1. GoodMoves(th, <<f>>)
  BY DEF GoodMoves
<1> QED BY <1>1 DEF GoodGoto

\* A record replaced by two: the outer one waits for the inner one.
LEMMA GotoTwo ==
  ASSUME NEW th \in Threads, stack[th] # <<>>, NEW f \in GoodFrames, NEW g \in GoodFrames,
         Move(th, f), Move(th, g), f.at \in NestingPoints, Goto(th, <<f, g>>)
  PROVE  GoodGoto(th)
<1>1. <<f, g>> \in Seq(GoodFrames) /\ Len(<<f, g>>) = 2 /\ <<f, g>>[1] = f /\ <<f, g>>[2] = g
  OBVIOUS
<1>2. \A k \in 1..Len(<<f, g>>) : k = 1 \/ k = 2
  BY <1>1
<1>3. \A k \in 1..(Len(<<f, g>>) - 1) : k = 1
  BY <1>1
<1>4. GoodMoves(th, <<f, g>>)
  BY <1>1, <1>2, <1>3 DEF GoodMoves
<1> QED BY <1>4 DEF GoodGoto

\* Return, the part that several actions share: an exception of u ends the body.
LEMMA ReturnGoto ==
  ASSUME StackOK, exception \in [Tasks -> BOOLEAN], NEW th \in Threads, stack[th] # <<>>,
         NEW p \in Owners, NEW i \in Nat, NEW u, Return(th, p, i, u),
         (p \in Tasks => ~exception[u]) => Move(th, Body(p, i + 1))
  PROVE  GoodGoto(th)
<1>1. Len(Program[p]) + 1 \in Nat /\ i + 1 \in Nat
  BY ProgramAssumption
<1>2. Body(p, Len(Program[p]) + 1) \in GoodFrames /\ Body(p, i + 1) \in GoodFrames
  BY <1>1, BodyGood
<1>3. CASE exception[u] /\ p \in Tasks
  <2>1. Goto(th, <<Body(p, Len(Program[p]) + 1)>>) /\ exception'[p]
    BY <1>3 DEF Return
  <2>2. Move(th, Body(p, Len(Program[p]) + 1))
    BY <1>1, <1>3, <2>1, BodyGood DEF Move, EndsBody
  <2> QED BY <1>2, <2>1, <2>2, GotoOne
<1>4. CASE ~(exception[u] /\ p \in Tasks)
  <2>1. Goto(th, <<Body(p, i + 1)>>)
    BY <1>4 DEF Return
  <2> QED BY <1>2, <1>4, <2>1, GotoOne
<1> QED BY <1>3, <1>4

\* Produce, on top of nothing or of the record of get().
LEMMA ProduceGoto ==
  ASSUME StackOK, NEW th \in Threads, stack[th] # <<>>, NEW u \in Tasks, NEW after,
         Produce(th, u, after), GoodMoves(th, after),
         \A k \in 1..Len(after) : after[k].at \in NestingPoints
  PROVE  GoodGoto(th)
<1> DEFINE r == Frame("resume", u, 0, <<>>)
           more == Append(after, r)
<1>1. r \in GoodFrames /\ Move(th, r)
  BY LibraryGood
<1>2. Goto(th, after) \/ Goto(th, more)
  BY DEF Produce
<1> HIDE DEF r
<1>3. /\ after \in Seq(GoodFrames) /\ more \in Seq(GoodFrames) /\ Len(more) = Len(after) + 1
      /\ \A k \in 1..Len(after) : more[k] = after[k]
      /\ more[Len(after) + 1] = r
  BY <1>1 DEF GoodMoves
<1>4. /\ \A k \in 1..Len(more) : k \in 1..Len(after) \/ k = Len(after) + 1
      /\ \A k \in 1..(Len(more) - 1) : k \in 1..Len(after)
  BY <1>3
<1> HIDE DEF more
<1>5. GoodMoves(th, more)
  BY <1>1, <1>3, <1>4 DEF GoodMoves
<1> QED BY <1>2, <1>5 DEF GoodGoto

\* The calls that bodies and clients make.
LEMMA ApiGoto ==
  ASSUME StackOK, TasksOK, NEW th \in Threads, ApiStep(th)
  PROVE  GoodGoto(th)
<1> USE DEF BodyPoints
<1>1. CASE run(th) \/ run_async(th) \/ wait(th)
  <2>1. /\ stack[th] # <<>> /\ Top(th).at = "call" /\ Call(th).task \in Tasks
        /\ Top(th).pc \in DOMAIN Program[Top(th).who]
        /\ Program[Top(th).who][Top(th).pc] = Call(th)
    BY <1>1, CallType DEF run, run_async, wait
  <2>2. Passable(th)
    BY <1>1, <2>1 DEF run, run_async, wait, AtCall, Passable, TasksOK
  <2> QED BY <1>1, <2>1, <2>2, StepGood, GotoOne DEF run, run_async, wait
<1>2. CASE stop(th)
  <2> DEFINE g == [Top(th) EXCEPT !.at = "join"]
  <2>1. /\ stack[th] # <<>> /\ Top(th) \in GoodFrames /\ Top(th).at = "call"
        /\ Top(th).pc \in DOMAIN Program[Top(th).who]
        /\ Program[Top(th).who][Top(th).pc].op = "stop"
    BY <1>2, CallType DEF stop
  <2>2. g \in GoodFrames /\ g.at = "join" /\ g.who = Top(th).who /\ g.pc = Top(th).pc
    BY <2>1, MoveGood, PointNames DEF Fits
  <2>3. Goto(th, <<g>>)
    BY <1>2 DEF stop
  <2> HIDE DEF g
  <2>4. Move(th, g)
    BY <2>1, <2>2, PointNames DEF Move, InsideACall
  <2> QED BY <2>1, <2>2, <2>3, <2>4, GotoOne
<1>3. CASE join(th)
  <2>1. stack[th] # <<>> /\ Top(th).at = "join"
    BY <1>3 DEF join, At
  <2>2. /\ Top(th).pc \in DOMAIN Program[Top(th).who]
        /\ Program[Top(th).who][Top(th).pc].op = "stop"
    BY <2>1, TopGood, FrameFields, PointNames DEF Fits
  <2>3. Passable(th)
    BY <1>3, <2>2 DEF join, Passable, AllExited
  <2> QED BY <1>3, <2>1, <2>2, <2>3, StepGood, GotoOne DEF join
<1>4. CASE schedule(th)
  <2> DEFINE g == [Top(th) EXCEPT !.at = "register", !.list = Call(th).deps]
  <2>1. /\ stack[th] # <<>> /\ Top(th) \in GoodFrames /\ Top(th).at = "call"
        /\ Top(th).pc \in DOMAIN Program[Top(th).who] /\ Call(th).deps \in Seq(Tasks)
        /\ Program[Top(th).who][Top(th).pc].op = "schedule"
    BY <1>4, CallType DEF schedule
  <2>2. /\ g \in GoodFrames /\ g.at = "register" /\ g.who = Top(th).who /\ g.pc = Top(th).pc
        /\ g.list = Call(th).deps
    <3>1. Fits("register", Top(th).who, Top(th).pc, Call(th).deps)
      BY <2>1, PointNames DEF Fits
    <3>2. g \in Moved(Top(th), "register", Call(th).deps)
      BY <2>1, <3>1, RelistMoveGood, Zenon
    <3> QED BY <3>2 DEF Moved
  <2>3. Goto(th, <<g>>)
    BY <1>4 DEF schedule
  <2> HIDE DEF g
  <2>4. ListStep(th, g)
    <3>1. Call(th).task \in Tasks
      BY <1>4, CallType DEF schedule
    <3> QED BY <1>4, <2>2, <3>1 DEF ListStep, schedule, TasksOK
  <2>5. Move(th, g)
    BY <2>1, <2>2, <2>4, PointNames DEF Move, InsideACall
  <2> QED BY <2>1, <2>2, <2>3, <2>5, GotoOne
<1>5. CASE Register(th)
  <2> DEFINE g == [Top(th) EXCEPT !.list = Tail(@)]
             h == [Top(th) EXCEPT !.list = Tail(@), !.at = "fetch_add"]
  <2>1. stack[th] # <<>> /\ Top(th).at = "register" /\ Top(th).list # <<>>
    BY <1>5 DEF Register, At
  <2>2. /\ Top(th) \in GoodFrames /\ Top(th) \in Frames /\ Top(th).list \in Seq(Tasks)
        /\ Top(th).pc \in DOMAIN Program[Top(th).who]
        /\ Program[Top(th).who][Top(th).pc].op = "schedule"
    BY <2>1, TopGood, FrameFields, PointNames DEF Fits
  <2>3. Tail(Top(th).list) \in Seq(Tasks)
    BY <2>1, <2>2
  <2>4. /\ g \in GoodFrames /\ g.at = "register" /\ g.who = Top(th).who /\ g.pc = Top(th).pc
        /\ g.list = Tail(Top(th).list)
    <3>1. Fits(Top(th).at, Top(th).who, Top(th).pc, Tail(Top(th).list))
      BY <2>1, <2>2, <2>3, PointNames DEF Fits
    <3>2. g \in Moved(Top(th), Top(th).at, Tail(Top(th).list))
      BY <2>1, <2>2, <2>3, <3>1, RelistGood, Zenon
    <3> QED BY <2>1, <2>2, <2>3, <3>2 DEF Moved
  <2>5. /\ h \in GoodFrames /\ h.at = "fetch_add" /\ h.who = Top(th).who /\ h.pc = Top(th).pc
        /\ h.list = Tail(Top(th).list)
    <3>1. Fits("fetch_add", Top(th).who, Top(th).pc, Tail(Top(th).list))
      BY <2>2, PointNames DEF Fits
    <3>2. h = [Top(th) EXCEPT !.at = "fetch_add", !.list = Tail(Top(th).list)]
      BY <2>2 DEF Frames
    <3>3. h \in Moved(Top(th), "fetch_add", Tail(Top(th).list))
      BY <2>2, <2>3, <3>1, <3>2, RelistMoveGood, Zenon
    <3> QED BY <3>3 DEF Moved
  <2>6. Goto(th, <<g>>) \/ (Goto(th, <<h>>) /\ Registering(th))
    BY <1>5, <2>1 DEF Register, Registering, At
  <2> HIDE DEF g, h
  <2>7. Move(th, g) /\ (Registering(th) => Move(th, h))
    BY <2>1, <2>4, <2>5, PointNames DEF Move, InsideACall, ListStep
  <2> QED BY <2>1, <2>4, <2>5, <2>6, <2>7, GotoOne
<1>6. CASE FetchAdd(th)
  <2> DEFINE g == [Top(th) EXCEPT !.at = "register", !.n = @ + 1]
  <2>1. stack[th] # <<>> /\ Top(th).at = "fetch_add"
    BY <1>6 DEF FetchAdd, At
  <2>2. /\ Top(th) \in GoodFrames /\ Top(th) \in Frames /\ Top(th).n + 1 \in Nat
        /\ Top(th).pc \in DOMAIN Program[Top(th).who]
        /\ Program[Top(th).who][Top(th).pc].op = "schedule"
    BY <2>1, TopGood, FrameFields, PointNames DEF Fits
  <2>3. /\ g \in GoodFrames /\ g.at = "register" /\ g.who = Top(th).who /\ g.pc = Top(th).pc
        /\ g.list = Top(th).list
    <3>1. Fits("register", Top(th).who, Top(th).pc, Top(th).list)
      BY <2>2, PointNames DEF Fits
    <3>2. g \in Moved(Top(th), "register", Top(th).list)
      BY <2>2, <3>1, CountGood, Zenon
    <3> QED BY <3>2 DEF Moved
  <2>4. Goto(th, <<g>>)
    BY <1>6 DEF FetchAdd
  <2> HIDE DEF g
  <2>5. Move(th, g)
    BY <2>1, <2>3, PointNames DEF Move, InsideACall, ListStep
  <2> QED BY <2>1, <2>3, <2>4, <2>5, GotoOne
<1>7. CASE ScheduleEnd(th)
  <2>1. stack[th] # <<>> /\ Top(th).at = "register"
    BY <1>7 DEF ScheduleEnd, At
  <2>2. /\ Top(th).pc \in DOMAIN Program[Top(th).who]
        /\ Program[Top(th).who][Top(th).pc].op = "schedule"
    BY <2>1, TopGood, FrameFields, PointNames DEF Fits
  <2>3. Passable(th)
    BY <2>1, <2>2 DEF Passable
  <2> QED BY <1>7, <2>1, <2>2, <2>3, StepGood, GotoOne DEF ScheduleEnd
<1>8. CASE await(th)
  <2>1. /\ stack[th] # <<>> /\ Top(th) \in GoodFrames /\ Call(th).task \in Tasks
        /\ Top(th).who \in Coroutines /\ Top(th).at = "call"
        /\ Top(th).pc \in DOMAIN Program[Top(th).who]
        /\ Program[Top(th).who][Top(th).pc] = Call(th) /\ Call(th).op = "await"
    BY <1>8, CallType DEF await
  <2>2. Top(th).who \in Tasks /\ Top(th).who \in Owners /\ Top(th).pc \in Nat
    BY <2>1, FrameFields DEF Tasks, Owners
  <2>3. /\ Frame("add_continuation", Call(th).task, 0, <<Top(th).who>>) \in GoodFrames
        /\ Move(th, Frame("add_continuation", Call(th).task, 0, <<Top(th).who>>))
    BY <2>1, <2>2, AwaiterGood
  <2>4. CASE completed[Call(th).task] /\ Return(th, Top(th).who, Top(th).pc, Call(th).task)
    <3>1. ASSUME ~exception[Call(th).task] PROVE Move(th, Body(Top(th).who, Top(th).pc + 1))
      <4>1. Passable(th)
        BY <2>1, <2>4, <3>1 DEF Passable
      <4>2. Top(th).pc + 1 \in Nat
        BY <2>2
      <4> QED BY <2>1, <2>2, <4>1, <4>2, BodyGood DEF Move, PassesCall
    <3> QED BY <2>1, <2>2, <2>4, <3>1, ReturnGoto DEF TasksOK
  <2>5. CASE Goto(th, <<Frame("add_continuation", Call(th).task, 0, <<Top(th).who>>)>>)
    BY <2>1, <2>3, <2>5, GotoOne
  <2> QED BY <1>8, <2>4, <2>5 DEF await
<1>9. CASE add_continuation(th)
  <2> DEFINE g == Frame("produce", Top(th).who, 0, <<>>)
             h == Frame("resume", Head(Top(th).list), 0, <<>>)
  <2>1. stack[th] # <<>> /\ Top(th).at = "add_continuation"
    BY <1>9 DEF add_continuation, At
  <2>2. Top(th).who \in Tasks /\ Top(th).list \in Seq(Tasks) /\ Top(th).list # <<>>
    BY <2>1, TopGood, FrameFields, PointNames DEF Fits
  <2>3. Head(Top(th).list) \in Tasks
    BY <2>2
  <2>4. g \in GoodFrames /\ h \in GoodFrames /\ Move(th, g) /\ Move(th, h) /\ g.at = "produce"
    BY <2>2, <2>3, LibraryGood
  <2>5. Goto(th, <<g>>) \/ Goto(th, <<g, h>>)
    BY <1>9 DEF add_continuation
  <2> HIDE DEF g, h
  <2>6. g.at \in NestingPoints
    BY <2>4 DEF NestingPoints
  <2> QED BY <2>1, <2>4, <2>5, <2>6, GotoOne, GotoTwo
<1>10. CASE await_suspend(th)
  <2>1. stack[th] # <<>> /\ Top(th).at = "produce"
    BY <1>10 DEF await_suspend, At
  <2>2. Top(th).who \in Tasks
    BY <2>1, TopGood, FrameFields, PointNames DEF Fits
  <2>3. GoodMoves(th, <<>>) /\ \A k \in 1..Len(<<>>) : <<>>[k].at \in NestingPoints
    BY DEF GoodMoves
  <2> QED BY <1>10, <2>1, <2>2, <2>3, ProduceGoto DEF await_suspend
<1>11. CASE resume(th)
  <2> DEFINE t == Top(th).who
             u == Program[t][suspendedAt[t]].task
  <2>1. stack[th] # <<>> /\ Top(th).at = "resume"
    BY <1>11 DEF resume, At
  <2>2. Top(th).who \in Tasks
    BY <2>1, TopGood, FrameFields, PointNames DEF Fits
  <2>3. Top(th).who \in Owners /\ suspendedAt[Top(th).who] \in Nat
    BY <2>2 DEF Owners, TasksOK
  <2>4. CASE Goto(th, <<Frame("crashed", t, 0, <<>>)>>)
    BY <2>1, <2>2, <2>4, LibraryGood, GotoOne
  <2>5. CASE Goto(th, <<Body(t, 1)>>)
    <3>1. Body(t, 1) \in GoodFrames /\ Move(th, Body(t, 1))
      BY <2>2, <2>3, BodyGood DEF Move, EntersBody
    <3> QED BY <2>1, <2>5, <3>1, GotoOne
  <2>6. CASE suspendedAt[t] # 0 /\ Return(th, t, suspendedAt[t], u)
    <3>1. suspendedAt[t] + 1 \in Nat
      BY <2>3
    <3>2. Move(th, Body(t, suspendedAt[t] + 1))
      BY <2>1, <2>3, <2>6, <3>1, BodyGood DEF Move, ContinuesBody
    <3> HIDE DEF u
    <3> QED BY <2>1, <2>3, <2>6, <3>2, ReturnGoto DEF TasksOK
  <2> QED BY <1>11, <2>4, <2>5, <2>6 DEF resume
<1>12. CASE get(th)
  <2> DEFINE g == [Top(th) EXCEPT !.at = "blocked"]
  <2>1. /\ stack[th] # <<>> /\ Top(th) \in GoodFrames /\ Call(th).task \in Tasks
        /\ Top(th).at = "call" /\ Top(th).pc \in DOMAIN Program[Top(th).who]
        /\ Program[Top(th).who][Top(th).pc].op = "get"
    BY <1>12, CallType DEF get
  <2>2. g \in GoodFrames /\ g.at = "blocked" /\ g.who = Top(th).who /\ g.pc = Top(th).pc
    BY <2>1, MoveGood, PointNames DEF Fits
  <2>3. Goto(th, <<g>>) \/ Produce(th, Call(th).task, <<g>>)
    BY <1>12 DEF get
  <2> HIDE DEF g
  <2>4. Move(th, g) /\ g.at \in NestingPoints
    BY <2>1, <2>2, PointNames DEF Move, InsideACall, NestingPoints
  <2>5. CASE Goto(th, <<g>>)
    BY <2>1, <2>2, <2>4, <2>5, GotoOne
  <2>6. CASE Produce(th, Call(th).task, <<g>>)
    <3>1. GoodMoves(th, <<g>>) /\ \A k \in 1..Len(<<g>>) : <<g>>[k].at \in NestingPoints
      BY <2>2, <2>4 DEF GoodMoves
    <3> QED BY <2>1, <2>6, <3>1, ProduceGoto
  <2> QED BY <2>3, <2>5, <2>6
<1>13. CASE GetReturn(th)
  <2>1. stack[th] # <<>> /\ Top(th).at = "blocked"
    BY <1>13 DEF GetReturn, At
  <2>2. /\ Top(th).who \in Owners /\ Top(th).pc \in Nat
        /\ Top(th).pc \in DOMAIN Program[Top(th).who]
        /\ Program[Top(th).who][Top(th).pc].op = "get"
    BY <2>1, TopGood, FrameFields, PointNames DEF Fits
  <2>3. /\ completed[Program[Top(th).who][Top(th).pc].task]
        /\ Return(th, Top(th).who, Top(th).pc, Program[Top(th).who][Top(th).pc].task)
    BY <1>13 DEF GetReturn, Call
  <2>4. ASSUME Top(th).who \in Tasks => ~exception[Program[Top(th).who][Top(th).pc].task]
        PROVE  Move(th, Body(Top(th).who, Top(th).pc + 1))
    <3>1. Passable(th)
      BY <2>2, <2>3, <2>4 DEF Passable
    <3>2. Top(th).pc + 1 \in Nat
      BY <2>2
    <3> QED BY <2>1, <2>2, <3>1, <3>2, BodyGood DEF Move, PassesCall
  <2> QED BY <2>1, <2>2, <2>3, <2>4, ReturnGoto DEF TasksOK
<1> QED
  BY <1>1, <1>2, <1>3, <1>4, <1>5, <1>6, <1>7, <1>8, <1>9, <1>10, <1>11, <1>12, <1>13
  DEF ApiStep

\* The end of a body and the completion of its task.
LEMMA CompletionGoto ==
  ASSUME StackOK, TasksOK, NEW th \in Threads, CompletionStep(th)
  PROVE  GoodGoto(th)
<1>1. stack[th] # <<>>
  BY DEF CompletionStep, At, Throw, BodyEnd, on_completed, resume_continuations, Continue,
         ContinueEnd, Release, ReleaseEnd, Ready
<1>2. Top(th) \in GoodFrames /\ Top(th).who \in Owners /\ Top(th).list \in Seq(Tasks)
  BY <1>1, TopGood, FrameFields
<1>3. ASSUME Top(th).at \in {"on_completed", "resume_continuations", "continue",
                             "on_task_finished", "ready"}
      PROVE  Top(th).who \in Tasks
  BY <1>2, <1>3, FrameFields, PointNames DEF Fits
<1>4. CASE Throw(th)
  <2>1. Len(Program[Top(th).who]) + 1 \in Nat
    BY <1>2, ProgramAssumption
  <2>2. Top(th).who \in Tasks /\ exception'[Top(th).who]
    BY <1>4, OwnersAssumption DEF Throw, TasksOK
  <2>3. /\ Body(Top(th).who, Len(Program[Top(th).who]) + 1) \in GoodFrames
        /\ Move(th, Body(Top(th).who, Len(Program[Top(th).who]) + 1))
    BY <1>2, <2>1, <2>2, BodyGood DEF Move, EndsBody
  <2> QED BY <1>1, <1>4, <2>3, GotoOne DEF Throw
<1>5. CASE BodyEnd(th)
  <2>1. CASE Top(th).who \in Tasks
    BY <1>1, <1>5, <2>1, LibraryGood, GotoOne DEF BodyEnd
  <2>2. CASE Top(th).who \notin Tasks
    BY <1>1, <1>5, <2>2, GotoNone DEF BodyEnd
  <2> QED BY <2>1, <2>2
<1>6. CASE on_completed(th)
  <2> DEFINE g == [Top(th) EXCEPT !.at = "resume_continuations"]
  <2>1. Top(th).who \in Tasks
    BY <1>3, <1>6 DEF on_completed, At
  <2>2. g \in GoodFrames /\ g.at = "resume_continuations"
    BY <1>2, <2>1, MoveGood, PointNames DEF Fits
  <2>3. Goto(th, <<g>>)
    BY <1>6 DEF on_completed
  <2> HIDE DEF g
  <2>4. Move(th, g) BY <2>2, PointNames DEF Move
  <2> QED BY <1>1, <2>2, <2>3, <2>4, GotoOne
<1>7. CASE resume_continuations(th)
  <2> DEFINE g == [Top(th) EXCEPT !.at = "continue", !.list = continuations[Top(th).who]]
  <2>1. Top(th).who \in Tasks /\ continuations[Top(th).who] \in Seq(Tasks)
    BY <1>3, <1>7 DEF resume_continuations, At, TasksOK
  <2>2. g \in GoodFrames /\ g.at = "continue"
    <3>1. Fits("continue", Top(th).who, Top(th).pc, continuations[Top(th).who])
      BY <2>1, PointNames DEF Fits
    <3>2. g \in Moved(Top(th), "continue", continuations[Top(th).who])
      BY <1>2, <2>1, <3>1, RelistMoveGood, Zenon
    <3> QED BY <3>2 DEF Moved
  <2>3. Goto(th, <<g>>)
    BY <1>7 DEF resume_continuations
  <2> HIDE DEF g
  <2>4. Move(th, g) BY <2>2, PointNames DEF Move
  <2> QED BY <1>1, <2>2, <2>3, <2>4, GotoOne
<1>8. CASE Continue(th)
  <2> DEFINE g == [Top(th) EXCEPT !.list = Tail(@)]
             h == Frame("resume", Head(Top(th).list), 0, <<>>)
  <2>1. Top(th).at = "continue" /\ Top(th).list # <<>>
    BY <1>8 DEF Continue, At
  <2>2. Top(th).who \in Tasks /\ Head(Top(th).list) \in Tasks /\ Tail(Top(th).list) \in Seq(Tasks)
    BY <1>2, <1>3, <2>1
  <2>3. g \in GoodFrames /\ g.at = "continue"
    <3>1. Fits(Top(th).at, Top(th).who, Top(th).pc, Tail(Top(th).list))
      BY <1>2, <2>1, <2>2, PointNames DEF Fits
    <3>2. g \in Moved(Top(th), Top(th).at, Tail(Top(th).list))
      BY <1>2, <2>1, <2>2, <3>1, RelistGood, Zenon
    <3> QED BY <1>2, <2>1, <2>2, <3>2 DEF Moved
  <2>4. h \in GoodFrames /\ Move(th, h)
    BY <2>2, LibraryGood
  <2>5. Goto(th, <<g>>) \/ Goto(th, <<g, h>>)
    BY <1>8 DEF Continue
  <2> HIDE DEF g, h
  <2>6. Move(th, g) /\ g.at \in NestingPoints BY <2>3, PointNames DEF Move, NestingPoints
  <2> QED BY <1>1, <2>3, <2>4, <2>5, <2>6, GotoOne, GotoTwo
<1>9. CASE ContinueEnd(th)
  <2> DEFINE g == [Top(th) EXCEPT !.at = "on_task_finished"]
  <2>1. Top(th).who \in Tasks
    BY <1>3, <1>9 DEF ContinueEnd, At
  <2>2. g \in GoodFrames /\ g.at = "on_task_finished"
    BY <1>2, <2>1, MoveGood, PointNames DEF Fits
  <2>3. Goto(th, <<g>>) \/ Goto(th, <<>>)
    BY <1>9 DEF ContinueEnd
  <2> HIDE DEF g
  <2>4. Move(th, g) BY <2>2, PointNames DEF Move
  <2> QED BY <1>1, <2>2, <2>3, <2>4, GotoOne, GotoNone
<1>10. CASE Release(th)
  <2>1. Top(th).at = "on_task_finished" /\ dependents[Top(th).who] # <<>>
    BY <1>10 DEF Release, At
  <2>2. Top(th).who \in Tasks /\ dependents[Top(th).who] \in Seq(Tasks)
    BY <1>3, <2>1 DEF TasksOK
  <2> DEFINE d == Head(dependents[Top(th).who])
             l == IF LastOne(pendingDependencies[d]) THEN Append(Top(th).list, d) ELSE Top(th).list
             g == [Top(th) EXCEPT !.list = l]
  <2>3. d \in Tasks
    BY <2>1, <2>2
  <2>4. l \in Seq(Tasks)
    BY <1>2, <2>3
  <2>5. Goto(th, <<g>>)
    BY <1>10 DEF Release
  <2> HIDE DEF l, d
  <2>6. g \in GoodFrames /\ g.at = "on_task_finished"
    <3>1. Fits(Top(th).at, Top(th).who, Top(th).pc, l)
      BY <1>2, <2>1, <2>2, <2>4, PointNames DEF Fits
    <3>2. g \in Moved(Top(th), Top(th).at, l)
      BY <1>2, <2>1, <2>2, <2>4, <3>1, RelistGood, Zenon
    <3> QED BY <1>2, <2>1, <2>2, <2>4, <3>2 DEF Moved
  <2> HIDE DEF g
  <2>7. Move(th, g) BY <2>6, PointNames DEF Move
  <2> QED BY <1>1, <2>5, <2>6, <2>7, GotoOne
<1>11. CASE ReleaseEnd(th)
  <2> DEFINE g == [Top(th) EXCEPT !.at = "ready"]
  <2>1. Top(th).who \in Tasks
    BY <1>3, <1>11 DEF ReleaseEnd, At
  <2>2. g \in GoodFrames /\ g.at = "ready"
    BY <1>2, <2>1, MoveGood, PointNames DEF Fits
  <2>3. Goto(th, <<g>>)
    BY <1>11 DEF ReleaseEnd
  <2> HIDE DEF g
  <2>4. Move(th, g) BY <2>2, PointNames DEF Move
  <2> QED BY <1>1, <2>2, <2>3, <2>4, GotoOne
<1>12. CASE Ready(th)
  <2>1. Top(th).at = "ready"
    BY <1>12 DEF Ready, At
  <2>2. CASE Top(th).list = <<>>
    BY <1>1, <1>12, <2>2, GotoNone DEF Ready
  <2>3. CASE Top(th).list # <<>>
    <3> DEFINE g == [Top(th) EXCEPT !.list = Tail(@)]
    <3>1. Top(th).who \in Tasks /\ Tail(Top(th).list) \in Seq(Tasks)
      BY <1>2, <1>3, <2>1, <2>3
    <3>2. g \in GoodFrames /\ g.at = "ready"
      <4>1. Fits(Top(th).at, Top(th).who, Top(th).pc, Tail(Top(th).list))
        BY <2>1, <3>1, PointNames DEF Fits
      <4>2. g \in Moved(Top(th), Top(th).at, Tail(Top(th).list))
        BY <1>2, <3>1, <4>1, RelistGood, Zenon
      <4> QED BY <2>1, <4>2 DEF Moved
    <3>3. Goto(th, <<g>>)
      BY <1>12, <2>3 DEF Ready
    <3> HIDE DEF g
    <3>4. Move(th, g) BY <3>2, PointNames DEF Move
    <3> QED BY <1>1, <3>2, <3>3, <3>4, GotoOne
  <2> QED BY <2>2, <2>3
<1> QED
  BY <1>4, <1>5, <1>6, <1>7, <1>8, <1>9, <1>10, <1>11, <1>12 DEF CompletionStep

\* A worker takes a job onto its empty stack.
LEMMA WorkerStack ==
  ASSUME StackOK, PoolOK, NEW w \in Workers, WorkerStep(w)
  PROVE  /\ StackOK'
         /\ \A x \in Threads \ {w} : stack'[x] = stack[x]
         /\ stack[w] = <<>>
<1>1. w \in Threads BY DEF Threads
<1>2. CASE WorkerLoop(w) \/ WorkerExit(w)
  BY <1>2 DEF WorkerLoop, WorkerExit, StackOK
<1>3. CASE WorkerTake(w)
  <2> DEFINE job == Head(m_jobs)
             fs == IF job.kind = "function" THEN <<Body(job.task, 1)>>
                   ELSE IF Resumable(job.task) THEN <<Frame("resume", job.task, 0, <<>>)>>
                   ELSE <<>>
  <2>1. job \in Jobs
    BY <1>3 DEF WorkerTake, PoolOK
  <2>2. job.task \in Tasks /\ job.task \in Owners
    BY <2>1 DEF Jobs, Owners
  <2>3. Body(job.task, 1) \in GoodFrames /\ Frame("resume", job.task, 0, <<>>) \in GoodFrames
    BY <2>2, BodyGood, LibraryGood
  <2>4. fs \in Seq(GoodFrames)
    BY <2>3
  <2>5. stack' = [stack EXCEPT ![w] = fs] /\ stack[w] = <<>>
    BY <1>3 DEF WorkerTake
  <2> HIDE DEF fs
  <2> QED BY <1>1, <2>4, <2>5 DEF StackOK
<1> QED BY <1>2, <1>3 DEF WorkerStep

-----------------------------------------------------------------------------
(* The states of the tasks and the pool keep their types.                  *)

\* The call a body is inside of.
LEMMA InsideCall ==
  ASSUME StackOK, NEW th \in Threads, stack[th] # <<>>, Top(th).at \in InsidePoints
  PROVE  Call(th).task \in Tasks
<1>1. Top(th).who \in Owners /\ Top(th).pc \in DOMAIN Program[Top(th).who]
  BY TopGood, FrameFields DEF Fits
<1>2. Call(th) \in Calls
  BY <1>1, ProgramAssumption DEF Call
<1> QED BY <1>2 DEF Calls

\* The record of a library function belongs to a task.
LEMMA LibraryTask ==
  ASSUME StackOK, NEW th \in Threads, stack[th] # <<>>, Top(th).at \in LibraryPoints
  PROVE  Top(th).who \in Tasks
BY TopGood, FrameFields DEF Fits

\* The unsigned counter wraps around within its range.
LEMMA CounterRange ==
  ASSUME NEW k \in 0..(Modulus - 1)
  PROVE  fetch_add(k) \in 0..(Modulus - 1) /\ fetch_sub(k) \in 0..(Modulus - 1)
BY ModulusAssumption DEF fetch_add, fetch_sub

\* enqueue adds a job.
LEMMA EnqueueType ==
  ASSUME m_jobs \in Seq(Jobs), NEW t \in Tasks, NEW k \in {"function", "resume"}, enqueue(k, t)
  PROVE  m_jobs' \in Seq(Jobs)
<1>1. [kind |-> k, task |-> t] \in Jobs
  BY DEF Jobs
<1> QED BY <1>1 DEF enqueue

\* Return stores an exception at most.
LEMMA ReturnType ==
  ASSUME exception \in [Tasks -> BOOLEAN], NEW th, NEW p, NEW i, NEW u, Return(th, p, i, u)
  PROVE  exception' \in [Tasks -> BOOLEAN]
BY DEF Return

\* Produce enqueues a job at most.
LEMMA ProduceType ==
  ASSUME m_jobs \in Seq(Jobs), NEW th, NEW u \in Tasks, NEW after, Produce(th, u, after)
  PROVE  m_jobs' \in Seq(Jobs)
BY EnqueueType DEF Produce

\* The steps of the API calls keep the types.
LEMMA ApiTypes ==
  ASSUME TaskInv, NEW th \in Threads, ApiStep(th)
  PROVE  TasksOK' /\ PoolOK'
<1> USE DEF TaskInv
<1>1. CASE run(th)
  BY <1>1 DEF run, taskVars, TasksOK, PoolOK
<1>2. CASE stop(th) \/ join(th) \/ wait(th)
  BY <1>2 DEF stop, join, wait, taskVars, poolVars, TasksOK, PoolOK
<1>3. CASE run_async(th)
  <2>1. Call(th).task \in Tasks
    BY <1>3, CallType DEF run_async
  <2>2. m_jobs' \in Seq(Jobs)
    BY <1>3, <2>1, EnqueueType DEF run_async, PoolOK
  <2> QED BY <1>3, <2>1, <2>2 DEF run_async, TasksOK, PoolOK
<1>4. CASE schedule(th)
  BY <1>4 DEF schedule, poolVars, TasksOK, PoolOK
<1>5. CASE Register(th)
  <2>1. stack[th] # <<>> /\ Top(th).at = "register"
    BY <1>5 DEF Register, At
  <2>2. Call(th).task \in Tasks
    BY <2>1, InsideCall, PointNames
  <2>3. dependents' \in [Tasks -> Seq(Tasks)]
    <3>1. CASE UNCHANGED dependents BY <3>1 DEF TasksOK
    <3>2. CASE dependents' = [dependents EXCEPT ![Head(Top(th).list)] = Append(@, Call(th).task)]
      <4>1. \A d \in Tasks : Append(dependents[d], Call(th).task) \in Seq(Tasks)
        BY <2>2 DEF TasksOK
      <4> QED BY <3>2, <4>1 DEF TasksOK
    <3> QED BY <1>5, <3>1, <3>2 DEF Register
  <2> QED BY <1>5, <2>3 DEF Register, poolVars, TasksOK, PoolOK
<1>6. CASE FetchAdd(th)
  <2>1. pendingDependencies' =
          [pendingDependencies EXCEPT ![Call(th).task] = fetch_add(@)]
    BY <1>6 DEF FetchAdd
  <2>2. \A d \in Tasks : fetch_add(pendingDependencies[d]) \in 0..(Modulus - 1)
    BY CounterRange DEF TasksOK
  <2>3. pendingDependencies' \in [Tasks -> 0..(Modulus - 1)]
    BY <2>1, <2>2 DEF TasksOK
  <2> QED BY <1>6, <2>3 DEF FetchAdd, poolVars, TasksOK, PoolOK
<1>7. CASE ScheduleEnd(th)
  <2>1. stack[th] # <<>> /\ Top(th).at = "register"
    BY <1>7 DEF ScheduleEnd, At
  <2>2. Call(th).task \in Tasks
    BY <2>1, InsideCall, PointNames
  <2>3. m_jobs' \in Seq(Jobs)
    BY <1>7, <2>2, EnqueueType DEF ScheduleEnd, PoolOK
  <2> QED BY <1>7, <2>3 DEF ScheduleEnd, taskVars, TasksOK, PoolOK
<1>8. CASE await(th)
  <2>1. Top(th).pc \in Nat /\ Top(th).who \in Tasks
    BY <1>8, CallType, FrameFields DEF await, Tasks
  <2>2. exception' \in [Tasks -> BOOLEAN]
    BY <1>8, ReturnType DEF await, TasksOK
  <2>3. suspendedAt' \in [Tasks -> Nat]
    BY <1>8, <2>1 DEF await, TasksOK
  <2> QED BY <1>8, <2>2, <2>3 DEF await, poolVars, TasksOK, PoolOK
<1>9. CASE add_continuation(th)
  <2>1. stack[th] # <<>> /\ Top(th).at = "add_continuation"
    BY <1>9 DEF add_continuation, At
  <2>2. Top(th).who \in Tasks /\ Top(th).list \in Seq(Tasks) /\ Top(th).list # <<>>
    BY <2>1, TopGood, FrameFields, PointNames DEF Fits
  <2>3. Head(Top(th).list) \in Tasks
    BY <2>2
  <2>4. m_jobs' \in Seq(Jobs)
    BY <1>9, <2>3, EnqueueType DEF add_continuation, PoolOK
  <2>5. Append(continuations[Top(th).who], Head(Top(th).list)) \in Seq(Tasks)
    BY <2>2, <2>3 DEF TasksOK
  <2>6. continuations' \in [Tasks -> Seq(Tasks)]
    BY <1>9, <2>5 DEF add_continuation, TasksOK
  <2> QED BY <1>9, <2>4, <2>6 DEF add_continuation, TasksOK, PoolOK
<1>10. CASE await_suspend(th)
  <2>1. Top(th).who \in Tasks
    BY <1>10, LibraryTask, PointNames DEF await_suspend, At
  <2>2. m_jobs' \in Seq(Jobs)
    BY <1>10, <2>1, ProduceType DEF await_suspend, PoolOK
  <2> QED BY <1>10, <2>2 DEF await_suspend, taskVars, TasksOK, PoolOK
<1>11. CASE resume(th)
  <2>1. exception' \in [Tasks -> BOOLEAN]
    BY <1>11, ReturnType DEF resume, TasksOK
  <2> QED BY <1>11, <2>1 DEF resume, poolVars, TasksOK, PoolOK
<1>12. CASE get(th)
  <2>1. Call(th).task \in Tasks
    BY <1>12, CallType DEF get
  <2>2. m_jobs' \in Seq(Jobs)
    BY <1>12, <2>1, ProduceType DEF get, PoolOK
  <2> QED BY <1>12, <2>2 DEF get, taskVars, TasksOK, PoolOK
<1>13. CASE GetReturn(th)
  <2>1. exception' \in [Tasks -> BOOLEAN]
    BY <1>13, ReturnType DEF GetReturn, TasksOK
  <2> QED BY <1>13, <2>1 DEF GetReturn, poolVars, TasksOK, PoolOK
<1> QED
  BY <1>1, <1>2, <1>3, <1>4, <1>5, <1>6, <1>7, <1>8, <1>9, <1>10, <1>11, <1>12, <1>13
  DEF ApiStep

\* So do the steps at the end of a body.
LEMMA CompletionTypes ==
  ASSUME TaskInv, NEW th \in Threads, CompletionStep(th)
  PROVE  TasksOK' /\ PoolOK'
<1> USE DEF TaskInv
<1>1. CASE Throw(th)
  BY <1>1 DEF Throw, poolVars, TasksOK, PoolOK
<1>2. CASE BodyEnd(th)
  <2>1. done' \in [Tasks -> BOOLEAN]
    <3>1. CASE UNCHANGED done BY <3>1 DEF TasksOK
    <3>2. CASE done' = [done EXCEPT ![Top(th).who] = Top(th).who \in Coroutines]
      <4>1. (Top(th).who \in Coroutines) \in BOOLEAN OBVIOUS
      <4>2. done \in [Tasks -> BOOLEAN] BY DEF TasksOK
      <4> QED BY <3>2, <4>1, <4>2, Zenon
    <3> QED BY <1>2, <3>1, <3>2 DEF BodyEnd
  <2> QED BY <1>2, <2>1 DEF BodyEnd, poolVars, TasksOK, PoolOK
<1>3. CASE on_completed(th)
  BY <1>3 DEF on_completed, poolVars, TasksOK, PoolOK
<1>4. CASE resume_continuations(th)
  <2>1. <<>> \in Seq(Tasks) /\ continuations \in [Tasks -> Seq(Tasks)]
    BY DEF TasksOK
  <2>2. continuations' = [continuations EXCEPT ![Top(th).who] = <<>>]
    BY <1>4 DEF resume_continuations
  <2>3. continuations' \in [Tasks -> Seq(Tasks)]
    BY <2>1, <2>2
  <2> QED BY <1>4, <2>3 DEF resume_continuations, poolVars, TasksOK, PoolOK
<1>5. CASE Continue(th)
  <2>1. stack[th] # <<>> /\ Top(th).list # <<>>
    BY <1>5 DEF Continue, At
  <2>2. Top(th).list \in Seq(Tasks)
    BY <2>1, TopGood, FrameFields
  <2>3. Head(Top(th).list) \in Tasks
    BY <2>1, <2>2
  <2>4. m_jobs' \in Seq(Jobs)
    BY <1>5, <2>3, EnqueueType DEF Continue, PoolOK
  <2> QED BY <1>5, <2>4 DEF Continue, taskVars, TasksOK, PoolOK
<1>6. CASE ContinueEnd(th) \/ ReleaseEnd(th)
  BY <1>6 DEF ContinueEnd, ReleaseEnd, taskVars, poolVars, TasksOK, PoolOK
<1>7. CASE Release(th)
  <2> DEFINE t == Top(th).who
             d == Head(dependents[t])
  <2>1. stack[th] # <<>> /\ Top(th).at = "on_task_finished" /\ dependents[t] # <<>>
    BY <1>7 DEF Release, At
  <2>2. t \in Tasks
    BY <2>1, LibraryTask, PointNames
  <2>3. Tail(dependents[t]) \in Seq(Tasks)
    BY <2>1, <2>2 DEF TasksOK
  <2>4. dependents' = [dependents EXCEPT ![t] = Tail(@)]
    BY <1>7 DEF Release
  <2>5. dependents' \in [Tasks -> Seq(Tasks)]
    BY <2>3, <2>4 DEF TasksOK
  <2>6. pendingDependencies' = [pendingDependencies EXCEPT ![d] = fetch_sub(@)]
    BY <1>7 DEF Release
  <2>7. \A x \in Tasks : fetch_sub(pendingDependencies[x]) \in 0..(Modulus - 1)
    BY CounterRange DEF TasksOK
  <2>8. pendingDependencies' \in [Tasks -> 0..(Modulus - 1)]
    BY <2>6, <2>7 DEF TasksOK
  <2> QED BY <1>7, <2>5, <2>8 DEF Release, poolVars, TasksOK, PoolOK
<1>8. CASE Ready(th)
  <2>1. stack[th] # <<>>
    BY <1>8 DEF Ready, At
  <2>2. Top(th).list \in Seq(Tasks)
    BY <2>1, TopGood, FrameFields
  <2>3. Top(th).list # <<>> => Head(Top(th).list) \in Tasks
    BY <2>2
  <2>4. m_jobs' \in Seq(Jobs)
    BY <1>8, <2>3, EnqueueType DEF Ready, PoolOK
  <2> QED BY <1>8, <2>4 DEF Ready, taskVars, TasksOK, PoolOK
<1> QED
  BY <1>1, <1>2, <1>3, <1>4, <1>5, <1>6, <1>7, <1>8 DEF CompletionStep

\* So do the steps of the pool loop.
LEMMA WorkerTypes ==
  ASSUME TaskInv, NEW w \in Workers, WorkerStep(w)
  PROVE  TasksOK' /\ PoolOK'
<1> USE DEF TaskInv
<1>1. CASE WorkerLoop(w) \/ WorkerExit(w)
  BY <1>1 DEF WorkerLoop, WorkerExit, taskVars, TasksOK, PoolOK
<1>2. CASE WorkerTake(w)
  <2>1. m_jobs' \in Seq(Jobs)
    BY <1>2 DEF WorkerTake, PoolOK
  <2> QED BY <1>2, <2>1 DEF WorkerTake, taskVars, TasksOK, PoolOK
<1> QED BY <1>1, <1>2 DEF WorkerStep

-----------------------------------------------------------------------------
(* The type invariant.                                                     *)

\* The types hold at the start.
LEMMA InitInv == Init => TaskInv
<1> SUFFICES ASSUME Init PROVE TaskInv
  OBVIOUS
<1>1. TasksOK
  <2>1. 0 \in 0..(Modulus - 1) /\ <<>> \in Seq(Tasks)
    BY ModulusAssumption
  <2> QED BY <2>1 DEF Init, TasksOK
<1>2. PoolOK
  BY DEF Init, PoolOK
<1>3. StackOK
  <2>1. \A th \in Clients : Body(th, 1) \in GoodFrames
    BY BodyGood DEF Owners
  <2> QED BY <2>1 DEF Init, StackOK
<1> QED BY <1>1, <1>2, <1>3 DEF TaskInv

\* A step of a thread is a step of the pool loop or a Goto.
LEMMA StepInv == TaskInv /\ [Next]_vars => TaskInv'
<1> SUFFICES ASSUME TaskInv, [Next]_vars PROVE TaskInv'
  OBVIOUS
<1>1. CASE UNCHANGED vars
  BY <1>1 DEF vars, taskVars, poolVars, TaskInv, TasksOK, PoolOK, StackOK
<1>2. ASSUME NEW th \in Threads, ApiStep(th) \/ CompletionStep(th) PROVE TaskInv'
  <2>1. TasksOK' /\ PoolOK'
    BY <1>2, ApiTypes, CompletionTypes
  <2>2. GoodGoto(th)
    BY <1>2, ApiGoto, CompletionGoto DEF TaskInv
  <2>3. StackOK'
    BY <2>2, GotoStack DEF GoodGoto, GoodMoves, TaskInv
  <2> QED BY <2>1, <2>3 DEF TaskInv
<1>3. ASSUME NEW w \in Workers, WorkerStep(w) PROVE TaskInv'
  BY <1>3, WorkerTypes, WorkerStack DEF TaskInv
<1> QED BY <1>1, <1>2, <1>3 DEF Next, ThreadStep

\* Good frames are frames.
LEMMA InvType == TaskInv => TypeOK
<1> SUFFICES ASSUME TaskInv PROVE TypeOK
  OBVIOUS
<1>1. GoodFrames \subseteq Frames
  BY DEF GoodFrames
<1>2. \A s \in Seq(GoodFrames) : s \in Seq(Frames)
  BY <1>1
<1>3. stack \in [Threads -> Seq(Frames)]
  BY <1>2 DEF TaskInv, StackOK
<1> QED BY <1>3 DEF TaskInv, TasksOK, PoolOK, TypeOK

\* Tasks, queue and stacks keep their types under every program: in particular
\* the counter stays within its unsigned range, an API call in progress is a
\* call of the body, and only tasks are completed, resumed or continued.
THEOREM TaskTypes == Spec => []TypeOK
<1>1. Spec => []TaskInv
  BY InitInv, StepInv, PTL DEF Spec
<1> QED BY <1>1, InvType, PTL

\* th is about to swap the continuations of u out.
Swaps(th, u) == \E i \in 1..Len(stack[th]) :
                  stack[th][i].who = u /\ stack[th][i].at = "resume_continuations"

\* The same said with Completing.
LEMMA SwapsMeaning == \A th, u : Completing(th, u, {"resume_continuations"}) <=> Swaps(th, u)
BY DEF Completing, Records, Swaps

\* Only the action resume_continuations itself gets past that point.
LEMMA SwapStays ==
  ASSUME StackOK, NEW th \in Threads, GoodGoto(th), NEW x \in Threads, NEW u, Swaps(x, u),
         Top(th).at # "resume_continuations" \/ Top(th).who # u
  PROVE  Swaps(x, u)'
<1>1. PICK fs \in Seq(GoodFrames) : Goto(th, fs)
  BY DEF GoodGoto, GoodMoves
<1>2. stack[th] # <<>> /\ stack[th] \in Seq(GoodFrames) /\ Len(stack[th]) \in Nat \ {0}
  BY TopGood DEF GoodGoto, StackOK
<1>3. /\ \A y \in Threads \ {th} : stack'[y] = stack[y]
      /\ Len(stack'[th]) = Len(stack[th]) - 1 + Len(fs)
      /\ \A i \in 1..(Len(stack[th]) - 1) : stack'[th][i] = stack[th][i]
  BY <1>1, <1>2, GotoStack
<1>4. CASE x # th
  BY <1>3, <1>4 DEF Swaps
<1>5. CASE x = th
  <2>1. PICK i \in 1..Len(stack[th]) :
          stack[th][i].who = u /\ stack[th][i].at = "resume_continuations"
    BY <1>5 DEF Swaps
  <2>2. i # Len(stack[th])
    BY <2>1 DEF Top
  <2>3. i \in 1..(Len(stack[th]) - 1) /\ Len(fs) \in Nat
    BY <1>2, <2>1, <2>2
  <2>4. i \in 1..Len(stack'[th]) /\ stack'[th][i] = stack[th][i]
    BY <1>2, <1>3, <2>3
  <2> QED BY <1>5, <2>1, <2>4 DEF Swaps
<1> QED BY <1>4, <1>5

\* NoLostContinuation in terms of Swaps.
AwaitersKept == \A u \in Tasks : completed[u] /\ continuations[u] # <<>> => \E x \in Threads : Swaps(x, u)

\* Both say the same.
LEMMA AwaitersMeaning == AwaitersKept <=> NoLostContinuation
BY SwapsMeaning DEF AwaitersKept, NoLostContinuation

\* The points at which the actions start.
LEMMA OtherPoints ==
  ASSUME NEW th \in Threads, ApiStep(th) \/ (CompletionStep(th) /\ ~resume_continuations(th))
  PROVE  Top(th).at # "resume_continuations"
<1>1. CASE ApiStep(th)
  BY <1>1 DEF ApiStep, AtCall, At, run, stop, join, run_async, schedule, Register, FetchAdd,
              ScheduleEnd, await, add_continuation, await_suspend, resume, get, GetReturn, wait
<1>2. CASE CompletionStep(th) /\ ~resume_continuations(th)
  BY <1>2 DEF CompletionStep, At, Throw, BodyEnd, on_completed, Continue, ContinueEnd, Release,
              ReleaseEnd, Ready
<1> QED BY <1>1, <1>2

\* Which actions complete a task or touch the lists of awaiters.
LEMMA QuietSteps ==
  ASSUME NEW th \in Threads, ApiStep(th) \/ CompletionStep(th),
         ~add_continuation(th), ~on_completed(th), ~resume_continuations(th)
  PROVE  completed' = completed /\ continuations' = continuations
<1>1. CASE ApiStep(th)
  BY <1>1 DEF ApiStep, taskVars, run, stop, join, run_async, schedule, Register, FetchAdd,
              ScheduleEnd, await, await_suspend, resume, get, GetReturn, wait
<1>2. CASE CompletionStep(th)
  BY <1>2 DEF CompletionStep, taskVars, Throw, BodyEnd, Continue, ContinueEnd, Release,
              ReleaseEnd, Ready
<1> QED BY <1>1, <1>2

\* Every step keeps the awaiters of completed tasks with the thread that swaps them out.
LEMMA AwaitersStep == TaskInv /\ AwaitersKept /\ [Next]_vars => AwaitersKept'
<1> SUFFICES ASSUME TaskInv, AwaitersKept, [Next]_vars,
                    NEW u \in Tasks, completed'[u], continuations'[u] # <<>>
             PROVE  \E x \in Threads : Swaps(x, u)'
  BY DEF AwaitersKept
<1> USE DEF TaskInv
<1>1. CASE UNCHANGED vars
  <2>1. PICK x \in Threads : Swaps(x, u)
    BY <1>1 DEF vars, taskVars, AwaitersKept
  <2> QED BY <1>1, <2>1 DEF vars, Swaps
<1>2. ASSUME NEW w \in Workers, WorkerStep(w) PROVE \E x \in Threads : Swaps(x, u)'
  <2>1. completed' = completed /\ continuations' = continuations
    BY <1>2 DEF WorkerStep, WorkerLoop, WorkerTake, WorkerExit, taskVars
  <2>2. PICK x \in Threads : Swaps(x, u)
    BY <2>1 DEF AwaitersKept
  <2>3. stack[w] = <<>> /\ \A y \in Threads \ {w} : stack'[y] = stack[y]
    BY <1>2, WorkerStack
  <2>4. x # w
    BY <2>2, <2>3 DEF Swaps
  <2> QED BY <2>2, <2>3, <2>4 DEF Swaps
<1>3. ASSUME NEW th \in Threads, ApiStep(th) \/ CompletionStep(th)
      PROVE  \E x \in Threads : Swaps(x, u)'
  <2>1. GoodGoto(th)
    BY <1>3, ApiGoto, CompletionGoto
  <2>2. CASE on_completed(th) /\ Top(th).who = u
    <3> DEFINE g == [Top(th) EXCEPT !.at = "resume_continuations"]
    <3>1. stack[th] # <<>> /\ Top(th).at = "on_completed" /\ Goto(th, <<g>>)
      BY <2>2 DEF on_completed, At
    <3>2. Top(th) \in GoodFrames /\ Len(stack[th]) \in Nat \ {0}
      BY <3>1, TopGood
    <3>3. g.who = u /\ g.at = "resume_continuations"
      BY <2>2, <3>2, FrameFields DEF Frames
    <3>4. stack'[th] = SubSeq(stack[th], 1, Len(stack[th]) - 1) \o <<g>>
      BY <3>1 DEF Goto, StackOK
    <3>5. stack[th] \in Seq(GoodFrames)
      BY DEF StackOK
    <3>6. g \in GoodFrames
      BY <2>2, <3>2, MoveGood, PointNames DEF Fits
    <3> DEFINE rest == SubSeq(stack[th], 1, Len(stack[th]) - 1)
    <3>7. rest \in Seq(GoodFrames) /\ Len(rest) = Len(stack[th]) - 1
      BY <3>2, <3>5
    <3>8. stack'[th] = rest \o <<g>>
      BY <3>4
    <3> HIDE DEF g, rest
    <3>9. Len(rest \o <<g>>) = Len(rest) + 1 /\ (rest \o <<g>>)[Len(rest) + 1] = g
      BY <3>6, <3>7
    <3>10. Len(stack'[th]) = Len(stack[th]) /\ stack'[th][Len(stack[th])] = g
      BY <3>2, <3>7, <3>8, <3>9
    <3>11. Swaps(th, u)'
      BY <3>2, <3>3, <3>10 DEF Swaps
    <3> QED BY <3>11
  <2>3. CASE resume_continuations(th) /\ Top(th).who = u
    <3>1. continuations'[u] = <<>>
      BY <2>3 DEF resume_continuations, TasksOK
    <3> QED BY <3>1
  <2>4. CASE ~(on_completed(th) /\ Top(th).who = u) /\ ~(resume_continuations(th) /\ Top(th).who = u)
    <3>1. completed[u] /\ continuations[u] # <<>>
      <4>1. CASE on_completed(th)
        BY <2>4, <4>1 DEF on_completed, TasksOK
      <4>2. CASE resume_continuations(th)
        BY <2>4, <4>2 DEF resume_continuations, TasksOK
      <4>3. CASE add_continuation(th)
        BY <4>3 DEF add_continuation, MustWait, TasksOK
      <4>4. CASE ~add_continuation(th) /\ ~on_completed(th) /\ ~resume_continuations(th)
        BY <1>3, <4>4, QuietSteps
      <4> QED BY <4>1, <4>2, <4>3, <4>4
    <3>2. PICK x \in Threads : Swaps(x, u)
      BY <3>1 DEF AwaitersKept
    <3>3. Top(th).at # "resume_continuations" \/ Top(th).who # u
      BY <1>3, <2>4, OtherPoints
    <3> QED BY <2>1, <3>2, <3>3, SwapStays
  <2> QED BY <2>2, <2>3, <2>4
<1> QED BY <1>1, <1>2, <1>3 DEF Next, ThreadStep

\* No awaiter is lost, whatever the program, the number of threads and the order
\* in which they register and complete: a registration with a completed task is
\* still to be swapped out by the thread that completed it.
THEOREM AwaitersAreNeverLost == Spec => []NoLostContinuation
<1>1. Init => TaskInv /\ AwaitersKept
  BY InitInv DEF Init, AwaitersKept
<1>2. TaskInv /\ AwaitersKept /\ [Next]_vars => (TaskInv /\ AwaitersKept)'
  BY StepInv, AwaitersStep
<1>3. Spec => [](TaskInv /\ AwaitersKept)
  BY <1>1, <1>2, PTL DEF Spec
<1> QED BY <1>3, AwaitersMeaning, PTL

-----------------------------------------------------------------------------
(* stop() returns after every worker has ended.                            *)

\* The place of a record among those that replace the m-th one.
LEMMA ReplacedIndex ==
  ASSUME NEW m \in Nat \ {0}, NEW n \in Nat, NEW j \in 1..(m - 1 + n), j \notin 1..(m - 1)
  PROVE  j - (m - 1) \in 1..n /\ j = m - 1 + (j - (m - 1))
OBVIOUS

\* The records of the stacks after a step of th: the old ones, and those that
\* replace the innermost one.
LEMMA RecordsStep ==
  ASSUME TaskInv, NEW th \in Threads, ThreadStep(th),
         NEW x \in Threads, NEW j \in 1..Len(stack'[x])
  PROVE  \/ j \in 1..Len(stack[x]) /\ stack'[x][j] = stack[x][j]
         \/ x = th /\ \E g \in GoodFrames :
              /\ stack'[x][j] = g /\ Move(th, g)
              /\ stack[th] = <<>> => g.at \in LibraryPoints \/ EntersBody(g)
<1>1. CASE ApiStep(th) \/ CompletionStep(th)
  <2>1. GoodGoto(th)
    BY <1>1, ApiGoto, CompletionGoto DEF TaskInv
  <2>2. PICK fs : Goto(th, fs) /\ GoodMoves(th, fs)
    BY <2>1 DEF GoodGoto
  <2>3. /\ \A y \in Threads \ {th} : stack'[y] = stack[y]
        /\ Len(stack'[th]) = Len(stack[th]) - 1 + Len(fs)
        /\ \A i \in 1..(Len(stack[th]) - 1) : stack'[th][i] = stack[th][i]
        /\ \A i \in 1..Len(fs) : stack'[th][Len(stack[th]) - 1 + i] = fs[i]
    BY <2>1, <2>2, GotoStack DEF GoodGoto, GoodMoves, TaskInv
  <2>4. CASE x # th
    BY <2>3, <2>4
  <2>5. CASE x = th
    <3>1. Len(stack[th]) \in Nat \ {0} /\ Len(fs) \in Nat
      BY <2>1, <2>2, TopGood DEF GoodGoto, GoodMoves, TaskInv
    <3>2. CASE j \in 1..(Len(stack[th]) - 1)
      BY <2>3, <2>5, <3>1, <3>2
    <3>3. CASE j \notin 1..(Len(stack[th]) - 1)
      <4> DEFINE k == j - (Len(stack[th]) - 1)
      <4>1. k \in 1..Len(fs) /\ j = Len(stack[th]) - 1 + k
        <5>1. j \in 1..(Len(stack[th]) - 1 + Len(fs))
          BY <2>3, <2>5
        <5> QED BY <3>1, <3>3, <5>1, ReplacedIndex
      <4> HIDE DEF k
      <4>2. stack'[x][j] = fs[k]
        BY <2>3, <2>5, <4>1
      <4>3. fs[k] \in GoodFrames /\ Move(th, fs[k])
        BY <2>2, <4>1 DEF GoodMoves
      <4> QED BY <2>1, <2>5, <4>2, <4>3 DEF GoodGoto
    <3> QED BY <3>2, <3>3
  <2> QED BY <2>4, <2>5
<1>2. CASE th \in Workers /\ WorkerStep(th)
  <2>1. \A y \in Threads \ {th} : stack'[y] = stack[y]
    BY <1>2, WorkerStack DEF TaskInv
  <2>2. CASE x # th
    BY <2>1, <2>2
  <2>3. CASE x = th /\ (WorkerLoop(th) \/ WorkerExit(th))
    BY <2>3 DEF WorkerLoop, WorkerExit
  <2>4. CASE x = th /\ WorkerTake(th)
    <3> DEFINE job == Head(m_jobs)
               b == Body(job.task, 1)
               r == Frame("resume", job.task, 0, <<>>)
    <3>1. job \in Jobs
      BY <2>4 DEF WorkerTake, PoolOK, TaskInv
    <3>2. job.task \in Tasks /\ job.task \in Owners
      BY <3>1 DEF Jobs, Owners
    <3>3. b \in GoodFrames /\ r \in GoodFrames /\ Move(th, r)
      BY <3>2, BodyGood, LibraryGood
    <3>4. Move(th, b) /\ EntersBody(b) /\ r.at \in LibraryPoints
      BY <3>2, BodyGood, LibraryGood, PointNames DEF Move, EntersBody
    <3>5. stack'[th] \in {<<b>>, <<r>>, <<>>}
      BY <2>4 DEF WorkerTake, TaskInv, StackOK
    <3> HIDE DEF b, r
    <3>6. stack'[x][j] \in {b, r}
      <4>1. CASE stack'[th] = <<b>> BY <2>4, <4>1
      <4>2. CASE stack'[th] = <<r>> BY <2>4, <4>2
      <4>3. CASE stack'[th] = <<>> BY <2>4, <4>3
      <4> QED BY <3>5, <4>1, <4>2, <4>3
    <3> QED BY <2>4, <3>3, <3>4, <3>6
  <2> QED BY <1>2, <2>2, <2>3, <2>4 DEF WorkerStep
<1> QED BY <1>1, <1>2 DEF ThreadStep

-----------------------------------------------------------------------------
(* The counter of a task against the dependents lists.                     *)

\* Division by the modulus: quotient and remainder exist and are unique.
LEMMA Division ==
  ASSUME NEW x \in Int
  PROVE  /\ x \div Modulus \in Int /\ x % Modulus \in 0..(Modulus - 1)
         /\ x = Modulus * (x \div Modulus) + (x % Modulus)
<1>1. Modulus \in Nat \ {0}
  BY ModulusAssumption
<1> QED BY <1>1

\* The remainder is the one part below the modulus.
LEMMA Remainder ==
  ASSUME NEW q \in Int, NEW r \in 0..(Modulus - 1)
  PROVE  (Modulus * q + r) % Modulus = r
<1>1. Modulus \in Nat \ {0}
  BY ModulusAssumption
<1> QED BY <1>1

\* Counting up modulo 2^32.
LEMMA ModSucc ==
  ASSUME NEW x \in Int
  PROVE  (x + 1) % Modulus = IF x % Modulus = Modulus - 1 THEN 0 ELSE (x % Modulus) + 1
<1> DEFINE q == x \div Modulus
           r == x % Modulus
<1>1. Modulus \in Nat \ {0} /\ q \in Int /\ r \in 0..(Modulus - 1) /\ x = Modulus * q + r
  BY Division, ModulusAssumption
<1> HIDE DEF q, r
<1>2. CASE r = Modulus - 1
  <2>1. x + 1 = Modulus * (q + 1) + 0 /\ q + 1 \in Int /\ 0 \in 0..(Modulus - 1)
    BY <1>1, <1>2
  <2>2. (Modulus * (q + 1) + 0) % Modulus = 0
    BY <2>1, Remainder
  <2> QED BY <1>2, <2>1, <2>2 DEF r
<1>3. CASE r # Modulus - 1
  <2>1. x + 1 = Modulus * q + (r + 1) /\ r + 1 \in 0..(Modulus - 1)
    BY <1>1, <1>3
  <2>2. (Modulus * q + (r + 1)) % Modulus = r + 1
    BY <1>1, <2>1, Remainder
  <2> QED BY <1>3, <2>1, <2>2 DEF r
<1> QED BY <1>2, <1>3

\* Congruence is kept by counting up, by counting down and by adding the modulus.
LEMMA Congruence ==
  ASSUME NEW x \in Int, NEW y \in Int
  PROVE  /\ (x + 1) % Modulus = (y + 1) % Modulus <=> x % Modulus = y % Modulus
         /\ (x + Modulus) % Modulus = x % Modulus
<1>1. x % Modulus \in 0..(Modulus - 1) /\ y % Modulus \in 0..(Modulus - 1)
  BY Division
<1>2. (x + 1) % Modulus = (y + 1) % Modulus <=> x % Modulus = y % Modulus
  <2> DEFINE r == x % Modulus
             v == y % Modulus
  <2>1. /\ (x + 1) % Modulus = IF r = Modulus - 1 THEN 0 ELSE r + 1
        /\ (y + 1) % Modulus = IF v = Modulus - 1 THEN 0 ELSE v + 1
    BY ModSucc
  <2>2. r \in 0..(Modulus - 1) /\ v \in 0..(Modulus - 1) /\ Modulus \in Nat
    BY <1>1, ModulusAssumption
  <2> HIDE DEF r, v
  <2>3. (x + 1) % Modulus = (y + 1) % Modulus <=> r = v
    BY <2>1, <2>2
  <2> QED BY <2>3 DEF r, v
<1>3. (x + Modulus) % Modulus = x % Modulus
  <2> DEFINE q == x \div Modulus
             r == x % Modulus
  <2>1. Modulus \in Nat \ {0} /\ q \in Int /\ r \in 0..(Modulus - 1) /\ x = Modulus * q + r
    BY Division, ModulusAssumption
  <2> HIDE DEF q, r
  <2>2. x + Modulus = Modulus * (q + 1) + r /\ q + 1 \in Int
    BY <2>1
  <2>3. (Modulus * (q + 1) + r) % Modulus = r
    BY <2>1, <2>2, Remainder
  <2> QED BY <2>2, <2>3 DEF r
<1> QED BY <1>2, <1>3

\* fetch_add and fetch_sub of a counter c next to a further count u.
LEMMA CounterSteps ==
  ASSUME NEW c \in 0..(Modulus - 1), NEW u \in Nat
  PROVE  /\ (fetch_add(c) + u) % Modulus = (c + (u + 1)) % Modulus
         /\ (fetch_sub(c) + (u + 1)) % Modulus = (c + u) % Modulus
<1>1. Modulus \in Nat \ {0} /\ c \in Int /\ u \in Int
  BY ModulusAssumption
<1>2. fetch_add(c) = IF c = Modulus - 1 THEN 0 ELSE c + 1
  BY <1>1 DEF fetch_add
<1>3. fetch_sub(c) = IF c = 0 THEN Modulus - 1 ELSE c - 1
  BY <1>1 DEF fetch_sub
<1>4. (fetch_add(c) + u) % Modulus = (c + (u + 1)) % Modulus
  <2>1. CASE c = Modulus - 1
    <3>1. fetch_add(c) + u = u /\ c + (u + 1) = u + Modulus
      BY <1>1, <1>2, <2>1
    <3> QED BY <1>1, <3>1, Congruence
  <2>2. CASE c # Modulus - 1
    <3>1. fetch_add(c) + u = c + (u + 1)
      BY <1>1, <1>2, <2>2
    <3> QED BY <3>1
  <2> QED BY <2>1, <2>2
<1>5. (fetch_sub(c) + (u + 1)) % Modulus = (c + u) % Modulus
  <2>1. CASE c = 0
    <3>1. fetch_sub(c) + (u + 1) = (c + u) + Modulus
      BY <1>1, <1>3, <2>1
    <3>2. c + u \in Int
      BY <1>1
    <3> QED BY <3>1, <3>2, Congruence
  <2>2. CASE c # 0
    <3>1. fetch_sub(c) + (u + 1) = c + u
      BY <1>1, <1>3, <2>2
    <3> QED BY <3>1
  <2> QED BY <2>1, <2>2
<1> QED BY <1>4, <1>5

\* The places at which t is registered in the dependents lists `lists'.
Places(lists, t) ==
  {q \in Tasks \X Nat : q[2] \in 1..Len(lists[q[1]]) /\ lists[q[1]][q[2]] = t}

\* Registrations counts these places.
LEMMA PlacesMeaning ==
  ASSUME TasksOK, NEW t
  PROVE  Registrations(t) = Cardinality(Places(dependents, t))
<1>1. UNION {{<<d, i>> : i \in {j \in 1..Len(dependents[d]) : dependents[d][j] = t}} : d \in Tasks}
        = Places(dependents, t)
  <2> DEFINE R == UNION {{<<d, i>> : i \in {j \in 1..Len(dependents[d]) : dependents[d][j] = t}}
                           : d \in Tasks}
  <2>1. ASSUME NEW q \in R PROVE q \in Places(dependents, t)
    <3>1. PICK d \in Tasks : \E i \in 1..Len(dependents[d]) : dependents[d][i] = t /\ q = <<d, i>>
      BY <2>1
    <3>2. PICK i \in 1..Len(dependents[d]) : dependents[d][i] = t /\ q = <<d, i>>
      BY <3>1
    <3>3. i \in Nat /\ q[1] = d /\ q[2] = i
      BY <3>2
    <3> QED BY <3>2, <3>3 DEF Places
  <2>2. ASSUME NEW q \in Places(dependents, t) PROVE q \in R
    <3>1. /\ q[1] \in Tasks /\ q = <<q[1], q[2]>>
          /\ q[2] \in 1..Len(dependents[q[1]]) /\ dependents[q[1]][q[2]] = t
      BY <2>2 DEF Places
    <3> QED BY <3>1
  <2> QED BY <2>1, <2>2
<1> QED BY <1>1 DEF Registrations

AppendAt(lists, d, s) == [lists EXCEPT ![d] = Append(@, s)]

\* A registration adds one place.
LEMMA PlacesAppend ==
  ASSUME NEW lists \in [Tasks -> Seq(Tasks)], NEW d \in Tasks, NEW s \in Tasks, NEW t \in Tasks,
         NEW more, more = AppendAt(lists, d, s)
  PROVE  /\ t # s => Places(more, t) = Places(lists, t)
         /\ t = s => \E q : q \notin Places(lists, t) /\ Places(more, t) = Places(lists, t) \cup {q}
<1> DEFINE n == Len(lists[d])
           new == <<d, n + 1>>
<1>1. /\ n \in Nat /\ new \in Tasks \X Nat /\ new[1] = d /\ new[2] = n + 1
      /\ Len(more[d]) = n + 1 /\ more[d][n + 1] = s
      /\ \A i \in 1..n : more[d][i] = lists[d][i]
      /\ \A x \in Tasks \ {d} : more[x] = lists[x]
  BY DEF AppendAt
<1> HIDE DEF new
<1>2. \A q \in Tasks \X Nat : q[1] \in Tasks /\ q[2] \in Nat /\ q = <<q[1], q[2]>>
  OBVIOUS
<1>3. \A q \in Tasks \X Nat : q[1] = d /\ q[2] = n + 1 => q = new
  BY <1>2 DEF new
<1> HIDE DEF n
<1>4. ASSUME NEW q \in Tasks \X Nat
      PROVE  q \in Places(more, t) <=> q \in Places(lists, t) \/ (q = new /\ t = s)
  <2>1. CASE q[1] # d
    <3>1. more[q[1]] = lists[q[1]] /\ q # new
      BY <1>1, <1>2, <2>1
    <3> QED BY <3>1 DEF Places
  <2>2. CASE q[1] = d /\ q[2] = n + 1
    <3>1. q = new /\ q[2] \in 1..Len(more[d]) /\ q[2] \notin 1..Len(lists[d])
      <4>1. n \in Nat /\ Len(more[d]) = n + 1 /\ Len(lists[d]) = n
        BY <1>1 DEF n
      <4>2. q = new
        BY <1>3, <2>2
      <4> QED BY <2>2, <4>1, <4>2
    <3> QED BY <1>1, <2>2, <3>1 DEF Places
  <2>3. CASE q[1] = d /\ q[2] # n + 1
    <3>1. q # new /\ (q[2] \in 1..Len(more[d]) <=> q[2] \in 1..n) /\ n = Len(lists[d])
      BY <1>1, <1>2, <2>3 DEF n
    <3> QED BY <1>1, <2>3, <3>1 DEF Places
  <2> QED BY <2>1, <2>2, <2>3
<1>5. new \notin Places(lists, t)
  BY <1>1 DEF Places, n
<1>6. Places(more, t) \subseteq Tasks \X Nat /\ Places(lists, t) \subseteq Tasks \X Nat
  BY DEF Places
<1>7. CASE t # s
  <2>1. Places(more, t) = Places(lists, t)
    BY <1>4, <1>6, <1>7
  <2> QED BY <1>7, <2>1
<1>8. CASE t = s
  <2>1. Places(more, t) = Places(lists, t) \cup {new}
    BY <1>1, <1>4, <1>6, <1>8
  <2> QED BY <1>5, <1>8, <2>1
<1> QED BY <1>7, <1>8

TailAt(lists, d) == [lists EXCEPT ![d] = Tail(@)]

\* Taking the head of one list removes its place; the others move up.
LEMMA PlacesTail ==
  ASSUME NEW lists \in [Tasks -> Seq(Tasks)], NEW d \in Tasks, lists[d] # <<>>, NEW t \in Tasks,
         NEW fewer, fewer = TailAt(lists, d)
  PROVE  ExistsBijection(Places(lists, t) \ {<<d, 1>>}, Places(fewer, t))
<1> DEFINE S == Places(lists, t) \ {<<d, 1>>}
           T == Places(fewer, t)
           up(q) == IF q[1] = d THEN <<d, q[2] - 1>> ELSE q
           f == [q \in S |-> up(q)]
<1>1. /\ Len(fewer[d]) = Len(lists[d]) - 1 /\ Len(lists[d]) \in Nat \ {0}
      /\ \A i \in 1..(Len(lists[d]) - 1) : fewer[d][i] = lists[d][i + 1]
      /\ \A x \in Tasks \ {d} : fewer[x] = lists[x]
  BY DEF TailAt
<1>2. ASSUME NEW q \in S
      PROVE  /\ q[1] \in Tasks /\ q[2] \in Nat /\ q = <<q[1], q[2]>>
             /\ q[2] \in 1..Len(lists[q[1]]) /\ lists[q[1]][q[2]] = t
             /\ q[1] = d => q[2] > 1
  <2>1. q \in Tasks \X Nat /\ q # <<d, 1>>
    BY <1>2 DEF Places
  <2>2. q[1] \in Tasks /\ q[2] \in Nat /\ q = <<q[1], q[2]>>
    BY <2>1
  <2>3. q[2] \in 1..Len(lists[q[1]]) /\ lists[q[1]][q[2]] = t
    BY <1>2 DEF Places
  <2>4. q[1] = d => q[2] # 1
    BY <2>1, <2>2
  <2> QED BY <2>2, <2>3, <2>4
<1>3. ASSUME NEW q \in S PROVE up(q) \in T
  <2>1. CASE q[1] = d
    <3>1. q[2] - 1 \in 1..(Len(lists[d]) - 1) /\ q[2] - 1 + 1 = q[2]
      BY <1>1, <1>2, <2>1
    <3> DEFINE i == q[2] - 1
    <3>5. i \in 1..(Len(lists[d]) - 1) /\ lists[d][i + 1] = t
      BY <1>2, <2>1, <3>1
    <3> HIDE DEF i
    <3>6. fewer[d][i] = t /\ i \in 1..Len(fewer[d]) /\ i \in Nat
      BY <1>1, <3>5
    <3>2. fewer[d][q[2] - 1] = t /\ q[2] - 1 \in 1..Len(fewer[d]) /\ q[2] - 1 \in Nat
      BY <3>6 DEF i
    <3>3. up(q) = <<d, q[2] - 1>>
      BY <2>1
    <3> QED BY <3>2, <3>3 DEF Places
  <2>2. CASE q[1] # d
    BY <1>1, <1>2, <2>2 DEF Places
  <2> QED BY <2>1, <2>2
<1>4. ASSUME NEW p \in S, NEW q \in S, up(p) = up(q) PROVE p = q
  <2>1. CASE p[1] = d /\ q[1] = d
    <3>1. p[2] - 1 = q[2] - 1
      BY <1>4, <2>1
    <3>2. p[2] \in Nat /\ q[2] \in Nat /\ p = <<p[1], p[2]>> /\ q = <<q[1], q[2]>>
      BY <1>2
    <3>3. p[2] = q[2]
      BY <3>1, <3>2
    <3> QED BY <2>1, <3>2, <3>3
  <2>2. CASE p[1] # d /\ q[1] # d
    BY <1>4, <2>2
  <2>3. CASE p[1] = d /\ q[1] # d
    BY <1>2, <1>4, <2>3
  <2>4. CASE p[1] # d /\ q[1] = d
    BY <1>2, <1>4, <2>4
  <2> QED BY <2>1, <2>2, <2>3, <2>4
<1>5. ASSUME NEW r \in T PROVE \E q \in S : up(q) = r
  <2>1. r[1] \in Tasks /\ r[2] \in Nat /\ r = <<r[1], r[2]>> /\ r \in Tasks \X Nat
    BY <1>5 DEF Places
  <2>2. r[2] \in 1..Len(fewer[r[1]]) /\ fewer[r[1]][r[2]] = t
    BY <1>5 DEF Places
  <2>3. CASE r[1] = d
    <3> DEFINE q == <<d, r[2] + 1>>
    <3>1. q[1] = d /\ q[2] = r[2] + 1 /\ q \in Tasks \X Nat /\ q # <<d, 1>>
      BY <2>1, <2>2
    <3>5. r[2] \in 1..(Len(lists[d]) - 1) /\ fewer[d][r[2]] = t
      BY <1>1, <2>2, <2>3
    <3>6. lists[d][r[2] + 1] = t /\ r[2] + 1 \in 1..Len(lists[d])
      <4> DEFINE i == r[2]
      <4>1. i \in 1..(Len(lists[d]) - 1) /\ fewer[d][i] = t
        BY <3>5
      <4> HIDE DEF i
      <4>2. lists[d][i + 1] = t /\ i + 1 \in 1..Len(lists[d])
        BY <1>1, <4>1
      <4> QED BY <4>2 DEF i
    <3>2. q[2] \in 1..Len(lists[d]) /\ lists[d][q[2]] = t
      BY <3>1, <3>6
    <3>3. q \in S
      BY <3>1, <3>2 DEF Places
    <3>4. up(q) = r
      BY <2>1, <2>3, <3>1
    <3> QED BY <3>3, <3>4
  <2>4. CASE r[1] # d
    <3>1. r \in S
      BY <1>1, <2>1, <2>2, <2>4 DEF Places
    <3> QED BY <2>4, <3>1
  <2> QED BY <2>3, <2>4
<1> HIDE DEF S, T, up
<1>6. f \in [S -> T]
  BY <1>3
<1>7. f \in Injection(S, T)
  BY <1>4, <1>6 DEF Injection, IsInjective
<1>8. f \in Surjection(S, T)
  BY <1>5, <1>6 DEF Surjection
<1>9. ExistsBijection(S, T)
  BY <1>7, <1>8 DEF ExistsBijection, Bijection
<1> QED BY <1>9 DEF S, T

\* So the number of places falls by one for the head and stays for the others.
TailCount(lists, d, fewer, t) ==
  /\ IsFiniteSet(Places(fewer, t))
  /\ t = Head(lists[d]) => Cardinality(Places(lists, t)) = Cardinality(Places(fewer, t)) + 1
  /\ t # Head(lists[d]) => Cardinality(Places(lists, t)) = Cardinality(Places(fewer, t))

\* It does so.
LEMMA PlacesTailCount ==
  ASSUME NEW lists \in [Tasks -> Seq(Tasks)], NEW d \in Tasks, lists[d] # <<>>, NEW t \in Tasks,
         NEW fewer, fewer = TailAt(lists, d), IsFiniteSet(Places(lists, t))
  PROVE  TailCount(lists, d, fewer, t)
<1> DEFINE P == Places(lists, t)
           Q == Places(fewer, t)
           h == <<d, 1>>
<1>1. ExistsBijection(P \ {h}, Q) /\ IsFiniteSet(P)
  BY PlacesTail
<1>2. h \in P <=> t = Head(lists[d])
  <2>1. h \in Tasks \X Nat /\ h[1] = d /\ h[2] = 1 /\ 1 \in 1..Len(lists[d])
        /\ lists[d][1] = Head(lists[d])
    OBVIOUS
  <2> QED BY <2>1 DEF Places
<1> HIDE DEF P, Q, h
<1>3. /\ IsFiniteSet(P \ {h})
      /\ Cardinality(P \ {h}) = IF h \in P THEN Cardinality(P) - 1 ELSE Cardinality(P)
  BY <1>1, FS_RemoveElement
<1>4. IsFiniteSet(Q) /\ Cardinality(Q) = Cardinality(P \ {h})
  BY <1>1, <1>3, FS_Bijection
<1>5. Cardinality(P) \in Nat /\ Cardinality(Q) \in Nat
  BY <1>1, <1>4, FS_CardinalityType
<1> QED BY <1>2, <1>3, <1>4, <1>5 DEF P, Q, TailCount

\* The record below the innermost one.
LEMMA LastIndex ==
  ASSUME NEW m \in Nat \ {0}, m - 1 # 0
  PROVE  m - 1 \in 1..(m - 1)
OBVIOUS

\* Only records that wait for a nested resume() lie below another record.
NestInv == \A th \in Threads : \A j \in 1..(Len(stack[th]) - 1) : stack[th][j].at \in NestingPoints

\* A step changes the stack of its thread only, and the record that is innermost
\* afterwards is in fetch_add only if the step registered a dependent.
LEMMA TopStep ==
  ASSUME TaskInv, NestInv, NEW th \in Threads, ThreadStep(th)
  PROVE  /\ \A x \in Threads \ {th} : stack'[x] = stack[x]
         /\ NestInv'
         /\ At(th, "fetch_add")' => Registering(th)
<1>1. CASE ApiStep(th) \/ CompletionStep(th)
  <2>1. GoodGoto(th)
    BY <1>1, ApiGoto, CompletionGoto DEF TaskInv
  <2>2. PICK fs : Goto(th, fs) /\ GoodMoves(th, fs)
    BY <2>1 DEF GoodGoto
  <2>3. /\ \A y \in Threads \ {th} : stack'[y] = stack[y]
        /\ Len(stack'[th]) = Len(stack[th]) - 1 + Len(fs)
        /\ \A i \in 1..(Len(stack[th]) - 1) : stack'[th][i] = stack[th][i]
        /\ \A i \in 1..Len(fs) : stack'[th][Len(stack[th]) - 1 + i] = fs[i]
    BY <2>1, <2>2, GotoStack DEF GoodGoto, GoodMoves, TaskInv
  <2>4. Len(stack[th]) \in Nat \ {0} /\ Len(fs) \in Nat /\ stack[th] # <<>>
    BY <2>1, <2>2, TopGood DEF GoodGoto, GoodMoves, TaskInv
  <2>5. ASSUME NEW j \in 1..(Len(stack'[th]) - 1) PROVE stack'[th][j].at \in NestingPoints
    <3>1. CASE j \in 1..(Len(stack[th]) - 1)
      BY <2>3, <3>1 DEF NestInv
    <3>2. CASE j \notin 1..(Len(stack[th]) - 1)
      <4> DEFINE k == j - (Len(stack[th]) - 1)
      <4>1. j \in 1..(Len(stack[th]) - 1 + Len(fs)) /\ j <= Len(stack[th]) - 1 + Len(fs) - 1
        BY <2>3, <2>4
      <4>2. k \in 1..Len(fs) /\ j = Len(stack[th]) - 1 + k
        BY <2>4, <3>2, <4>1, ReplacedIndex
      <4>3. k \in 1..(Len(fs) - 1)
        BY <2>4, <4>1, <4>2
      <4> HIDE DEF k
      <4>4. stack'[th][j] = fs[k]
        BY <2>3, <4>2
      <4> QED BY <2>2, <4>3, <4>4 DEF GoodMoves
    <3> QED BY <3>1, <3>2
  <2>6. NestInv'
    BY <2>3, <2>5 DEF NestInv
  <2>7. ASSUME At(th, "fetch_add")' PROVE Registering(th)
    <3>1. stack'[th] # <<>> /\ stack'[th][Len(stack'[th])].at = "fetch_add"
      BY <2>7 DEF At, Top
    <3>2. CASE Len(fs) = 0
      <4>1. Len(stack'[th]) = Len(stack[th]) - 1
        BY <2>3, <2>4, <3>2
      <4>2. Len(stack[th]) - 1 # 0
        <5>1. StackOK'
          BY <2>1, <2>2, GotoStack DEF GoodGoto, GoodMoves, TaskInv
        <5>2. stack'[th] \in Seq(GoodFrames)
          BY <5>1 DEF StackOK
        <5>3. \A s \in Seq(GoodFrames) : s # <<>> => Len(s) # 0
          OBVIOUS
        <5>4. Len(stack'[th]) # 0
          BY <3>1, <5>2, <5>3
        <5> QED BY <4>1, <5>4
      <4>3. Len(stack[th]) - 1 \in 1..(Len(stack[th]) - 1)
        BY <2>4, <4>2, LastIndex
      <4>4. stack'[th][Len(stack[th]) - 1].at \in NestingPoints
        BY <2>3, <4>3 DEF NestInv
      <4> QED BY <3>1, <4>1, <4>4 DEF NestingPoints
    <3>3. CASE Len(fs) # 0
      <4>1. Len(fs) \in 1..Len(fs)
        BY <2>4, <3>3
      <4>2. stack'[th][Len(stack'[th])] = fs[Len(fs)] /\ Move(th, fs[Len(fs)])
        BY <2>2, <2>3, <4>1 DEF GoodMoves
      <4>3. fs[Len(fs)].at = "fetch_add"
        BY <3>1, <4>2
      <4>4. InsideACall(th, fs[Len(fs)])
        BY <4>2, <4>3, PointNames DEF Move, EntersBody, PassesCall, EndsBody, ContinuesBody
      <4> QED BY <4>3, <4>4 DEF InsideACall
    <3> QED BY <3>2, <3>3
  <2> QED BY <2>3, <2>4, <2>6, <2>7
<1>2. CASE th \in Workers /\ WorkerStep(th)
  <2>1. \A y \in Threads \ {th} : stack'[y] = stack[y]
    BY <1>2, WorkerStack DEF TaskInv
  <2>2. CASE WorkerLoop(th) \/ WorkerExit(th)
    BY <2>2 DEF WorkerLoop, WorkerExit, NestInv, At
  <2>3. CASE WorkerTake(th)
    <3> DEFINE b == Body(Head(m_jobs).task, 1)
               r == Frame("resume", Head(m_jobs).task, 0, <<>>)
    <3>1. b.at = "call" /\ r.at = "resume"
      BY DEF Body, Frame
    <3>2. stack'[th] \in {<<b>>, <<r>>, <<>>}
      BY <2>3 DEF WorkerTake, TaskInv, StackOK
    <3> HIDE DEF b, r
    <3>3. Len(stack'[th]) <= 1 /\ Len(stack'[th]) \in Nat
      <4>1. CASE stack'[th] = <<b>> BY <4>1
      <4>2. CASE stack'[th] = <<r>> BY <4>2
      <4>3. CASE stack'[th] = <<>> BY <4>3
      <4> QED BY <3>2, <4>1, <4>2, <4>3
    <3>4. ~At(th, "fetch_add")'
      <4>1. CASE stack'[th] = <<b>> BY <3>1, <4>1 DEF At, Top
      <4>2. CASE stack'[th] = <<r>> BY <3>1, <4>2 DEF At, Top
      <4>3. CASE stack'[th] = <<>> BY <4>3 DEF At
      <4> QED BY <3>2, <4>1, <4>2, <4>3
    <3>5. 1..(Len(stack'[th]) - 1) = {}
      BY <3>3
    <3>6. NestInv'
      BY <2>1, <3>5 DEF NestInv
    <3> QED BY <2>1, <3>4, <3>6
  <2> QED BY <1>2, <2>1, <2>2, <2>3 DEF WorkerStep
<1> QED BY <1>1, <1>2 DEF ThreadStep

\* The threads between a registration of t and its fetch_add.
InFlight(t) == {th \in Threads : At(th, "fetch_add") /\ Call(th).task = t}

\* Only th itself enters or leaves the set.
LEMMA InFlightOthers ==
  ASSUME TaskInv, NestInv, NEW th \in Threads, ThreadStep(th), NEW t
  PROVE  /\ InFlight(t)' \ {th} = InFlight(t) \ {th}
         /\ ~Registering(th) => th \notin InFlight(t)'
         /\ ~FetchAdd(th) => th \notin InFlight(t)
<1>1. \A x \in Threads \ {th} : stack'[x] = stack[x]
  BY TopStep
<1>2. \A x \in Threads \ {th} : x \in InFlight(t)' <=> x \in InFlight(t)
  BY <1>1 DEF InFlight, At, Call, Top
<1>3. InFlight(t)' \subseteq Threads /\ InFlight(t) \subseteq Threads
  BY DEF InFlight
<1>4. InFlight(t)' \ {th} = InFlight(t) \ {th}
  BY <1>2, <1>3
<1>5. ~Registering(th) => th \notin InFlight(t)'
  BY TopStep DEF InFlight
<1>6. ASSUME ~FetchAdd(th) PROVE ~At(th, "fetch_add")
  <2>1. CASE ApiStep(th)
    BY <1>6, <2>1 DEF ApiStep, AtCall, At, run, stop, join, run_async, schedule, Register,
              ScheduleEnd, await, add_continuation, await_suspend, resume, get, GetReturn, wait
  <2>2. CASE CompletionStep(th)
    BY <2>2 DEF CompletionStep, At, Throw, BodyEnd, on_completed, resume_continuations, Continue,
              ContinueEnd, Release, ReleaseEnd, Ready
  <2>3. CASE WorkerStep(th)
    BY <2>3 DEF WorkerStep, WorkerLoop, WorkerTake, WorkerExit, At
  <2> QED BY <2>1, <2>2, <2>3 DEF ThreadStep
<1> QED BY <1>4, <1>5, <1>6 DEF InFlight

\* Which actions change the counters and the lists.
LEMMA QuietCounters ==
  ASSUME NEW th \in Threads, ThreadStep(th), ~Register(th), ~FetchAdd(th), ~Release(th)
  PROVE  /\ pendingDependencies' = pendingDependencies /\ dependents' = dependents
         /\ ~Registering(th)
<1>1. pendingDependencies' = pendingDependencies /\ dependents' = dependents
  <2>1. CASE ApiStep(th)
    BY <2>1 DEF ApiStep, taskVars, run, stop, join, run_async, schedule,
              ScheduleEnd, await, add_continuation, await_suspend, resume, get, GetReturn, wait
  <2>2. CASE CompletionStep(th)
    BY <2>2 DEF CompletionStep, taskVars, Throw, BodyEnd, on_completed, resume_continuations,
              Continue, ContinueEnd, ReleaseEnd, Ready
  <2>3. CASE WorkerStep(th)
    BY <2>3 DEF WorkerStep, WorkerLoop, WorkerTake, WorkerExit, taskVars
  <2> QED BY <2>1, <2>2, <2>3 DEF ThreadStep
<1>2. ~Registering(th)
  <2>1. CASE ApiStep(th)
    BY <2>1 DEF ApiStep, AtCall, At, Registering, Register, MustWait, run, stop, join, run_async,
              schedule, ScheduleEnd, await, add_continuation, await_suspend, resume, get,
              GetReturn, wait
  <2>2. CASE CompletionStep(th)
    BY <2>2 DEF CompletionStep, At, Registering, Throw, BodyEnd, on_completed,
              resume_continuations, Continue, ContinueEnd, ReleaseEnd, Ready
  <2>3. CASE WorkerStep(th)
    BY <2>3 DEF WorkerStep, WorkerLoop, WorkerTake, WorkerExit, At, Registering
  <2> QED BY <2>1, <2>2, <2>3 DEF ThreadStep
<1> QED BY <1>1, <1>2

\* CounterMatchesRegistrations for one task, with the sets it counts.
Counted(t) ==
  /\ IsFiniteSet(Places(dependents, t)) /\ IsFiniteSet(InFlight(t))
  /\ (pendingDependencies[t] + Cardinality(InFlight(t))) % Modulus
       = Cardinality(Places(dependents, t)) % Modulus
CountInv == \A t \in Tasks : Counted(t)

\* One registration more on both sides.
LEMMA CountRegister ==
  ASSUME TaskInv, NestInv, NEW th \in Threads, Register(th), NEW t \in Tasks, Counted(t)
  PROVE  Counted(t)'
<1> DEFINE d == Head(Top(th).list)
           s == Call(th).task
<1>1. ThreadStep(th) /\ pendingDependencies' = pendingDependencies
  BY DEF ThreadStep, ApiStep, Register
<1>2. stack[th] # <<>> /\ Top(th).at = "register" /\ Top(th).list # <<>>
  BY DEF Register, At
<1>3. Top(th) \in GoodFrames /\ Top(th) \in Frames /\ Top(th).list \in Seq(Tasks)
  BY <1>2, TopGood, FrameFields DEF TaskInv
<1>4. d \in Tasks /\ s \in Tasks
  BY <1>2, <1>3, InsideCall, PointNames DEF TaskInv
<1>5. ~FetchAdd(th)
  BY <1>2 DEF FetchAdd, At
<1>6. InFlight(t)' \ {th} = InFlight(t) \ {th} /\ th \notin InFlight(t)
  BY <1>1, <1>5, InFlightOthers
<1>7. CASE ~MustWait(d)
  <2>1. dependents' = dependents
    BY <1>7 DEF Register
  <2>2. InFlight(t)' = InFlight(t)
    BY <1>1, <1>6, <1>7, InFlightOthers DEF Registering
  <2> QED BY <1>1, <2>1, <2>2 DEF Counted
<1>8. CASE MustWait(d)
  <2> DEFINE h == [Top(th) EXCEPT !.list = Tail(@), !.at = "fetch_add"]
  <2>1. dependents' = [dependents EXCEPT ![d] = Append(@, s)] /\ Goto(th, <<h>>)
    BY <1>8 DEF Register
  <2>2. h.at = "fetch_add" /\ h.who = Top(th).who /\ h.pc = Top(th).pc
    BY <1>3 DEF Frames
  <2> HIDE DEF d, s
  <2>6. dependents \in [Tasks -> Seq(Tasks)]
    BY DEF TaskInv, TasksOK
  <2>3. th \in InFlight(t)' <=> t = s
    <3>1. stack'[th] # <<>> /\ Top(th)' = h
      <4>1. Fits("fetch_add", Top(th).who, Top(th).pc, Tail(Top(th).list))
        BY <1>2, <1>3, FrameFields, PointNames DEF Fits
      <4>2. h = [Top(th) EXCEPT !.at = "fetch_add", !.list = Tail(Top(th).list)]
        BY <1>3 DEF Frames
      <4>3. Tail(Top(th).list) \in Seq(Tasks)
        BY <1>2, <1>3
      <4>4. h \in Moved(Top(th), "fetch_add", Tail(Top(th).list))
        BY <1>3, <4>1, <4>2, <4>3, RelistMoveGood, Zenon
      <4>5. h \in GoodFrames
        BY <4>4 DEF Moved
      <4> HIDE DEF h
      <4> QED BY <1>2, <2>1, <4>5, GotoTop DEF TaskInv
    <3>2. Call(th)' = Call(th)
      BY <2>2, <3>1 DEF Call
    <3> QED BY <2>2, <3>1, <3>2 DEF InFlight, At, s
  <2>7. PICK more : more = AppendAt(dependents, d, s)
    OBVIOUS
  <2>8. dependents' = more
    BY <2>1, <2>7 DEF AppendAt
  <2>9. /\ t # s => Places(more, t) = Places(dependents, t)
        /\ t = s => \E q : q \notin Places(dependents, t)
                            /\ Places(more, t) = Places(dependents, t) \cup {q}
    BY <1>4, <2>6, <2>7, PlacesAppend, SMTT(30)
  <2>4. CASE t # s
    <3>1. Places(dependents', t) = Places(dependents, t)
      BY <2>4, <2>8, <2>9
    <3>2. InFlight(t)' = InFlight(t)
      BY <1>6, <2>3, <2>4
    <3> QED BY <1>1, <3>1, <3>2 DEF Counted
  <2>5. CASE t = s
    <3> DEFINE c == pendingDependencies[t]
               U == InFlight(t)
               V == InFlight(t)'
               P == Places(dependents, t)
               Q == Places(dependents', t)
    <3>1. V = U \cup {th} /\ th \notin U
      BY <1>6, <2>3, <2>5
    <3>2. PICK q : q \notin P /\ Q = P \cup {q}
      BY <2>5, <2>8, <2>9
    <3>3. /\ IsFiniteSet(U) /\ IsFiniteSet(P)
          /\ (c + Cardinality(U)) % Modulus = Cardinality(P) % Modulus
      BY DEF Counted
    <3>4. c \in Int
      BY ModulusAssumption DEF TaskInv, TasksOK
    <3>5. pendingDependencies'[t] = c
      BY <1>1
    <3>10. (IsFiniteSet(V) /\ IsFiniteSet(Q) /\ (c + Cardinality(V)) % Modulus = Cardinality(Q) % Modulus)
             => Counted(t)'
      BY <3>5 DEF Counted
    <3> HIDE DEF c, U, V, P, Q
    <3>6. IsFiniteSet(V) /\ Cardinality(V) = Cardinality(U) + 1
      BY <3>1, <3>3, FS_AddElement
    <3>7. IsFiniteSet(Q) /\ Cardinality(Q) = Cardinality(P) + 1
      BY <3>2, <3>3, FS_AddElement
    <3>8. /\ Cardinality(U) \in Nat /\ Cardinality(P) \in Nat /\ c + Cardinality(U) \in Int
          /\ Cardinality(P) \in Int
          /\ c + Cardinality(V) = (c + Cardinality(U)) + 1
      BY <3>3, <3>4, <3>6, FS_CardinalityType
    <3>9. (c + Cardinality(V)) % Modulus = Cardinality(Q) % Modulus
      BY <3>3, <3>7, <3>8, Congruence
    <3> QED BY <3>6, <3>7, <3>9, <3>10
  <2> QED BY <2>4, <2>5
<1> QED BY <1>7, <1>8

\* fetch_add: the registration is in the counter instead of in flight.
LEMMA CountFetchAdd ==
  ASSUME TaskInv, NestInv, NEW th \in Threads, FetchAdd(th), NEW t \in Tasks, Counted(t)
  PROVE  Counted(t)'
<1> DEFINE s == Call(th).task
<1>1. ThreadStep(th) /\ dependents' = dependents /\ At(th, "fetch_add")
  BY DEF ThreadStep, ApiStep, FetchAdd
<1>2. stack[th] # <<>> /\ Top(th).at = "fetch_add"
  BY <1>1 DEF At
<1>3. s \in Tasks
  BY <1>2, InsideCall, PointNames DEF TaskInv
<1>4. pendingDependencies' = [pendingDependencies EXCEPT ![s] = fetch_add(@)]
  BY DEF FetchAdd
<1>5. ~Registering(th)
  BY <1>2 DEF Registering, At
<1>6. InFlight(t)' \ {th} = InFlight(t) \ {th} /\ th \notin InFlight(t)'
  BY <1>1, <1>5, InFlightOthers
<1>7. th \in InFlight(t) <=> t = s
  BY <1>1 DEF InFlight
<1>8. pendingDependencies \in [Tasks -> 0..(Modulus - 1)]
  BY DEF TaskInv, TasksOK
<1> HIDE DEF s
<1>9. CASE t # s
  <2>1. pendingDependencies'[t] = pendingDependencies[t]
    BY <1>4, <1>8, <1>9
  <2>2. InFlight(t)' = InFlight(t)
    BY <1>6, <1>7, <1>9
  <2> QED BY <1>1, <2>1, <2>2 DEF Counted
<1>10. CASE t = s
  <2> DEFINE c == pendingDependencies[t]
             U == InFlight(t)
             V == InFlight(t)'
             P == Places(dependents, t)
  <2>1. U = V \cup {th} /\ th \notin V /\ V = U \ {th}
    BY <1>6, <1>7, <1>10
  <2>2. /\ IsFiniteSet(U) /\ IsFiniteSet(P)
        /\ (c + Cardinality(U)) % Modulus = Cardinality(P) % Modulus
    BY DEF Counted
  <2>3. c \in 0..(Modulus - 1) /\ pendingDependencies'[t] = fetch_add(c)
    BY <1>4, <1>8, <1>10
  <2>4. /\ IsFiniteSet(V)
        /\ (fetch_add(c) + Cardinality(V)) % Modulus = Cardinality(P) % Modulus
        => Counted(t)'
    BY <1>1, <2>2, <2>3 DEF Counted
  <2> HIDE DEF c, U, V, P
  <2>5. IsFiniteSet(V)
    BY <2>1, <2>2, FS_RemoveElement
  <2>6. Cardinality(U) = Cardinality(V) + 1 /\ Cardinality(V) \in Nat
    BY <2>1, <2>5, FS_AddElement, FS_CardinalityType
  <2>7. (fetch_add(c) + Cardinality(V)) % Modulus = (c + (Cardinality(V) + 1)) % Modulus
    BY <2>3, <2>6, CounterSteps
  <2>8. (fetch_add(c) + Cardinality(V)) % Modulus = Cardinality(P) % Modulus
    BY <2>2, <2>6, <2>7
  <2> QED BY <2>4, <2>5, <2>8
<1> QED BY <1>9, <1>10

\* fetch_sub: the registration leaves the list and the counter.
LEMMA CountRelease ==
  ASSUME TaskInv, NestInv, NEW th \in Threads, Release(th), NEW t \in Tasks, Counted(t)
  PROVE  Counted(t)'
<1> DEFINE u == Top(th).who
           s == Head(dependents[u])
<1>1. ThreadStep(th) /\ At(th, "on_task_finished") /\ dependents[u] # <<>>
  BY DEF ThreadStep, CompletionStep, Release
<1>2. stack[th] # <<>> /\ Top(th).at = "on_task_finished"
  BY <1>1 DEF At
<1>3. u \in Tasks
  BY <1>2, LibraryTask, PointNames DEF TaskInv
<1>4. /\ pendingDependencies' = [pendingDependencies EXCEPT ![s] = fetch_sub(@)]
      /\ dependents' = [dependents EXCEPT ![u] = Tail(@)]
  BY DEF Release
<1>5. ~Registering(th) /\ ~FetchAdd(th)
  BY <1>2 DEF Registering, FetchAdd, At
<1>6. InFlight(t)' = InFlight(t)
  <2>1. InFlight(t)' \ {th} = InFlight(t) \ {th} /\ th \notin InFlight(t)' /\ th \notin InFlight(t)
    BY <1>1, <1>5, InFlightOthers
  <2> QED BY <2>1
<1>7. /\ pendingDependencies \in [Tasks -> 0..(Modulus - 1)]
      /\ dependents \in [Tasks -> Seq(Tasks)]
  BY DEF TaskInv, TasksOK
<1> DEFINE c == pendingDependencies[t]
           U == InFlight(t)
           P == Places(dependents, t)
           Q == Places(dependents', t)
<1>8. /\ IsFiniteSet(U) /\ IsFiniteSet(P)
      /\ (c + Cardinality(U)) % Modulus = Cardinality(P) % Modulus
  BY DEF Counted
<1>9. PICK fewer : fewer = TailAt(dependents, u)
  OBVIOUS
<1>10. dependents' = fewer
  BY <1>4, <1>9 DEF TailAt
<1>11. /\ IsFiniteSet(Places(fewer, t))
       /\ t = Head(dependents[u]) =>
            Cardinality(Places(dependents, t)) = Cardinality(Places(fewer, t)) + 1
       /\ t # Head(dependents[u]) =>
            Cardinality(Places(dependents, t)) = Cardinality(Places(fewer, t))
  <2>1. IsFiniteSet(Places(dependents, t))
    BY <1>8
  <2> HIDE DEF s, c, U, P, Q, u
  <2>2. TailCount(dependents, u, fewer, t)
    BY <1>1, <1>3, <1>7, <1>9, <2>1, PlacesTailCount
  <2> QED BY <2>2 DEF TailCount
<1>12. /\ IsFiniteSet(Q) /\ (t = s => Cardinality(P) = Cardinality(Q) + 1)
       /\ (t # s => Cardinality(P) = Cardinality(Q))
  BY <1>10, <1>11
<1>13. (pendingDependencies'[t] + Cardinality(U)) % Modulus = Cardinality(Q) % Modulus => Counted(t)'
  BY <1>6, <1>8, <1>12 DEF Counted
<1> HIDE DEF s, c, U, P, Q
<1>14. CASE t # s
  <2>1. pendingDependencies'[t] = c
    BY <1>4, <1>7, <1>14 DEF c
  <2> QED BY <1>8, <1>12, <1>13, <1>14, <2>1
<1>15. CASE t = s
  <2>1. c \in 0..(Modulus - 1) /\ pendingDependencies'[t] = fetch_sub(c)
    BY <1>4, <1>7, <1>15 DEF c
  <2>2. Cardinality(U) \in Nat /\ Cardinality(Q) \in Nat /\ fetch_sub(c) \in Int
    BY <1>8, <1>12, <2>1, FS_CardinalityType, CounterRange, ModulusAssumption
  <2>3. (fetch_sub(c) + (Cardinality(U) + 1)) % Modulus = (c + Cardinality(U)) % Modulus
    BY <2>1, <2>2, CounterSteps
  <2>4. /\ fetch_sub(c) + (Cardinality(U) + 1) = (fetch_sub(c) + Cardinality(U)) + 1
        /\ fetch_sub(c) + Cardinality(U) \in Int /\ Cardinality(Q) \in Int
    BY <2>2
  <2>5. ((fetch_sub(c) + Cardinality(U)) + 1) % Modulus = (Cardinality(Q) + 1) % Modulus
    BY <1>8, <1>12, <1>15, <2>3, <2>4
  <2>6. (fetch_sub(c) + Cardinality(U)) % Modulus = Cardinality(Q) % Modulus
    BY <2>4, <2>5, Congruence
  <2> QED BY <1>13, <2>1, <2>6
<1> QED BY <1>14, <1>15

\* Every step keeps the balance.
LEMMA CountStep == TaskInv /\ NestInv /\ CountInv /\ [Next]_vars => NestInv' /\ CountInv'
<1> SUFFICES ASSUME TaskInv, NestInv, CountInv, [Next]_vars PROVE NestInv' /\ CountInv'
  OBVIOUS
<1>1. CASE UNCHANGED vars
  BY <1>1 DEF vars, taskVars, NestInv, CountInv, Counted, InFlight, At, Call, Top
<1>2. ASSUME NEW th \in Threads, ThreadStep(th) PROVE NestInv' /\ CountInv'
  <2>1. NestInv'
    BY <1>2, TopStep
  <2>2. ASSUME NEW t \in Tasks PROVE Counted(t)'
    <3>1. Counted(t)
      BY DEF CountInv
    <3>2. CASE Register(th)
      BY <3>1, <3>2, CountRegister
    <3>3. CASE FetchAdd(th)
      BY <3>1, <3>3, CountFetchAdd
    <3>4. CASE Release(th)
      BY <3>1, <3>4, CountRelease
    <3>5. CASE ~Register(th) /\ ~FetchAdd(th) /\ ~Release(th)
      <4>1. /\ pendingDependencies' = pendingDependencies /\ dependents' = dependents
            /\ ~Registering(th)
        BY <1>2, <3>5, QuietCounters
      <4>2. InFlight(t)' = InFlight(t)
        BY <1>2, <3>5, <4>1, InFlightOthers
      <4> QED BY <3>1, <4>1, <4>2 DEF Counted
    <3> QED BY <3>2, <3>3, <3>4, <3>5
  <2> QED BY <2>1, <2>2 DEF CountInv
<1> QED BY <1>1, <1>2 DEF Next

\* At the start nothing is registered.
LEMMA CountStart == Init => NestInv /\ CountInv
<1> SUFFICES ASSUME Init PROVE NestInv /\ CountInv
  OBVIOUS
<1>1. \A th \in Threads : stack[th] \in {<<>>, <<Body(th, 1)>>}
  BY DEF Init
<1>2. ASSUME NEW th \in Threads PROVE 1..(Len(stack[th]) - 1) = {} /\ ~At(th, "fetch_add")
  <2>1. CASE stack[th] = <<>> BY <2>1 DEF At
  <2>2. CASE stack[th] = <<Body(th, 1)>> BY <2>2 DEF At, Top, Body, Frame
  <2> QED BY <1>1, <2>1, <2>2
<1>3. NestInv
  BY <1>2 DEF NestInv
<1>4. ASSUME NEW t \in Tasks PROVE Counted(t)
  <2>1. InFlight(t) = {} /\ Places(dependents, t) = {} /\ pendingDependencies[t] = 0
    BY <1>2 DEF Init, InFlight, Places
  <2>2. IsFiniteSet({}) /\ Cardinality({}) = 0
    BY FS_EmptySet
  <2> QED BY <2>1, <2>2 DEF Counted
<1> QED BY <1>3, <1>4 DEF CountInv

\* The sets of CountInv are those the property counts.
LEMMA CountMeaning == TaskInv /\ CountInv => CounterMatchesRegistrations
<1> SUFFICES ASSUME TaskInv, CountInv, NEW t \in Tasks
             PROVE  (pendingDependencies[t] + Uncounted(t)) % Modulus = Registrations(t) % Modulus
  BY DEF CounterMatchesRegistrations
<1>1. Registrations(t) = Cardinality(Places(dependents, t)) /\ Uncounted(t) = Cardinality(InFlight(t))
  BY PlacesMeaning DEF TaskInv, Uncounted, InFlight
<1> QED BY <1>1 DEF CountInv, Counted

\* schedule() against on_task_finished (Task.h:541-553, TaskScheduler.cpp:112-118):
\* the unsigned counter equals the number of registrations in the dependents
\* lists, less those whose fetch_add is still to come, modulo its range. It holds
\* for every program and every order of registrations and completions, the ones
\* included that make the counter wrap below zero.
THEOREM CountersAlways == Spec => []CounterMatchesRegistrations
<1>1. Spec => [](TaskInv /\ NestInv /\ CountInv)
  BY InitInv, StepInv, CountStart, CountStep, PTL DEF Spec
<1> QED BY <1>1, CountMeaning, PTL

-----------------------------------------------------------------------------
(* Dependents are released when the tasks they depend on were scheduled.   *)

\* Each body and each client names as dependencies only tasks it has scheduled or
\* started itself, in earlier calls.
OrderedPrograms ==
  \A p \in Owners : \A k \in DOMAIN Program[p] : Program[p][k].op = "schedule" =>
    \A d \in Tasks : (\E j \in DOMAIN Program[p][k].deps : Program[p][k].deps[j] = d) =>
      \E i \in 1..(k - 1) : Program[p][i].op \in {"schedule", "run_async"} /\ Program[p][i].task = d

\* The tasks that p schedules or starts before call k have a scheduler.
Announced(p, k) ==
  k \in DOMAIN Program[p] =>
    \A i \in 1..(k - 1) : Program[p][i].op \in {"schedule", "run_async"} => scheduler[Program[p][i].task]

\* What holds of a record of a body, and inside schedule().
RecordAnnounced(f) ==
  /\ f.at \in BodyPoints => Announced(f.who, f.pc)
  /\ f.at \in {"register", "fetch_add"} =>
       /\ scheduler[Program[f.who][f.pc].task]
       /\ \A j \in 1..Len(f.list) : scheduler[f.list[j]]

AnnounceInv ==
  /\ \A th \in Threads : \A j \in 1..Len(stack[th]) : RecordAnnounced(stack[th][j])
  /\ \A t \in Tasks : suspendedAt[t] # 0 =>
       /\ suspendedAt[t] \in DOMAIN Program[t] /\ Program[t][suspendedAt[t]].op = "await"
       /\ Announced(t, suspendedAt[t])
  /\ \A d \in Tasks : dependents[d] # <<>> => scheduler[d]

\* A scheduler is never taken away from a task.
LEMMA SchedulerStays ==
  ASSUME TaskInv, NEW th \in Threads, ThreadStep(th), NEW t \in Tasks, scheduler[t]
  PROVE  scheduler'[t]
<1>1. scheduler \in [Tasks -> BOOLEAN]
  BY DEF TaskInv, TasksOK
<1>2. CASE run_async(th) \/ schedule(th)
  BY <1>1, <1>2 DEF run_async, schedule
<1>3. CASE ApiStep(th) /\ ~run_async(th) /\ ~schedule(th)
  BY <1>3 DEF ApiStep, taskVars, run, stop, join, Register, FetchAdd,
              ScheduleEnd, await, add_continuation, await_suspend, resume, get, GetReturn, wait
<1>4. CASE CompletionStep(th)
  BY <1>4 DEF CompletionStep, taskVars, Throw, BodyEnd, on_completed, resume_continuations,
              Continue, ContinueEnd, Release, ReleaseEnd, Ready
<1>5. CASE WorkerStep(th)
  BY <1>5 DEF WorkerStep, WorkerLoop, WorkerTake, WorkerExit, taskVars
<1> QED BY <1>2, <1>3, <1>4, <1>5 DEF ThreadStep

\* The calls of the program name tasks.
LEMMA CallTask ==
  ASSUME NEW p \in Owners, NEW i \in DOMAIN Program[p]
  PROVE  /\ Program[p][i].task \in Tasks /\ Program[p][i].deps \in Seq(Tasks)
         /\ i \in Nat \ {0} /\ \A k \in 1..i : k \in DOMAIN Program[p]
<1>1. Program[p] \in Seq(Calls)
  BY ProgramAssumption
<1>2. Program[p][i] \in Calls /\ i \in Nat \ {0} /\ \A k \in 1..i : k \in DOMAIN Program[p]
  BY <1>1
<1> QED BY <1>2 DEF Calls

\* What is announced stays announced.
LEMMA AnnouncedStays ==
  ASSUME TaskInv, NEW th \in Threads, ThreadStep(th), NEW p \in Owners, NEW k, Announced(p, k)
  PROVE  Announced(p, k)'
<1> SUFFICES ASSUME k \in DOMAIN Program[p], NEW i \in 1..(k - 1),
                    Program[p][i].op \in {"schedule", "run_async"}
             PROVE  scheduler'[Program[p][i].task]
  BY DEF Announced
<1>1. k \in Nat \ {0} /\ i \in 1..k
  BY CallTask
<1>2. i \in DOMAIN Program[p]
  BY <1>1, CallTask
<1>3. Program[p][i].task \in Tasks
  BY <1>2, CallTask
<1>4. scheduler[Program[p][i].task]
  BY DEF Announced
<1> QED BY <1>3, <1>4, SchedulerStays

\* What a record relies on goes on holding: announcements are never withdrawn.
LEMMA RecordStays ==
  ASSUME TaskInv, NEW th \in Threads, ThreadStep(th), NEW f \in GoodFrames, RecordAnnounced(f)
  PROVE  RecordAnnounced(f)'
<1>1. f.who \in Owners /\ f.list \in Seq(Tasks)
  BY FrameFields
<1>2. f.at \in BodyPoints => Announced(f.who, f.pc)'
  BY <1>1, AnnouncedStays DEF RecordAnnounced
<1>3. ASSUME f.at \in {"register", "fetch_add"}
      PROVE  /\ scheduler'[Program[f.who][f.pc].task]
             /\ \A j \in 1..Len(f.list) : scheduler'[f.list[j]]
  <2>1. f.pc \in DOMAIN Program[f.who]
    BY <1>3, FrameFields, PointNames DEF Fits
  <2>2. Program[f.who][f.pc].task \in Tasks /\ \A j \in 1..Len(f.list) : f.list[j] \in Tasks
    BY <1>1, <2>1, CallTask
  <2> QED BY <1>3, <2>2, SchedulerStays DEF RecordAnnounced
<1> QED BY <1>2, <1>3 DEF RecordAnnounced

\* A record that replaces the innermost one is announced as well.
LEMMA RecordMoves ==
  ASSUME TaskInv, AnnounceInv, OrderedPrograms, NEW th \in Threads, ThreadStep(th),
         NEW g \in GoodFrames, Move(th, g),
         stack[th] = <<>> => g.at \in LibraryPoints \/ EntersBody(g)
  PROVE  RecordAnnounced(g)'
<1> DEFINE f == Top(th)
           p == f.who
           k == f.pc
<1>0. g.who \in Owners /\ g.pc \in Nat
  BY FrameFields
<1>1. CASE g.at \in LibraryPoints
  <2>1. g.at \notin BodyPoints
    BY <1>1 DEF LibraryPoints
  <2> QED BY <2>1 DEF RecordAnnounced, BodyPoints
<1>2. CASE EntersBody(g)
  BY <1>2 DEF EntersBody, RecordAnnounced, Announced
<1>3. CASE EndsBody(g)
  <2>1. g.pc \notin DOMAIN Program[g.who]
    BY <1>0, <1>3, ProgramAssumption DEF EndsBody
  <2> QED BY <1>3, <2>1 DEF EndsBody, RecordAnnounced, Announced
<1>4. ASSUME stack[th] # <<>>, InsideACall(th, g) \/ PassesCall(th, g) \/ ContinuesBody(th, g)
      PROVE  RecordAnnounced(g)'
  <2>1. f \in GoodFrames /\ p \in Owners /\ k \in Nat /\ f.list \in Seq(Tasks)
    BY <1>4, TopGood, FrameFields DEF TaskInv
  <2>2. RecordAnnounced(f)
    <3>1. Len(stack[th]) \in 1..Len(stack[th]) /\ f = stack[th][Len(stack[th])]
      BY <1>4, TopGood DEF Top, TaskInv
    <3> QED BY <3>1 DEF AnnounceInv
  <2>3. CASE InsideACall(th, g)
    <3>1. g.who = p /\ g.pc = k /\ f.at \in BodyPoints /\ g.at \in InsidePoints
      BY <2>3 DEF InsideACall
    <3>2. Announced(p, k) /\ k \in DOMAIN Program[p]
      BY <2>2, <3>1, FrameFields DEF RecordAnnounced, Fits
    <3>3. Announced(g.who, g.pc)'
      BY <2>1, <3>1, <3>2, AnnouncedStays
    <3>4. ASSUME g.at \in {"register", "fetch_add"}
          PROVE  /\ scheduler'[Program[g.who][g.pc].task]
                 /\ \A j \in 1..Len(g.list) : scheduler'[g.list[j]]
      <4>1. ListStep(th, g)
        BY <2>3, <3>4 DEF InsideACall
      <4>2. CASE AtCall(th, "schedule") /\ scheduler'[Call(th).task] /\ g.list = Call(th).deps
        <5>1. Call(th) = Program[p][k] /\ Program[p][k].op = "schedule"
          BY <4>2 DEF AtCall, Call
        <5>2. Program[p][k].deps \in Seq(Tasks)
          BY <2>1, <3>2, CallTask
        <5>3. ASSUME NEW j \in 1..Len(g.list) PROVE scheduler'[g.list[j]]
          <6>1. j \in DOMAIN Program[p][k].deps /\ Program[p][k].deps[j] \in Tasks
                /\ g.list[j] = Program[p][k].deps[j]
            BY <4>2, <5>1, <5>2
          <6>2. PICK i \in 1..(k - 1) : /\ Program[p][i].op \in {"schedule", "run_async"}
                                        /\ Program[p][i].task = g.list[j]
            BY <2>1, <3>2, <5>1, <6>1 DEF OrderedPrograms
          <6>3. scheduler[g.list[j]]
            BY <3>2, <6>2 DEF Announced
          <6> QED BY <6>1, <6>3, SchedulerStays
        <5> QED BY <3>1, <4>2, <5>1, <5>3
      <4>3. CASE f.at \in {"register", "fetch_add"}
                 /\ (g.list = f.list \/ (f.list # <<>> /\ g.list = Tail(f.list)))
        <5>1. \A j \in 1..Len(g.list) : \E m \in 1..Len(f.list) : g.list[j] = f.list[m]
          <6>1. CASE g.list = f.list
            BY <2>1, <6>1
          <6>2. CASE f.list # <<>> /\ g.list = Tail(f.list)
            <7>1. /\ Len(Tail(f.list)) = Len(f.list) - 1 /\ Len(f.list) \in Nat \ {0}
                  /\ \A j \in 1..(Len(f.list) - 1) : Tail(f.list)[j] = f.list[j + 1]
              BY <2>1, <6>2
            <7>2. \A j \in 1..(Len(f.list) - 1) : j + 1 \in 1..Len(f.list)
              BY <7>1
            <7> QED BY <6>2, <7>1, <7>2
          <6> QED BY <4>3, <6>1, <6>2
        <5>2. \A m \in 1..Len(f.list) : scheduler[f.list[m]] /\ f.list[m] \in Tasks
          BY <2>1, <2>2, <4>3 DEF RecordAnnounced
        <5>3. scheduler[Program[p][k].task] /\ Program[p][k].task \in Tasks
          BY <2>1, <2>2, <3>2, <4>3, CallTask DEF RecordAnnounced
        <5> QED BY <3>1, <5>1, <5>2, <5>3, SchedulerStays
      <4> QED BY <4>1, <4>2, <4>3 DEF ListStep
    <3> QED BY <3>3, <3>4 DEF RecordAnnounced
  <2>4. CASE PassesCall(th, g)
    <3>1. /\ g.at = "call" /\ g.who = p /\ g.pc = k + 1 /\ f.at \in BodyPoints
          /\ k \in DOMAIN Program[p] /\ Passable(th)
      BY <2>4 DEF PassesCall
    <3>2. Announced(p, k)
      BY <2>2, <3>1 DEF RecordAnnounced
    <3>3. ASSUME NEW i \in 1..k, Program[p][i].op \in {"schedule", "run_async"}
          PROVE  scheduler'[Program[p][i].task]
      <4>1. Program[p][i].task \in Tasks
        BY <2>1, <3>1, CallTask
      <4>2. CASE i # k
        <5>1. i \in 1..(k - 1)
          BY <2>1, <4>2
        <5> QED BY <3>1, <3>2, <3>3, <4>1, <5>1, SchedulerStays DEF Announced
      <4>3. CASE i = k
        <5>1. CASE Program[p][k].op = "run_async"
          BY <3>1, <4>3, <5>1 DEF Passable
        <5>2. CASE Program[p][k].op = "schedule"
          <6>1. f.at = "register"
            BY <3>1, <5>2 DEF Passable
          <6> QED BY <2>2, <4>1, <4>3, <6>1, SchedulerStays DEF RecordAnnounced
        <5> QED BY <3>3, <4>3, <5>1, <5>2
      <4> QED BY <4>2, <4>3
    <3>4. g.pc - 1 = k
      BY <2>1, <3>1
    <3> QED BY <3>1, <3>3, <3>4 DEF RecordAnnounced, Announced
  <2>5. CASE ContinuesBody(th, g)
    <3> DEFINE i == suspendedAt[g.who]
    <3>1. g.at = "call" /\ f.at = "resume" /\ g.who = p /\ i # 0 /\ g.pc = i + 1
      BY <2>5 DEF ContinuesBody
    <3>2. g.who \in Tasks
      BY <1>4, <3>1, LibraryTask, PointNames DEF TaskInv
    <3>3. i \in DOMAIN Program[g.who] /\ Program[g.who][i].op = "await" /\ Announced(g.who, i)
      BY <3>1, <3>2 DEF AnnounceInv
    <3>4. i \in Nat \ {0} /\ g.pc - 1 = i
      BY <1>0, <3>1, <3>3, CallTask
    <3> HIDE DEF i
    <3>5. ASSUME NEW j \in 1..i, Program[g.who][j].op \in {"schedule", "run_async"}
          PROVE  scheduler'[Program[g.who][j].task]
      <4>1. j # i
        BY <3>3, <3>5
      <4>2. j \in 1..(i - 1)
        BY <3>4, <4>1
      <4>3. Program[g.who][j].task \in Tasks
        BY <1>0, <3>3, CallTask
      <4> QED BY <3>3, <3>5, <4>2, <4>3, SchedulerStays DEF Announced
    <3> QED BY <3>1, <3>4, <3>5 DEF RecordAnnounced, Announced
  <2> QED BY <1>4, <2>3, <2>4, <2>5
<1> QED BY <1>1, <1>2, <1>3, <1>4 DEF Move

\* Only co_await suspends a frame, in a body whose earlier calls are announced.
LEMMA SuspensionStep ==
  ASSUME TaskInv, AnnounceInv, NEW th \in Threads, ThreadStep(th),
         NEW t \in Tasks, suspendedAt'[t] # 0
  PROVE  /\ suspendedAt'[t] \in DOMAIN Program[t] /\ Program[t][suspendedAt'[t]].op = "await"
         /\ Announced(t, suspendedAt'[t])
<1>1. CASE suspendedAt'[t] = suspendedAt[t]
  BY <1>1 DEF AnnounceInv
<1>2. CASE suspendedAt'[t] # suspendedAt[t]
  <2>1. await(th)
    <3>1. CASE ApiStep(th) /\ ~await(th)
      BY <1>2, <3>1 DEF ApiStep, taskVars, run, stop, join, run_async, schedule, Register, FetchAdd,
                ScheduleEnd, add_continuation, await_suspend, resume, get, GetReturn, wait
    <3>2. CASE CompletionStep(th)
      BY <1>2, <3>2 DEF CompletionStep, taskVars, Throw, BodyEnd, on_completed,
                resume_continuations, Continue, ContinueEnd, Release, ReleaseEnd, Ready
    <3>3. CASE WorkerStep(th)
      BY <1>2, <3>3 DEF WorkerStep, WorkerLoop, WorkerTake, WorkerExit, taskVars
    <3> QED BY <3>1, <3>2, <3>3 DEF ThreadStep
  <2>2. /\ suspendedAt' = [suspendedAt EXCEPT ![Top(th).who] = Top(th).pc]
        /\ AtCall(th, "await")
    BY <1>2, <2>1 DEF await
  <2>3. t = Top(th).who /\ suspendedAt'[t] = Top(th).pc
    BY <1>2, <2>2 DEF TaskInv, TasksOK
  <2>4. /\ stack[th] # <<>> /\ Top(th).at = "call"
        /\ Top(th).pc \in DOMAIN Program[t] /\ Program[t][Top(th).pc].op = "await"
    BY <2>2, <2>3 DEF AtCall, At, Call
  <2>5. Len(stack[th]) \in 1..Len(stack[th]) /\ Top(th) = stack[th][Len(stack[th])]
    BY <2>4, TopGood DEF Top, TaskInv
  <2>6. RecordAnnounced(Top(th))
    BY <2>5 DEF AnnounceInv
  <2>7. Announced(t, Top(th).pc)
    BY <2>3, <2>4, <2>6 DEF RecordAnnounced, BodyPoints
  <2> QED BY <2>3, <2>4, <2>7
<1> QED BY <1>1, <1>2

\* Who gets a dependent is announced, and what is no longer empty was appended to.
LEMMA DependentsStep ==
  ASSUME TaskInv, AnnounceInv, NEW th \in Threads, ThreadStep(th),
         NEW d \in Tasks, dependents'[d] # <<>>
  PROVE  scheduler[d]
<1>1. CASE dependents[d] # <<>>
  BY <1>1 DEF AnnounceInv
<1>2. CASE dependents[d] = <<>>
  <2>1. CASE Register(th)
    <3>1. /\ stack[th] # <<>> /\ Top(th).at = "register" /\ Top(th).list # <<>>
          /\ d = Head(Top(th).list)
      BY <1>2, <2>1 DEF Register, At, TaskInv, TasksOK
    <3>2. Len(stack[th]) \in 1..Len(stack[th]) /\ Top(th) = stack[th][Len(stack[th])]
      BY <3>1, TopGood DEF Top, TaskInv
    <3>3. RecordAnnounced(Top(th))
      BY <3>2 DEF AnnounceInv
    <3>4. Top(th).list \in Seq(Tasks)
      BY <3>1, TopGood, FrameFields DEF TaskInv
    <3>5. 1 \in 1..Len(Top(th).list) /\ Head(Top(th).list) = Top(th).list[1]
      BY <3>1, <3>4
    <3> QED BY <3>1, <3>3, <3>5 DEF RecordAnnounced
  <2>2. CASE Release(th)
    BY <1>2, <2>2 DEF Release, TaskInv, TasksOK
  <2>3. CASE FetchAdd(th)
    BY <1>2, <2>3 DEF FetchAdd
  <2>4. CASE ~Register(th) /\ ~FetchAdd(th) /\ ~Release(th)
    BY <1>2, <2>4, QuietCounters
  <2> QED BY <2>1, <2>2, <2>3, <2>4
<1> QED BY <1>1, <1>2

\* Every step keeps what is announced.
LEMMA AnnounceStep == TaskInv /\ OrderedPrograms /\ AnnounceInv /\ [Next]_vars => AnnounceInv'
<1> SUFFICES ASSUME TaskInv, OrderedPrograms, AnnounceInv, [Next]_vars PROVE AnnounceInv'
  OBVIOUS
<1>1. CASE UNCHANGED vars
  BY <1>1 DEF vars, taskVars, AnnounceInv, RecordAnnounced, Announced
<1>2. ASSUME NEW th \in Threads, ThreadStep(th) PROVE AnnounceInv'
  <2>1. ASSUME NEW x \in Threads, NEW j \in 1..Len(stack'[x]) PROVE RecordAnnounced(stack[x][j])'
    <3>1. CASE j \in 1..Len(stack[x]) /\ stack'[x][j] = stack[x][j]
      <4>1. stack[x][j] \in GoodFrames /\ RecordAnnounced(stack[x][j])
        BY <3>1 DEF AnnounceInv, TaskInv, StackOK
      <4>2. PICK g \in GoodFrames : g = stack[x][j]
        BY <4>1
      <4>3. RecordAnnounced(g)'
        BY <1>2, <4>1, <4>2, RecordStays
      <4> QED BY <3>1, <4>2, <4>3 DEF RecordAnnounced, Announced
    <3>2. ASSUME NEW g \in GoodFrames, stack'[x][j] = g, Move(th, g),
                 stack[th] = <<>> => g.at \in LibraryPoints \/ EntersBody(g)
          PROVE  RecordAnnounced(stack[x][j])'
      <4>1. RecordAnnounced(g)'
        BY <1>2, <3>2, RecordMoves
      <4> QED BY <3>2, <4>1 DEF RecordAnnounced, Announced
    <3> QED BY <1>2, <2>1, <3>1, <3>2, RecordsStep
  <2>2. ASSUME NEW t \in Tasks, suspendedAt'[t] # 0
        PROVE  /\ suspendedAt'[t] \in DOMAIN Program[t] /\ Program[t][suspendedAt'[t]].op = "await"
               /\ Announced(t, suspendedAt[t])'
    <3>1. /\ suspendedAt'[t] \in DOMAIN Program[t] /\ Program[t][suspendedAt'[t]].op = "await"
          /\ Announced(t, suspendedAt'[t])
      BY <1>2, <2>2, SuspensionStep
    <3>2. PICK k : k = suspendedAt'[t]
      OBVIOUS
    <3>3. t \in Owners /\ Announced(t, k)
      BY <3>1, <3>2 DEF Owners
    <3>4. Announced(t, k)'
      BY <1>2, <3>3, AnnouncedStays
    <3> QED BY <3>1, <3>2, <3>4 DEF Announced
  <2>3. ASSUME NEW d \in Tasks, dependents'[d] # <<>> PROVE scheduler'[d]
    BY <1>2, <2>3, DependentsStep, SchedulerStays
  <2> QED BY <2>1, <2>2, <2>3 DEF AnnounceInv
<1> QED BY <1>1, <1>2 DEF Next

\* At the start only clients have records, in front of their first call.
LEMMA AnnounceStart == Init => AnnounceInv
<1> SUFFICES ASSUME Init PROVE AnnounceInv
  OBVIOUS
<1>1. ASSUME NEW th \in Threads, NEW j \in 1..Len(stack[th]) PROVE RecordAnnounced(stack[th][j])
  <2>1. stack[th] \in {<<>>, <<Body(th, 1)>>}
    BY DEF Init
  <2>2. stack[th][j] = Body(th, 1)
    <3>1. CASE stack[th] = <<>> BY <1>1, <3>1
    <3>2. CASE stack[th] = <<Body(th, 1)>> BY <1>1, <3>2
    <3> QED BY <2>1, <3>1, <3>2
  <2> QED BY <2>2 DEF Body, Frame, RecordAnnounced, Announced
<1> QED BY <1>1 DEF AnnounceInv, Init

\* th is between on_completed and the end of on_task_finished of d.
ReleasePoints == {"resume_continuations", "continue", "on_task_finished"}
Releases(th, d) == \E i \in 1..Len(stack[th]) :
                     stack[th][i].who = d /\ stack[th][i].at \in ReleasePoints
DependentsKept == \A d \in Tasks : completed[d] /\ dependents[d] # <<>> => \E x \in Threads : Releases(x, d)

\* NoStrandedDependent in terms of Releases.
LEMMA DependentsMeaning == DependentsKept <=> NoStrandedDependent
<1>1. \A a : a \in CompletionPoints \ {"on_completed", "ready"} <=> a \in ReleasePoints
  BY DEF CompletionPoints, ReleasePoints
<1>2. \A th, d : Completing(th, d, CompletionPoints \ {"on_completed", "ready"}) <=> Releases(th, d)
  BY <1>1 DEF Completing, Records, Releases
<1> QED BY <1>2 DEF DependentsKept, NoStrandedDependent

\* A record that is not replaced keeps its thread releasing.
LEMMA ReleaseStays ==
  ASSUME StackOK, NEW th \in Threads, GoodGoto(th), NEW x \in Threads, NEW d, Releases(x, d),
         Top(th).at \notin ReleasePoints \/ Top(th).who # d
  PROVE  Releases(x, d)'
<1>1. PICK fs \in Seq(GoodFrames) : Goto(th, fs)
  BY DEF GoodGoto, GoodMoves
<1>2. stack[th] # <<>> /\ stack[th] \in Seq(GoodFrames) /\ Len(stack[th]) \in Nat \ {0}
  BY TopGood DEF GoodGoto, StackOK
<1>3. /\ \A y \in Threads \ {th} : stack'[y] = stack[y]
      /\ Len(stack'[th]) = Len(stack[th]) - 1 + Len(fs)
      /\ \A i \in 1..(Len(stack[th]) - 1) : stack'[th][i] = stack[th][i]
  BY <1>1, <1>2, GotoStack
<1>4. CASE x # th
  BY <1>3, <1>4 DEF Releases
<1>5. CASE x = th
  <2>1. PICK i \in 1..Len(stack[th]) : stack[th][i].who = d /\ stack[th][i].at \in ReleasePoints
    BY <1>5 DEF Releases
  <2>2. i # Len(stack[th])
    BY <2>1 DEF Top
  <2>3. i \in 1..(Len(stack[th]) - 1) /\ Len(fs) \in Nat
    BY <1>2, <2>1, <2>2
  <2>4. i \in 1..Len(stack'[th]) /\ stack'[th][i] = stack[th][i]
    BY <1>2, <1>3, <2>3
  <2> QED BY <1>5, <2>1, <2>4 DEF Releases
<1> QED BY <1>4, <1>5

\* A record put in place of the innermost one.
LEMMA ReleaseMoves ==
  ASSUME StackOK, NEW th \in Threads, stack[th] # <<>>, NEW h \in GoodFrames,
         h.at \in ReleasePoints, Goto(th, <<h>>) \/ \E g \in GoodFrames : Goto(th, <<h, g>>)
  PROVE  Releases(th, h.who)'
<1>1. PICK fs \in Seq(GoodFrames) : Goto(th, fs) /\ Len(fs) \in Nat \ {0} /\ fs[1] = h
  <2>1. CASE Goto(th, <<h>>)
    <3>1. <<h>> \in Seq(GoodFrames) /\ Len(<<h>>) \in Nat \ {0} /\ <<h>>[1] = h
      OBVIOUS
    <3> QED BY <2>1, <3>1, Zenon
  <2>2. ASSUME NEW g \in GoodFrames, Goto(th, <<h, g>>)
        PROVE  \E fs \in Seq(GoodFrames) : Goto(th, fs) /\ Len(fs) \in Nat \ {0} /\ fs[1] = h
    <3>1. <<h, g>> \in Seq(GoodFrames) /\ Len(<<h, g>>) \in Nat \ {0} /\ <<h, g>>[1] = h
      OBVIOUS
    <3> QED BY <2>2, <3>1, Zenon
  <2> QED BY <2>1, <2>2
<1>2. Len(stack[th]) \in Nat \ {0}
  BY TopGood
<1>3. /\ Len(stack'[th]) = Len(stack[th]) - 1 + Len(fs)
      /\ \A i \in 1..Len(fs) : stack'[th][Len(stack[th]) - 1 + i] = fs[i]
  BY <1>1, GotoStack
<1>4. 1 \in 1..Len(fs) /\ Len(stack[th]) \in 1..Len(stack'[th]) /\ Len(stack[th]) - 1 + 1 = Len(stack[th])
  BY <1>1, <1>2, <1>3
<1>5. stack'[th][Len(stack[th])] = h
  BY <1>1, <1>3, <1>4
<1> QED BY <1>4, <1>5 DEF Releases

\* The steps at these points lead to one of them, as long as there are dependents.
LEMMA ReleaseGoesOn ==
  ASSUME TaskInv, AnnounceInv, NEW th \in Threads, ApiStep(th) \/ CompletionStep(th),
         Top(th).at \in ReleasePoints, NEW d, d = Top(th).who, dependents[d] # <<>>
  PROVE  Releases(th, d)'
<1> DEFINE f == Top(th)
<1>1. GoodGoto(th)
  BY ApiGoto, CompletionGoto DEF TaskInv
<1>2. stack[th] # <<>> /\ f \in GoodFrames /\ f.list \in Seq(Tasks)
  BY <1>1, TopGood, FrameFields DEF GoodGoto, TaskInv
<1>3. d \in Tasks /\ StackOK
  BY <1>2, LibraryTask, PointNames DEF ReleasePoints, TaskInv
<1>4. SUFFICES \E h \in GoodFrames :
                 /\ h.who = d /\ h.at \in ReleasePoints
                 /\ Goto(th, <<h>>) \/ \E g \in GoodFrames : Goto(th, <<h, g>>)
  BY <1>2, <1>3, ReleaseMoves
<1>5. CASE resume_continuations(th)
  <2> DEFINE h == [f EXCEPT !.at = "continue", !.list = continuations[d]]
  <2>1. continuations[d] \in Seq(Tasks) /\ Fits("continue", d, f.pc, continuations[d])
    BY <1>3, PointNames DEF TaskInv, TasksOK, Fits
  <2>2. h \in Moved(f, "continue", continuations[d])
    BY <1>2, <2>1, RelistMoveGood, Zenon
  <2>3. Goto(th, <<h>>)
    BY <1>5 DEF resume_continuations
  <2> HIDE DEF h
  <2> QED BY <2>2, <2>3 DEF Moved, ReleasePoints
<1>6. CASE Continue(th)
  <2> DEFINE h == [f EXCEPT !.list = Tail(@)]
             g == Frame("resume", Head(f.list), 0, <<>>)
  <2>1. f.at = "continue" /\ f.list # <<>>
    BY <1>6 DEF Continue, At
  <2>2. Head(f.list) \in Tasks /\ Tail(f.list) \in Seq(Tasks)
    BY <1>2, <2>1
  <2>3. Fits(f.at, d, f.pc, Tail(f.list))
    BY <1>3, <2>1, PointNames DEF Fits
  <2>4. h \in Moved(f, f.at, Tail(f.list))
    BY <1>2, <2>2, <2>3, RelistGood, Zenon
  <2>5. g \in GoodFrames
    BY <2>2, LibraryGood
  <2>6. Goto(th, <<h>>) \/ Goto(th, <<h, g>>)
    BY <1>6 DEF Continue
  <2> HIDE DEF h, g
  <2> QED BY <2>1, <2>4, <2>5, <2>6 DEF Moved, ReleasePoints
<1>7. CASE ContinueEnd(th)
  <2> DEFINE h == [f EXCEPT !.at = "on_task_finished"]
  <2>1. scheduler[d]
    BY <1>3 DEF AnnounceInv
  <2>2. Goto(th, <<h>>)
    BY <1>7, <2>1 DEF ContinueEnd
  <2>3. Fits("on_task_finished", d, f.pc, f.list)
    BY <1>3, PointNames DEF Fits
  <2>4. h \in GoodFrames /\ h.at = "on_task_finished" /\ h.who = d
    BY <1>2, <2>3, MoveGood
  <2> HIDE DEF h
  <2> QED BY <2>2, <2>4 DEF ReleasePoints
<1>8. CASE Release(th)
  <2> DEFINE s == Head(dependents[d])
             l == IF LastOne(pendingDependencies[s]) THEN Append(f.list, s) ELSE f.list
             h == [f EXCEPT !.list = l]
  <2>1. s \in Tasks
    BY <1>3 DEF TaskInv, TasksOK
  <2>2. f.at = "on_task_finished" /\ Goto(th, <<h>>)
    BY <1>8 DEF Release, At
  <2>3. l \in Seq(Tasks)
    BY <1>2, <2>1
  <2> HIDE DEF s, l
  <2>4. Fits(f.at, d, f.pc, l)
    BY <1>3, <2>2, PointNames DEF Fits
  <2>5. h \in Moved(f, f.at, l)
    BY <1>2, <2>3, <2>4, RelistGood, Zenon
  <2> HIDE DEF h
  <2> QED BY <2>2, <2>5 DEF Moved, ReleasePoints
<1>9. CASE ~resume_continuations(th) /\ ~Continue(th) /\ ~ContinueEnd(th) /\ ~Release(th)
  <2>1. ~ApiStep(th)
    BY DEF ReleasePoints, ApiStep, AtCall, At, run, stop, join, run_async, schedule, Register,
           FetchAdd, ScheduleEnd, await, add_continuation, await_suspend, resume, get, GetReturn, wait
  <2>2. ~CompletionStep(th)
    BY <1>9 DEF ReleasePoints, CompletionStep, At, Throw, BodyEnd, on_completed, ReleaseEnd, Ready
  <2> QED BY <2>1, <2>2
<1> QED BY <1>5, <1>6, <1>7, <1>8, <1>9

\* Only on_completed completes a task.
LEMMA CompletedSteps ==
  ASSUME NEW th \in Threads, ThreadStep(th), ~on_completed(th)
  PROVE  completed' = completed
<1>1. CASE ApiStep(th)
  BY <1>1 DEF ApiStep, taskVars, run, stop, join, run_async, schedule, Register, FetchAdd,
              ScheduleEnd, await, add_continuation, await_suspend, resume, get, GetReturn, wait
<1>2. CASE CompletionStep(th)
  BY <1>2 DEF CompletionStep, taskVars, Throw, BodyEnd, resume_continuations, Continue,
              ContinueEnd, Release, ReleaseEnd, Ready
<1>3. CASE WorkerStep(th)
  BY <1>3 DEF WorkerStep, WorkerLoop, WorkerTake, WorkerExit, taskVars
<1> QED BY <1>1, <1>2, <1>3 DEF ThreadStep

\* Every step keeps the dependents of completed tasks with a thread that releases
\* them; ReleaseEnd leaves only when none is left.
LEMMA DependentsKeptStep ==
  TaskInv /\ AnnounceInv /\ DependentsKept /\ [Next]_vars => DependentsKept'
<1> SUFFICES ASSUME TaskInv, AnnounceInv, DependentsKept, [Next]_vars,
                    NEW d \in Tasks, completed'[d], dependents'[d] # <<>>
             PROVE  \E x \in Threads : Releases(x, d)'
  BY DEF DependentsKept
<1> USE DEF TaskInv
<1>1. CASE UNCHANGED vars
  <2>1. PICK x \in Threads : Releases(x, d)
    BY <1>1 DEF vars, taskVars, DependentsKept
  <2> QED BY <1>1, <2>1 DEF vars, Releases
<1>2. ASSUME NEW w \in Workers, WorkerStep(w) PROVE \E x \in Threads : Releases(x, d)'
  <2>1. completed' = completed /\ dependents' = dependents
    BY <1>2 DEF WorkerStep, WorkerLoop, WorkerTake, WorkerExit, taskVars
  <2>2. PICK x \in Threads : Releases(x, d)
    BY <2>1 DEF DependentsKept
  <2>3. stack[w] = <<>> /\ \A y \in Threads \ {w} : stack'[y] = stack[y]
    BY <1>2, WorkerStack
  <2>4. x # w
    BY <2>2, <2>3 DEF Releases
  <2> QED BY <2>2, <2>3, <2>4 DEF Releases
<1>3. ASSUME NEW th \in Threads, ApiStep(th) \/ CompletionStep(th)
      PROVE  \E x \in Threads : Releases(x, d)'
  <2>1. GoodGoto(th) /\ ThreadStep(th)
    BY <1>3, ApiGoto, CompletionGoto DEF ThreadStep
  <2>2. CASE on_completed(th) /\ Top(th).who = d
    <3> DEFINE g == [Top(th) EXCEPT !.at = "resume_continuations"]
    <3>1. stack[th] # <<>> /\ Goto(th, <<g>>)
      BY <2>2 DEF on_completed, At
    <3>2. Top(th) \in GoodFrames
      BY <3>1, TopGood
    <3>3. g \in GoodFrames /\ g.at = "resume_continuations" /\ g.who = d
      BY <2>2, <3>2, MoveGood, PointNames DEF Fits
    <3>4. PICK h \in GoodFrames : h = g
      BY <3>3
    <3> HIDE DEF g
    <3>5. Releases(th, h.who)'
      BY <3>1, <3>3, <3>4, ReleaseMoves DEF ReleasePoints
    <3> QED BY <3>3, <3>4, <3>5
  <2>3. CASE ~(on_completed(th) /\ Top(th).who = d)
    <3>1. completed[d] /\ dependents[d] # <<>>
      <4>1. completed[d]
        <5>1. CASE on_completed(th)
          BY <2>3, <5>1 DEF on_completed, TasksOK
        <5>2. CASE ~on_completed(th)
          BY <2>1, <5>2, CompletedSteps
        <5> QED BY <5>1, <5>2
      <4>2. CASE Register(th)
        BY <4>1, <4>2 DEF Register, MustWait, TasksOK
      <4>3. CASE Release(th)
        BY <4>3 DEF Release, TasksOK
      <4>4. CASE FetchAdd(th)
        BY <4>4 DEF FetchAdd
      <4>5. CASE ~Register(th) /\ ~FetchAdd(th) /\ ~Release(th)
        BY <2>1, <4>1, <4>5, QuietCounters
      <4> QED BY <4>1, <4>2, <4>3, <4>4, <4>5
    <3>2. CASE Top(th).at \in ReleasePoints /\ Top(th).who = d
      BY <1>3, <3>1, <3>2, ReleaseGoesOn
    <3>3. CASE Top(th).at \notin ReleasePoints \/ Top(th).who # d
      BY <2>1, <3>1, <3>3, ReleaseStays DEF DependentsKept
    <3> QED BY <3>2, <3>3
  <2> QED BY <2>2, <2>3
<1> QED BY <1>1, <1>2, <1>3 DEF Next, ThreadStep

\* The registration in schedule() against on_task_finished (Task.h:541-553,
\* TaskScheduler.cpp:107-125): when every dependency was scheduled or started by
\* the same body or client before it is named, a dependent registered with a
\* completed task is always still to be released by the thread that completed the
\* task, in every interleaving. Without the hypothesis a dependency may complete
\* without a scheduler and its dependents are never released.
THEOREM DependentsAlways == Spec => [](OrderedPrograms => NoStrandedDependent)
<1> DEFINE I == TaskInv /\ (OrderedPrograms => AnnounceInv /\ DependentsKept)
<1>1. Init => I
  BY InitInv, AnnounceStart DEF Init, DependentsKept
<1>2. I /\ [Next]_vars => I'
  <2> SUFFICES ASSUME I, [Next]_vars PROVE I'
    OBVIOUS
  <2>1. TaskInv'
    BY StepInv
  <2>2. ASSUME OrderedPrograms PROVE AnnounceInv' /\ DependentsKept'
    BY <2>2, AnnounceStep, DependentsKeptStep
  <2>3. OrderedPrograms' <=> OrderedPrograms
    BY DEF OrderedPrograms
  <2> QED BY <2>1, <2>2, <2>3
<1>3. I => (OrderedPrograms => NoStrandedDependent)
  BY DependentsMeaning
<1> QED BY <1>1, <1>2, <1>3, PTL DEF Spec
=============================================================================
