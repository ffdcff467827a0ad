-------------------------- MODULE ResumptionProofs --------------------------
(***************************************************************************)
(* The right to run a task is held in one place: in the queue, in a list   *)
(* of a task state or in a record of one thread's stack. Proved for        *)
(* programs that start every task by one call; from it follow that nothing *)
(* is resumed twice, that co_await, get() and wait() return after the      *)
(* completion, and that tasks begin after their dependencies. In frames it *)
(* makes wait_for_all a barrier and delays elapse before their task.       *)
(***************************************************************************)
EXTENDS FrameScheduler, TaskSchedulerProofs

-----------------------------------------------------------------------------
(* Programs that start every task once.                                    *)

In(q, t) == \E i \in 1..Len(q) : q[i] = t
Once(q) == \A i, j \in 1..Len(q) : q[i] = q[j] => i = j

\* Call i of p starts t: it schedules t or makes the job that runs it, or it
\* resumes a coroutine on which p does not depend.
Starts(p, i, t) ==
  /\ i \in DOMAIN Program[p] /\ Program[p][i].task = t
  /\ \/ Program[p][i].op \in {"schedule", "run_async"}
     \/ /\ Program[p][i].op \in {"await", "get"} /\ t \in Coroutines
        /\ p \in Tasks => t \notin Deps[p]

\* Each dependency that call i of p names is started by p afterwards.
DependentFirst(p, i) ==
  \A d \in Tasks : In(Program[p][i].deps, d) => \E k \in DOMAIN Program[p] : k > i /\ Starts(p, k, d)

\* How a program must use the scheduler: every task is started by one call, and
\* schedule() gets at most one dependency or is called before the dependencies
\* are started (TaskRootsFirst shows what happens otherwise); dependencies are
\* distinct and the counter can count them.
SoundUse ==
  /\ \A p, q \in Owners : \A t \in Tasks : \A i \in DOMAIN Program[p], k \in DOMAIN Program[q] :
       Starts(p, i, t) /\ Starts(q, k, t) => p = q /\ i = k
  /\ \A p \in Owners : \A i \in DOMAIN Program[p] : Program[p][i].op = "schedule" =>
       /\ Once(Program[p][i].deps)
       /\ Len(Program[p][i].deps) <= 1 \/ DependentFirst(p, i)
  /\ \A t \in Tasks : IsFiniteSet(Deps[t]) /\ Cardinality(Deps[t]) < Modulus

-----------------------------------------------------------------------------
(* The places that hold tasks.                                             *)

\* A place has a kind: a task in a ready place may be resumed, in a run place it
\* is executed, in a wait place it is suspended in co_await, in a new place
\* schedule() has it. Then what it is, and the thread and the record.
Kind(s) == s[1]
Thing(s) == s[2]
OfThread(s) == s[3]
OfRecord(s) == s[4]

JobPlace == <<"ready", "jobs", 0, 0>>
AwaitPlace(u) == <<"wait", u, 0, 0>>
DependPlace == <<"new", "depends", 0, 0>>
RunPlace(x, j) == <<"run", "own", x, j>>
OfferPlace(x, j) == <<"ready", "own", x, j>>
ListPlace(x, j) == <<"ready", "list", x, j>>
WaitPlace(u, x, j) == <<"wait", u, x, j>>
NewPlace(x, j) == <<"new", "list", x, j>>

RunPoints == BodyPoints \cup {"on_completed"}
ListPoints == {"continue", "on_task_finished", "ready"}
LoopPoints == {"register", "fetch_add"}
CallOf(f) == Program[f.who][f.pc]

\* Record j of thread x, which is f, holds t at s.
RecordHolds(f, x, j, s, t) ==
  \/ f.at \in RunPoints /\ s = RunPlace(x, j) /\ t = f.who
  \/ /\ f.at = "resume" \/ (f.at \in {"add_continuation", "produce"} /\ f.who \in Coroutines)
     /\ s = OfferPlace(x, j) /\ t = f.who
  \/ f.at \in ListPoints /\ s = ListPlace(x, j) /\ In(f.list, t)
  \/ f.at = "add_continuation" /\ s = WaitPlace(f.who, x, j) /\ In(f.list, t)
  \/ f.at = "register" /\ f.n = 0 /\ s = NewPlace(x, j) /\ t = CallOf(f).task

PoolHolds(s, t) ==
  \/ s = JobPlace /\ \E i \in 1..Len(m_jobs) : m_jobs[i].task = t
  \/ \E u \in Tasks : s = AwaitPlace(u) /\ In(continuations[u], t)
  \/ s = DependPlace /\ \E u \in Tasks : In(dependents[u], t)

Held(s, t) ==
  \/ PoolHolds(s, t)
  \/ \E x \in Threads : \E j \in 1..Len(stack[x]) : RecordHolds(stack[x][j], x, j, s, t)

\* Nothing is held in two places, nor twice in one of them.
OnePlace == \A r, s, t : Held(r, t) /\ Held(s, t) => r = s
OnceEach ==
  /\ \A i, j \in 1..Len(m_jobs) : m_jobs[i].task = m_jobs[j].task => i = j
  /\ \A u \in Tasks : Once(continuations[u])
  /\ \A u \in Tasks : Once(dependents[u])

-----------------------------------------------------------------------------
(* What holds of a task in each kind of place.                             *)

DepsMet(t) == \A d \in Deps[t] : completed[d]

\* t is suspended in co_await u.
Awaits(t, u) ==
  /\ suspendedAt[t] \in DOMAIN Program[t]
  /\ Program[t][suspendedAt[t]].op = "await" /\ Program[t][suspendedAt[t]].task = u

\* t may be resumed: it has not begun, or what it awaits is completed.
MayGoOn(t) ==
  DepsMet(t) /\ (suspendedAt[t] = 0 \/ \E u \in Tasks : Awaits(t, u) /\ completed[u])

\* A schedule() in progress has still to look at dependency d of t.
LoopsOver(f, t, d) == f.at \in LoopPoints /\ CallOf(f).task = t /\ In(f.list, d)
ToLookAt(t, d) == \E x \in Threads : \E j \in 1..Len(stack[x]) : LoopsOver(stack[x][j], t, d)

\* No dependency of t is forgotten.
Pending(t) == \A d \in Deps[t] : completed[d] \/ In(dependents[d], t) \/ ToLookAt(t, d)

Suits(s, t) ==
  /\ ~completed[t]
  /\ Kind(s) = "ready" => MayGoOn(t)
  /\ Kind(s) = "run" => DepsMet(t)
  /\ Kind(s) = "wait" => Awaits(t, Thing(s)) /\ DepsMet(t)
  /\ Kind(s) = "new" => suspendedAt[t] = 0 /\ Pending(t)
Placed == \A s, t : t \in Tasks /\ Held(s, t) => Suits(s, t)

\* Records: nobody resumes a finished frame; whoever releases the waiting has
\* completed its task; the loop of schedule() has registered nothing twice.
LoopSound(f) ==
  /\ \A d \in Tasks : In(f.list, d) => In(CallOf(f).deps, d) /\ ~In(dependents[d], CallOf(f).task)
  /\ Len(f.list) <= Len(CallOf(f).deps)
  /\ f.at = "fetch_add" \/ f.n # 0 =>
       /\ Len(f.list) < Len(CallOf(f).deps)
       /\ Len(CallOf(f).deps) > 1 => \E u \in Tasks : In(dependents[u], CallOf(f).task)
RecordSound(f) ==
  /\ f.at # "crashed"
  /\ f.at \in CompletionPoints \ {"on_completed"} => completed[f.who]
  /\ f.at = "call" => f.n = 0
  /\ f.at = "add_continuation" => Len(f.list) = 1
  /\ f.at \in ListPoints \cup LoopPoints => Once(f.list)
  /\ f.at \in LoopPoints => LoopSound(f)
RecordsSound == \A x \in Threads : \A j \in 1..Len(stack[x]) : RecordSound(stack[x][j])

DependInv == \A u, t \in Tasks : In(dependents[u], t) => u \in Deps[t]
JobInv == \A i \in 1..Len(m_jobs) : m_jobs[i].kind = "function" => suspendedAt[m_jobs[i].task] = 0

\* A frame is done once its body has ended, and then on_completed follows.
DoneInv == \A t \in Tasks : done[t] =>
  completed[t] \/ \E x \in Threads : \E j \in 1..Len(stack[x]) :
                    stack[x][j].who = t /\ stack[x][j].at = "on_completed"
BegunInv == \A t \in Tasks : completed[t] \/ suspendedAt[t] # 0 => DepsMet(t)

-----------------------------------------------------------------------------
(* Calls that are still to come, and the tasks they start.                 *)

Fresh(t) == ~completed[t] /\ ~done[t] /\ suspendedAt[t] = 0 /\ \A s : ~Held(s, t)

\* p is not running.
Parked(p) == ~completed[p] /\ \A x \in Threads : \A j \in 1..Len(stack[x]) :
                                stack[x][j].who = p => stack[x][j].at \notin RunPoints

\* The body that f executes still has call i before it.
Ahead(f, i) == f.at \in BodyPoints /\ (i > f.pc \/ (i = f.pc /\ f.at = "call"))
ToCome(p, i) ==
  \/ \E x \in Threads : \E j \in 1..Len(stack[x]) : stack[x][j].who = p /\ Ahead(stack[x][j], i)
  \/ p \in Tasks /\ Parked(p) /\ i > suspendedAt[p]
FreshInv == \A p \in Owners : \A i \in DOMAIN Program[p] : \A t \in Tasks :
              Starts(p, i, t) /\ ToCome(p, i) => Fresh(t)

TokenInv == OnePlace /\ OnceEach /\ Placed /\ RecordsSound /\ DependInv /\ JobInv
              /\ DoneInv /\ BegunInv /\ FreshInv

-----------------------------------------------------------------------------
(* Lists and places.                                                       *)

\* One more at the end.
LEMMA AppendIn ==
  ASSUME NEW S, NEW q \in Seq(S), NEW u \in S
  PROVE  \A t : In(Append(q, u), t) <=> In(q, t) \/ t = u
<1>1. /\ Len(Append(q, u)) = Len(q) + 1 /\ Append(q, u)[Len(q) + 1] = u /\ Len(q) \in Nat
      /\ \A i \in 1..Len(q) : Append(q, u)[i] = q[i]
  OBVIOUS
<1>2. \A i \in 1..(Len(q) + 1) : i \in 1..Len(q) \/ i = Len(q) + 1
  BY <1>1
<1>3. Len(q) + 1 \in 1..(Len(q) + 1) /\ \A i \in 1..Len(q) : i \in 1..(Len(q) + 1)
  BY <1>1
<1> DEFINE r == Append(q, u)
<1> HIDE DEF r
<1> QED BY <1>1, <1>2, <1>3 DEF In, r

\* It was not there before, so nothing is there twice.
LEMMA AppendOnce ==
  ASSUME NEW S, NEW q \in Seq(S), NEW u \in S, Once(q), ~In(q, u)
  PROVE  Once(Append(q, u))
<1> DEFINE r == Append(q, u)
<1>1. /\ Len(r) = Len(q) + 1 /\ r[Len(q) + 1] = u /\ Len(q) \in Nat
      /\ \A i \in 1..Len(q) : r[i] = q[i]
  OBVIOUS
<1>2. \A i \in 1..(Len(q) + 1) : i \in 1..Len(q) \/ i = Len(q) + 1
  BY <1>1
<1> HIDE DEF r
<1>3. Once(r)
  BY <1>1, <1>2 DEF Once, In
<1> QED BY <1>3 DEF r

\* The first one leaves.
LEMMA TailIn ==
  ASSUME NEW S, NEW q \in Seq(S), q # <<>>
  PROVE  /\ Head(q) \in S /\ In(q, Head(q)) /\ Tail(q) \in Seq(S) /\ Len(Tail(q)) = Len(q) - 1
         /\ \A t : In(q, t) <=> In(Tail(q), t) \/ t = Head(q)
         /\ Once(q) => Once(Tail(q)) /\ ~In(Tail(q), Head(q))
<1> DEFINE r == Tail(q)
<1>1. /\ Len(q) \in Nat \ {0} /\ Len(r) = Len(q) - 1 /\ r \in Seq(S) /\ Head(q) = q[1]
      /\ \A i \in 1..(Len(q) - 1) : r[i] = q[i + 1]
      /\ Head(q) \in S
  OBVIOUS
<1>2. 1 \in 1..Len(q) /\ \A i \in 1..(Len(q) - 1) : i + 1 \in 1..Len(q) /\ i + 1 # 1
  BY <1>1
<1>3. \A i \in 1..Len(q) : i = 1 \/ (i - 1 \in 1..(Len(q) - 1) /\ (i - 1) + 1 = i)
  BY <1>1
<1>4. \A i, j \in 1..(Len(q) - 1) : i + 1 = j + 1 => i = j
  BY <1>1
<1> HIDE DEF r
<1>5. \A t : In(q, t) <=> In(r, t) \/ t = Head(q)
  <2> TAKE t
  <2>1. ASSUME In(q, t), t # Head(q) PROVE In(r, t)
    <3>1. PICK i \in 1..Len(q) : q[i] = t
      BY <2>1 DEF In
    <3>2. i # 1 BY <1>1, <2>1, <3>1
    <3>3. i - 1 \in 1..(Len(q) - 1) /\ r[i - 1] = t
      BY <1>1, <1>3, <3>1, <3>2
    <3> QED BY <1>1, <3>3 DEF In
  <2>2. In(r, t) => In(q, t)
    BY <1>1, <1>2 DEF In
  <2>3. In(q, Head(q))
    BY <1>1, <1>2 DEF In
  <2> QED BY <2>1, <2>2, <2>3
<1>6. Once(q) => Once(r) /\ ~In(r, Head(q))
  BY <1>1, <1>2, <1>4 DEF Once, In
<1> QED BY <1>1, <1>5, <1>6 DEF r

\* Lists of none and of one.
LEMMA SmallLists ==
  /\ Once(<<>>) /\ \A t : ~In(<<>>, t)
  /\ \A u : Once(<<u>>) /\ Len(<<u>>) = 1 /\ \A t : In(<<u>>, t) <=> t = u
BY DEF Once, In

\* One more in a list of none and of one.
LEMMA ShortAppends ==
  ASSUME NEW S, NEW a \in S, NEW b \in S
  PROVE  Append(<<>>, b) = <<b>> /\ Append(<<a>>, b) = <<a, b>>
<1>1. /\ <<a>> \in Seq(S) /\ <<a, b>> \in Seq(S) /\ <<>> \in Seq(S) /\ <<b>> \in Seq(S)
      /\ Len(<<a>>) = 1 /\ Len(<<a, b>>) = 2 /\ Len(<<>>) = 0 /\ Len(<<b>>) = 1
  OBVIOUS
<1> DEFINE p == Append(<<>>, b)
           q == Append(<<a>>, b)
<1>2. p \in Seq(S) /\ Len(p) = 1 /\ p[1] = b
  OBVIOUS
<1>3. q \in Seq(S) /\ Len(q) = 2 /\ q[1] = a /\ q[2] = b
  OBVIOUS
<1> HIDE DEF p, q
<1>4. p = <<b>>
  BY <1>1, <1>2
<1>5. q = <<a, b>>
  BY <1>1, <1>3
<1> QED BY <1>4, <1>5 DEF p, q

\* The parts of the places.
LEMMA PlaceParts ==
  /\ Kind(JobPlace) = "ready" /\ OfRecord(JobPlace) = 0
  /\ Kind(DependPlace) = "new" /\ OfRecord(DependPlace) = 0
  /\ \A u : Kind(AwaitPlace(u)) = "wait" /\ Thing(AwaitPlace(u)) = u /\ OfRecord(AwaitPlace(u)) = 0
  /\ \A x, j : /\ Kind(RunPlace(x, j)) = "run" /\ OfThread(RunPlace(x, j)) = x
               /\ OfRecord(RunPlace(x, j)) = j
               /\ Kind(OfferPlace(x, j)) = "ready" /\ Thing(OfferPlace(x, j)) = "own"
               /\ OfThread(OfferPlace(x, j)) = x /\ OfRecord(OfferPlace(x, j)) = j
               /\ Kind(ListPlace(x, j)) = "ready" /\ Thing(ListPlace(x, j)) = "list"
               /\ OfThread(ListPlace(x, j)) = x /\ OfRecord(ListPlace(x, j)) = j
               /\ Kind(NewPlace(x, j)) = "new" /\ OfThread(NewPlace(x, j)) = x
               /\ OfRecord(NewPlace(x, j)) = j
  /\ \A u, x, j : /\ Kind(WaitPlace(u, x, j)) = "wait" /\ Thing(WaitPlace(u, x, j)) = u
                  /\ OfThread(WaitPlace(u, x, j)) = x /\ OfRecord(WaitPlace(u, x, j)) = j
BY DEF Kind, Thing, OfThread, OfRecord, JobPlace, DependPlace, AwaitPlace, RunPlace, OfferPlace,
       ListPlace, NewPlace, WaitPlace

\* Where the holdings of a record and of the pool are.
LEMMA HoldingPlaces ==
  /\ \A f, x, j, s, t : RecordHolds(f, x, j, s, t) => OfThread(s) = x /\ OfRecord(s) = j
  /\ \A s, t : PoolHolds(s, t) => OfRecord(s) = 0
<1>1. ASSUME NEW f, NEW x, NEW j, NEW s, NEW t, RecordHolds(f, x, j, s, t)
      PROVE  OfThread(s) = x /\ OfRecord(s) = j
  <2>1. \/ s \in {RunPlace(x, j), OfferPlace(x, j), ListPlace(x, j), NewPlace(x, j)}
        \/ s = WaitPlace(f.who, x, j)
    BY <1>1 DEF RecordHolds
  <2> QED BY <2>1, PlaceParts
<1>2. ASSUME NEW s, NEW t, PoolHolds(s, t) PROVE OfRecord(s) = 0
  BY <1>2, PlaceParts, Zenon DEF PoolHolds
<1> QED BY <1>1, <1>2

-----------------------------------------------------------------------------
(* A step of th replaces its innermost record: what the others hold stays. *)

RestRecord(th, x, j) == x \in Threads /\ j \in 1..Len(stack[x]) /\ (x # th \/ j # Len(stack[th]))
Rest(th, s, t) == \E x \in Threads : \E j \in 1..Len(stack[x]) :
                    RestRecord(th, x, j) /\ RecordHolds(stack[x][j], x, j, s, t)

Kept(th) == \A x, j : RestRecord(th, x, j) => j \in 1..Len(stack'[x]) /\ stack'[x][j] = stack[x][j]
NoneAfter(th) ==
  /\ Kept(th)
  /\ \A x \in Threads : \A j \in 1..Len(stack'[x]) : RestRecord(th, x, j)
OneAfter(th, m, g) ==
  /\ Kept(th) /\ g \in GoodFrames
  /\ m \in 1..Len(stack'[th]) /\ stack'[th][m] = g
  /\ \A x \in Threads : \A j \in 1..Len(stack'[x]) : RestRecord(th, x, j) \/ (x = th /\ j = m)
TwoAfter(th, m, g, h) ==
  /\ Kept(th) /\ g \in GoodFrames /\ h \in GoodFrames
  /\ m \in 1..Len(stack'[th]) /\ stack'[th][m] = g
  /\ m + 1 \in 1..Len(stack'[th]) /\ stack'[th][m + 1] = h
  /\ \A x \in Threads : \A j \in 1..Len(stack'[x]) :
       RestRecord(th, x, j) \/ (x = th /\ (j = m \/ j = m + 1))

\* A return, and a record replaced by one or by two.
LEMMA GotoAfter ==
  ASSUME StackOK, NEW th \in Threads, stack[th] # <<>>, NEW m, m = Len(stack[th])
  PROVE  /\ m \in Nat \ {0}
         /\ Goto(th, <<>>) => NoneAfter(th)
         /\ \A g \in GoodFrames : Goto(th, <<g>>) => OneAfter(th, m, g)
         /\ \A g, h \in GoodFrames : Goto(th, <<g, h>>) => TwoAfter(th, m, g, h)
<1>1. m \in Nat \ {0} /\ stack \in [Threads -> Seq(GoodFrames)]
  BY TopGood DEF StackOK
<1>2. ASSUME NEW fs \in Seq(GoodFrames), Goto(th, fs), NEW n, n = Len(fs)
      PROVE  /\ Kept(th)
             /\ \A k \in 1..n : m - 1 + k \in 1..Len(stack'[th]) /\ stack'[th][m - 1 + k] = fs[k]
             /\ \A x \in Threads : \A j \in 1..Len(stack'[x]) :
                  RestRecord(th, x, j) \/ (x = th /\ j - (m - 1) \in 1..n)
  <2>1. /\ \A x \in Threads \ {th} : stack'[x] = stack[x]
        /\ Len(stack'[th]) = m - 1 + n
        /\ \A i \in 1..(m - 1) : stack'[th][i] = stack[th][i]
        /\ \A i \in 1..n : stack'[th][m - 1 + i] = fs[i]
    BY <1>2, GotoStack
  <2>2. n \in Nat
    BY <1>2
  <2>3. \A j \in 1..m : j # m => j \in 1..(m - 1) /\ j \in 1..(m - 1 + n)
    BY <1>1, <2>2
  <2>4. Kept(th)
    BY <2>1, <2>3 DEF Kept, RestRecord
  <2>5. \A k \in 1..n : m - 1 + k \in 1..(m - 1 + n)
    BY <1>1, <2>2
  <2>6. \A j \in 1..(m - 1 + n) : (j \in 1..m /\ j # m) \/ j - (m - 1) \in 1..n
    BY <1>1, <2>2
  <2>7. ASSUME NEW x \in Threads, NEW j \in 1..Len(stack'[x])
        PROVE  RestRecord(th, x, j) \/ (x = th /\ j - (m - 1) \in 1..n)
    BY <2>1, <2>6, <2>7 DEF RestRecord
  <2> QED BY <2>1, <2>4, <2>5, <2>7
<1>3. Goto(th, <<>>) => NoneAfter(th)
  <2>1. <<>> \in Seq(GoodFrames) /\ Len(<<>>) = 0 /\ 1..0 = {}
    OBVIOUS
  <2> QED BY <1>2, <2>1 DEF NoneAfter
<1>4. ASSUME NEW g \in GoodFrames, Goto(th, <<g>>) PROVE OneAfter(th, m, g)
  <2>1. <<g>> \in Seq(GoodFrames) /\ Len(<<g>>) = 1 /\ 1 \in 1..1 /\ <<g>>[1] = g
    OBVIOUS
  <2>2. /\ Kept(th)
        /\ \A k \in 1..1 : m - 1 + k \in 1..Len(stack'[th]) /\ stack'[th][m - 1 + k] = <<g>>[k]
        /\ \A x \in Threads : \A j \in 1..Len(stack'[x]) :
             RestRecord(th, x, j) \/ (x = th /\ j - (m - 1) \in 1..1)
    BY <1>2, <1>4, <2>1, Zenon
  <2>3. m \in 1..Len(stack'[th]) /\ stack'[th][m] = g
    BY <1>1, <2>1, <2>2
  <2>4. ASSUME NEW x \in Threads, NEW j \in 1..Len(stack'[x]) PROVE RestRecord(th, x, j) \/ (x = th /\ j = m)
    <3>1. j \in Int /\ (RestRecord(th, x, j) \/ (x = th /\ j - (m - 1) \in 1..1))
      BY <2>2
    <3>2. j - (m - 1) \in 1..1 => j = m
      BY <1>1, <3>1
    <3> QED BY <3>1, <3>2
  <2> QED BY <2>2, <2>3, <2>4 DEF OneAfter
<1>5. ASSUME NEW g \in GoodFrames, NEW h \in GoodFrames, Goto(th, <<g, h>>) PROVE TwoAfter(th, m, g, h)
  <2>1. /\ <<g, h>> \in Seq(GoodFrames) /\ Len(<<g, h>>) = 2 /\ 1 \in 1..2 /\ 2 \in 1..2
        /\ <<g, h>>[1] = g /\ <<g, h>>[2] = h
    OBVIOUS
  <2>2. /\ Kept(th)
        /\ \A k \in 1..2 : m - 1 + k \in 1..Len(stack'[th]) /\ stack'[th][m - 1 + k] = <<g, h>>[k]
        /\ \A x \in Threads : \A j \in 1..Len(stack'[x]) :
             RestRecord(th, x, j) \/ (x = th /\ j - (m - 1) \in 1..2)
    BY <1>2, <1>5, <2>1, Zenon
  <2>3. m - 1 + 1 = m /\ m - 1 + 2 = m + 1
    BY <1>1
  <2>4. m \in 1..Len(stack'[th]) /\ stack'[th][m] = g /\ m + 1 \in 1..Len(stack'[th]) /\ stack'[th][m + 1] = h
    BY <2>1, <2>2, <2>3
  <2>5. ASSUME NEW x \in Threads, NEW j \in 1..Len(stack'[x])
        PROVE  RestRecord(th, x, j) \/ (x = th /\ (j = m \/ j = m + 1))
    <3>1. j \in Int /\ (RestRecord(th, x, j) \/ (x = th /\ j - (m - 1) \in 1..2))
      BY <2>2
    <3>2. j - (m - 1) \in 1..2 => j = m \/ j = m + 1
      BY <1>1, <3>1
    <3> QED BY <3>1, <3>2
  <2> QED BY <2>2, <2>4, <2>5 DEF TwoAfter
<1> QED BY <1>1, <1>3, <1>4, <1>5

\* What is held before a step, and what the rest does not hold.
LEMMA HeldBefore ==
  ASSUME StackOK, NEW th \in Threads, NEW m, m = Len(stack[th])
  PROVE  /\ stack[th] # <<>> =>
              \A s, t : Held(s, t) <=> (PoolHolds(s, t) \/ Rest(th, s, t) \/ RecordHolds(Top(th), th, m, s, t))
         /\ stack[th] = <<>> => \A s, t : Held(s, t) <=> (PoolHolds(s, t) \/ Rest(th, s, t))
         /\ \A s, t : Rest(th, s, t) => OfRecord(s) # 0 /\ ~(OfThread(s) = th /\ OfRecord(s) \in {m, m + 1})
<1>1. m \in Nat /\ (stack[th] # <<>> => m \in 1..m /\ Top(th) = stack[th][m])
  BY TopGood DEF StackOK, Top
<1>2. \A s, t : Rest(th, s, t) => \E x \in Threads : \E j \in 1..Len(stack[x]) :
                  RecordHolds(stack[x][j], x, j, s, t)
  BY DEF Rest
<1>3. ASSUME stack[th] # <<>>, NEW s, NEW t
      PROVE  Held(s, t) <=> (PoolHolds(s, t) \/ Rest(th, s, t) \/ RecordHolds(Top(th), th, m, s, t))
  BY <1>1, <1>3 DEF Held, Rest, RestRecord
<1>4. ASSUME stack[th] = <<>>, NEW s, NEW t
      PROVE  Held(s, t) <=> (PoolHolds(s, t) \/ Rest(th, s, t))
  <2>1. m = 0 /\ \A x : \A j \in 1..Len(stack[x]) : j # 0
    BY <1>4
  <2> QED BY <2>1 DEF Held, Rest, RestRecord
<1>5. ASSUME NEW s, NEW t, Rest(th, s, t)
      PROVE  OfRecord(s) # 0 /\ ~(OfThread(s) = th /\ OfRecord(s) \in {m, m + 1})
  <2>1. PICK x \in Threads : \E j \in 1..Len(stack[x]) : RestRecord(th, x, j) /\ RecordHolds(stack[x][j], x, j, s, t)
    BY <1>5 DEF Rest
  <2>2. PICK j \in 1..Len(stack[x]) : RestRecord(th, x, j) /\ RecordHolds(stack[x][j], x, j, s, t)
    BY <2>1
  <2>3. OfThread(s) = x /\ OfRecord(s) = j
    BY <2>2, HoldingPlaces
  <2>4. j # 0 /\ (x = th => j # m /\ j # m + 1)
    BY <1>1, <2>2 DEF RestRecord
  <2> QED BY <2>3, <2>4
<1> QED BY <1>3, <1>4, <1>5

\* What is held after it.
LEMMA HeldAfter ==
  ASSUME NEW th \in Threads, NEW s, NEW t
  PROVE  /\ NoneAfter(th) => (Held(s, t)' <=> (PoolHolds(s, t)' \/ Rest(th, s, t)))
         /\ \A m, g : OneAfter(th, m, g) =>
              (Held(s, t)' <=> (PoolHolds(s, t)' \/ Rest(th, s, t) \/ RecordHolds(g, th, m, s, t)))
         /\ \A m, g, h : TwoAfter(th, m, g, h) =>
              (Held(s, t)' <=> (PoolHolds(s, t)' \/ Rest(th, s, t) \/ RecordHolds(g, th, m, s, t)
                                  \/ RecordHolds(h, th, m + 1, s, t)))
<1>1. Held(s, t)' <=> \/ PoolHolds(s, t)'
                      \/ \E x \in Threads : \E j \in 1..Len(stack'[x]) : RecordHolds(stack'[x][j], x, j, s, t)
  BY DEF Held
<1>2. Kept(th) /\ Rest(th, s, t) =>
        \E x \in Threads : \E j \in 1..Len(stack'[x]) : RecordHolds(stack'[x][j], x, j, s, t)
  BY DEF Kept, Rest
<1>3. \A x \in Threads : \A j : Kept(th) /\ RestRecord(th, x, j) /\ RecordHolds(stack'[x][j], x, j, s, t)
        => Rest(th, s, t)
  BY DEF Kept, Rest, RestRecord
<1>4. NoneAfter(th) => (Held(s, t)' <=> (PoolHolds(s, t)' \/ Rest(th, s, t)))
  BY <1>1, <1>2, <1>3 DEF NoneAfter
<1>5. ASSUME NEW m, NEW g, OneAfter(th, m, g)
      PROVE  Held(s, t)' <=> (PoolHolds(s, t)' \/ Rest(th, s, t) \/ RecordHolds(g, th, m, s, t))
  BY <1>1, <1>2, <1>3, <1>5 DEF OneAfter
<1>6. ASSUME NEW m, NEW g, NEW h, TwoAfter(th, m, g, h)
      PROVE  Held(s, t)' <=> (PoolHolds(s, t)' \/ Rest(th, s, t) \/ RecordHolds(g, th, m, s, t)
                                \/ RecordHolds(h, th, m + 1, s, t))
  BY <1>1, <1>2, <1>3, <1>6 DEF TwoAfter
<1> QED BY <1>4, <1>5, <1>6

-----------------------------------------------------------------------------
(* What records hold at their points, and how the pool's holdings change.  *)

\* A body or a client outside of the first part of schedule(), and inside of it.
LEMMA HoldRun ==
  ASSUME NEW f, NEW x, NEW j, f.at \in RunPoints
  PROVE  /\ ~(f.at = "register" /\ f.n = 0) =>
              \A s, t : RecordHolds(f, x, j, s, t) <=> (s = RunPlace(x, j) /\ t = f.who)
         /\ f.at = "register" /\ f.n = 0 =>
              \A s, t : RecordHolds(f, x, j, s, t) <=>
                          ((s = RunPlace(x, j) /\ t = f.who) \/ (s = NewPlace(x, j) /\ t = CallOf(f).task))
<1>1. f.at \notin ListPoints /\ f.at \notin {"resume", "add_continuation", "produce"}
  BY DEF RunPoints, BodyPoints, ListPoints
<1> QED BY <1>1 DEF RecordHolds

\* A record that is to resume a coroutine.
LEMMA HoldOffer ==
  ASSUME NEW f, NEW x, NEW j, f.at = "resume" \/ f.at = "produce"
  PROVE  /\ f.at = "resume" \/ f.who \in Coroutines =>
              \A s, t : RecordHolds(f, x, j, s, t) <=> (s = OfferPlace(x, j) /\ t = f.who)
         /\ f.at = "produce" /\ f.who \notin Coroutines => \A s, t : ~RecordHolds(f, x, j, s, t)
<1>1. f.at \notin ListPoints /\ f.at \notin RunPoints /\ f.at # "add_continuation" /\ f.at # "register"
  BY DEF RunPoints, BodyPoints, ListPoints
<1>2. f.at = "resume" => f.at # "produce"
  OBVIOUS
<1> QED BY <1>1, <1>2 DEF RecordHolds

\* await_suspend before the registration.
LEMMA HoldAdd ==
  ASSUME NEW f, NEW x, NEW j, f.at = "add_continuation"
  PROVE  \A s, t : RecordHolds(f, x, j, s, t) <=>
           ((f.who \in Coroutines /\ s = OfferPlace(x, j) /\ t = f.who)
              \/ (s = WaitPlace(f.who, x, j) /\ In(f.list, t)))
<1>1. f.at \notin ListPoints /\ f.at \notin RunPoints /\ f.at # "resume" /\ f.at # "register"
  BY DEF RunPoints, BodyPoints, ListPoints
<1> QED BY <1>1 DEF RecordHolds

\* The loops over the awaiters and over the dependents.
LEMMA HoldList ==
  ASSUME NEW f, NEW x, NEW j, f.at \in ListPoints
  PROVE  \A s, t : RecordHolds(f, x, j, s, t) <=> (s = ListPlace(x, j) /\ In(f.list, t))
<1>1. f.at \notin RunPoints /\ f.at \notin {"resume", "add_continuation", "produce", "register"}
  BY DEF RunPoints, BodyPoints, ListPoints
<1> QED BY <1>1 DEF RecordHolds

\* Nothing is held before the awaiters are swapped out, nor by a crashed thread.
LEMMA HoldNone ==
  ASSUME NEW f, NEW x, NEW j, f.at \in {"resume_continuations", "crashed"}
  PROVE  \A s, t : ~RecordHolds(f, x, j, s, t)
<1>1. f.at \notin RunPoints /\ f.at \notin ListPoints
      /\ f.at \notin {"resume", "add_continuation", "produce", "register"}
  BY DEF RunPoints, BodyPoints, ListPoints
<1> QED BY <1>1 DEF RecordHolds

\* The queue and the lists as they were.
LEMMA PoolSame ==
  ASSUME m_jobs' = m_jobs, continuations' = continuations, dependents' = dependents
  PROVE  \A s, t : PoolHolds(s, t)' <=> PoolHolds(s, t)
BY DEF PoolHolds

\* A job is added.
LEMMA PoolEnqueue ==
  ASSUME PoolOK, NEW k \in {"function", "resume"}, NEW u \in Tasks, enqueue(k, u),
         continuations' = continuations, dependents' = dependents
  PROVE  /\ \A s, t : PoolHolds(s, t)' <=> (PoolHolds(s, t) \/ (s = JobPlace /\ t = u))
         /\ OnceEach /\ ~PoolHolds(JobPlace, u) => OnceEach'
         /\ JobInv /\ suspendedAt' = suspendedAt /\ (k = "function" => suspendedAt[u] = 0) => JobInv'
<1> DEFINE e == [kind |-> k, task |-> u]
           r == Append(m_jobs, e)
           n == Len(m_jobs)
<1>1. /\ m_jobs \in Seq(Jobs) /\ e \in Jobs /\ m_jobs' = r /\ e.task = u /\ e.kind = k
  BY DEF PoolOK, Jobs, enqueue
<1> HIDE DEF e
<1>2. n \in Nat /\ Len(r) = n + 1 /\ r[n + 1] = e /\ \A i \in 1..n : r[i] = m_jobs[i]
  BY <1>1
<1>3. /\ \A i \in 1..(n + 1) : i \in 1..n \/ i = n + 1
      /\ \A i \in 1..n : i \in 1..(n + 1)
      /\ n + 1 \in 1..(n + 1)
  BY <1>2
<1> HIDE DEF r, n
<1>4. ASSUME NEW t PROVE (\E i \in 1..Len(r) : r[i].task = t) <=>
                           ((\E i \in 1..Len(m_jobs) : m_jobs[i].task = t) \/ t = u)
  BY <1>1, <1>2, <1>3 DEF n
<1>5. \A s, t : PoolHolds(s, t)' <=> (PoolHolds(s, t) \/ (s = JobPlace /\ t = u))
  BY <1>1, <1>4 DEF PoolHolds
<1>6. ~PoolHolds(JobPlace, u) => \A i \in 1..n : m_jobs[i].task # u
  BY DEF PoolHolds, n
<1>7. ASSUME OnceEach, ~PoolHolds(JobPlace, u) PROVE OnceEach'
  <2>1. ASSUME NEW i \in 1..(n + 1), NEW j \in 1..(n + 1), r[i].task = r[j].task PROVE i = j
    BY <1>1, <1>2, <1>3, <1>6, <1>7, <2>1 DEF OnceEach, n
  <2> QED BY <1>1, <1>2, <1>7, <2>1 DEF OnceEach
<1>8. ASSUME JobInv, suspendedAt' = suspendedAt, k = "function" => suspendedAt[u] = 0 PROVE JobInv'
  BY <1>1, <1>2, <1>3, <1>8 DEF JobInv, n
<1> QED BY <1>5, <1>7, <1>8

\* An awaiter is registered with u.
LEMMA PoolAwait ==
  ASSUME TasksOK, NEW u \in Tasks, NEW w \in Tasks,
         continuations' = [continuations EXCEPT ![u] = Append(@, w)],
         m_jobs' = m_jobs, dependents' = dependents
  PROVE  /\ \A s, t : PoolHolds(s, t)' <=> (PoolHolds(s, t) \/ (s = AwaitPlace(u) /\ t = w))
         /\ OnceEach /\ ~PoolHolds(AwaitPlace(u), w) => OnceEach'
<1>1. continuations \in [Tasks -> Seq(Tasks)]
  BY DEF TasksOK
<1>2. continuations'[u] = Append(continuations[u], w) /\ \A v \in Tasks \ {u} : continuations'[v] = continuations[v]
  BY <1>1
<1>3. \A t : In(continuations'[u], t) <=> In(continuations[u], t) \/ t = w
  BY <1>1, <1>2, AppendIn
<1>4. \A s, t : PoolHolds(s, t)' <=> (PoolHolds(s, t) \/ (s = AwaitPlace(u) /\ t = w))
  <2> TAKE s, t
  <2>1. PoolHolds(s, t)' <=> \/ s = JobPlace /\ \E i \in 1..Len(m_jobs) : m_jobs[i].task = t
                             \/ \E v \in Tasks : s = AwaitPlace(v) /\ In(continuations'[v], t)
                             \/ s = DependPlace /\ \E v \in Tasks : In(dependents[v], t)
    BY DEF PoolHolds
  <2>2. (\E v \in Tasks : s = AwaitPlace(v) /\ In(continuations'[v], t)) <=>
          ((\E v \in Tasks : s = AwaitPlace(v) /\ In(continuations[v], t)) \/ (s = AwaitPlace(u) /\ t = w))
    BY <1>2, <1>3, Zenon
  <2> QED BY <2>1, <2>2 DEF PoolHolds
<1>5. ASSUME OnceEach, ~PoolHolds(AwaitPlace(u), w) PROVE OnceEach'
  <2>1. ~In(continuations[u], w) /\ Once(continuations[u])
    BY <1>5 DEF PoolHolds, OnceEach
  <2>2. Once(continuations'[u])
    BY <1>1, <1>2, <2>1, AppendOnce
  <2> QED BY <1>2, <1>5, <2>2 DEF OnceEach
<1> QED BY <1>4, <1>5

\* Its awaiters are swapped out.
LEMMA PoolSwap ==
  ASSUME TasksOK, NEW u \in Tasks, continuations' = [continuations EXCEPT ![u] = <<>>],
         m_jobs' = m_jobs, dependents' = dependents
  PROVE  /\ \A s, t : PoolHolds(s, t)' => PoolHolds(s, t) /\ s # AwaitPlace(u)
         /\ \A t : In(continuations[u], t) => PoolHolds(AwaitPlace(u), t)
         /\ OnceEach => OnceEach'
<1>1. continuations'[u] = <<>> /\ \A v \in Tasks \ {u} : continuations'[v] = continuations[v]
  BY DEF TasksOK
<1>2. \A t : ~In(continuations'[u], t)
  BY <1>1, SmallLists
<1>3. \A s, t : PoolHolds(s, t)' => PoolHolds(s, t) /\ s # AwaitPlace(u)
  <2> TAKE s, t
  <2>1. PoolHolds(s, t)' <=> \/ s = JobPlace /\ \E i \in 1..Len(m_jobs) : m_jobs[i].task = t
                             \/ \E v \in Tasks : s = AwaitPlace(v) /\ In(continuations'[v], t)
                             \/ s = DependPlace /\ \E v \in Tasks : In(dependents[v], t)
    BY DEF PoolHolds
  <2>2. ASSUME NEW v \in Tasks, s = AwaitPlace(v), In(continuations'[v], t)
        PROVE  In(continuations[v], t) /\ s # AwaitPlace(u)
    <3>1. v # u BY <1>2, <2>2
    <3>2. Thing(AwaitPlace(v)) = v /\ Thing(AwaitPlace(u)) = u
      BY PlaceParts
    <3> QED BY <1>1, <2>2, <3>1, <3>2
  <2>3. JobPlace # AwaitPlace(u) /\ DependPlace # AwaitPlace(u)
    BY PlaceParts
  <2> QED BY <2>1, <2>2, <2>3 DEF PoolHolds
<1>4. \A t : In(continuations[u], t) => PoolHolds(AwaitPlace(u), t)
  BY DEF PoolHolds
<1>5. OnceEach => OnceEach'
  BY <1>1, SmallLists DEF OnceEach
<1> QED BY <1>3, <1>4, <1>5

\* A dependent is registered with d.
LEMMA PoolDepend ==
  ASSUME TasksOK, NEW d \in Tasks, NEW w \in Tasks,
         dependents' = [dependents EXCEPT ![d] = Append(@, w)],
         m_jobs' = m_jobs, continuations' = continuations
  PROVE  /\ \A s, t : PoolHolds(s, t)' <=> (PoolHolds(s, t) \/ (s = DependPlace /\ t = w))
         /\ \A v \in Tasks : \A t : In(dependents'[v], t) <=> (In(dependents[v], t) \/ (v = d /\ t = w))
         /\ OnceEach /\ ~In(dependents[d], w) => OnceEach'
<1>1. dependents \in [Tasks -> Seq(Tasks)]
  BY DEF TasksOK
<1>2. dependents'[d] = Append(dependents[d], w) /\ \A v \in Tasks \ {d} : dependents'[v] = dependents[v]
  BY <1>1
<1>3. \A t : In(dependents'[d], t) <=> In(dependents[d], t) \/ t = w
  BY <1>1, <1>2, AppendIn
<1>4. \A v \in Tasks : \A t : In(dependents'[v], t) <=> (In(dependents[v], t) \/ (v = d /\ t = w))
  BY <1>2, <1>3, Zenon
<1>5. \A s, t : PoolHolds(s, t)' <=> (PoolHolds(s, t) \/ (s = DependPlace /\ t = w))
  <2> TAKE s, t
  <2>1. PoolHolds(s, t)' <=> \/ s = JobPlace /\ \E i \in 1..Len(m_jobs) : m_jobs[i].task = t
                             \/ \E v \in Tasks : s = AwaitPlace(v) /\ In(continuations[v], t)
                             \/ s = DependPlace /\ \E v \in Tasks : In(dependents'[v], t)
    BY DEF PoolHolds
  <2> QED BY <1>4, <2>1 DEF PoolHolds
<1>6. ASSUME OnceEach, ~In(dependents[d], w) PROVE OnceEach'
  <2>1. Once(dependents[d])
    BY <1>6 DEF OnceEach
  <2>2. Once(dependents'[d])
    BY <1>1, <1>2, <1>6, <2>1, AppendOnce
  <2> QED BY <1>2, <1>6, <2>2 DEF OnceEach
<1> QED BY <1>4, <1>5, <1>6

\* The first dependent of u is removed.
LEMMA PoolRelease ==
  ASSUME TasksOK, OnceEach, NEW u \in Tasks, dependents[u] # <<>>, NEW d, d = Head(dependents[u]),
         dependents' = [dependents EXCEPT ![u] = Tail(@)],
         m_jobs' = m_jobs, continuations' = continuations
  PROVE  /\ d \in Tasks /\ In(dependents[u], d) /\ PoolHolds(DependPlace, d)
         /\ \A s, t : PoolHolds(s, t)' => PoolHolds(s, t)
         /\ \A v \in Tasks : \A t : In(dependents'[v], t) <=> (In(dependents[v], t) /\ ~(v = u /\ t = d))
         /\ OnceEach'
<1>1. dependents \in [Tasks -> Seq(Tasks)] /\ Once(dependents[u])
  BY DEF TasksOK, OnceEach
<1>2. dependents'[u] = Tail(dependents[u]) /\ \A v \in Tasks \ {u} : dependents'[v] = dependents[v]
  BY <1>1
<1>3. /\ d \in Tasks /\ In(dependents[u], d)
      /\ \A t : In(dependents[u], t) <=> In(dependents'[u], t) \/ t = d
      /\ Once(dependents'[u]) /\ ~In(dependents'[u], d)
  BY <1>1, <1>2, TailIn
<1>4. \A v \in Tasks : \A t : In(dependents'[v], t) <=> (In(dependents[v], t) /\ ~(v = u /\ t = d))
  BY <1>2, <1>3, Zenon
<1>5. ASSUME NEW s, NEW t, PoolHolds(s, t)' PROVE PoolHolds(s, t)
  <2>1. PoolHolds(s, t)' <=> \/ s = JobPlace /\ \E i \in 1..Len(m_jobs) : m_jobs[i].task = t
                             \/ \E v \in Tasks : s = AwaitPlace(v) /\ In(continuations[v], t)
                             \/ s = DependPlace /\ \E v \in Tasks : In(dependents'[v], t)
    BY DEF PoolHolds
  <2> QED BY <1>4, <1>5, <2>1 DEF PoolHolds
<1>6. OnceEach'
  BY <1>2, <1>3 DEF OnceEach
<1>7. PoolHolds(DependPlace, d)
  BY <1>3 DEF PoolHolds
<1> QED BY <1>3, <1>4, <1>5, <1>6, <1>7

\* The first job is taken.
LEMMA PoolTake ==
  ASSUME PoolOK, OnceEach, m_jobs # <<>>, NEW u, u = Head(m_jobs).task, m_jobs' = Tail(m_jobs),
         continuations' = continuations, dependents' = dependents
  PROVE  /\ u \in Tasks /\ PoolHolds(JobPlace, u) /\ ~PoolHolds(JobPlace, u)'
         /\ \A s, t : PoolHolds(s, t)' => PoolHolds(s, t)
         /\ OnceEach'
         /\ JobInv => (Head(m_jobs).kind = "function" => suspendedAt[u] = 0)
         /\ JobInv /\ suspendedAt' = suspendedAt => JobInv'
<1> DEFINE r == Tail(m_jobs)
           n == Len(m_jobs)
<1>1. /\ m_jobs \in Seq(Jobs) /\ n \in Nat \ {0} /\ Len(r) = n - 1 /\ Head(m_jobs) = m_jobs[1]
      /\ Head(m_jobs) \in Jobs /\ \A i \in 1..(n - 1) : r[i] = m_jobs[i + 1]
  BY DEF PoolOK
<1>2. /\ 1 \in 1..n /\ u \in Tasks
      /\ \A i \in 1..(n - 1) : i + 1 \in 1..n /\ i + 1 # 1
      /\ \A i, j \in 1..(n - 1) : i + 1 = j + 1 => i = j
  BY <1>1 DEF Jobs
<1>3. m_jobs' = r OBVIOUS
<1> HIDE DEF r
<1>4. PoolHolds(JobPlace, u)
  BY <1>1, <1>2 DEF PoolHolds
<1>5. \A i \in 1..(n - 1) : r[i].task # u
  BY <1>1, <1>2 DEF OnceEach
<1>6. ASSUME NEW s, NEW t, PoolHolds(s, t)' PROVE PoolHolds(s, t) /\ (s = JobPlace => t # u)
  <2>1. PoolHolds(s, t)' <=> \/ s = JobPlace /\ \E i \in 1..(n - 1) : r[i].task = t
                             \/ \E v \in Tasks : s = AwaitPlace(v) /\ In(continuations[v], t)
                             \/ s = DependPlace /\ \E v \in Tasks : In(dependents[v], t)
    BY <1>1, <1>3 DEF PoolHolds
  <2>2. JobPlace # DependPlace /\ \A v : JobPlace # AwaitPlace(v)
    BY PlaceParts
  <2>3. \A i \in 1..(n - 1) : r[i].task = t => \E k \in 1..Len(m_jobs) : m_jobs[k].task = t
    BY <1>1, <1>2
  <2> QED BY <1>5, <1>6, <2>1, <2>2, <2>3 DEF PoolHolds
<1>7. OnceEach'
  <2>1. \A i, j \in 1..(n - 1) : r[i].task = r[j].task => i = j
    BY <1>1, <1>2 DEF OnceEach
  <2> QED BY <1>1, <1>3, <2>1 DEF OnceEach
<1>8. JobInv => (Head(m_jobs).kind = "function" => suspendedAt[u] = 0)
  BY <1>1, <1>2 DEF JobInv
<1>9. JobInv /\ suspendedAt' = suspendedAt => JobInv'
  BY <1>1, <1>2, <1>3 DEF JobInv
<1> QED BY <1>2, <1>4, <1>6, <1>7, <1>8, <1>9

-----------------------------------------------------------------------------
(* What a step of a thread does to the tasks and to the records.           *)

\* The call that th executes starts t.
Begins(th, t) == stack[th] # <<>> /\ Top(th).at = "call" /\ Starts(Top(th).who, Top(th).pc, t)

\* t stays where it is, or it is moved or started to a place that suits it.
Token(th, t) ==
  \/ \A s : Held(s, t)' => /\ Held(s, t)
                           /\ t \in Tasks => completed'[t] = completed[t] /\ suspendedAt'[t] = suspendedAt[t]
  \/ \E d : /\ \A s : Held(s, t)' => s = d
            /\ t \in Tasks => Suits(d, t)'
            /\ (\E s : Held(s, t)) \/ Begins(th, t)

\* The call of th may be left.
Leaves(th) ==
  LET call == CallOf(Top(th)) IN
    /\ call.op \in {"await", "get", "wait"} => completed[call.task]
    /\ call.op \in {"await", "get"} /\ Top(th).who \in Tasks => ~exception[call.task]

\* How th comes to execute a body at the point of g.
BodyMove(th, g) ==
  \/ /\ stack[th] # <<>> /\ Top(th).at \in BodyPoints /\ g.who = Top(th).who
     /\ \/ g.at \in InsidePoints /\ g.pc = Top(th).pc
        \/ g.at = "call" /\ g.pc = Top(th).pc + 1 /\ Leaves(th)
        \/ g.at = "call" /\ g.pc = Len(Program[g.who]) + 1 /\ g.who \in Tasks /\ exception'[g.who]
  \/ /\ stack[th] # <<>> /\ Top(th).at = "resume" /\ g.who = Top(th).who /\ g.who \in Tasks /\ g.at = "call"
     /\ \/ suspendedAt[g.who] = 0 /\ g.pc = 1
        \/ /\ suspendedAt[g.who] # 0
           /\ \/ g.pc = suspendedAt[g.who] + 1 /\ ~exception[Program[g.who][suspendedAt[g.who]].task]
              \/ g.pc = Len(Program[g.who]) + 1 /\ exception'[g.who]
  \/ /\ stack[th] = <<>> /\ Held(JobPlace, g.who) /\ g.who \in Tasks
     /\ suspendedAt[g.who] = 0 /\ g.at = "call" /\ g.pc = 1

\* A body that th executes is still executed, or it has ended or is suspended.
RunGoesOn(th) ==
  stack[th] # <<>> /\ Top(th).at \in RunPoints =>
    \/ \E j \in 1..Len(stack'[th]) : stack'[th][j].who = Top(th).who /\ stack'[th][j].at \in RunPoints
    \/ Top(th).who \notin Tasks
    \/ completed'[Top(th).who]
    \/ Top(th).at = "call" /\ suspendedAt'[Top(th).who] = Top(th).pc

NewSound(th, g) == RecordSound(g)' /\ (g.at \in BodyPoints => BodyMove(th, g))

Effect(th) ==
  /\ Kept(th)
  /\ \A t : Token(th, t)
  /\ \A x \in Threads : \A j \in 1..Len(stack'[x]) :
       RestRecord(th, x, j) \/ \E g : g = stack'[x][j] /\ NewSound(th, g)
  /\ RunGoesOn(th)
  /\ OnceEach' /\ DependInv' /\ JobInv'

\* The innermost record and what it holds.
LEMMA TopFacts ==
  ASSUME TaskInv, TokenInv, NEW th \in Threads, stack[th] # <<>>, NEW f, f = Top(th), NEW m, m = Len(stack[th])
  PROVE  /\ f \in GoodFrames /\ f.at \in Points /\ f.who \in Owners /\ f.pc \in Nat
         /\ f.list \in Seq(Tasks) /\ f.n \in Nat /\ Fits(f.at, f.who, f.pc, f.list)
         /\ m \in Nat \ {0} /\ RecordSound(f)
         /\ \A s, t : RecordHolds(f, th, m, s, t) => Held(s, t)
         /\ f.at \in RunPoints =>
              /\ Held(RunPlace(th, m), f.who)
              /\ f.who \in Tasks => ~completed[f.who] /\ DepsMet(f.who)
<1>1. f \in GoodFrames /\ m \in Nat \ {0} /\ m \in 1..Len(stack[th]) /\ stack[th][m] = f
  BY TopGood DEF TaskInv, Top
<1>2. RecordSound(f)
  BY <1>1 DEF TokenInv, RecordsSound
<1>3. \A s, t : RecordHolds(f, th, m, s, t) => Held(s, t)
  BY <1>1 DEF Held
<1>4. ASSUME f.at \in RunPoints PROVE Held(RunPlace(th, m), f.who)
  <2>1. RecordHolds(f, th, m, RunPlace(th, m), f.who)
    BY <1>4 DEF RecordHolds
  <2> QED BY <1>3, <2>1
<1>5. ASSUME f.at \in RunPoints, f.who \in Tasks PROVE ~completed[f.who] /\ DepsMet(f.who)
  <2>1. Suits(RunPlace(th, m), f.who)
    BY <1>4, <1>5 DEF TokenInv, Placed
  <2> QED BY <2>1, PlaceParts DEF Suits
<1> QED BY <1>1, <1>2, <1>3, <1>4, <1>5, FrameFields

\* Whoever is held by the innermost record or by the pool is held by no other record.
LEMMA Alone ==
  ASSUME StackOK, OnePlace, NEW th \in Threads, NEW m, m = Len(stack[th]), NEW src, NEW u, Held(src, u),
         OfRecord(src) = 0 \/ (OfThread(src) = th /\ OfRecord(src) \in {m, m + 1})
  PROVE  \A s : ~Rest(th, s, u) /\ (Held(s, u) => s = src)
<1>1. \A s : Held(s, u) => s = src
  BY DEF OnePlace
<1>2. \A s : Rest(th, s, u) => Held(s, u)
  BY HeldBefore
<1> QED BY <1>1, <1>2, HeldBefore

\* Calls and points of a body that neither start, resume nor complete anything.
LEMMA BodyQuiet ==
  ASSUME TaskInv, TokenInv, NEW th \in Threads, stack[th] # <<>>, Top(th).at \in BodyPoints,
         NEW g \in GoodFrames, Goto(th, <<g>>), g.at \in RunPoints, g.who = Top(th).who,
         ~(g.at = "register" /\ g.n = 0), NewSound(th, g),
         m_jobs' = m_jobs, continuations' = continuations, dependents' = dependents,
         completed' = completed, suspendedAt' = suspendedAt
  PROVE  Effect(th)
<1> DEFINE m == Len(stack[th])
           f == Top(th)
<1>1. StackOK /\ OneAfter(th, m, g)
  BY GotoAfter DEF TaskInv
<1>2. f.at \in RunPoints
  BY DEF RunPoints
<1> HIDE DEF m, f
<1>3. \A s, t : RecordHolds(g, th, m, s, t) <=> (s = RunPlace(th, m) /\ t = f.who)
  <2>1. g.who = f.who
    BY DEF f
  <2>2. \A s, t : RecordHolds(g, th, m, s, t) <=> (s = RunPlace(th, m) /\ t = g.who)
    BY HoldRun, Zenon
  <2> QED BY <2>1, <2>2
<1>4. RecordHolds(f, th, m, RunPlace(th, m), f.who)
  BY <1>2 DEF RecordHolds
<1>5. ASSUME NEW s, NEW t, Held(s, t)' PROVE Held(s, t)
  <2>1. PoolHolds(s, t)' \/ Rest(th, s, t) \/ RecordHolds(g, th, m, s, t)
    BY <1>1, <1>5, HeldAfter
  <2>2. PoolHolds(s, t) \/ Rest(th, s, t) \/ RecordHolds(f, th, m, s, t)
    BY <1>3, <1>4, <2>1, PoolSame
  <2> QED BY <1>1, <2>2, HeldBefore DEF m, f
<1>6. \A t : Token(th, t)
  BY <1>5 DEF Token
<1>7. OnceEach' /\ DependInv' /\ JobInv'
  BY DEF TokenInv, OnceEach, DependInv, JobInv
<1>8. RunGoesOn(th)
  BY <1>1 DEF RunGoesOn, OneAfter
<1>9. \A x \in Threads : \A j \in 1..Len(stack'[x]) :
        RestRecord(th, x, j) \/ \E h : h = stack'[x][j] /\ NewSound(th, h)
  BY <1>1 DEF OneAfter
<1> QED BY <1>1, <1>6, <1>7, <1>8, <1>9 DEF Effect, OneAfter

\* Records of which nothing more is required.
LEMMA PlainSound ==
  ASSUME NEW g, g.at \in {"call", "blocked", "join", "on_completed", "produce", "resume"},
         g.at = "call" => g.n = 0
  PROVE  RecordSound(g)'
BY DEF RecordSound, CompletionPoints, ListPoints, LoopPoints

\* A call is left for the next one.
LEMMA LeaveEffect ==
  ASSUME TaskInv, TokenInv, NEW th \in Threads, stack[th] # <<>>, Top(th).at \in BodyPoints,
         Leaves(th), Goto(th, <<Step(th)>>), m_jobs' = m_jobs, UNCHANGED taskVars
  PROVE  Effect(th)
<1>0. PICK g : g = Step(th)
  OBVIOUS
<1>1. Top(th) \in GoodFrames /\ Top(th) \in Frames
  BY TopGood DEF TaskInv, GoodFrames
<1>2. g \in GoodFrames /\ g.at = "call" /\ g.who = Top(th).who /\ g.pc = Top(th).pc + 1
  BY <1>0, <1>1, NextCallGood DEF Step
<1>3. g.n = 0
  BY <1>0, <1>1 DEF Step, Frames
<1>4. NewSound(th, g)
  BY <1>2, <1>3, PlainSound DEF NewSound, BodyMove
<1>5. g.at \in RunPoints /\ g.at # "register"
  BY <1>2 DEF RunPoints, BodyPoints
<1>6. Goto(th, <<g>>)
  BY <1>0
<1> QED BY <1>2, <1>4, <1>5, <1>6, BodyQuiet DEF taskVars

\* A result is returned or an exception rethrown.
LEMMA ReturnEffect ==
  ASSUME TaskInv, TokenInv, NEW th \in Threads, stack[th] # <<>>, Top(th).at \in BodyPoints,
         NEW p, p = Top(th).who, NEW u, u = CallOf(Top(th)).task, completed[u],
         Return(th, p, Top(th).pc, u),
         m_jobs' = m_jobs, continuations' = continuations, dependents' = dependents,
         completed' = completed, suspendedAt' = suspendedAt
  PROVE  Effect(th)
<1>1. Top(th) \in GoodFrames /\ p \in Owners /\ Top(th).pc + 1 \in Nat /\ Len(Program[p]) + 1 \in Nat
  BY TopGood, FrameFields, ProgramAssumption DEF TaskInv
<1>0. PICK g : g = IF exception[u] /\ p \in Tasks THEN Body(p, Len(Program[p]) + 1) ELSE Body(p, Top(th).pc + 1)
  OBVIOUS
<1>2. g \in GoodFrames /\ g.at = "call" /\ g.who = p /\ g.n = 0
  BY <1>0, <1>1, BodyGood DEF Body, Frame
<1>3. Goto(th, <<g>>)
  BY <1>0 DEF Return
<1>4. IF exception[u] /\ p \in Tasks THEN g.pc = Len(Program[p]) + 1 /\ exception'[p]
                                      ELSE g.pc = Top(th).pc + 1 /\ Leaves(th)
  <2>1. CASE exception[u] /\ p \in Tasks
    BY <1>0, <1>1, <2>1, BodyGood DEF Return, TaskInv, TasksOK
  <2>2. CASE ~(exception[u] /\ p \in Tasks)
    BY <1>0, <1>1, <2>2, BodyGood DEF Leaves
  <2> QED BY <2>1, <2>2
<1>5. BodyMove(th, g)
  BY <1>2, <1>4 DEF BodyMove
<1>6. NewSound(th, g)
  BY <1>2, <1>5, PlainSound DEF NewSound
<1>7. g.at \in RunPoints /\ g.at # "register"
  BY <1>2 DEF RunPoints, BodyPoints
<1> QED BY <1>2, <1>3, <1>6, <1>7, BodyQuiet

\* The calls that only wait, and those of the pool.
LEMMA QuietCalls ==
  ASSUME TaskInv, TokenInv, NEW th \in Threads,
         run(th) \/ stop(th) \/ join(th) \/ wait(th) \/ GetReturn(th) \/ Throw(th)
  PROVE  Effect(th)
<1> USE DEF BodyPoints
<1>1. CASE run(th) \/ wait(th)
  <2>1. /\ stack[th] # <<>> /\ Top(th).at = "call" /\ CallOf(Top(th)) = Call(th)
        /\ \/ Call(th).op = "run"
           \/ Call(th).op = "wait" /\ completed[Call(th).task]
    BY <1>1, CallType DEF run, wait, TaskInv, AtCall, CallOf
  <2>2. Leaves(th)
    BY <2>1 DEF Leaves
  <2>3. Goto(th, <<Step(th)>>) /\ m_jobs' = m_jobs /\ UNCHANGED taskVars
    BY <1>1 DEF run, wait, poolVars
  <2> QED BY <2>1, <2>2, <2>3, LeaveEffect
<1>2. CASE join(th)
  <2>1. stack[th] # <<>> /\ Top(th).at = "join"
    BY <1>2 DEF join, At
  <2>2. CallOf(Top(th)).op = "stop"
    BY <2>1, TopGood, FrameFields, PointNames DEF TaskInv, Fits, CallOf
  <2>3. Leaves(th)
    BY <2>2 DEF Leaves
  <2>4. Goto(th, <<Step(th)>>) /\ m_jobs' = m_jobs /\ UNCHANGED taskVars
    BY <1>2 DEF join, poolVars
  <2> QED BY <2>1, <2>3, <2>4, LeaveEffect
<1>3. CASE stop(th)
  <2>0. PICK g : g = [Top(th) EXCEPT !.at = "join"]
    OBVIOUS
  <2>1. /\ stack[th] # <<>> /\ Top(th) \in GoodFrames /\ Top(th).at = "call"
        /\ Top(th).pc \in DOMAIN Program[Top(th).who]
        /\ Program[Top(th).who][Top(th).pc].op = "stop"
    BY <1>3, CallType DEF stop, TaskInv
  <2>2. g \in GoodFrames /\ g.at = "join" /\ g.who = Top(th).who /\ g.pc = Top(th).pc
    BY <2>0, <2>1, MoveGood, PointNames DEF Fits
  <2>3. Goto(th, <<g>>)
    BY <1>3, <2>0 DEF stop
  <2>4. NewSound(th, g)
    BY <2>1, <2>2, PlainSound DEF NewSound, BodyMove, InsidePoints
  <2> QED BY <1>3, <2>1, <2>2, <2>3, <2>4, BodyQuiet DEF stop, taskVars, RunPoints
<1>4. CASE GetReturn(th)
  <2>1. stack[th] # <<>> /\ Top(th).at = "blocked" /\ CallOf(Top(th)) = Call(th)
    BY <1>4 DEF GetReturn, At, Call, CallOf
  <2> QED BY <1>4, <2>1, ReturnEffect DEF GetReturn, poolVars
<1>5. CASE Throw(th)
  <2>0. PICK p, g : p = Top(th).who /\ g = Body(p, Len(Program[p]) + 1)
    OBVIOUS
  <2>1. stack[th] # <<>> /\ Top(th).at = "call" /\ p \in Tasks
    BY <1>5, <2>0, OwnersAssumption DEF Throw, At
  <2>2. p \in Owners /\ Len(Program[p]) + 1 \in Nat
    BY <2>1, ProgramAssumption DEF Owners
  <2>3. g \in GoodFrames /\ g.at = "call" /\ g.who = p /\ g.pc = Len(Program[p]) + 1 /\ g.n = 0
    BY <2>0, <2>2, BodyGood DEF Body, Frame
  <2>4. Goto(th, <<g>>) /\ exception'[p]
    BY <1>5, <2>0, <2>1 DEF Throw, TaskInv, TasksOK
  <2>5. NewSound(th, g)
    BY <2>0, <2>1, <2>3, <2>4, PlainSound DEF NewSound, BodyMove
  <2> QED BY <1>5, <2>0, <2>1, <2>3, <2>4, <2>5, BodyQuiet DEF Throw, poolVars, RunPoints
<1> QED BY <1>1, <1>2, <1>3, <1>4, <1>5

-----------------------------------------------------------------------------
(* Calls that start tasks.                                                 *)

\* Nobody has a task whose start is the call at hand.
LEMMA StartFresh ==
  ASSUME TaskInv, TokenInv, NEW th \in Threads, NEW u \in Tasks, Begins(th, u)
  PROVE  /\ ~completed[u] /\ ~done[u] /\ suspendedAt[u] = 0 /\ Fresh(u)
         /\ \A s : ~Held(s, u) /\ ~Rest(th, s, u) /\ ~PoolHolds(s, u)
         /\ Top(th).who # u
<1> DEFINE f == Top(th)
           m == Len(stack[th])
<1>1. stack[th] # <<>> /\ f.at = "call" /\ Starts(f.who, f.pc, u)
  BY DEF Begins
<1>2. f \in GoodFrames /\ m \in 1..Len(stack[th]) /\ stack[th][m] = f /\ f.who \in Owners /\ f.at \in RunPoints
  BY <1>1, TopGood, FrameFields DEF TaskInv, Top, RunPoints, BodyPoints
<1>3. Ahead(f, f.pc)
  BY <1>1 DEF Ahead, BodyPoints
<1>4. ToCome(f.who, f.pc)
  BY <1>2, <1>3 DEF ToCome
<1>5. Fresh(u)
  BY <1>1, <1>2, <1>4 DEF TokenInv, FreshInv, Starts
<1>6. \A s : ~Held(s, u)
  BY <1>5 DEF Fresh
<1>7. \A s : ~Rest(th, s, u) /\ ~PoolHolds(s, u)
  BY <1>1, <1>6, HeldBefore DEF TaskInv
<1>8. f.who # u
  <2>1. Held(RunPlace(th, m), f.who)
    BY <1>1, <1>2, TopFacts
  <2> QED BY <1>6, <2>1
<1> QED BY <1>5, <1>6, <1>7, <1>8 DEF Fresh

\* The only start of a task, and with it the only dependency list.
LEMMA OnlyStart ==
  ASSUME SoundUse, NEW p \in Owners, NEW i \in DOMAIN Program[p], NEW t \in Tasks, Starts(p, i, t)
  PROVE  /\ \A q \in Owners : \A k \in DOMAIN Program[q] : Starts(q, k, t) => p = q /\ i = k
         /\ Program[p][i].op # "schedule" => Deps[t] = {}
         /\ Program[p][i].op = "schedule" => \A d : d \in Deps[t] <=> d \in Tasks /\ In(Program[p][i].deps, d)
<1>1. \A q \in Owners : \A k \in DOMAIN Program[q] : Starts(q, k, t) => p = q /\ i = k
  BY DEF SoundUse
<1>2. \A q \in Owners : \A k \in DOMAIN Program[q] :
        Program[q][k].op = "schedule" /\ Program[q][k].task = t => p = q /\ i = k
  BY <1>1 DEF Starts
<1>3. Deps[t] = {d \in Tasks : \E q \in Owners : \E k \in DOMAIN Program[q] :
                   /\ Program[q][k].op = "schedule" /\ Program[q][k].task = t
                   /\ \E j \in DOMAIN Program[q][k].deps : Program[q][k].deps[j] = d}
  BY DEF Deps
<1>4. Program[p][i] \in Calls /\ Program[p][i].task = t
  BY ProgramAssumption DEF Starts
<1>5. DOMAIN Program[p][i].deps = 1..Len(Program[p][i].deps)
  BY <1>4 DEF Calls
<1>6. ASSUME Program[p][i].op # "schedule" PROVE Deps[t] = {}
  BY <1>2, <1>3, <1>6
<1>7. ASSUME Program[p][i].op = "schedule", NEW d
      PROVE  d \in Deps[t] <=> d \in Tasks /\ In(Program[p][i].deps, d)
  BY <1>2, <1>3, <1>4, <1>5, <1>7 DEF In
<1> QED BY <1>1, <1>6, <1>7

\* A task that a call starts may be resumed at once, unless schedule() is called.
LEMMA StartSuits ==
  ASSUME SoundUse, TaskInv, TokenInv, NEW th \in Threads, NEW u \in Tasks, Begins(th, u),
         CallOf(Top(th)).op # "schedule", completed' = completed, suspendedAt'[u] = suspendedAt[u],
         NEW d, Kind(d) = "ready"
  PROVE  Suits(d, u)'
<1>1. ~completed[u] /\ suspendedAt[u] = 0
  BY StartFresh
<1>2. Top(th).who \in Owners /\ Starts(Top(th).who, Top(th).pc, u)
  BY TopGood, FrameFields DEF TaskInv, Begins
<1>3. Deps[u] = {}
  BY <1>2, OnlyStart, SMTT(30) DEF CallOf, Starts
<1>4. "ready" # "run" /\ "ready" # "wait" /\ "ready" # "new"
  OBVIOUS
<1> QED BY <1>1, <1>3, <1>4 DEF Suits, MayGoOn, DepsMet

\* A task is started by a job.
LEMMA EnqueueStart ==
  ASSUME SoundUse, TaskInv, TokenInv, NEW th \in Threads, NEW u \in Tasks, Begins(th, u),
         CallOf(Top(th)).op # "schedule", NEW k \in {"function", "resume"}, enqueue(k, u),
         NEW g \in GoodFrames, Goto(th, <<g>>), g.at \in {"call", "blocked"}, g.who = Top(th).who,
         NewSound(th, g), continuations' = continuations, dependents' = dependents,
         completed' = completed, suspendedAt' = suspendedAt
  PROVE  Effect(th)
<1> DEFINE m == Len(stack[th])
           f == Top(th)
<1>1. StackOK /\ stack[th] # <<>> /\ f.at = "call" /\ OneAfter(th, m, g)
  BY GotoAfter DEF TaskInv, Begins
<1>2. f.at \in RunPoints /\ g.at \in RunPoints /\ g.at # "register"
  BY <1>1 DEF RunPoints, BodyPoints
<1>3. g.who = f.who /\ f.who # u
  BY StartFresh
<1> HIDE DEF m, f
<1>4. \A s, t : RecordHolds(g, th, m, s, t) <=> (s = RunPlace(th, m) /\ t = g.who)
  BY <1>2, HoldRun, Zenon
<1>5. RecordHolds(f, th, m, RunPlace(th, m), f.who)
  BY <1>2 DEF RecordHolds
<1>6. \A s, t : PoolHolds(s, t)' <=> (PoolHolds(s, t) \/ (s = JobPlace /\ t = u))
  BY PoolEnqueue DEF TaskInv
<1>7. ASSUME NEW s, NEW t, Held(s, t)', t # u PROVE Held(s, t)
  <2>1. PoolHolds(s, t)' \/ Rest(th, s, t) \/ RecordHolds(g, th, m, s, t)
    BY <1>1, <1>7, HeldAfter
  <2>2. PoolHolds(s, t) \/ Rest(th, s, t) \/ RecordHolds(f, th, m, s, t)
    BY <1>3, <1>4, <1>5, <1>6, <1>7, <2>1
  <2> QED BY <1>1, <2>2, HeldBefore DEF m, f
<1>8. ASSUME NEW s, Held(s, u)' PROVE s = JobPlace
  <2>1. PoolHolds(s, u)' \/ Rest(th, s, u) \/ RecordHolds(g, th, m, s, u)
    BY <1>1, <1>8, HeldAfter
  <2>2. ~PoolHolds(s, u) /\ ~Rest(th, s, u)
    BY StartFresh
  <2> QED BY <1>3, <1>4, <1>6, <2>1, <2>2
<1>9. Suits(JobPlace, u)'
  BY StartSuits, PlaceParts
<1>10. \A t : Token(th, t)
  BY <1>7, <1>8, <1>9 DEF Token
<1>11. OnceEach' /\ JobInv'
  <2>1. ~PoolHolds(JobPlace, u) /\ suspendedAt[u] = 0
    BY StartFresh
  <2> QED BY <2>1, PoolEnqueue DEF TaskInv, TokenInv
<1>12. DependInv'
  BY DEF TokenInv, DependInv
<1>13. RunGoesOn(th)
  BY <1>1, <1>2, <1>3 DEF RunGoesOn, OneAfter, f
<1>14. \A x \in Threads : \A j \in 1..Len(stack'[x]) :
        RestRecord(th, x, j) \/ \E h : h = stack'[x][j] /\ NewSound(th, h)
  BY <1>1 DEF OneAfter
<1> QED BY <1>1, <1>10, <1>11, <1>12, <1>13, <1>14 DEF Effect, OneAfter

\* run_async.
LEMMA RunAsyncEffect ==
  ASSUME SoundUse, TaskInv, TokenInv, NEW th \in Threads, run_async(th)
  PROVE  Effect(th)
<1>1. PICK u, g : u = Call(th).task /\ g = Step(th)
  OBVIOUS
<1>2. /\ stack[th] # <<>> /\ Top(th) \in GoodFrames /\ Top(th).at = "call" /\ u \in Tasks
      /\ Top(th).pc \in DOMAIN Program[Top(th).who] /\ CallOf(Top(th)) = Call(th)
      /\ Call(th).op = "run_async"
  BY <1>1, CallType DEF run_async, TaskInv, CallOf
<1>3. Begins(th, u)
  BY <1>1, <1>2 DEF Begins, Starts, CallOf
<1>4. g \in GoodFrames /\ g.at = "call" /\ g.who = Top(th).who /\ g.pc = Top(th).pc + 1
  BY <1>1, <1>2, NextCallGood DEF Step
<1>5. g.n = 0
  BY <1>1, <1>2 DEF Step, GoodFrames, Frames
<1>6. BodyMove(th, g)
  BY <1>2, <1>4 DEF BodyMove, Leaves, BodyPoints
<1>7. NewSound(th, g)
  BY <1>4, <1>5, <1>6, PlainSound DEF NewSound
<1>8. enqueue("function", u) /\ Goto(th, <<g>>)
  BY <1>1 DEF run_async
<1> QED BY <1>2, <1>3, <1>4, <1>7, <1>8, EnqueueStart DEF run_async

\* A running body does not depend on a task that is not completed.
LEMMA NotADependency ==
  ASSUME TaskInv, TokenInv, NEW th \in Threads, NEW op \in {"await", "get"}, AtCall(th, op),
         ~completed[Call(th).task], Call(th).task \in Coroutines
  PROVE  Begins(th, Call(th).task)
<1>1. /\ stack[th] # <<>> /\ Top(th) \in GoodFrames /\ Top(th).at = "call"
      /\ Top(th).pc \in DOMAIN Program[Top(th).who] /\ Program[Top(th).who][Top(th).pc] = Call(th)
      /\ Call(th).op = op
  BY CallType DEF TaskInv
<1>2. Top(th).who \in Tasks => DepsMet(Top(th).who)
  BY <1>1, TopFacts DEF RunPoints, BodyPoints
<1>3. Top(th).who \in Tasks => Call(th).task \notin Deps[Top(th).who]
  BY <1>2 DEF DepsMet
<1> QED BY <1>1, <1>3 DEF Begins, Starts

\* get() resumes the coroutine on its own thread.
LEMMA NestedStart ==
  ASSUME SoundUse, TaskInv, TokenInv, NEW th \in Threads, NEW u \in Tasks, Begins(th, u),
         CallOf(Top(th)).op # "schedule", NEW g \in GoodFrames, NEW h \in GoodFrames,
         Goto(th, <<g, h>>), g.at = "blocked", g.who = Top(th).who, NewSound(th, g),
         h.at = "resume", h.who = u, m_jobs' = m_jobs,
         continuations' = continuations, dependents' = dependents,
         completed' = completed, suspendedAt' = suspendedAt
  PROVE  Effect(th)
<1>0. PICK m, f : m = Len(stack[th]) /\ f = Top(th)
  OBVIOUS
<1>1. StackOK /\ stack[th] # <<>> /\ f.at = "call" /\ TwoAfter(th, m, g, h)
  BY <1>0, GotoAfter DEF TaskInv, Begins
<1>2. f.at \in RunPoints /\ g.at \in RunPoints /\ g.at # "register"
  BY <1>1 DEF RunPoints, BodyPoints
<1>3. g.who = f.who /\ f.who # u
  BY <1>0, StartFresh
<1>4. /\ \A s, t : RecordHolds(g, th, m, s, t) <=> (s = RunPlace(th, m) /\ t = g.who)
      /\ \A s, t : RecordHolds(h, th, m + 1, s, t) <=> (s = OfferPlace(th, m + 1) /\ t = h.who)
  BY <1>2, HoldRun, HoldOffer, Zenon
<1>5. RecordHolds(f, th, m, RunPlace(th, m), f.who)
  BY <1>2 DEF RecordHolds
<1>6. ASSUME NEW s, NEW t, Held(s, t)', t # u PROVE Held(s, t)
  <2>1. PoolHolds(s, t)' \/ Rest(th, s, t) \/ RecordHolds(g, th, m, s, t) \/ RecordHolds(h, th, m + 1, s, t)
    BY <1>1, <1>6, HeldAfter
  <2>2. PoolHolds(s, t) \/ Rest(th, s, t) \/ RecordHolds(f, th, m, s, t)
    BY <1>3, <1>4, <1>5, <1>6, <2>1, PoolSame
  <2> QED BY <1>0, <1>1, <2>2, HeldBefore
<1>7. ASSUME NEW s, Held(s, u)' PROVE s = OfferPlace(th, m + 1)
  <2>1. PoolHolds(s, u)' \/ Rest(th, s, u) \/ RecordHolds(g, th, m, s, u) \/ RecordHolds(h, th, m + 1, s, u)
    BY <1>1, <1>7, HeldAfter
  <2>2. ~PoolHolds(s, u) /\ ~Rest(th, s, u)
    BY StartFresh
  <2> QED BY <1>3, <1>4, <2>1, <2>2, PoolSame
<1>8. Suits(OfferPlace(th, m + 1), u)'
  <2>1. PICK d : d = OfferPlace(th, m + 1)
    OBVIOUS
  <2>2. Kind(d) = "ready"
    BY <2>1, PlaceParts
  <2> QED BY <2>1, <2>2, StartSuits
<1>9. \A t : Token(th, t)
  BY <1>6, <1>7, <1>8 DEF Token
<1>10. OnceEach' /\ JobInv' /\ DependInv'
  BY DEF TokenInv, OnceEach, JobInv, DependInv
<1>11. RunGoesOn(th)
  BY <1>0, <1>1, <1>2, <1>3 DEF RunGoesOn, TwoAfter
<1>12. NewSound(th, h)
  BY PlainSound DEF NewSound, BodyPoints
<1>13. \A x \in Threads : \A j \in 1..Len(stack'[x]) :
        RestRecord(th, x, j) \/ \E r : r = stack'[x][j] /\ NewSound(th, r)
  BY <1>1, <1>12 DEF TwoAfter
<1> QED BY <1>1, <1>9, <1>10, <1>11, <1>13 DEF Effect, TwoAfter

\* get().
LEMMA GetEffect ==
  ASSUME SoundUse, TaskInv, TokenInv, NEW th \in Threads, get(th)
  PROVE  Effect(th)
<1>0. PICK u, g, h : /\ u = Call(th).task /\ g = [Top(th) EXCEPT !.at = "blocked"]
                     /\ h = Frame("resume", u, 0, <<>>)
  OBVIOUS
<1>1. /\ stack[th] # <<>> /\ Top(th) \in GoodFrames /\ Top(th).at = "call"
      /\ Top(th).pc \in DOMAIN Program[Top(th).who]
      /\ CallOf(Top(th)) = Call(th) /\ Call(th).op = "get" /\ u \in Tasks
      /\ Program[Top(th).who][Top(th).pc].op = "get"
  BY <1>0, CallType DEF get, TaskInv, CallOf
<1>2. g \in GoodFrames /\ g.at = "blocked" /\ g.who = Top(th).who /\ g.pc = Top(th).pc
  BY <1>0, <1>1, MoveGood, PointNames DEF Fits
<1>3. BodyMove(th, g)
  BY <1>1, <1>2 DEF BodyMove, BodyPoints, InsidePoints
<1>4. NewSound(th, g)
  BY <1>2, <1>3, PlainSound DEF NewSound
<1>5. h \in GoodFrames /\ h.at = "resume" /\ h.who = u
  BY <1>0, <1>1, LibraryGood DEF Frame
<1>6. /\ UNCHANGED taskVars
      /\ \/ Goto(th, <<g>>) /\ m_jobs' = m_jobs
         \/ ~completed[u] /\ Produce(th, u, <<g>>)
  BY <1>0 DEF get
<1>7. Append(<<g>>, h) = <<g, h>>
  BY <1>2, <1>5, ShortAppends
<1>8. \/ Goto(th, <<g>>) /\ m_jobs' = m_jobs
      \/ ~completed[u] /\ Resumable(u) /\ enqueue("resume", u) /\ Goto(th, <<g>>)
      \/ ~completed[u] /\ Resumable(u) /\ m_jobs' = m_jobs /\ Goto(th, <<g, h>>)
  BY <1>0, <1>6, <1>7 DEF Produce
<1>9. ~completed[u] /\ Resumable(u) => Begins(th, u)
  BY <1>0, NotADependency DEF get, Resumable
<1>10. CASE Goto(th, <<g>>) /\ m_jobs' = m_jobs
  BY <1>1, <1>2, <1>4, <1>6, <1>10, BodyQuiet DEF taskVars, RunPoints, BodyPoints
<1>11. CASE ~completed[u] /\ Resumable(u) /\ enqueue("resume", u) /\ Goto(th, <<g>>)
  BY <1>1, <1>2, <1>4, <1>6, <1>9, <1>11, EnqueueStart DEF taskVars
<1>12. CASE ~completed[u] /\ Resumable(u) /\ m_jobs' = m_jobs /\ Goto(th, <<g, h>>)
  BY <1>1, <1>2, <1>4, <1>5, <1>6, <1>9, <1>12, NestedStart DEF taskVars
<1> QED BY <1>8, <1>10, <1>11, <1>12

\* schedule(), before its loop.
LEMMA ScheduleEffect ==
  ASSUME SoundUse, TaskInv, TokenInv, NEW th \in Threads, schedule(th)
  PROVE  Effect(th)
<1>0. PICK m, f, u, g : /\ m = Len(stack[th]) /\ f = Top(th) /\ u = Call(th).task
                        /\ g = [Top(th) EXCEPT !.at = "register", !.list = Call(th).deps]
  BY Zenon
<1>1. /\ stack[th] # <<>> /\ f \in GoodFrames /\ f.at = "call" /\ f.pc \in DOMAIN Program[f.who]
      /\ CallOf(f) = Call(th) /\ CallOf(f).op = "schedule" /\ u \in Tasks /\ CallOf(f).task = u
      /\ CallOf(f).deps \in Seq(Tasks) /\ f.who \in Owners /\ f.n \in Nat /\ f \in Frames
  BY <1>0, CallType, FrameFields DEF schedule, TaskInv, CallOf
<1>2. Begins(th, u) /\ Starts(f.who, f.pc, u)
  BY <1>0, <1>1 DEF Begins, Starts, CallOf
<1>3. g \in Moved(f, "register", CallOf(f).deps)
  <2>1. Fits("register", f.who, f.pc, CallOf(f).deps)
    BY <1>1, PointNames DEF Fits, CallOf
  <2> QED BY <1>0, <1>1, <2>1, RelistMoveGood
<1>4. /\ g \in GoodFrames /\ g.at = "register" /\ g.who = f.who /\ g.pc = f.pc
      /\ g.list = CallOf(f).deps /\ CallOf(g) = CallOf(f)
  BY <1>3 DEF Moved, CallOf
<1>5. g.n = 0
  <2>1. f.n = 0
    BY <1>0, <1>1, TopFacts DEF RecordSound
  <2> QED BY <1>0, <1>1, <2>1 DEF Frames
<1>6. StackOK /\ OneAfter(th, m, g)
  BY <1>0, <1>1, <1>4, GotoAfter DEF TaskInv, schedule
<1>7. f.at \in RunPoints /\ g.at \in RunPoints /\ f.who # u
  BY <1>0, <1>1, <1>2, <1>4, StartFresh DEF RunPoints, BodyPoints
<1>8. \A s, t : RecordHolds(g, th, m, s, t) <=>
                  ((s = RunPlace(th, m) /\ t = f.who) \/ (s = NewPlace(th, m) /\ t = u))
  <2>1. \A s, t : RecordHolds(g, th, m, s, t) <=>
                    ((s = RunPlace(th, m) /\ t = g.who) \/ (s = NewPlace(th, m) /\ t = CallOf(g).task))
    BY <1>4, <1>5, <1>7, HoldRun, Zenon
  <2> QED BY <1>1, <1>4, <2>1
<1>9. RecordHolds(f, th, m, RunPlace(th, m), f.who)
  BY <1>7 DEF RecordHolds
<1>10. /\ completed' = completed /\ suspendedAt' = suspendedAt /\ m_jobs' = m_jobs
       /\ continuations' = continuations /\ dependents' = dependents
  BY DEF schedule, poolVars
<1>11. ASSUME NEW s, NEW t, Held(s, t)', t # u PROVE Held(s, t)
  <2>1. PoolHolds(s, t)' \/ Rest(th, s, t) \/ RecordHolds(g, th, m, s, t)
    BY <1>6, <1>11, HeldAfter
  <2>2. PoolHolds(s, t) \/ Rest(th, s, t) \/ RecordHolds(f, th, m, s, t)
    BY <1>8, <1>9, <1>10, <1>11, <2>1, PoolSame
  <2> QED BY <1>0, <1>1, <1>6, <2>2, HeldBefore
<1>12. ASSUME NEW s, Held(s, u)' PROVE s = NewPlace(th, m)
  <2>1. PoolHolds(s, u)' \/ Rest(th, s, u) \/ RecordHolds(g, th, m, s, u)
    BY <1>6, <1>12, HeldAfter
  <2>2. ~PoolHolds(s, u) /\ ~Rest(th, s, u)
    BY <1>1, <1>2, StartFresh
  <2> QED BY <1>7, <1>8, <1>10, <2>1, <2>2, PoolSame
<1>13. ~completed[u] /\ suspendedAt[u] = 0 /\ \A d \in Tasks : ~In(dependents[d], u)
  BY <1>1, <1>2, StartFresh DEF PoolHolds
<1>14. Pending(u)'
  <2>1. ASSUME NEW d \in Deps[u] PROVE ToLookAt(u, d)'
    <3>1. In(g.list, d)
      BY <1>1, <1>2, <1>4, OnlyStart DEF CallOf
    <3>2. LoopsOver(g, u, d)
      BY <1>1, <1>4, <3>1 DEF LoopsOver, LoopPoints
    <3>3. m \in 1..Len(stack'[th]) /\ LoopsOver(stack'[th][m], u, d)
      BY <1>6, <3>2 DEF OneAfter
    <3> QED BY <3>3 DEF ToLookAt
  <2> QED BY <2>1 DEF Pending
<1>15. Suits(NewPlace(th, m), u)'
  <2>1. PICK s : s = NewPlace(th, m)
    OBVIOUS
  <2>2. Kind(s) = "new"
    BY <2>1, PlaceParts
  <2>3. Suits(s, u)'
    BY <1>10, <1>13, <1>14, <2>2 DEF Suits
  <2> QED BY <2>1, <2>3
<1>16. \A t : Token(th, t)
  BY <1>2, <1>10, <1>11, <1>12, <1>15 DEF Token
<1>17. OnceEach' /\ JobInv' /\ DependInv'
  BY <1>10 DEF TokenInv, OnceEach, JobInv, DependInv
<1>18. RunGoesOn(th)
  BY <1>0, <1>6, <1>4, <1>7 DEF RunGoesOn, OneAfter
<1>19. RecordSound(g)'
  <2>1. Once(g.list)
    BY <1>1, <1>4 DEF SoundUse, CallOf
  <2>2. LoopSound(g)'
    BY <1>1, <1>4, <1>5, <1>10, <1>13 DEF LoopSound
  <2> QED BY <1>4, <2>1, <2>2 DEF RecordSound, CompletionPoints
<1>20. NewSound(th, g)
  BY <1>0, <1>1, <1>4, <1>19 DEF NewSound, BodyMove, InsidePoints, BodyPoints
<1>21. \A x \in Threads : \A j \in 1..Len(stack'[x]) :
        RestRecord(th, x, j) \/ \E r : r = stack'[x][j] /\ NewSound(th, r)
  BY <1>6, <1>20 DEF OneAfter
<1> QED BY <1>6, <1>16, <1>17, <1>18, <1>21 DEF Effect, OneAfter

-----------------------------------------------------------------------------
(* The loop of schedule().                                                 *)

\* What may become of the dependencies that are still to be looked at.
LEMMA PendingBy ==
  ASSUME TaskInv, NEW th \in Threads, Kept(th), \A d \in Tasks : completed[d] => completed'[d],
         NEW t \in Tasks, Pending(t),
         \A d \in Tasks : In(dependents[d], t) => In(dependents'[d], t) \/ completed'[d],
         \A d \in Tasks : stack[th] # <<>> /\ LoopsOver(Top(th), t, d) =>
                            completed'[d] \/ In(dependents'[d], t) \/ ToLookAt(t, d)'
  PROVE  Pending(t)'
<1> SUFFICES ASSUME NEW d \in Deps[t] PROVE completed'[d] \/ In(dependents'[d], t) \/ ToLookAt(t, d)'
  BY DEF Pending
<1>1. d \in Tasks
  BY DEF Deps
<1>2. CASE completed[d] \/ In(dependents[d], t)
  BY <1>1, <1>2
<1>3. CASE ToLookAt(t, d)
  <2>1. PICK x \in Threads : \E j \in 1..Len(stack[x]) : LoopsOver(stack[x][j], t, d)
    BY <1>3 DEF ToLookAt
  <2>2. PICK j \in 1..Len(stack[x]) : LoopsOver(stack[x][j], t, d)
    BY <2>1
  <2>3. CASE RestRecord(th, x, j)
    <3>1. j \in 1..Len(stack'[x]) /\ LoopsOver(stack'[x][j], t, d)
      BY <2>2, <2>3 DEF Kept
    <3> QED BY <3>1 DEF ToLookAt
  <2>4. CASE ~RestRecord(th, x, j)
    <3>1. x = th /\ j = Len(stack[th]) /\ stack[th] # <<>>
      BY <2>4, TopGood DEF RestRecord, TaskInv
    <3>2. LoopsOver(Top(th), t, d)
      BY <2>2, <3>1 DEF Top
    <3> QED BY <1>1, <3>1, <3>2
  <2> QED BY <2>3, <2>4
<1> QED BY <1>2, <1>3 DEF Pending

\* The record of a schedule() in its loop.
LEMMA LoopFacts ==
  ASSUME SoundUse, TaskInv, TokenInv, NEW th \in Threads, NEW f, f = Top(th), NEW m, m = Len(stack[th]),
         stack[th] # <<>>, f.at \in LoopPoints, NEW u, u = Call(th).task
  PROVE  /\ f \in GoodFrames /\ f.list \in Seq(Tasks) /\ f.n \in Nat /\ u \in Tasks /\ CallOf(f) = Call(th)
         /\ CallOf(f).task = u /\ CallOf(f).op = "schedule" /\ CallOf(f).deps \in Seq(Tasks)
         /\ f.pc \in DOMAIN Program[f.who] /\ f.who \in Owners /\ Starts(f.who, f.pc, u)
         /\ \A d : d \in Deps[u] <=> d \in Tasks /\ In(CallOf(f).deps, d)
         /\ Once(f.list) /\ LoopSound(f) /\ f.at \in RunPoints /\ f.at \in BodyPoints
         /\ RecordHolds(f, th, m, RunPlace(th, m), f.who) /\ Held(RunPlace(th, m), f.who)
         /\ f.at = "register" /\ f.n = 0 => /\ RecordHolds(f, th, m, NewPlace(th, m), u)
                                            /\ Held(NewPlace(th, m), u) /\ Suits(NewPlace(th, m), u)
                                            /\ f.who # u
<1>1. /\ f \in GoodFrames /\ f.list \in Seq(Tasks) /\ f.n \in Nat /\ f.who \in Owners /\ RecordSound(f)
      /\ Fits(f.at, f.who, f.pc, f.list) /\ \A s, t : RecordHolds(f, th, m, s, t) => Held(s, t)
  BY TopFacts
<1>2. f.at \in InsidePoints /\ f.at \in RunPoints /\ f.at \in BodyPoints /\ f.at \in {"register", "fetch_add"}
  BY DEF LoopPoints, InsidePoints, BodyPoints, RunPoints
<1>3. f.pc \in DOMAIN Program[f.who] /\ Program[f.who][f.pc].op = "schedule"
  BY <1>1, <1>2 DEF Fits
<1>4. CallOf(f) = Call(th) /\ CallOf(f) = Program[f.who][f.pc] /\ CallOf(f) \in Calls
  BY <1>1, <1>3, ProgramAssumption DEF CallOf, Call
<1>5. u \in Tasks /\ CallOf(f).task = u /\ CallOf(f).deps \in Seq(Tasks)
  BY <1>4 DEF Calls
<1>6. Starts(f.who, f.pc, u)
  BY <1>3, <1>4, <1>5 DEF Starts
<1>7. \A d : d \in Deps[u] <=> d \in Tasks /\ In(CallOf(f).deps, d)
  BY <1>1, <1>3, <1>4, <1>5, <1>6, OnlyStart
<1>8. Once(f.list) /\ LoopSound(f)
  BY <1>1 DEF RecordSound
<1>9. RecordHolds(f, th, m, RunPlace(th, m), f.who)
  BY <1>2 DEF RecordHolds
<1>10. ASSUME f.at = "register", f.n = 0 PROVE RecordHolds(f, th, m, NewPlace(th, m), u)
  BY <1>5, <1>10 DEF RecordHolds
<1>11. ASSUME f.at = "register", f.n = 0 PROVE Suits(NewPlace(th, m), u) /\ f.who # u
  <2>1. Held(NewPlace(th, m), u) /\ Held(RunPlace(th, m), f.who)
    BY <1>1, <1>9, <1>10, <1>11
  <2>2. NewPlace(th, m) # RunPlace(th, m)
    BY PlaceParts
  <2> QED BY <1>5, <2>1, <2>2 DEF TokenInv, OnePlace, Placed
<1> QED BY <1>1, <1>2, <1>3, <1>4, <1>5, <1>6, <1>7, <1>8, <1>9, <1>10, <1>11

\* What a turn of the loop leaves: the list without its head.
LEMMA RegisterTurn ==
  ASSUME SoundUse, TaskInv, TokenInv, NEW th \in Threads, Register(th), NEW m, m = Len(stack[th]),
         NEW f, f = Top(th), NEW u, u = Call(th).task, NEW d, d = Head(f.list)
  PROVE  /\ stack[th] # <<>> /\ f.at = "register" /\ f.list # <<>> /\ d \in Tasks
         /\ completed' = completed /\ suspendedAt' = suspendedAt /\ m_jobs' = m_jobs
         /\ continuations' = continuations
         /\ \E g \in GoodFrames :
              /\ OneAfter(th, m, g) /\ g.who = f.who /\ g.pc = f.pc /\ g.list = Tail(f.list) /\ g.n = f.n
              /\ \/ g.at = "register" /\ completed[d] /\ dependents' = dependents
                 \/ /\ g.at = "fetch_add" /\ ~completed[d]
                    /\ dependents' = [dependents EXCEPT ![d] = Append(@, u)]
<1>1. stack[th] # <<>> /\ f.at = "register" /\ f.list # <<>>
  BY DEF Register, At
<1>2. /\ f \in GoodFrames /\ f.list \in Seq(Tasks) /\ f.pc \in DOMAIN Program[f.who]
      /\ Program[f.who][f.pc].op = "schedule" /\ f \in Frames
  BY <1>1, LoopFacts, FrameFields DEF LoopPoints, CallOf
<1>3. d \in Tasks /\ Tail(f.list) \in Seq(Tasks)
  BY <1>1, <1>2
<1>4. \A a \in {"register", "fetch_add"} : Fits(a, f.who, f.pc, Tail(f.list))
  BY <1>2, PointNames DEF Fits
<1>5. CASE ~MustWait(d) /\ Goto(th, <<[f EXCEPT !.list = Tail(@)]>>) /\ dependents' = dependents
  <2>1. PICK g : g = [f EXCEPT !.list = Tail(f.list)]
    OBVIOUS
  <2>2. g \in Moved(f, f.at, Tail(f.list))
    BY <1>1, <1>2, <1>3, <1>4, <2>1, RelistGood
  <2>3. g.n = f.n /\ Goto(th, <<g>>)
    BY <1>2, <1>5, <2>1 DEF Frames
  <2>4. g \in GoodFrames /\ g.at = "register" /\ g.who = f.who /\ g.pc = f.pc /\ g.list = Tail(f.list)
    BY <1>1, <2>2 DEF Moved
  <2>5. OneAfter(th, m, g)
    BY <1>1, <2>3, <2>4, GotoAfter DEF TaskInv
  <2>6. completed[d]
    BY <1>5 DEF MustWait
  <2> QED BY <1>1, <1>3, <1>5, <2>3, <2>4, <2>5, <2>6 DEF Register, poolVars
<1>6. CASE /\ MustWait(d) /\ Goto(th, <<[f EXCEPT !.list = Tail(@), !.at = "fetch_add"]>>)
           /\ dependents' = [dependents EXCEPT ![d] = Append(@, u)]
  <2>1. PICK g : g = [f EXCEPT !.at = "fetch_add", !.list = Tail(f.list)]
    OBVIOUS
  <2>2. g \in Moved(f, "fetch_add", Tail(f.list))
    BY <1>1, <1>2, <1>3, <1>4, <2>1, RelistMoveGood
  <2>3. g.n = f.n /\ g = [f EXCEPT !.list = Tail(@), !.at = "fetch_add"]
    BY <1>2, <2>1 DEF Frames
  <2>4. g \in GoodFrames /\ g.at = "fetch_add" /\ g.who = f.who /\ g.pc = f.pc /\ g.list = Tail(f.list)
    BY <2>2 DEF Moved
  <2>5. OneAfter(th, m, g)
    BY <1>1, <1>6, <2>3, <2>4, GotoAfter DEF TaskInv
  <2>6. ~completed[d]
    BY <1>6 DEF MustWait
  <2> QED BY <1>1, <1>3, <1>6, <2>3, <2>4, <2>5, <2>6 DEF Register, poolVars
<1> QED BY <1>5, <1>6 DEF Register

\* A dependency that is not completed is waited for after its turn.
LEMMA RegisterPending ==
  ASSUME SoundUse, TaskInv, TokenInv, NEW th \in Threads, Register(th), NEW t \in Tasks, Pending(t)
  PROVE  Pending(t)'
<1>0. PICK m, f, u, d : m = Len(stack[th]) /\ f = Top(th) /\ u = Call(th).task /\ d = Head(f.list)
  BY Zenon
<1>1. /\ stack[th] # <<>> /\ f.at = "register" /\ f.list # <<>> /\ d \in Tasks /\ completed' = completed
      /\ m_jobs' = m_jobs /\ continuations' = continuations
      /\ \E g \in GoodFrames :
              /\ OneAfter(th, m, g) /\ g.who = f.who /\ g.pc = f.pc /\ g.list = Tail(f.list)
              /\ \/ g.at = "register" /\ completed[d] /\ dependents' = dependents
                 \/ /\ g.at = "fetch_add" /\ ~completed[d]
                    /\ dependents' = [dependents EXCEPT ![d] = Append(@, u)]
  BY <1>0, RegisterTurn
<1>2. PICK g \in GoodFrames :
              /\ OneAfter(th, m, g) /\ g.who = f.who /\ g.pc = f.pc /\ g.list = Tail(f.list)
              /\ \/ g.at = "register" /\ completed[d] /\ dependents' = dependents
                 \/ /\ g.at = "fetch_add" /\ ~completed[d]
                    /\ dependents' = [dependents EXCEPT ![d] = Append(@, u)]
  BY <1>1
<1>3. f.list \in Seq(Tasks) /\ u \in Tasks /\ CallOf(f).task = u /\ CallOf(g) = CallOf(f)
  BY <1>0, <1>1, <1>2, LoopFacts, ZenonT(60) DEF LoopPoints, CallOf
<1>4. \A e : In(f.list, e) <=> In(g.list, e) \/ e = d
  BY <1>0, <1>1, <1>2, <1>3, TailIn
<1>5. \A v \in Tasks : \A e : In(dependents[v], e) => In(dependents'[v], e)
  <2>1. CASE dependents' = dependents
    BY <2>1
  <2>2. CASE dependents' = [dependents EXCEPT ![d] = Append(@, u)]
    BY <1>1, <1>3, <2>2, PoolDepend DEF TaskInv
  <2> QED BY <1>2, <2>1, <2>2
<1>6. completed[d] \/ In(dependents'[d], u)
  <2>1. CASE dependents' = [dependents EXCEPT ![d] = Append(@, u)]
    <3>1. \A v \in Tasks : \A e : In(dependents'[v], e) <=> (In(dependents[v], e) \/ (v = d /\ e = u))
      <4>1. TasksOK BY DEF TaskInv
      <4>2. d \in Tasks /\ u \in Tasks /\ m_jobs' = m_jobs /\ continuations' = continuations
        BY <1>1, <1>3
      <4> QED BY <2>1, <4>1, <4>2, PoolDepend
    <3> QED BY <1>1, <3>1
  <2> QED BY <1>2, <2>1
<1>7. ASSUME NEW e \in Tasks, LoopsOver(f, t, e)
      PROVE  completed'[e] \/ In(dependents'[e], t) \/ ToLookAt(t, e)'
  <2>1. u = t /\ In(f.list, e)
    BY <1>3, <1>7 DEF LoopsOver
  <2>2. CASE e = d
    BY <1>1, <1>6, <2>1, <2>2
  <2>3. CASE In(g.list, e)
    <3>1. LoopsOver(g, t, e)
      BY <1>2, <1>3, <2>1, <2>3 DEF LoopsOver, LoopPoints
    <3>2. m \in 1..Len(stack'[th]) /\ LoopsOver(stack'[th][m], t, e)
      BY <1>2, <3>1 DEF OneAfter
    <3> QED BY <3>2 DEF ToLookAt
  <2> QED BY <1>4, <2>1, <2>2, <2>3
<1>8. Kept(th)
  BY <1>2 DEF OneAfter
<1> QED BY <1>0, <1>1, <1>5, <1>7, <1>8, PendingBy

\* A turn of the loop.
LEMMA RegisterEffect ==
  ASSUME SoundUse, TaskInv, TokenInv, NEW th \in Threads, Register(th)
  PROVE  Effect(th)
<1>0. PICK m, f, u, d : m = Len(stack[th]) /\ f = Top(th) /\ u = Call(th).task /\ d = Head(f.list)
  BY Zenon
<1>1. /\ stack[th] # <<>> /\ f.at = "register" /\ f.list # <<>> /\ d \in Tasks /\ StackOK
      /\ completed' = completed /\ suspendedAt' = suspendedAt /\ m_jobs' = m_jobs
      /\ continuations' = continuations
  BY <1>0, RegisterTurn DEF TaskInv
<1>2. PICK g \in GoodFrames :
              /\ OneAfter(th, m, g) /\ g.who = f.who /\ g.pc = f.pc /\ g.list = Tail(f.list) /\ g.n = f.n
              /\ \/ g.at = "register" /\ completed[d] /\ dependents' = dependents
                 \/ /\ g.at = "fetch_add" /\ ~completed[d]
                    /\ dependents' = [dependents EXCEPT ![d] = Append(@, u)]
  BY <1>0, RegisterTurn
<1>3. /\ f.list \in Seq(Tasks) /\ u \in Tasks /\ CallOf(f).task = u /\ CallOf(g) = CallOf(f)
      /\ Once(f.list) /\ LoopSound(f) /\ CallOf(f).deps \in Seq(Tasks) /\ f.at \in BodyPoints /\ f.n \in Nat
      /\ RecordHolds(f, th, m, RunPlace(th, m), f.who) /\ Held(RunPlace(th, m), f.who)
      /\ \A e : e \in Deps[u] <=> e \in Tasks /\ In(CallOf(f).deps, e)
  BY <1>0, <1>1, <1>2, LoopFacts, ZenonT(60) DEF LoopPoints, CallOf
<1>4. f.n = 0 => /\ RecordHolds(f, th, m, NewPlace(th, m), u) /\ Held(NewPlace(th, m), u)
                 /\ Suits(NewPlace(th, m), u) /\ f.who # u
  BY <1>0, <1>1, LoopFacts DEF LoopPoints
<1>5. /\ \A e : In(f.list, e) <=> In(g.list, e) \/ e = d
      /\ Once(g.list) /\ ~In(g.list, d) /\ Len(g.list) = Len(f.list) - 1
      /\ g.list \in Seq(Tasks) /\ Len(g.list) \in Nat /\ Len(f.list) \in Nat /\ Len(CallOf(f).deps) \in Nat
  BY <1>0, <1>1, <1>2, <1>3, TailIn
<1>6. In(CallOf(f).deps, d) /\ ~In(dependents[d], u) /\ Len(f.list) <= Len(CallOf(f).deps)
  BY <1>1, <1>3, <1>5 DEF LoopSound
<1>7. g.at \in LoopPoints /\ g.at \in RunPoints /\ g.at \in InsidePoints /\ g.at \in BodyPoints
  BY <1>2 DEF LoopPoints, RunPoints, InsidePoints, BodyPoints
<1>8. BodyMove(th, g)
  BY <1>0, <1>1, <1>2, <1>3, <1>7 DEF BodyMove
<1>9. RunGoesOn(th)
  BY <1>0, <1>2, <1>7 DEF RunGoesOn, OneAfter
<1>10. JobInv'
  BY <1>1 DEF TokenInv, JobInv
<1>11. LoopSound(g)' => /\ Kept(th) /\ RunGoesOn(th)
                        /\ \A x \in Threads : \A j \in 1..Len(stack'[x]) :
                             RestRecord(th, x, j) \/ \E r : r = stack'[x][j] /\ NewSound(th, r)
  <2>1. LoopSound(g)' => RecordSound(g)'
    <3>1. g.at \notin CompletionPoints /\ g.at \notin {"crashed", "call", "add_continuation"}
      BY <1>7 DEF LoopPoints, CompletionPoints
    <3> QED BY <1>5, <3>1 DEF RecordSound
  <2>2. LoopSound(g)' => NewSound(th, g)
    BY <1>8, <2>1 DEF NewSound
  <2> QED BY <1>2, <1>9, <2>2 DEF OneAfter
<1>12. CASE g.at = "register" /\ completed[d] /\ dependents' = dependents
  <2>1. \A s, t : RecordHolds(g, th, m, s, t) => RecordHolds(f, th, m, s, t)
    <3>1. f.at \in RunPoints
      BY <1>1, <1>3 DEF RunPoints
    <3>2. ASSUME NEW s, NEW t, RecordHolds(g, th, m, s, t)
          PROVE  (s = RunPlace(th, m) /\ t = g.who) \/ (g.n = 0 /\ s = NewPlace(th, m) /\ t = CallOf(g).task)
      BY <1>7, <1>12, <3>2, HoldRun, Zenon
    <3> QED BY <1>2, <1>3, <1>4, <3>2
  <2>2. ASSUME NEW s, NEW t, Held(s, t)' PROVE Held(s, t)
    <3>1. PoolHolds(s, t)' \/ Rest(th, s, t) \/ RecordHolds(g, th, m, s, t)
      BY <1>2, <2>2, HeldAfter
    <3>2. PoolHolds(s, t) \/ Rest(th, s, t) \/ RecordHolds(f, th, m, s, t)
      BY <1>1, <1>12, <2>1, <3>1, PoolSame
    <3> QED BY <1>0, <1>1, <3>2, HeldBefore
  <2>3. \A t : Token(th, t)
    BY <1>1, <2>2 DEF Token
  <2>4. OnceEach' /\ DependInv'
    BY <1>1, <1>12 DEF TokenInv, OnceEach, DependInv
  <2>5. LoopSound(g)'
    <3>1. \A e \in Tasks : In(g.list, e) => In(CallOf(g).deps, e) /\ ~In(dependents'[e], CallOf(g).task)
      BY <1>3, <1>5, <1>12 DEF LoopSound
    <3>2. Len(g.list) <= Len(CallOf(g).deps)
      BY <1>3, <1>5, <1>6
    <3>3. g.n # 0 => Len(g.list) < Len(CallOf(g).deps)
      BY <1>3, <1>5, <1>6
    <3>4. g.n # 0 => (Len(CallOf(g).deps) > 1 => \E v \in Tasks : In(dependents'[v], CallOf(g).task))
      BY <1>2, <1>3, <1>12 DEF LoopSound
    <3> QED BY <1>12, <3>1, <3>2, <3>3, <3>4 DEF LoopSound
  <2> QED BY <1>10, <1>11, <2>3, <2>4, <2>5 DEF Effect
<1>13. CASE g.at = "fetch_add" /\ ~completed[d] /\ dependents' = [dependents EXCEPT ![d] = Append(@, u)]
  <2>1. /\ \A s, t : PoolHolds(s, t)' <=> (PoolHolds(s, t) \/ (s = DependPlace /\ t = u))
        /\ \A v \in Tasks : \A t : In(dependents'[v], t) <=> (In(dependents[v], t) \/ (v = d /\ t = u))
        /\ OnceEach /\ ~In(dependents[d], u) => OnceEach'
    <3>1. TasksOK BY DEF TaskInv
    <3>2. d \in Tasks /\ u \in Tasks /\ m_jobs' = m_jobs /\ continuations' = continuations
      BY <1>1, <1>3
    <3>3. dependents' = [dependents EXCEPT ![d] = Append(@, u)]
      BY <1>13
    <3> QED BY <3>1, <3>2, <3>3, PoolDepend
  <2>2. \A s, t : RecordHolds(g, th, m, s, t) <=> (s = RunPlace(th, m) /\ t = f.who)
    <3>1. \A s, t : RecordHolds(g, th, m, s, t) <=> (s = RunPlace(th, m) /\ t = g.who)
      <4>1. g.at # "register" BY <1>13
      <4> QED BY <1>7, <4>1, HoldRun, Zenon
    <3> QED BY <1>2, <3>1
  <2>3. ASSUME NEW s, NEW t, Held(s, t)' PROVE Held(s, t) \/ (s = DependPlace /\ t = u)
    <3>1. PoolHolds(s, t)' \/ Rest(th, s, t) \/ RecordHolds(g, th, m, s, t)
      BY <1>2, <2>3, HeldAfter
    <3>2. PoolHolds(s, t) \/ Rest(th, s, t) \/ RecordHolds(f, th, m, s, t) \/ (s = DependPlace /\ t = u)
      BY <1>3, <2>1, <2>2, <3>1
    <3> QED BY <1>0, <1>1, <3>2, HeldBefore
  <2>4. Token(th, u)
    <3>1. CASE f.n # 0
      <4>1. PICK v \in Tasks : In(dependents[v], u)
        <5>1. Len(f.list) < Len(CallOf(f).deps) /\ Len(f.list) # 0
          BY <1>1, <1>3, <3>1 DEF LoopSound
        <5>2. Len(CallOf(f).deps) > 1
          BY <1>5, <5>1
        <5> QED BY <1>1, <1>3, <3>1, <5>2 DEF LoopSound
      <4>2. Held(DependPlace, u)
        BY <4>1 DEF Held, PoolHolds
      <4> QED BY <1>1, <2>3, <4>2 DEF Token
    <3>2. CASE f.n = 0
      <4>1. \A s : ~Rest(th, s, u) /\ (Held(s, u) => s = NewPlace(th, m))
        BY <1>0, <1>1, <1>4, <3>2, PlaceParts, Alone DEF TokenInv
      <4>2. ASSUME NEW s, Held(s, u)' PROVE s = DependPlace
        <5>1. PoolHolds(s, u)' \/ Rest(th, s, u) \/ RecordHolds(g, th, m, s, u)
          BY <1>2, <4>2, HeldAfter
        <5>2. ~RecordHolds(g, th, m, s, u)
          BY <1>4, <2>2, <3>2
        <5>3. PoolHolds(s, u) => Held(s, u) /\ OfRecord(s) = 0
          BY HoldingPlaces DEF Held
        <5>4. OfRecord(NewPlace(th, m)) # 0
          <6>1. m # 0 BY <1>0, <1>1, TopGood
          <6> QED BY <6>1, PlaceParts
        <5> QED BY <2>1, <4>1, <5>1, <5>2, <5>3, <5>4
      <4>3. Suits(DependPlace, u)'
        <5>1. Kind(NewPlace(th, m)) = "new" /\ Kind(DependPlace) = "new"
          BY PlaceParts
        <5>2. ~completed[u] /\ suspendedAt[u] = 0 /\ Pending(u)
          BY <1>4, <3>2, <5>1 DEF Suits
        <5>3. Pending(u)'
          BY <1>3, <5>2, RegisterPending
        <5>4. "new" # "run" /\ "new" # "wait" /\ "new" # "ready"
          OBVIOUS
        <5> QED BY <1>1, <5>1, <5>2, <5>3, <5>4 DEF Suits
      <4> QED BY <1>4, <3>2, <4>2, <4>3 DEF Token
    <3> QED BY <3>1, <3>2
  <2>5. ASSUME NEW t PROVE Token(th, t)
    <3>1. CASE t = u
      BY <2>4, <3>1
    <3>2. CASE t # u
      BY <1>1, <2>3, <3>2 DEF Token
    <3> QED BY <3>1, <3>2
  <2>6. DependInv'
    BY <1>1, <1>3, <1>6, <2>1 DEF TokenInv, DependInv
  <2>7. LoopSound(g)'
    <3>1. \A e \in Tasks : In(g.list, e) => In(CallOf(g).deps, e) /\ ~In(dependents'[e], CallOf(g).task)
      BY <1>3, <1>5, <2>1 DEF LoopSound
    <3>2. Len(g.list) < Len(CallOf(g).deps) /\ Len(g.list) <= Len(CallOf(g).deps)
      BY <1>3, <1>5, <1>6
    <3>3. \E v \in Tasks : In(dependents'[v], CallOf(g).task)
      BY <1>1, <1>3, <2>1
    <3> QED BY <3>1, <3>2, <3>3 DEF LoopSound
  <2>8. OnceEach'
    BY <1>6, <2>1 DEF TokenInv
  <2> QED BY <1>10, <1>11, <2>5, <2>6, <2>7, <2>8 DEF Effect
<1> QED BY <1>2, <1>12, <1>13

\* The record of a schedule() of u, anywhere on a stack.
LEMMA LoopStarts ==
  ASSUME TaskInv, NEW x \in Threads, NEW j \in 1..Len(stack[x]), NEW f, f = stack[x][j], f.at \in LoopPoints
  PROVE  /\ f \in GoodFrames /\ f.who \in Owners /\ f.pc \in DOMAIN Program[f.who] /\ CallOf(f).task \in Tasks
         /\ Starts(f.who, f.pc, CallOf(f).task) /\ CallOf(f).op = "schedule" /\ CallOf(f).deps \in Seq(Tasks)
         /\ f.list \in Seq(Tasks)
         /\ Held(RunPlace(x, j), f.who)
<1>1. f \in GoodFrames
  BY DEF TaskInv, StackOK
<1>2. f.who \in Owners /\ Fits(f.at, f.who, f.pc, f.list) /\ f.list \in Seq(Tasks)
  BY <1>1, FrameFields
<1>3. f.at \in InsidePoints /\ f.at \in RunPoints /\ f.at \in {"register", "fetch_add"}
  BY DEF LoopPoints, InsidePoints, BodyPoints, RunPoints
<1>4. f.pc \in DOMAIN Program[f.who] /\ Program[f.who][f.pc].op = "schedule"
  BY <1>2, <1>3 DEF Fits
<1>5. CallOf(f) \in Calls
  BY <1>2, <1>4, ProgramAssumption DEF CallOf
<1>6. RecordHolds(f, x, j, RunPlace(x, j), f.who)
  BY <1>3 DEF RecordHolds
<1>7. Held(RunPlace(x, j), f.who)
  BY <1>6 DEF Held
<1> QED BY <1>1, <1>2, <1>4, <1>5, <1>7 DEF Starts, CallOf, Calls

\* There is one of them at most.
LEMMA SoleLoop ==
  ASSUME SoundUse, TaskInv, OnePlace, NEW x \in Threads, NEW j \in 1..Len(stack[x]),
         NEW y \in Threads, NEW k \in 1..Len(stack[y]),
         stack[x][j].at \in LoopPoints, stack[y][k].at \in LoopPoints,
         CallOf(stack[x][j]).task = CallOf(stack[y][k]).task
  PROVE  x = y /\ j = k
<1>0. PICK f, g : f = stack[x][j] /\ g = stack[y][k]
  OBVIOUS
<1>1. /\ f.who \in Owners /\ f.pc \in DOMAIN Program[f.who] /\ CallOf(f).task \in Tasks
      /\ Starts(f.who, f.pc, CallOf(f).task) /\ Held(RunPlace(x, j), f.who)
  BY <1>0, LoopStarts
<1>2. /\ g.who \in Owners /\ g.pc \in DOMAIN Program[g.who]
      /\ Starts(g.who, g.pc, CallOf(g).task) /\ Held(RunPlace(y, k), g.who)
  BY <1>0, LoopStarts
<1>3. CallOf(f).task = CallOf(g).task
  BY <1>0
<1>4. f.who = g.who
  BY <1>1, <1>2, <1>3 DEF SoundUse
<1>5. RunPlace(x, j) = RunPlace(y, k)
  BY <1>1, <1>2, <1>4 DEF OnePlace
<1>6. /\ OfThread(RunPlace(x, j)) = x /\ OfRecord(RunPlace(x, j)) = j
      /\ OfThread(RunPlace(y, k)) = y /\ OfRecord(RunPlace(y, k)) = k
  BY PlaceParts
<1> QED BY <1>5, <1>6

\* ++pending and fetch_add.
LEMMA FetchAddEffect ==
  ASSUME SoundUse, TaskInv, TokenInv, NEW th \in Threads, FetchAdd(th)
  PROVE  Effect(th)
<1>0. PICK m, f, u, g : /\ m = Len(stack[th]) /\ f = Top(th) /\ u = Call(th).task
                        /\ g = [Top(th) EXCEPT !.at = "register", !.n = @ + 1]
  BY Zenon
<1>1. stack[th] # <<>> /\ f.at = "fetch_add" /\ f.at \in LoopPoints
  BY <1>0 DEF FetchAdd, At, LoopPoints
<1>2. /\ f \in GoodFrames /\ f.n \in Nat /\ f.at \in BodyPoints /\ Once(f.list) /\ LoopSound(f)
      /\ f.pc \in DOMAIN Program[f.who] /\ Program[f.who][f.pc].op = "schedule" /\ f \in Frames
  BY <1>0, <1>1, LoopFacts, FrameFields DEF CallOf
<1>3. g \in Moved(f, "register", f.list)
  <2>1. Fits("register", f.who, f.pc, f.list)
    BY <1>2, PointNames DEF Fits
  <2>2. f.n + 1 \in Nat
    BY <1>2
  <2> QED BY <1>0, <1>2, <2>1, <2>2, CountGood
<1>4. g \in GoodFrames /\ g.at = "register" /\ g.who = f.who /\ g.pc = f.pc /\ g.list = f.list
  BY <1>3 DEF Moved
<1>5. g.n = f.n + 1 /\ g.n # 0
  BY <1>0, <1>2 DEF Frames
<1>6. CallOf(g) = CallOf(f)
  BY <1>4 DEF CallOf
<1>7. Goto(th, <<g>>)
  BY <1>0 DEF FetchAdd
<1>8. /\ m_jobs' = m_jobs /\ continuations' = continuations /\ dependents' = dependents
      /\ completed' = completed /\ suspendedAt' = suspendedAt
  BY DEF FetchAdd, poolVars
<1>9. LoopSound(g)'
  BY <1>1, <1>2, <1>4, <1>6, <1>8 DEF LoopSound
<1>10. RecordSound(g)'
  BY <1>2, <1>4, <1>9 DEF RecordSound, CompletionPoints
<1>11. NewSound(th, g)
  BY <1>0, <1>1, <1>2, <1>4, <1>10 DEF NewSound, BodyMove, InsidePoints, BodyPoints
<1> QED BY <1>0, <1>1, <1>2, <1>4, <1>5, <1>7, <1>8, <1>11, BodyQuiet DEF RunPoints, BodyPoints

\* The end of schedule(): a job if no dependency is left.
LEMMA ScheduleEndEffect ==
  ASSUME SoundUse, TaskInv, TokenInv, NEW th \in Threads, ScheduleEnd(th)
  PROVE  Effect(th)
<1>0. PICK m, f, u, g : m = Len(stack[th]) /\ f = Top(th) /\ u = Call(th).task /\ g = Step(th)
  BY Zenon
<1>1. stack[th] # <<>> /\ f.at = "register" /\ f.list = <<>> /\ f.at \in LoopPoints /\ StackOK
  BY <1>0 DEF ScheduleEnd, At, LoopPoints, TaskInv
<1>2. /\ f \in GoodFrames /\ f.at \in BodyPoints /\ f.at \in RunPoints /\ u \in Tasks
      /\ CallOf(f).op = "schedule" /\ f \in Frames /\ CallOf(f).task = u
      /\ RecordHolds(f, th, m, RunPlace(th, m), f.who) /\ Held(RunPlace(th, m), f.who)
  BY <1>0, <1>1, LoopFacts, FrameFields
<1>3. Leaves(th)
  BY <1>0, <1>2 DEF Leaves
<1>4. Goto(th, <<g>>) /\ UNCHANGED taskVars
  BY <1>0 DEF ScheduleEnd
<1>5. CASE f.n # 0
  <2>1. m_jobs' = m_jobs
    BY <1>0, <1>5 DEF ScheduleEnd, NonePending
  <2> QED BY <1>0, <1>1, <1>2, <1>3, <1>4, <2>1, LeaveEffect
<1>6. CASE f.n = 0
  <2>1. enqueue("resume", u)
    BY <1>0, <1>6 DEF ScheduleEnd, NonePending
  <2>2. Held(NewPlace(th, m), u) /\ Suits(NewPlace(th, m), u) /\ f.who # u
    BY <1>0, <1>1, <1>6, LoopFacts
  <2>3. g \in GoodFrames /\ g.at = "call" /\ g.who = f.who /\ g.pc = f.pc + 1
    BY <1>0, <1>2, NextCallGood DEF Step
  <2>4. g.n = 0
    BY <1>0, <1>2 DEF Step, Frames
  <2>5. BodyMove(th, g)
    BY <1>0, <1>1, <1>2, <1>3, <2>3 DEF BodyMove
  <2>6. NewSound(th, g)
    BY <2>3, <2>4, <2>5, PlainSound DEF NewSound
  <2>7. OneAfter(th, m, g) /\ m \in Nat \ {0}
    BY <1>0, <1>1, <1>4, <2>3, GotoAfter
  <2>8. \A s, t : RecordHolds(g, th, m, s, t) <=> (s = RunPlace(th, m) /\ t = g.who)
    <3>1. g.at \in RunPoints /\ g.at # "register"
      BY <2>3 DEF RunPoints, BodyPoints
    <3> QED BY <3>1, HoldRun, Zenon
  <2>9. /\ \A s, t : PoolHolds(s, t)' <=> (PoolHolds(s, t) \/ (s = JobPlace /\ t = u))
        /\ OnceEach /\ ~PoolHolds(JobPlace, u) => OnceEach'
        /\ JobInv /\ suspendedAt' = suspendedAt /\ ("resume" = "function" => suspendedAt[u] = 0) => JobInv'
    <3>1. PoolOK BY DEF TaskInv
    <3>2. continuations' = continuations /\ dependents' = dependents
      BY <1>4 DEF taskVars
    <3> QED BY <1>2, <2>1, <3>1, <3>2, PoolEnqueue
  <2>10. \A s : ~Rest(th, s, u) /\ (Held(s, u) => s = NewPlace(th, m))
    BY <1>0, <1>1, <2>2, PlaceParts, Alone DEF TokenInv
  <2>11. \A s : ~PoolHolds(s, u)
    <3>1. \A s : PoolHolds(s, u) => Held(s, u) /\ OfRecord(s) = 0
      BY HoldingPlaces DEF Held
    <3>2. OfRecord(NewPlace(th, m)) # 0
      BY <2>7, PlaceParts
    <3> QED BY <2>10, <3>1, <3>2
  <2>12. ASSUME NEW s, NEW t, t # u, Held(s, t)' PROVE Held(s, t)
    <3>1. PoolHolds(s, t)' \/ Rest(th, s, t) \/ RecordHolds(g, th, m, s, t)
      BY <2>7, <2>12, HeldAfter
    <3>2. PoolHolds(s, t) \/ Rest(th, s, t) \/ RecordHolds(f, th, m, s, t)
      BY <1>2, <2>3, <2>8, <2>9, <2>12, <3>1
    <3> QED BY <1>0, <1>1, <3>2, HeldBefore
  <2>13. ASSUME NEW s, Held(s, u)' PROVE s = JobPlace
    <3>1. PoolHolds(s, u)' \/ Rest(th, s, u) \/ RecordHolds(g, th, m, s, u)
      BY <2>7, <2>13, HeldAfter
    <3> QED BY <2>2, <2>3, <2>8, <2>9, <2>10, <2>11, <3>1
  <2>14. ~completed[u] /\ suspendedAt[u] = 0 /\ Pending(u)
    BY <2>2, PlaceParts DEF Suits
  <2>15. DepsMet(u)
    <3> SUFFICES ASSUME NEW d \in Deps[u], ~completed[d] PROVE FALSE
      BY DEF DepsMet
    <3>1. d \in Tasks /\ ~In(dependents[d], u)
      <4>1. d \in Tasks
        BY <1>2 DEF Deps
      <4>2. ~PoolHolds(DependPlace, u)
        BY <2>11
      <4> QED BY <4>1, <4>2 DEF PoolHolds
    <3>2. ToLookAt(u, d)
      BY <2>14, <3>1 DEF Pending
    <3>3. PICK x \in Threads : \E j \in 1..Len(stack[x]) : LoopsOver(stack[x][j], u, d)
      BY <3>2 DEF ToLookAt
    <3>4. PICK j \in 1..Len(stack[x]) : LoopsOver(stack[x][j], u, d)
      BY <3>3
    <3>5. m \in 1..Len(stack[th]) /\ stack[th][m] = f
      BY <1>0, <2>7 DEF Top
    <3>6. x = th /\ j = m
      BY <1>1, <1>2, <3>4, <3>5, SoleLoop DEF LoopsOver, TokenInv
    <3>7. In(f.list, d)
      BY <3>4, <3>5, <3>6 DEF LoopsOver
    <3> QED BY <1>1, <3>7, SmallLists
  <2>16. Suits(JobPlace, u)'
    <3>1. Kind(JobPlace) = "ready" /\ "ready" # "run" /\ "ready" # "wait" /\ "ready" # "new"
      BY PlaceParts
    <3> QED BY <1>4, <2>14, <2>15, <3>1 DEF Suits, MayGoOn, DepsMet, taskVars
  <2>17. \A t : Token(th, t)
    BY <1>4, <2>2, <2>12, <2>13, <2>16 DEF Token, taskVars
  <2>18. OnceEach' /\ JobInv' /\ DependInv'
    BY <1>4, <2>9, <2>11 DEF TokenInv, DependInv, taskVars
  <2>19. RunGoesOn(th)
    BY <1>0, <2>3, <2>7 DEF RunGoesOn, OneAfter, RunPoints, BodyPoints
  <2>20. \A x \in Threads : \A j \in 1..Len(stack'[x]) :
           RestRecord(th, x, j) \/ \E r : r = stack'[x][j] /\ NewSound(th, r)
    BY <2>6, <2>7 DEF OneAfter
  <2> QED BY <2>7, <2>17, <2>18, <2>19, <2>20 DEF Effect, OneAfter
<1> QED BY <1>5, <1>6

-----------------------------------------------------------------------------
(* co_await.                                                               *)

\* await_ready, and the suspension of the frame.
LEMMA AwaitEffect ==
  ASSUME SoundUse, TaskInv, TokenInv, NEW th \in Threads, await(th)
  PROVE  Effect(th)
<1>0. PICK m, f, w, u : m = Len(stack[th]) /\ f = Top(th) /\ w = Top(th).who /\ u = Call(th).task
  BY Zenon
<1>1. /\ stack[th] # <<>> /\ f \in GoodFrames /\ f.at = "call" /\ w \in Coroutines /\ w \in Tasks /\ u \in Tasks
      /\ f.pc \in DOMAIN Program[w] /\ Program[w][f.pc] = Call(th) /\ Call(th).op = "await" /\ f.who = w
      /\ CallOf(f) = Call(th) /\ f.pc \in Nat /\ StackOK
  BY <1>0, CallType, FrameFields DEF await, TaskInv, CallOf, Tasks
<1>2. /\ completed' = completed /\ m_jobs' = m_jobs /\ continuations' = continuations
      /\ dependents' = dependents
  BY DEF await, poolVars
<1>3. CASE completed[u]
  <2>1. Return(th, w, f.pc, u) /\ suspendedAt' = suspendedAt
    BY <1>0, <1>3 DEF await
  <2> QED BY <1>0, <1>1, <1>2, <1>3, <2>1, ReturnEffect DEF BodyPoints
<1>4. CASE ~completed[u]
  <2>1. PICK g : g = Frame("add_continuation", u, 0, <<w>>)
    OBVIOUS
  <2>2. Goto(th, <<g>>) /\ suspendedAt' = [suspendedAt EXCEPT ![w] = f.pc]
    BY <1>0, <1>4, <2>1 DEF await
  <2>3. g \in GoodFrames /\ g.at = "add_continuation" /\ g.who = u /\ g.list = <<w>>
    BY <1>1, <2>1, AwaiterGood DEF Frame
  <2>4. suspendedAt'[w] = f.pc /\ \A t \in Tasks \ {w} : suspendedAt'[t] = suspendedAt[t]
    BY <1>1, <2>2 DEF TaskInv, TasksOK
  <2>5. OneAfter(th, m, g) /\ m \in Nat \ {0}
    BY <1>0, <1>1, <2>2, <2>3, GotoAfter
  <2>6. \A s, t : RecordHolds(g, th, m, s, t) <=>
           ((u \in Coroutines /\ s = OfferPlace(th, m) /\ t = u) \/ (s = WaitPlace(u, th, m) /\ t = w))
    <3>1. \A s, t : RecordHolds(g, th, m, s, t) <=>
           ((g.who \in Coroutines /\ s = OfferPlace(th, m) /\ t = g.who)
              \/ (s = WaitPlace(g.who, th, m) /\ In(g.list, t)))
      BY <2>3, HoldAdd, Zenon
    <3>2. \A t : In(g.list, t) <=> t = w
      BY <2>3, SmallLists
    <3> QED BY <2>3, <3>1, <3>2
  <2>7. Held(RunPlace(th, m), w) /\ ~completed[w] /\ DepsMet(w)
    BY <1>0, <1>1, TopFacts DEF RunPoints, BodyPoints
  <2>8. u \in Coroutines => Begins(th, u)
    BY <1>0, <1>1, <1>4, NotADependency DEF await
  <2>9. u # w
    <3>1. CASE u \in Coroutines
      BY <1>0, <1>1, <2>8, <3>1, StartFresh
    <3>2. CASE u \notin Coroutines
      BY <1>1, <3>2
    <3> QED BY <3>1, <3>2
  <2>10. \A s : ~Rest(th, s, w) /\ (Held(s, w) => s = RunPlace(th, m))
    BY <1>0, <1>1, <2>7, PlaceParts, Alone DEF TokenInv
  <2>11. \A s : ~PoolHolds(s, w)
    <3>1. \A s : PoolHolds(s, w) => Held(s, w) /\ OfRecord(s) = 0
      BY HoldingPlaces DEF Held
    <3>2. OfRecord(RunPlace(th, m)) # 0
      BY <2>5, PlaceParts
    <3> QED BY <2>10, <3>1, <3>2
  <2>12. ASSUME NEW s, NEW t, Held(s, t)'
         PROVE  PoolHolds(s, t) \/ Rest(th, s, t) \/ RecordHolds(g, th, m, s, t)
    <3>1. PoolHolds(s, t)' \/ Rest(th, s, t) \/ RecordHolds(g, th, m, s, t)
      BY <2>5, <2>12, HeldAfter
    <3> QED BY <1>2, <3>1, PoolSame
  <2>13. Token(th, w)
    <3>1. \A s : Held(s, w)' => s = WaitPlace(u, th, m)
      BY <2>6, <2>9, <2>10, <2>11, <2>12
    <3>2. Suits(WaitPlace(u, th, m), w)'
      <4>1. PICK d : d = WaitPlace(u, th, m)
        OBVIOUS
      <4>2. Kind(d) = "wait" /\ Thing(d) = u /\ "wait" # "ready" /\ "wait" # "run" /\ "wait" # "new"
        BY <4>1, PlaceParts
      <4>3. Awaits(w, u)'
        BY <1>0, <1>1, <2>4 DEF Awaits
      <4>4. Suits(d, w)'
        BY <1>2, <2>7, <4>2, <4>3 DEF Suits, DepsMet
      <4> QED BY <4>1, <4>4
    <3> QED BY <2>7, <3>1, <3>2 DEF Token
  <2>14. ASSUME u \in Coroutines PROVE Token(th, u)
    <3>1. \A s : ~Rest(th, s, u) /\ ~PoolHolds(s, u)
      BY <1>1, <2>8, <2>14, StartFresh
    <3>2. \A s : Held(s, u)' => s = OfferPlace(th, m)
      BY <2>6, <2>9, <2>12, <3>1
    <3>3. Suits(OfferPlace(th, m), u)'
      <4>1. PICK d : d = OfferPlace(th, m)
        OBVIOUS
      <4>2. Kind(d) = "ready"
        BY <4>1, PlaceParts
      <4>3. CallOf(Top(th)).op # "schedule"
        BY <1>0, <1>1
      <4> QED BY <1>1, <1>2, <2>4, <2>8, <2>9, <2>14, <4>1, <4>2, <4>3, StartSuits
    <3> QED BY <2>8, <2>14, <3>2, <3>3 DEF Token
  <2>15. ASSUME NEW t, t # w, ~(t = u /\ u \in Coroutines) PROVE Token(th, t)
    <3>1. \A s : Held(s, t)' => Held(s, t)
      BY <1>0, <1>1, <2>6, <2>12, <2>15, HeldBefore
    <3> QED BY <1>2, <2>4, <2>15, <3>1 DEF Token
  <2>16. \A t : Token(th, t)
    BY <2>13, <2>14, <2>15
  <2>17. OnceEach' /\ DependInv'
    BY <1>2 DEF TokenInv, OnceEach, DependInv
  <2>18. JobInv'
    <3>1. \A i \in 1..Len(m_jobs) : m_jobs[i].task # w /\ m_jobs[i].task \in Tasks
      <4>1. ~PoolHolds(JobPlace, w)
        BY <2>11
      <4>2. m_jobs \in Seq(Jobs)
        BY DEF TaskInv, PoolOK
      <4>3. \A i \in 1..Len(m_jobs) : m_jobs[i] \in Jobs
        BY <4>2
      <4> QED BY <4>1, <4>3 DEF PoolHolds, Jobs
    <3> QED BY <1>2, <2>4, <3>1 DEF TokenInv, JobInv
  <2>19. RunGoesOn(th)
    BY <1>0, <1>1, <2>4 DEF RunGoesOn
  <2>20. NewSound(th, g)
    <3>1. Len(g.list) = 1
      BY <2>3, SmallLists
    <3> QED BY <2>3, <3>1 DEF NewSound, RecordSound, BodyPoints, CompletionPoints, ListPoints, LoopPoints
  <2>21. \A x \in Threads : \A j \in 1..Len(stack'[x]) :
           RestRecord(th, x, j) \/ \E r : r = stack'[x][j] /\ NewSound(th, r)
    BY <2>5, <2>20 DEF OneAfter
  <2> QED BY <2>5, <2>16, <2>17, <2>18, <2>19, <2>21 DEF Effect, OneAfter
<1> QED BY <1>3, <1>4

\* The awaiter that add_continuation is to register, and what stays behind.
LEMMA AddFacts ==
  ASSUME SoundUse, TaskInv, TokenInv, NEW th \in Threads, add_continuation(th),
         NEW m, m = Len(stack[th]), NEW f, f = Top(th), NEW u, u = f.who, NEW w, w = Head(f.list),
         NEW g, g = Frame("produce", u, 0, <<>>)
  PROVE  /\ stack[th] # <<>> /\ m \in Nat \ {0} /\ u \in Tasks /\ w \in Tasks /\ StackOK /\ TasksOK /\ PoolOK
         /\ completed' = completed /\ suspendedAt' = suspendedAt /\ dependents' = dependents
         /\ ~completed[w] /\ Awaits(w, u) /\ DepsMet(w) /\ Held(WaitPlace(u, th, m), w)
         /\ g \in GoodFrames /\ NewSound(th, g) /\ RunGoesOn(th)
         /\ \A s : ~Rest(th, s, w) /\ ~PoolHolds(s, w) /\ ~RecordHolds(g, th, m, s, w)
         /\ \A s, t : RecordHolds(g, th, m, s, t) => RecordHolds(f, th, m, s, t)
<1>1. stack[th] # <<>> /\ f.at = "add_continuation"
  BY DEF add_continuation, At
<1>2. /\ m \in Nat \ {0} /\ RecordSound(f) /\ f.list \in Seq(Tasks) /\ Fits(f.at, f.who, f.pc, f.list)
      /\ \A s, t : RecordHolds(f, th, m, s, t) => Held(s, t)
  BY <1>1, TopFacts
<1>3. u \in Tasks /\ Len(f.list) = 1
  BY <1>1, <1>2, PointNames DEF Fits, RecordSound
<1>4. w \in Tasks /\ \A t : In(f.list, t) <=> t = w
  <2>1. f.list # <<>> /\ w \in Tasks /\ w = f.list[1] /\ 1..Len(f.list) = {1}
    BY <1>2, <1>3
  <2> QED BY <2>1 DEF In
<1>5. \A s, t : RecordHolds(f, th, m, s, t) <=>
           ((u \in Coroutines /\ s = OfferPlace(th, m) /\ t = u) \/ (s = WaitPlace(u, th, m) /\ t = w))
  <2>1. \A s, t : RecordHolds(f, th, m, s, t) <=>
           ((f.who \in Coroutines /\ s = OfferPlace(th, m) /\ t = f.who)
              \/ (s = WaitPlace(f.who, th, m) /\ In(f.list, t)))
    BY <1>1, HoldAdd
  <2> QED BY <1>4, <2>1
<1>6. Held(WaitPlace(u, th, m), w)
  BY <1>2, <1>5
<1>7. ~completed[w] /\ Awaits(w, u) /\ DepsMet(w)
  <2>1. Suits(WaitPlace(u, th, m), w)
    BY <1>4, <1>6 DEF TokenInv, Placed
  <2>2. Kind(WaitPlace(u, th, m)) = "wait" /\ Thing(WaitPlace(u, th, m)) = u
    BY PlaceParts
  <2> QED BY <2>1, <2>2 DEF Suits
<1>8. g \in GoodFrames /\ g.at = "produce" /\ g.who = u
  BY <1>3, LibraryGood DEF Frame
<1>9. \A s, t : RecordHolds(g, th, m, s, t) <=> (u \in Coroutines /\ s = OfferPlace(th, m) /\ t = u)
  <2>1. /\ g.who \in Coroutines =>
             \A s, t : RecordHolds(g, th, m, s, t) <=> (s = OfferPlace(th, m) /\ t = g.who)
        /\ g.who \notin Coroutines => \A s, t : ~RecordHolds(g, th, m, s, t)
    BY <1>8 DEF RecordHolds, RunPoints, BodyPoints, ListPoints
  <2> QED BY <1>8, <2>1
<1>10. \A s : ~Rest(th, s, w) /\ (Held(s, w) => s = WaitPlace(u, th, m))
  BY <1>1, <1>6, PlaceParts, Alone DEF TokenInv, TaskInv
<1>11. \A s : ~PoolHolds(s, w)
  <2>1. \A s : PoolHolds(s, w) => Held(s, w) /\ OfRecord(s) = 0
    BY HoldingPlaces DEF Held
  <2>2. OfRecord(WaitPlace(u, th, m)) # 0
    BY <1>2, PlaceParts
  <2> QED BY <1>10, <2>1, <2>2
<1>12. \A s : ~RecordHolds(g, th, m, s, w)
  <2>1. OfferPlace(th, m) # WaitPlace(u, th, m)
    BY PlaceParts
  <2> QED BY <1>2, <1>5, <1>9, <1>10, <2>1
<1>13. NewSound(th, g)
  <2>1. PICK h : h = g
    OBVIOUS
  <2>2. NewSound(th, h)
    BY <1>8, <2>1, PlainSound DEF NewSound, BodyPoints
  <2> QED BY <2>1, <2>2
<1>14. RunGoesOn(th)
  BY <1>1 DEF RunGoesOn, RunPoints, BodyPoints
<1> QED BY <1>1, <1>2, <1>3, <1>4, <1>5, <1>6, <1>7, <1>8, <1>9, <1>10, <1>11, <1>12, <1>13, <1>14
      DEF add_continuation, TaskInv

\* What is needed to move task w, which th has, to place d.
LEMMA MoveTokens ==
  ASSUME NEW th \in Threads, NEW w, NEW d, \E s : Held(s, w), w \in Tasks => Suits(d, w)',
         \A s : Held(s, w)' => s = d, \A s, t : t # w /\ Held(s, t)' => Held(s, t),
         completed' = completed, suspendedAt' = suspendedAt
  PROVE  \A t : Token(th, t)
BY DEF Token

\* Whoever awaits a completed task may go on.
LEMMA ReadySuits ==
  ASSUME NEW t \in Tasks, NEW d, Kind(d) = "ready", ~completed[t], MayGoOn(t),
         completed' = completed, suspendedAt' = suspendedAt
  PROVE  Suits(d, t)'
<1>1. "ready" # "run" /\ "ready" # "wait" /\ "ready" # "new"
  OBVIOUS
<1> QED BY <1>1 DEF Suits, MayGoOn, DepsMet, Awaits

\* add_continuation.
LEMMA AddEffect ==
  ASSUME SoundUse, TaskInv, TokenInv, NEW th \in Threads, add_continuation(th)
  PROVE  Effect(th)
<1>0. PICK m, f, u, w, g : /\ m = Len(stack[th]) /\ f = Top(th) /\ u = Top(th).who /\ w = Head(Top(th).list)
                           /\ g = Frame("produce", u, 0, <<>>)
  BY Zenon
<1>1. /\ stack[th] # <<>> /\ m \in Nat \ {0} /\ u \in Tasks /\ w \in Tasks /\ StackOK /\ TasksOK /\ PoolOK
      /\ completed' = completed /\ suspendedAt' = suspendedAt /\ dependents' = dependents
      /\ ~completed[w] /\ Awaits(w, u) /\ DepsMet(w) /\ Held(WaitPlace(u, th, m), w)
      /\ g \in GoodFrames /\ NewSound(th, g) /\ RunGoesOn(th)
  BY <1>0, AddFacts
<1>2. /\ \A s : ~Rest(th, s, w) /\ ~PoolHolds(s, w) /\ ~RecordHolds(g, th, m, s, w)
      /\ \A s, t : RecordHolds(g, th, m, s, t) => RecordHolds(f, th, m, s, t)
  BY <1>0, AddFacts
<1>3. \E s : Held(s, w)
  BY <1>1
<1>4. \A s, t : PoolHolds(s, t) \/ Rest(th, s, t) \/ RecordHolds(g, th, m, s, t) => Held(s, t)
  BY <1>0, <1>1, <1>2, HeldBefore
<1>5. DependInv'
  BY <1>1 DEF TokenInv, DependInv
<1>6. CASE MustWait(u) /\ continuations' = [continuations EXCEPT ![u] = Append(@, w)]
             /\ Goto(th, <<g>>) /\ m_jobs' = m_jobs
  <2>1. OneAfter(th, m, g)
    BY <1>0, <1>1, <1>6, GotoAfter
  <2>2. /\ \A s, t : PoolHolds(s, t)' <=> (PoolHolds(s, t) \/ (s = AwaitPlace(u) /\ t = w))
        /\ OnceEach /\ ~PoolHolds(AwaitPlace(u), w) => OnceEach'
    BY <1>1, <1>6, PoolAwait
  <2>3. \A s, t : Held(s, t)' <=> (PoolHolds(s, t)' \/ Rest(th, s, t) \/ RecordHolds(g, th, m, s, t))
    BY <2>1, HeldAfter
  <2>4. Suits(AwaitPlace(u), w)'
    <3>1. PICK d : d = AwaitPlace(u)
      OBVIOUS
    <3>2. Kind(d) = "wait" /\ Thing(d) = u /\ "wait" # "ready" /\ "wait" # "run" /\ "wait" # "new"
      BY <3>1, PlaceParts
    <3>3. Suits(d, w)'
      BY <1>1, <3>2 DEF Suits, DepsMet, Awaits
    <3> QED BY <3>1, <3>3
  <2>5. \A t : Token(th, t)
    <3>1. PICK d : d = AwaitPlace(u)
      OBVIOUS
    <3>2. \A s : Held(s, w)' => s = d
      BY <1>2, <2>2, <2>3, <3>1
    <3>3. \A s, t : t # w /\ Held(s, t)' => Held(s, t)
      BY <1>4, <2>2, <2>3
    <3>4. Suits(d, w)'
      BY <2>4, <3>1
    <3> QED BY <1>1, <1>3, <3>2, <3>3, <3>4, MoveTokens
  <2>6. OnceEach' /\ JobInv'
    BY <1>1, <1>2, <1>6, <2>2 DEF TokenInv, JobInv
  <2>7. \A x \in Threads : \A j \in 1..Len(stack'[x]) :
           RestRecord(th, x, j) \/ \E r : r = stack'[x][j] /\ NewSound(th, r)
    BY <1>1, <2>1 DEF OneAfter
  <2> QED BY <1>1, <1>5, <2>1, <2>5, <2>6, <2>7 DEF Effect, OneAfter
<1>7. CASE ~MustWait(u) /\ enqueue("resume", w) /\ Goto(th, <<g>>) /\ continuations' = continuations
  <2>1. OneAfter(th, m, g)
    BY <1>0, <1>1, <1>7, GotoAfter
  <2>2. /\ \A s, t : PoolHolds(s, t)' <=> (PoolHolds(s, t) \/ (s = JobPlace /\ t = w))
        /\ OnceEach /\ ~PoolHolds(JobPlace, w) => OnceEach'
        /\ JobInv /\ suspendedAt' = suspendedAt /\ ("resume" = "function" => suspendedAt[w] = 0) => JobInv'
    BY <1>1, <1>7, PoolEnqueue
  <2>3. \A s, t : Held(s, t)' <=> (PoolHolds(s, t)' \/ Rest(th, s, t) \/ RecordHolds(g, th, m, s, t))
    BY <2>1, HeldAfter
  <2>4. MayGoOn(w)
    BY <1>1, <1>7 DEF MayGoOn, MustWait
  <2>5. Suits(JobPlace, w)'
    BY <1>1, <2>4, PlaceParts, ReadySuits
  <2>6. \A t : Token(th, t)
    <3>1. \A s : Held(s, w)' => s = JobPlace
      BY <1>2, <2>2, <2>3
    <3>2. \A s, t : t # w /\ Held(s, t)' => Held(s, t)
      BY <1>4, <2>2, <2>3
    <3> QED BY <1>1, <1>3, <2>5, <3>1, <3>2, MoveTokens
  <2>7. OnceEach' /\ JobInv'
    BY <1>1, <1>2, <2>2 DEF TokenInv
  <2>8. \A x \in Threads : \A j \in 1..Len(stack'[x]) :
           RestRecord(th, x, j) \/ \E r : r = stack'[x][j] /\ NewSound(th, r)
    BY <1>1, <2>1 DEF OneAfter
  <2> QED BY <1>1, <1>5, <2>1, <2>6, <2>7, <2>8 DEF Effect, OneAfter
<1>8. CASE ~MustWait(u) /\ Goto(th, <<g, Frame("resume", w, 0, <<>>)>>)
             /\ continuations' = continuations /\ m_jobs' = m_jobs
  <2>0. PICK h : h = Frame("resume", w, 0, <<>>)
    OBVIOUS
  <2>1. h \in GoodFrames /\ h.at = "resume" /\ h.who = w
    BY <1>1, <2>0, LibraryGood DEF Frame
  <2>2. TwoAfter(th, m, g, h)
    BY <1>0, <1>1, <1>8, <2>0, <2>1, GotoAfter
  <2>3. \A s, t : RecordHolds(h, th, m + 1, s, t) <=> (s = OfferPlace(th, m + 1) /\ t = w)
    BY <2>1 DEF RecordHolds, RunPoints, BodyPoints, ListPoints
  <2>4. \A s, t : Held(s, t)' <=> (PoolHolds(s, t)' \/ Rest(th, s, t) \/ RecordHolds(g, th, m, s, t)
                                      \/ RecordHolds(h, th, m + 1, s, t))
    BY <2>2, HeldAfter
  <2>5. MayGoOn(w)
    BY <1>1, <1>8 DEF MayGoOn, MustWait
  <2>6. \A t : Token(th, t)
    <3>0. PICK d : d = OfferPlace(th, m + 1)
      OBVIOUS
    <3>1. Kind(d) = "ready"
      BY <3>0, PlaceParts
    <3>2. Suits(d, w)'
      BY <1>1, <2>5, <3>1, ReadySuits
    <3>3. \A s, t : PoolHolds(s, t)' <=> PoolHolds(s, t)
      BY <1>1, <1>8, PoolSame
    <3>4. \A s : Held(s, w)' => s = d
      BY <1>2, <2>3, <2>4, <3>0, <3>3
    <3>5. \A s, t : t # w /\ Held(s, t)' => Held(s, t)
      BY <1>4, <2>3, <2>4, <3>3
    <3> QED BY <1>1, <1>3, <3>2, <3>4, <3>5, MoveTokens
  <2>7. OnceEach' /\ JobInv'
    BY <1>1, <1>8 DEF TokenInv, OnceEach, JobInv
  <2>8. NewSound(th, h)
    BY <2>1, PlainSound DEF NewSound, BodyPoints
  <2>9. \A x \in Threads : \A j \in 1..Len(stack'[x]) :
           RestRecord(th, x, j) \/ \E r : r = stack'[x][j] /\ NewSound(th, r)
    BY <1>1, <2>2, <2>8 DEF TwoAfter
  <2> QED BY <1>1, <1>5, <2>2, <2>6, <2>7, <2>9 DEF Effect, TwoAfter
<1> QED BY <1>0, <1>6, <1>7, <1>8 DEF add_continuation

\* Nothing moves, and no list changes.
LEMMA QuietTokens ==
  ASSUME NEW th \in Threads, \A s, t : Held(s, t)' => Held(s, t), completed' = completed, suspendedAt' = suspendedAt
  PROVE  \A t : Token(th, t)
BY DEF Token

\* Lists that stay as they are keep their invariants.
LEMMA SameLists ==
  ASSUME TokenInv, m_jobs' = m_jobs, continuations' = continuations, dependents' = dependents,
         suspendedAt' = suspendedAt
  PROVE  OnceEach' /\ DependInv' /\ JobInv'
BY DEF TokenInv, OnceEach, DependInv, JobInv

\* Whoever may be resumed has not ended.
LEMMA ReadyNotDone ==
  ASSUME TokenInv, NEW t \in Tasks, NEW s, Held(s, t), Kind(s) = "ready"
  PROVE  ~done[t] /\ ~completed[t] /\ MayGoOn(t) /\ DepsMet(t)
<1>1. ~completed[t] /\ MayGoOn(t)
  BY DEF TokenInv, Placed, Suits
<1>2. ASSUME done[t] PROVE FALSE
  <2>1. PICK x \in Threads : \E j \in 1..Len(stack[x]) : stack[x][j].who = t /\ stack[x][j].at = "on_completed"
    BY <1>1, <1>2 DEF TokenInv, DoneInv
  <2>2. PICK j \in 1..Len(stack[x]) : stack[x][j].who = t /\ stack[x][j].at = "on_completed"
    BY <2>1
  <2>3. RecordHolds(stack[x][j], x, j, RunPlace(x, j), t)
    BY <2>2 DEF RecordHolds, RunPoints
  <2>4. Held(RunPlace(x, j), t)
    BY <2>3 DEF Held
  <2>5. s = RunPlace(x, j)
    BY <2>4 DEF TokenInv, OnePlace
  <2>6. Kind(RunPlace(x, j)) = "run" /\ "run" # "ready"
    BY PlaceParts
  <2> QED BY <2>5, <2>6
<1> QED BY <1>1, <1>2 DEF MayGoOn

\* await_suspend after the registration: the producer is resumed if needed.
LEMMA ProduceEffect ==
  ASSUME SoundUse, TaskInv, TokenInv, NEW th \in Threads, await_suspend(th)
  PROVE  Effect(th)
<1>0. PICK m, f, u, h : /\ m = Len(stack[th]) /\ f = Top(th) /\ u = Top(th).who
                        /\ h = Frame("resume", u, 0, <<>>)
  BY Zenon
<1>1. stack[th] # <<>> /\ f.at = "produce" /\ StackOK /\ PoolOK
  BY <1>0 DEF await_suspend, At, TaskInv
<1>2. u \in Tasks
  BY <1>0, <1>1, LibraryTask, PointNames
<1>3. /\ completed' = completed /\ suspendedAt' = suspendedAt /\ continuations' = continuations
      /\ dependents' = dependents
  BY DEF await_suspend, taskVars
<1>4. h \in GoodFrames /\ h.at = "resume" /\ h.who = u
  BY <1>0, <1>2, LibraryGood DEF Frame
<1>5. \A s, t : RecordHolds(f, th, m, s, t) <=> (u \in Coroutines /\ s = OfferPlace(th, m) /\ t = u)
  BY <1>0, <1>1 DEF RecordHolds, RunPoints, BodyPoints, ListPoints
<1>6. \A s, t : RecordHolds(h, th, m, s, t) <=> (s = OfferPlace(th, m) /\ t = u)
  BY <1>4 DEF RecordHolds, RunPoints, BodyPoints, ListPoints
<1>7. \A s, t : Held(s, t) <=> (PoolHolds(s, t) \/ Rest(th, s, t) \/ RecordHolds(f, th, m, s, t))
  BY <1>0, <1>1, HeldBefore
<1>8. RunGoesOn(th)
  BY <1>0, <1>1 DEF RunGoesOn, RunPoints, BodyPoints
<1>9. Append(<<>>, h) = <<h>>
  BY <1>4, ShortAppends
<1>10. CASE ~Resumable(u) /\ Goto(th, <<>>) /\ m_jobs' = m_jobs
  <2>1. NoneAfter(th)
    BY <1>0, <1>1, <1>10, GotoAfter
  <2>2. \A s, t : Held(s, t)' => Held(s, t)
    BY <1>3, <1>7, <1>10, <2>1, HeldAfter, PoolSame
  <2> QED BY <1>3, <1>8, <1>10, <2>1, <2>2, QuietTokens, SameLists DEF Effect, NoneAfter
<1>11. CASE Resumable(u) /\ enqueue("resume", u) /\ Goto(th, <<>>)
  <2>1. NoneAfter(th)
    BY <1>0, <1>1, <1>11, GotoAfter
  <2>2. /\ \A s, t : PoolHolds(s, t)' <=> (PoolHolds(s, t) \/ (s = JobPlace /\ t = u))
        /\ OnceEach /\ ~PoolHolds(JobPlace, u) => OnceEach'
        /\ JobInv /\ suspendedAt' = suspendedAt /\ ("resume" = "function" => suspendedAt[u] = 0) => JobInv'
    BY <1>1, <1>2, <1>3, <1>11, PoolEnqueue
  <2>3. \A s, t : Held(s, t)' <=> (PoolHolds(s, t)' \/ Rest(th, s, t))
    BY <2>1, HeldAfter
  <2>4. Held(OfferPlace(th, m), u)
    BY <1>5, <1>7, <1>11 DEF Resumable
  <2>5. \A s : ~Rest(th, s, u) /\ (Held(s, u) => s = OfferPlace(th, m))
    BY <1>0, <1>1, <2>4, PlaceParts, Alone DEF TokenInv
  <2>6. ~PoolHolds(JobPlace, u)
    <3>1. JobPlace # OfferPlace(th, m)
      BY PlaceParts DEF JobPlace, OfferPlace
    <3> QED BY <1>7, <2>5, <3>1
  <2>7. ~completed[u] /\ MayGoOn(u)
    BY <1>2, <2>4, PlaceParts, ReadyNotDone
  <2>8. Suits(JobPlace, u)'
    BY <1>2, <1>3, <2>7, PlaceParts, ReadySuits
  <2>9. \A s : Held(s, u)' => s = JobPlace
    <3>1. \A s : PoolHolds(s, u) => s = OfferPlace(th, m) /\ OfRecord(s) = 0
      BY <1>7, <2>5, HoldingPlaces
    <3>2. OfRecord(OfferPlace(th, m)) # 0
      <4>1. m # 0 BY <1>0, <1>1, TopGood
      <4> QED BY <4>1, PlaceParts
    <3> QED BY <2>2, <2>3, <2>5, <3>1, <3>2
  <2>10. \A s, t : t # u /\ Held(s, t)' => Held(s, t)
    BY <1>7, <2>2, <2>3
  <2>11. \A t : Token(th, t)
    BY <1>3, <2>4, <2>8, <2>9, <2>10, MoveTokens
  <2>12. OnceEach' /\ JobInv' /\ DependInv'
    BY <1>3, <2>2, <2>6 DEF TokenInv, DependInv
  <2> QED BY <1>8, <2>1, <2>11, <2>12 DEF Effect, NoneAfter
<1>12. CASE Resumable(u) /\ m_jobs' = m_jobs /\ Goto(th, <<h>>)
  <2>1. OneAfter(th, m, h)
    BY <1>0, <1>1, <1>4, <1>12, GotoAfter
  <2>2. \A s, t : Held(s, t)' <=> (PoolHolds(s, t)' \/ Rest(th, s, t) \/ RecordHolds(h, th, m, s, t))
    BY <2>1, HeldAfter
  <2>3. \A s, t : Held(s, t)' => Held(s, t)
    BY <1>3, <1>5, <1>6, <1>7, <1>12, <2>2, PoolSame DEF Resumable
  <2>4. NewSound(th, h)
    BY <1>4, PlainSound DEF NewSound, BodyPoints
  <2>5. \A x \in Threads : \A j \in 1..Len(stack'[x]) :
           RestRecord(th, x, j) \/ \E r : r = stack'[x][j] /\ NewSound(th, r)
    BY <2>1, <2>4 DEF OneAfter
  <2> QED BY <1>3, <1>8, <1>12, <2>1, <2>3, <2>5, QuietTokens, SameLists DEF Effect, OneAfter
<1> QED BY <1>0, <1>9, <1>10, <1>11, <1>12 DEF await_suspend, Produce

\* A coroutine is resumed.
LEMMA ResumeEffect ==
  ASSUME SoundUse, TaskInv, TokenInv, NEW th \in Threads, resume(th)
  PROVE  Effect(th)
<1>0. PICK m, f, w, i : m = Len(stack[th]) /\ f = Top(th) /\ w = Top(th).who /\ i = suspendedAt[w]
  BY Zenon
<1>1. stack[th] # <<>> /\ f.at = "resume" /\ StackOK
  BY <1>0 DEF resume, At, TaskInv
<1>2. w \in Tasks /\ w \in Owners /\ i \in Nat
  BY <1>0, <1>1, LibraryTask, PointNames DEF Owners, TaskInv, TasksOK
<1>3. /\ completed' = completed /\ suspendedAt' = suspendedAt /\ continuations' = continuations
      /\ dependents' = dependents /\ m_jobs' = m_jobs
  BY DEF resume, poolVars
<1>4. \A s, t : RecordHolds(f, th, m, s, t) <=> (s = OfferPlace(th, m) /\ t = w)
  BY <1>0, <1>1 DEF RecordHolds, RunPoints, BodyPoints, ListPoints
<1>5. \A s, t : Held(s, t) <=> (PoolHolds(s, t) \/ Rest(th, s, t) \/ RecordHolds(f, th, m, s, t))
  BY <1>0, <1>1, HeldBefore
<1>6. Held(OfferPlace(th, m), w)
  BY <1>4, <1>5
<1>7. ~done[w] /\ ~completed[w] /\ DepsMet(w)
  BY <1>2, <1>6, PlaceParts, ReadyNotDone
<1>8. RunGoesOn(th)
  BY <1>0, <1>1 DEF RunGoesOn, RunPoints, BodyPoints
<1>9. ASSUME NEW g \in GoodFrames, Goto(th, <<g>>), g.at = "call", g.n = 0, g.who = w, BodyMove(th, g)
      PROVE  Effect(th)
  <2>1. OneAfter(th, m, g) /\ m # 0
    BY <1>0, <1>1, <1>9, GotoAfter
  <2>2. \A s, t : Held(s, t)' <=> (PoolHolds(s, t)' \/ Rest(th, s, t) \/ RecordHolds(g, th, m, s, t))
    BY <2>1, HeldAfter
  <2>3. \A s, t : RecordHolds(g, th, m, s, t) <=> (s = RunPlace(th, m) /\ t = w)
    BY <1>9 DEF RecordHolds, RunPoints, BodyPoints, ListPoints
  <2>4. \A s : ~Rest(th, s, w) /\ (Held(s, w) => s = OfferPlace(th, m))
    BY <1>0, <1>1, <1>6, PlaceParts, Alone DEF TokenInv
  <2>5. \A s : ~PoolHolds(s, w)
    <3>1. \A s : PoolHolds(s, w) => s = OfferPlace(th, m) /\ OfRecord(s) = 0
      BY <1>5, <2>4, HoldingPlaces
    <3>2. OfRecord(OfferPlace(th, m)) # 0
      BY <2>1, PlaceParts
    <3> QED BY <3>1, <3>2
  <2>6. \A s, t : PoolHolds(s, t)' <=> PoolHolds(s, t)
    BY <1>3, PoolSame
  <2>7. \A t : Token(th, t)
    <3>0. PICK d : d = RunPlace(th, m)
      OBVIOUS
    <3>1. Kind(d) = "run" /\ "run" # "ready" /\ "run" # "wait" /\ "run" # "new"
      BY <3>0, PlaceParts
    <3>2. Suits(d, w)'
      BY <1>3, <1>7, <3>1 DEF Suits, DepsMet
    <3>3. \A s : Held(s, w)' => s = d
      BY <2>2, <2>3, <2>4, <2>5, <2>6, <3>0
    <3>4. \A s, t : t # w /\ Held(s, t)' => Held(s, t)
      BY <1>5, <2>2, <2>3, <2>6
    <3> QED BY <1>3, <1>6, <3>2, <3>3, <3>4, MoveTokens
  <2>8. NewSound(th, g)
    BY <1>9, PlainSound DEF NewSound
  <2>9. \A x \in Threads : \A j \in 1..Len(stack'[x]) :
           RestRecord(th, x, j) \/ \E r : r = stack'[x][j] /\ NewSound(th, r)
    BY <2>1, <2>8 DEF OneAfter
  <2> QED BY <1>3, <1>8, <2>1, <2>7, <2>9, SameLists DEF Effect, OneAfter
<1>10. CASE i = 0
  <2>0. PICK g : g = Body(w, 1)
    OBVIOUS
  <2>1. g \in GoodFrames /\ g.at = "call" /\ g.n = 0 /\ g.who = w /\ g.pc = 1
    BY <1>2, <2>0, BodyGood DEF Body, Frame
  <2>2. Goto(th, <<g>>)
    BY <1>0, <1>7, <1>10, <2>0 DEF resume
  <2>3. BodyMove(th, g)
    BY <1>0, <1>1, <1>2, <1>10, <2>1 DEF BodyMove
  <2> QED BY <1>9, <2>1, <2>2, <2>3
<1>11. CASE i # 0
  <2>0. PICK u, g : /\ u = Program[w][i].task
                    /\ g = IF exception[u] /\ w \in Tasks THEN Body(w, Len(Program[w]) + 1) ELSE Body(w, i + 1)
    BY Zenon
  <2>1. Return(th, w, i, u)
    BY <1>0, <1>7, <1>11, <2>0 DEF resume
  <2>2. Len(Program[w]) + 1 \in Nat /\ i + 1 \in Nat
    BY <1>2, ProgramAssumption
  <2>3. g \in GoodFrames /\ g.at = "call" /\ g.n = 0 /\ g.who = w
    BY <1>2, <2>0, <2>2, BodyGood DEF Body, Frame
  <2>4. Goto(th, <<g>>)
    BY <2>0, <2>1 DEF Return
  <2>5. \/ g.pc = i + 1 /\ ~exception[u]
        \/ g.pc = Len(Program[w]) + 1 /\ exception'[w]
    <3>1. CASE exception[u]
      BY <1>2, <2>0, <2>1, <2>2, <3>1, BodyGood DEF Return, TaskInv, TasksOK
    <3>2. CASE ~exception[u]
      BY <1>2, <2>0, <2>2, <3>2, BodyGood
    <3> QED BY <3>1, <3>2
  <2>6. BodyMove(th, g)
    BY <1>0, <1>1, <1>2, <1>11, <2>0, <2>3, <2>5 DEF BodyMove
  <2> QED BY <1>9, <2>3, <2>4, <2>6
<1> QED BY <1>10, <1>11

-----------------------------------------------------------------------------
(* The end of a body.                                                      *)

\* final_suspend, or the end of a client.
LEMMA BodyEndEffect ==
  ASSUME SoundUse, TaskInv, TokenInv, NEW th \in Threads, BodyEnd(th)
  PROVE  Effect(th)
<1>0. PICK m, f, w : m = Len(stack[th]) /\ f = Top(th) /\ w = Top(th).who
  BY Zenon
<1>1. stack[th] # <<>> /\ f.at = "call" /\ StackOK
  BY <1>0 DEF BodyEnd, At, TaskInv
<1>2. /\ completed' = completed /\ suspendedAt' = suspendedAt /\ continuations' = continuations
      /\ dependents' = dependents /\ m_jobs' = m_jobs
  BY DEF BodyEnd, poolVars
<1>3. CASE w \in Tasks
  <2>0. PICK g : g = Frame("on_completed", w, 0, <<>>)
    OBVIOUS
  <2>1. g \in GoodFrames /\ g.at = "on_completed" /\ g.who = w
    BY <1>3, <2>0, LibraryGood DEF Frame
  <2>2. Goto(th, <<g>>)
    BY <1>0, <1>3, <2>0 DEF BodyEnd
  <2>3. NewSound(th, g)
    BY <2>1, PlainSound DEF NewSound, BodyPoints
  <2> QED BY <1>0, <1>1, <1>2, <2>1, <2>2, <2>3, BodyQuiet DEF RunPoints, BodyPoints
<1>4. CASE w \notin Tasks
  <2>1. NoneAfter(th)
    BY <1>0, <1>1, <1>4, GotoAfter DEF BodyEnd
  <2>2. \A s, t : Held(s, t)' => Held(s, t)
    BY <1>0, <1>1, <1>2, <2>1, HeldBefore, HeldAfter, PoolSame
  <2>3. RunGoesOn(th)
    BY <1>0, <1>4 DEF RunGoesOn
  <2> QED BY <1>2, <2>1, <2>2, <2>3, QuietTokens, SameLists DEF Effect, NoneAfter
<1> QED BY <1>3, <1>4

\* The first part of on_completed.
LEMMA CompleteEffect ==
  ASSUME SoundUse, TaskInv, TokenInv, NEW th \in Threads, on_completed(th)
  PROVE  Effect(th)
<1>0. PICK m, f, w, g : /\ m = Len(stack[th]) /\ f = Top(th) /\ w = Top(th).who
                        /\ g = [Top(th) EXCEPT !.at = "resume_continuations"]
  BY Zenon
<1>1. stack[th] # <<>> /\ f.at = "on_completed" /\ StackOK /\ f.at \in RunPoints
  BY <1>0 DEF on_completed, At, TaskInv, RunPoints
<1>2. w \in Tasks
  BY <1>0, <1>1, LibraryTask, PointNames
<1>3. /\ suspendedAt' = suspendedAt /\ continuations' = continuations
      /\ dependents' = dependents /\ m_jobs' = m_jobs
      /\ completed'[w] /\ \A t \in Tasks \ {w} : completed'[t] = completed[t]
  BY <1>0, <1>2 DEF on_completed, poolVars, TaskInv, TasksOK
<1>4. g \in GoodFrames /\ g.at = "resume_continuations" /\ g.who = w
  <2>1. f \in GoodFrames /\ Fits("resume_continuations", f.who, f.pc, f.list)
    BY <1>0, <1>1, <1>2, TopGood, PointNames DEF Fits
  <2> QED BY <1>0, <2>1, MoveGood
<1>5. OneAfter(th, m, g) /\ m # 0
  BY <1>0, <1>1, <1>4, GotoAfter DEF on_completed
<1>6. \A s, t : ~RecordHolds(g, th, m, s, t)
  BY <1>4 DEF RecordHolds, RunPoints, BodyPoints, ListPoints
<1>7. \A s, t : Held(s, t)' <=> (PoolHolds(s, t)' \/ Rest(th, s, t) \/ RecordHolds(g, th, m, s, t))
  BY <1>5, HeldAfter
<1>8. \A s, t : Held(s, t) <=> (PoolHolds(s, t) \/ Rest(th, s, t) \/ RecordHolds(f, th, m, s, t))
  BY <1>0, <1>1, HeldBefore
<1>9. Held(RunPlace(th, m), w)
  BY <1>0, <1>1, TopFacts
<1>10. \A s : ~Rest(th, s, w) /\ (Held(s, w) => s = RunPlace(th, m))
  BY <1>0, <1>1, <1>9, PlaceParts, Alone DEF TokenInv
<1>11. \A s : ~PoolHolds(s, w)
  <2>1. \A s : PoolHolds(s, w) => s = RunPlace(th, m) /\ OfRecord(s) = 0
    BY <1>8, <1>10, HoldingPlaces
  <2>2. OfRecord(RunPlace(th, m)) # 0
    BY <1>5, PlaceParts
  <2> QED BY <2>1, <2>2
<1>12. \A s, t : Held(s, t)' => Held(s, t) /\ t # w
  BY <1>3, <1>6, <1>7, <1>8, <1>10, <1>11, PoolSame
<1>13. \A t : Token(th, t)
  BY <1>3, <1>12 DEF Token
<1>14. RunGoesOn(th)
  BY <1>0, <1>3 DEF RunGoesOn
<1>15. NewSound(th, g)
  BY <1>3, <1>4 DEF NewSound, RecordSound, BodyPoints, ListPoints, LoopPoints
<1>16. \A x \in Threads : \A j \in 1..Len(stack'[x]) :
         RestRecord(th, x, j) \/ \E r : r = stack'[x][j] /\ NewSound(th, r)
  BY <1>5, <1>15 DEF OneAfter
<1> QED BY <1>3, <1>5, <1>13, <1>14, <1>16, SameLists DEF Effect, OneAfter

\* The awaiters are swapped out: they may all go on.
LEMMA SwapEffect ==
  ASSUME SoundUse, TaskInv, TokenInv, NEW th \in Threads, resume_continuations(th)
  PROVE  Effect(th)
<1>0. PICK m, f, u, l, g : /\ m = Len(stack[th]) /\ f = Top(th) /\ u = Top(th).who /\ l = continuations[u]
                           /\ g = [Top(th) EXCEPT !.at = "continue", !.list = continuations[u]]
  BY Zenon
<1>1. stack[th] # <<>> /\ f.at = "resume_continuations" /\ StackOK
  BY <1>0 DEF resume_continuations, At, TaskInv
<1>2. u \in Tasks
  BY <1>0, <1>1, LibraryTask, PointNames
<1>3. /\ suspendedAt' = suspendedAt /\ completed' = completed /\ dependents' = dependents /\ m_jobs' = m_jobs
      /\ continuations' = [continuations EXCEPT ![u] = <<>>]
  BY <1>0 DEF resume_continuations, poolVars
<1>4. l \in Seq(Tasks) /\ Once(l)
  BY <1>0, <1>2 DEF TaskInv, TasksOK, TokenInv, OnceEach
<1>5. f \in GoodFrames /\ completed[u]
  BY <1>0, <1>1, TopFacts DEF RecordSound, CompletionPoints
<1>6. g \in Moved(f, "continue", l)
  <2>1. Fits("continue", f.who, f.pc, l)
    BY <1>0, <1>2, PointNames DEF Fits
  <2> QED BY <1>0, <1>4, <1>5, <2>1, RelistMoveGood
<1>7. g \in GoodFrames /\ g.at = "continue" /\ g.who = u /\ g.list = l
  BY <1>0, <1>6 DEF Moved
<1>8. OneAfter(th, m, g)
  BY <1>0, <1>1, <1>7, GotoAfter DEF resume_continuations
<1>9. \A s, t : RecordHolds(g, th, m, s, t) <=> (s = ListPlace(th, m) /\ In(l, t))
  BY <1>7 DEF RecordHolds, RunPoints, BodyPoints, ListPoints
<1>10. \A s, t : Held(s, t)' <=> (PoolHolds(s, t)' \/ Rest(th, s, t) \/ RecordHolds(g, th, m, s, t))
  BY <1>8, HeldAfter
<1>11. \A s, t : Held(s, t) <=> (PoolHolds(s, t) \/ Rest(th, s, t) \/ RecordHolds(f, th, m, s, t))
  BY <1>0, <1>1, HeldBefore
<1>12. /\ \A s, t : PoolHolds(s, t)' => PoolHolds(s, t) /\ s # AwaitPlace(u)
       /\ \A t : In(l, t) => PoolHolds(AwaitPlace(u), t)
       /\ OnceEach => OnceEach'
  <2>1. TasksOK BY DEF TaskInv
  <2>2. /\ \A s, t : PoolHolds(s, t)' => PoolHolds(s, t) /\ s # AwaitPlace(u)
        /\ \A t : In(continuations[u], t) => PoolHolds(AwaitPlace(u), t)
        /\ OnceEach => OnceEach'
    BY <1>2, <1>3, <2>1, PoolSwap
  <2> QED BY <1>0, <2>2
<1>13. ASSUME NEW t, ~In(l, t) PROVE Token(th, t)
  BY <1>3, <1>9, <1>10, <1>11, <1>12, <1>13 DEF Token
<1>14. ASSUME NEW t, In(l, t) PROVE Token(th, t)
  <2>1. t \in Tasks
    BY <1>4, <1>14 DEF In
  <2>2. Held(AwaitPlace(u), t)
    BY <1>11, <1>12, <1>14
  <2>3. \A s : ~Rest(th, s, t) /\ (Held(s, t) => s = AwaitPlace(u))
    BY <1>0, <1>1, <2>2, PlaceParts, Alone DEF TokenInv
  <2>4. \A s : Held(s, t)' => s = ListPlace(th, m)
    BY <1>9, <1>10, <1>11, <1>12, <2>3
  <2>5. ~completed[t] /\ MayGoOn(t)
    <3>1. Suits(AwaitPlace(u), t) /\ Kind(AwaitPlace(u)) = "wait" /\ Thing(AwaitPlace(u)) = u
      BY <2>1, <2>2, PlaceParts DEF TokenInv, Placed
    <3>2. ~completed[t] /\ Awaits(t, u) /\ DepsMet(t)
      BY <3>1 DEF Suits
    <3> QED BY <1>2, <1>5, <3>2 DEF MayGoOn
  <2>6. Suits(ListPlace(th, m), t)'
    <3>1. PICK d : d = ListPlace(th, m)
      OBVIOUS
    <3>2. Kind(d) = "ready"
      BY <3>1, PlaceParts
    <3> QED BY <1>3, <2>1, <2>5, <3>1, <3>2, ReadySuits
  <2> QED BY <2>2, <2>4, <2>6 DEF Token
<1>15. RunGoesOn(th)
  BY <1>0, <1>1 DEF RunGoesOn, RunPoints, BodyPoints
<1>16. NewSound(th, g)
  BY <1>3, <1>4, <1>5, <1>7 DEF NewSound, RecordSound, BodyPoints, CompletionPoints, LoopPoints
<1>17. \A x \in Threads : \A j \in 1..Len(stack'[x]) :
         RestRecord(th, x, j) \/ \E r : r = stack'[x][j] /\ NewSound(th, r)
  BY <1>8, <1>16 DEF OneAfter
<1>18. OnceEach' /\ DependInv' /\ JobInv'
  BY <1>3, <1>12 DEF TokenInv, DependInv, JobInv
<1> QED BY <1>8, <1>13, <1>14, <1>15, <1>17, <1>18 DEF Effect, OneAfter

\* The first one of the list that on_completed or on_task_finished goes through.
LEMMA ListHead ==
  ASSUME TaskInv, TokenInv, NEW th \in Threads, stack[th] # <<>>, NEW m, m = Len(stack[th]),
         NEW f, f = Top(th), f.at \in ListPoints, f.list # <<>>, NEW w, w = Head(f.list),
         NEW g, g = [f EXCEPT !.list = Tail(@)], completed' = completed
  PROVE  /\ w \in Tasks /\ Held(ListPlace(th, m), w) /\ ~completed[w] /\ MayGoOn(w)
         /\ g \in GoodFrames /\ g.at = f.at /\ g.who = f.who /\ NewSound(th, g) /\ RunGoesOn(th)
         /\ \A s : ~Rest(th, s, w) /\ ~PoolHolds(s, w) /\ ~RecordHolds(g, th, m, s, w)
         /\ \A s, t : PoolHolds(s, t) \/ Rest(th, s, t) \/ RecordHolds(g, th, m, s, t) => Held(s, t)
<1>1. /\ f \in GoodFrames /\ f.list \in Seq(Tasks) /\ m \in Nat \ {0} /\ RecordSound(f)
      /\ Fits(f.at, f.who, f.pc, f.list) /\ \A s, t : RecordHolds(f, th, m, s, t) => Held(s, t)
  BY TopFacts
<1>2. /\ f.at \in CompletionPoints \ {"on_completed"} /\ f.at \notin BodyPoints /\ f.at \notin RunPoints
      /\ f.at \notin LoopPoints /\ f.at # "crashed" /\ f.at # "call" /\ f.at # "add_continuation"
  BY DEF ListPoints, CompletionPoints, BodyPoints, RunPoints, LoopPoints
<1>3. completed[f.who] /\ Once(f.list)
  BY <1>1, <1>2 DEF RecordSound
<1>4. /\ w \in Tasks /\ In(f.list, w) /\ Tail(f.list) \in Seq(Tasks)
      /\ \A t : In(f.list, t) <=> In(Tail(f.list), t) \/ t = w
      /\ Once(Tail(f.list)) /\ ~In(Tail(f.list), w)
  BY <1>1, <1>3, TailIn
<1>5. g \in Moved(f, f.at, Tail(f.list))
  <2>1. Fits(f.at, f.who, f.pc, Tail(f.list))
    BY <1>1, <1>2 DEF Fits
  <2> QED BY <1>1, <1>4, <2>1, RelistGood
<1>6. g \in GoodFrames /\ g.at = f.at /\ g.who = f.who /\ g.list = Tail(f.list)
  BY <1>5 DEF Moved
<1>7. \A s, t : RecordHolds(f, th, m, s, t) <=> (s = ListPlace(th, m) /\ In(f.list, t))
  BY HoldList, Zenon
<1>8. \A s, t : RecordHolds(g, th, m, s, t) <=> (s = ListPlace(th, m) /\ In(g.list, t))
  <2>1. g.at \in ListPoints BY <1>6
  <2> QED BY <2>1, HoldList, Zenon
<1>9. Held(ListPlace(th, m), w)
  BY <1>1, <1>4, <1>7
<1>10. \A s : ~Rest(th, s, w) /\ (Held(s, w) => s = ListPlace(th, m))
  BY <1>9, PlaceParts, Alone DEF TokenInv, TaskInv
<1>11. \A s : ~PoolHolds(s, w)
  <2>1. \A s : PoolHolds(s, w) => s = ListPlace(th, m) /\ OfRecord(s) = 0
    BY <1>10, HoldingPlaces DEF Held
  <2>2. OfRecord(ListPlace(th, m)) # 0
    BY <1>1, PlaceParts
  <2> QED BY <2>1, <2>2
<1>12. ~completed[w] /\ MayGoOn(w)
  BY <1>4, <1>9, PlaceParts, ReadyNotDone
<1>13. NewSound(th, g)
  <2>1. RecordSound(g)'
    BY <1>2, <1>3, <1>4, <1>6 DEF RecordSound
  <2> QED BY <1>2, <1>6, <2>1 DEF NewSound
<1>14. RunGoesOn(th)
  BY <1>2 DEF RunGoesOn
<1>15. \A s, t : PoolHolds(s, t) \/ Rest(th, s, t) \/ RecordHolds(g, th, m, s, t) => Held(s, t)
  <2>1. \A s, t : RecordHolds(g, th, m, s, t) => RecordHolds(f, th, m, s, t)
    BY <1>4, <1>6, <1>7, <1>8
  <2> QED BY <1>1, <2>1, HeldBefore DEF TaskInv
<1>16. \A s : ~RecordHolds(g, th, m, s, w)
  BY <1>4, <1>6, <1>8
<1> QED BY <1>4, <1>6, <1>9, <1>10, <1>11, <1>12, <1>13, <1>14, <1>15, <1>16

\* It goes to the queue.
LEMMA EnqueueHead ==
  ASSUME TaskInv, TokenInv, NEW th \in Threads, stack[th] # <<>>,
         NEW f, f = Top(th), f.at \in ListPoints, f.list # <<>>, enqueue("resume", Head(f.list)),
         NEW g, g = [f EXCEPT !.list = Tail(@)], Goto(th, <<g>>), UNCHANGED taskVars
  PROVE  Effect(th)
<1>0. PICK m, w : m = Len(stack[th]) /\ w = Head(f.list)
  BY Zenon
<1>1. completed' = completed /\ suspendedAt' = suspendedAt /\ continuations' = continuations /\ dependents' = dependents
  BY DEF taskVars
<1>2. /\ w \in Tasks /\ Held(ListPlace(th, m), w) /\ ~completed[w] /\ MayGoOn(w)
      /\ g \in GoodFrames /\ NewSound(th, g) /\ RunGoesOn(th)
      /\ \A s : ~Rest(th, s, w) /\ ~PoolHolds(s, w) /\ ~RecordHolds(g, th, m, s, w)
      /\ \A s, t : PoolHolds(s, t) \/ Rest(th, s, t) \/ RecordHolds(g, th, m, s, t) => Held(s, t)
  BY <1>0, <1>1, ListHead
<1>3. OneAfter(th, m, g)
  BY <1>0, <1>2, GotoAfter DEF TaskInv
<1>4. /\ \A s, t : PoolHolds(s, t)' <=> (PoolHolds(s, t) \/ (s = JobPlace /\ t = w))
      /\ OnceEach /\ ~PoolHolds(JobPlace, w) => OnceEach'
      /\ JobInv /\ suspendedAt' = suspendedAt /\ ("resume" = "function" => suspendedAt[w] = 0) => JobInv'
  <2>1. PoolOK BY DEF TaskInv
  <2>2. w \in Tasks /\ enqueue("resume", w)
    BY <1>0, <1>2
  <2> QED BY <1>1, <2>1, <2>2, PoolEnqueue
<1>5. \A s, t : Held(s, t)' <=> (PoolHolds(s, t)' \/ Rest(th, s, t) \/ RecordHolds(g, th, m, s, t))
  BY <1>3, HeldAfter
<1>6. Suits(JobPlace, w)'
  BY <1>1, <1>2, PlaceParts, ReadySuits
<1>7. \A t : Token(th, t)
  <2>1. \A s : Held(s, w)' => s = JobPlace
    BY <1>2, <1>4, <1>5
  <2>2. \A s, t : t # w /\ Held(s, t)' => Held(s, t)
    BY <1>2, <1>4, <1>5
  <2> QED BY <1>1, <1>2, <1>6, <2>1, <2>2, MoveTokens
<1>8. OnceEach' /\ JobInv' /\ DependInv'
  BY <1>1, <1>2, <1>4 DEF TokenInv, DependInv
<1>9. \A x \in Threads : \A j \in 1..Len(stack'[x]) :
         RestRecord(th, x, j) \/ \E r : r = stack'[x][j] /\ NewSound(th, r)
  BY <1>2, <1>3 DEF OneAfter
<1> QED BY <1>2, <1>3, <1>7, <1>8, <1>9 DEF Effect, OneAfter

\* One awaiter of a completed task.
LEMMA ContinueEffect ==
  ASSUME TaskInv, TokenInv, NEW th \in Threads, Continue(th)
  PROVE  Effect(th)
<1>0. PICK m, f, w, g, h : /\ m = Len(stack[th]) /\ f = Top(th) /\ w = Head(f.list)
                           /\ g = [f EXCEPT !.list = Tail(@)] /\ h = Frame("resume", w, 0, <<>>)
  BY Zenon
<1>1. stack[th] # <<>> /\ f.at = "continue" /\ f.list # <<>> /\ f.at \in ListPoints
  BY <1>0 DEF Continue, At, ListPoints
<1>2. UNCHANGED taskVars
  BY DEF Continue
<1>3. CASE enqueue("resume", w) /\ Goto(th, <<g>>)
  BY <1>0, <1>1, <1>2, <1>3, EnqueueHead
<1>4. CASE Goto(th, <<g, h>>) /\ m_jobs' = m_jobs
  <2>1. completed' = completed /\ suspendedAt' = suspendedAt /\ continuations' = continuations /\ dependents' = dependents
    BY <1>2 DEF taskVars
  <2>2. /\ w \in Tasks /\ Held(ListPlace(th, m), w) /\ ~completed[w] /\ MayGoOn(w)
        /\ g \in GoodFrames /\ NewSound(th, g) /\ RunGoesOn(th)
        /\ \A s : ~Rest(th, s, w) /\ ~PoolHolds(s, w) /\ ~RecordHolds(g, th, m, s, w)
        /\ \A s, t : PoolHolds(s, t) \/ Rest(th, s, t) \/ RecordHolds(g, th, m, s, t) => Held(s, t)
    BY <1>0, <1>1, <2>1, ListHead
  <2>3. h \in GoodFrames /\ h.at = "resume" /\ h.who = w
    BY <1>0, <2>2, LibraryGood DEF Frame
  <2>4. TwoAfter(th, m, g, h)
    BY <1>0, <1>1, <1>4, <2>2, <2>3, GotoAfter DEF TaskInv
  <2>5. \A s, t : RecordHolds(h, th, m + 1, s, t) <=> (s = OfferPlace(th, m + 1) /\ t = w)
    BY <2>3 DEF RecordHolds, RunPoints, BodyPoints, ListPoints
  <2>6. \A s, t : Held(s, t)' <=> (PoolHolds(s, t)' \/ Rest(th, s, t) \/ RecordHolds(g, th, m, s, t)
                                      \/ RecordHolds(h, th, m + 1, s, t))
    BY <2>4, HeldAfter
  <2>7. \A t : Token(th, t)
    <3>0. PICK d : d = OfferPlace(th, m + 1)
      OBVIOUS
    <3>1. Kind(d) = "ready"
      BY <3>0, PlaceParts
    <3>2. Suits(d, w)'
      BY <2>1, <2>2, <3>1, ReadySuits
    <3>3. \A s, t : PoolHolds(s, t)' <=> PoolHolds(s, t)
      BY <1>4, <2>1, PoolSame
    <3>4. \A s : Held(s, w)' => s = d
      BY <2>2, <2>5, <2>6, <3>0, <3>3
    <3>5. \A s, t : t # w /\ Held(s, t)' => Held(s, t)
      BY <2>2, <2>5, <2>6, <3>3
    <3> QED BY <2>1, <2>2, <3>2, <3>4, <3>5, MoveTokens
  <2>8. NewSound(th, h)
    BY <2>3, PlainSound DEF NewSound, BodyPoints
  <2>9. \A x \in Threads : \A j \in 1..Len(stack'[x]) :
           RestRecord(th, x, j) \/ \E r : r = stack'[x][j] /\ NewSound(th, r)
    BY <2>2, <2>4, <2>8 DEF TwoAfter
  <2> QED BY <1>4, <2>1, <2>2, <2>4, <2>7, <2>9, SameLists DEF Effect, TwoAfter
<1> QED BY <1>0, <1>3, <1>4 DEF Continue

\* A return from on_completed, and a loop that begins with the same list.
LEMMA ListMoveEffect ==
  ASSUME TaskInv, TokenInv, NEW th \in Threads, ContinueEnd(th) \/ ReleaseEnd(th)
  PROVE  Effect(th)
<1>0. PICK m, f : m = Len(stack[th]) /\ f = Top(th)
  BY Zenon
<1>1. stack[th] # <<>> /\ f.at \in ListPoints /\ StackOK /\ m_jobs' = m_jobs /\ UNCHANGED taskVars
  BY <1>0 DEF ContinueEnd, ReleaseEnd, At, ListPoints, TaskInv, poolVars
<1>2. PICK a \in {"on_task_finished", "ready"} : Goto(th, <<[f EXCEPT !.at = a]>>) \/ Goto(th, <<>>)
  BY <1>0 DEF ContinueEnd, ReleaseEnd
<1>3. completed' = completed /\ suspendedAt' = suspendedAt /\ continuations' = continuations /\ dependents' = dependents
  BY <1>1 DEF taskVars
<1>4. RunGoesOn(th)
  BY <1>0, <1>1 DEF RunGoesOn, ListPoints, RunPoints, BodyPoints
<1>5. \A s, t : PoolHolds(s, t)' <=> PoolHolds(s, t)
  BY <1>1, <1>3, PoolSame
<1>6. CASE Goto(th, <<>>)
  <2>1. NoneAfter(th)
    BY <1>0, <1>1, <1>6, GotoAfter
  <2>2. \A s, t : Held(s, t)' => Held(s, t)
    BY <1>0, <1>1, <1>5, <2>1, HeldBefore, HeldAfter
  <2> QED BY <1>1, <1>3, <1>4, <2>1, <2>2, QuietTokens, SameLists DEF Effect, NoneAfter
<1>7. CASE Goto(th, <<[f EXCEPT !.at = a]>>)
  <2>0. PICK g : g = [f EXCEPT !.at = a]
    OBVIOUS
  <2>1. /\ f \in GoodFrames /\ f \in Frames /\ f.who \in Tasks /\ f.list \in Seq(Tasks) /\ RecordSound(f)
        /\ f.pc \in Nat
    <3>1. f.at \in LibraryPoints
      BY <1>1 DEF ListPoints, LibraryPoints, Points, CompletionPoints, BodyPoints
    <3> QED BY <1>0, <1>1, <3>1, TopFacts, FrameFields, LibraryTask
  <2>2. Fits(a, f.who, f.pc, f.list)
    BY <2>1, PointNames DEF Fits
  <2>3. g \in GoodFrames /\ g.at = a /\ g.who = f.who
    BY <2>0, <2>1, <2>2, MoveGood
  <2>4. g.list = f.list
    BY <2>0, <2>1 DEF Frames
  <2>5. OneAfter(th, m, g)
    BY <1>0, <1>1, <1>7, <2>0, <2>3, GotoAfter
  <2>6. \A s, t : RecordHolds(g, th, m, s, t) <=> (s = ListPlace(th, m) /\ In(g.list, t))
    <3>1. g.at \in ListPoints BY <2>3 DEF ListPoints
    <3> QED BY <3>1, HoldList, Zenon
  <2>7. \A s, t : RecordHolds(f, th, m, s, t) <=> (s = ListPlace(th, m) /\ In(f.list, t))
    BY <1>1, HoldList, Zenon
  <2>8. \A s, t : Held(s, t)' => Held(s, t)
    <3>1. \A s, t : Held(s, t)' <=> (PoolHolds(s, t)' \/ Rest(th, s, t) \/ RecordHolds(g, th, m, s, t))
      BY <2>5, HeldAfter
    <3>2. \A s, t : Held(s, t) <=> (PoolHolds(s, t) \/ Rest(th, s, t) \/ RecordHolds(f, th, m, s, t))
      BY <1>0, <1>1, HeldBefore
    <3> QED BY <1>5, <2>4, <2>6, <2>7, <3>1, <3>2
  <2>9. completed[f.who] /\ Once(f.list)
    BY <1>1, <2>1 DEF RecordSound, ListPoints, CompletionPoints
  <2>10. NewSound(th, g)
    BY <1>3, <2>3, <2>4, <2>9 DEF NewSound, RecordSound, BodyPoints, LoopPoints
  <2>11. \A x \in Threads : \A j \in 1..Len(stack'[x]) :
           RestRecord(th, x, j) \/ \E r : r = stack'[x][j] /\ NewSound(th, r)
    BY <2>5, <2>10 DEF OneAfter
  <2> QED BY <1>1, <1>3, <1>4, <2>5, <2>8, <2>11, QuietTokens, SameLists DEF Effect, OneAfter
<1> QED BY <1>2, <1>6, <1>7

\* The loop over the ready dependents.
LEMMA ReadyEffect ==
  ASSUME TaskInv, TokenInv, NEW th \in Threads, Ready(th)
  PROVE  Effect(th)
<1>0. PICK m, f, g : m = Len(stack[th]) /\ f = Top(th) /\ g = [f EXCEPT !.list = Tail(@)]
  BY Zenon
<1>1. stack[th] # <<>> /\ f.at \in ListPoints /\ StackOK /\ UNCHANGED taskVars /\ f.at = "ready"
  BY <1>0 DEF Ready, At, ListPoints, TaskInv
<1>2. CASE f.list # <<>>
  <2>1. enqueue("resume", Head(f.list)) /\ Goto(th, <<g>>)
    BY <1>0, <1>2 DEF Ready
  <2> QED BY <1>0, <1>1, <1>2, <2>1, EnqueueHead
<1>3. CASE f.list = <<>>
  <2>1. Goto(th, <<>>) /\ m_jobs' = m_jobs
    BY <1>0, <1>3 DEF Ready
  <2>2. completed' = completed /\ suspendedAt' = suspendedAt /\ continuations' = continuations /\ dependents' = dependents
    BY <1>1 DEF taskVars
  <2>3. NoneAfter(th)
    BY <1>0, <1>1, <2>1, GotoAfter
  <2>4. \A s, t : Held(s, t)' => Held(s, t)
    BY <1>0, <1>1, <2>1, <2>2, <2>3, HeldBefore, HeldAfter, PoolSame
  <2>5. RunGoesOn(th)
    BY <1>0, <1>1 DEF RunGoesOn, RunPoints, BodyPoints
  <2> QED BY <2>1, <2>2, <2>3, <2>4, <2>5, QuietTokens, SameLists DEF Effect, NoneAfter
<1> QED BY <1>2, <1>3

-----------------------------------------------------------------------------
(* The workers.                                                            *)

\* An idle worker takes nothing, or one record.
LEMMA WorkerAfter ==
  ASSUME StackOK, NEW w \in Threads, stack[w] = <<>>
  PROVE  /\ stack' = stack => NoneAfter(w)
         /\ \A g \in GoodFrames : stack' = [stack EXCEPT ![w] = <<g>>] => OneAfter(w, 1, g)
<1>1. /\ stack \in [Threads -> Seq(GoodFrames)] /\ Len(stack[w]) = 0
      /\ \A x \in Threads : \A j \in 1..Len(stack[x]) : RestRecord(w, x, j)
      /\ \A x, j : RestRecord(w, x, j) => x \in Threads /\ x # w /\ j \in 1..Len(stack[x])
  BY DEF StackOK, RestRecord
<1>2. ASSUME stack' = stack PROVE NoneAfter(w)
  BY <1>1, <1>2 DEF NoneAfter, Kept
<1>3. ASSUME NEW g \in GoodFrames, stack' = [stack EXCEPT ![w] = <<g>>] PROVE OneAfter(w, 1, g)
  <2>1. stack'[w] = <<g>> /\ \A x \in Threads \ {w} : stack'[x] = stack[x]
    BY <1>1, <1>3
  <2>2. Len(<<g>>) = 1 /\ <<g>>[1] = g /\ 1 \in 1..1 /\ \A j \in 1..1 : j = 1
    OBVIOUS
  <2>3. Kept(w)
    BY <1>1, <2>1 DEF Kept
  <2>4. ASSUME NEW x \in Threads, NEW j \in 1..Len(stack'[x]) PROVE RestRecord(w, x, j) \/ (x = w /\ j = 1)
    <3>1. CASE x = w
      BY <2>1, <2>2, <2>4, <3>1
    <3>2. CASE x # w
      BY <1>1, <2>1, <2>4, <3>2
    <3> QED BY <3>1, <3>2
  <2>5. 1 \in 1..Len(stack'[w]) /\ stack'[w][1] = g
    BY <2>1, <2>2
  <2> QED BY <2>3, <2>4, <2>5 DEF OneAfter
<1> QED BY <1>2, <1>3

\* A job is taken, run or dropped.
LEMMA TakeEffect ==
  ASSUME TaskInv, TokenInv, NEW w \in Threads, WorkerTake(w)
  PROVE  Effect(w)
<1>0. PICK u : u = Head(m_jobs).task
  OBVIOUS
<1>1. /\ stack[w] = <<>> /\ m_jobs # <<>> /\ m_jobs' = Tail(m_jobs) /\ UNCHANGED taskVars
      /\ stack' = [stack EXCEPT ![w] = IF Head(m_jobs).kind = "function" THEN <<Body(u, 1)>>
                                       ELSE IF Resumable(u) THEN <<Frame("resume", u, 0, <<>>)>> ELSE <<>>]
  BY <1>0 DEF WorkerTake
<1>2. /\ completed' = completed /\ suspendedAt' = suspendedAt /\ continuations' = continuations
      /\ dependents' = dependents /\ StackOK /\ PoolOK /\ OnceEach /\ JobInv /\ OnePlace
  BY <1>1 DEF taskVars, TaskInv, TokenInv
<1>3. /\ u \in Tasks /\ PoolHolds(JobPlace, u) /\ ~PoolHolds(JobPlace, u)'
      /\ \A s, t : PoolHolds(s, t)' => PoolHolds(s, t)
      /\ OnceEach'
      /\ JobInv => (Head(m_jobs).kind = "function" => suspendedAt[u] = 0)
      /\ JobInv /\ suspendedAt' = suspendedAt => JobInv'
  <2>1. PoolOK /\ OnceEach /\ m_jobs # <<>> /\ m_jobs' = Tail(m_jobs)
    BY <1>1, <1>2
  <2>2. continuations' = continuations /\ dependents' = dependents
    BY <1>2
  <2> QED BY <1>0, <2>1, <2>2, PoolTake
<1>4. \A s, t : Held(s, t) <=> (PoolHolds(s, t) \/ Rest(w, s, t))
  BY <1>1, <1>2, HeldBefore
<1>5. Held(JobPlace, u)
  BY <1>3, <1>4
<1>6. \A s : ~Rest(w, s, u) /\ (Held(s, u) => s = JobPlace)
  BY <1>2, <1>5, PlaceParts, Alone
<1>7. \A s : ~PoolHolds(s, u)'
  BY <1>3, <1>4, <1>6
<1>8. ~completed[u] /\ MayGoOn(u) /\ DepsMet(u)
  BY <1>3, <1>5, PlaceParts, ReadyNotDone
<1>9. RunGoesOn(w)
  BY <1>1 DEF RunGoesOn
<1>10. OnceEach' /\ JobInv' /\ DependInv'
  BY <1>2, <1>3 DEF TokenInv, DependInv
<1>11. ASSUME NEW g \in GoodFrames, stack' = [stack EXCEPT ![w] = <<g>>], NEW d, Suits(d, u)',
              \A s, t : RecordHolds(g, w, 1, s, t) <=> (s = d /\ t = u), NewSound(w, g)
       PROVE  Effect(w)
  <2>1. OneAfter(w, 1, g)
    BY <1>1, <1>2, <1>11, WorkerAfter
  <2>2. \A s, t : Held(s, t)' <=> (PoolHolds(s, t)' \/ Rest(w, s, t) \/ RecordHolds(g, w, 1, s, t))
    BY <2>1, HeldAfter
  <2>3. \A s : Held(s, u)' => s = d
    BY <1>6, <1>7, <1>11, <2>2
  <2>4. \A s, t : t # u /\ Held(s, t)' => Held(s, t)
    BY <1>3, <1>4, <1>11, <2>2
  <2>5. \A t : Token(w, t)
    BY <1>2, <1>5, <1>11, <2>3, <2>4, MoveTokens
  <2>6. \A x \in Threads : \A j \in 1..Len(stack'[x]) :
          RestRecord(w, x, j) \/ \E r : r = stack'[x][j] /\ NewSound(w, r)
    BY <1>11, <2>1 DEF OneAfter
  <2> QED BY <1>9, <1>10, <2>1, <2>5, <2>6 DEF Effect, OneAfter
<1>12. CASE Head(m_jobs).kind = "function"
  <2>0. PICK g, d : g = Body(u, 1) /\ d = RunPlace(w, 1)
    BY Zenon
  <2>1. g \in GoodFrames /\ g.at = "call" /\ g.who = u /\ g.pc = 1 /\ g.n = 0
    BY <1>3, <2>0, BodyGood DEF Body, Frame, Owners
  <2>2. BodyMove(w, g)
    BY <1>1, <1>2, <1>3, <1>5, <1>12, <2>1 DEF BodyMove
  <2>3. NewSound(w, g)
    BY <2>1, <2>2, PlainSound DEF NewSound
  <2>4. \A s, t : RecordHolds(g, w, 1, s, t) <=> (s = d /\ t = u)
    BY <2>0, <2>1 DEF RecordHolds, RunPoints, BodyPoints, ListPoints
  <2>5. Kind(d) = "run" /\ "run" # "ready" /\ "run" # "wait" /\ "run" # "new"
    BY <2>0, PlaceParts
  <2>6. Suits(d, u)'
    BY <1>2, <1>8, <2>5 DEF Suits, DepsMet
  <2>7. stack' = [stack EXCEPT ![w] = <<g>>]
    BY <1>1, <1>12, <2>0
  <2> QED BY <1>11, <2>1, <2>3, <2>4, <2>6, <2>7
<1>13. CASE Head(m_jobs).kind # "function" /\ Resumable(u)
  <2>0. PICK g, d : g = Frame("resume", u, 0, <<>>) /\ d = OfferPlace(w, 1)
    BY Zenon
  <2>1. g \in GoodFrames /\ g.at = "resume" /\ g.who = u
    BY <1>3, <2>0, LibraryGood DEF Frame
  <2>2. NewSound(w, g)
    BY <2>1, PlainSound DEF NewSound, BodyPoints
  <2>3. \A s, t : RecordHolds(g, w, 1, s, t) <=> (s = d /\ t = u)
    BY <2>0, <2>1 DEF RecordHolds, RunPoints, BodyPoints, ListPoints
  <2>4. Kind(d) = "ready"
    BY <2>0, PlaceParts
  <2>5. Suits(d, u)'
    BY <1>2, <1>3, <1>8, <2>4, ReadySuits
  <2>6. stack' = [stack EXCEPT ![w] = <<g>>]
    BY <1>1, <1>13, <2>0
  <2> QED BY <1>11, <2>1, <2>2, <2>3, <2>5, <2>6
<1>14. CASE Head(m_jobs).kind # "function" /\ ~Resumable(u)
  <2>1. stack' = [stack EXCEPT ![w] = <<>>]
    BY <1>1, <1>14
  <2>2. stack' = stack
    BY <1>1, <1>2, <2>1 DEF StackOK
  <2>3. NoneAfter(w)
    BY <1>1, <1>2, <2>2, WorkerAfter
  <2>4. \A s, t : Held(s, t)' => Held(s, t)
    BY <1>3, <1>4, <2>3, HeldAfter
  <2> QED BY <1>2, <1>9, <1>10, <2>3, <2>4, QuietTokens DEF Effect, NoneAfter
<1> QED BY <1>12, <1>13, <1>14

\* The worker goes round its loop or ends.
LEMMA IdleEffect ==
  ASSUME TaskInv, TokenInv, NEW w \in Threads, WorkerLoop(w) \/ WorkerExit(w)
  PROVE  Effect(w)
<1>1. stack[w] = <<>> /\ stack' = stack /\ m_jobs' = m_jobs /\ UNCHANGED taskVars /\ StackOK
  BY DEF WorkerLoop, WorkerExit, TaskInv
<1>2. completed' = completed /\ suspendedAt' = suspendedAt /\ continuations' = continuations /\ dependents' = dependents
  BY <1>1 DEF taskVars
<1>3. NoneAfter(w)
  BY <1>1, WorkerAfter
<1>4. \A s, t : Held(s, t)' => Held(s, t)
  BY <1>1, <1>2, <1>3, HeldBefore, HeldAfter, PoolSame
<1>5. RunGoesOn(w)
  BY <1>1 DEF RunGoesOn
<1> QED BY <1>1, <1>2, <1>3, <1>4, <1>5, QuietTokens, SameLists DEF Effect, NoneAfter

-----------------------------------------------------------------------------
(* The release of the dependents.                                          *)

\* While schedule() wires several dependencies, none of them has been started.
LEMMA LoopDeps ==
  ASSUME SoundUse, TaskInv, TokenInv, NEW x \in Threads, NEW j \in 1..Len(stack[x]), NEW f, f = stack[x][j],
         f.at \in LoopPoints, Len(CallOf(f).deps) > 1, NEW v \in Tasks, In(CallOf(f).deps, v)
  PROVE  Fresh(v)
<1>1. /\ f \in GoodFrames /\ f.who \in Owners /\ f.pc \in DOMAIN Program[f.who] /\ CallOf(f).op = "schedule"
      /\ CallOf(f).deps \in Seq(Tasks)
  BY LoopStarts
<1>2. DependentFirst(f.who, f.pc)
  <2>1. Len(Program[f.who][f.pc].deps) <= 1 \/ DependentFirst(f.who, f.pc)
    BY <1>1 DEF SoundUse, CallOf
  <2>2. PICK n : n = Len(CallOf(f).deps) /\ n \in Nat /\ n > 1
    <3>1. Len(CallOf(f).deps) \in Nat BY <1>1
    <3> QED BY <3>1, Zenon
  <2>3. n <= 1 \/ DependentFirst(f.who, f.pc)
    BY <2>1, <2>2, Zenon DEF CallOf
  <2>4. ~(n <= 1)
    BY <2>2
  <2> QED BY <2>3, <2>4
<1>3. PICK k \in DOMAIN Program[f.who] : k > f.pc /\ Starts(f.who, k, v)
  BY <1>2 DEF DependentFirst, CallOf
<1>4. Ahead(f, k)
  BY <1>3 DEF Ahead, LoopPoints, BodyPoints
<1>5. ToCome(f.who, k)
  BY <1>4 DEF ToCome
<1> QED BY <1>1, <1>3, <1>5 DEF TokenInv, FreshInv

\* The places at which a task is registered are no more than its dependencies.
LEMMA FewPlaces ==
  ASSUME SoundUse, TaskInv, TokenInv, NEW t \in Tasks
  PROVE  Cardinality(Places(dependents, t)) < Modulus
<1> DEFINE P == Places(dependents, t)
           D == Deps[t]
           f == [q \in P |-> q[1]]
<1>1. IsFiniteSet(D) /\ Cardinality(D) < Modulus
  BY DEF SoundUse
<1>2. ASSUME NEW q \in P
      PROVE  q[1] \in D /\ q[1] \in Tasks /\ q = <<q[1], q[2]>> /\ q[2] \in 1..Len(dependents[q[1]])
             /\ dependents[q[1]][q[2]] = t
  <2>1. /\ q \in Tasks \X Nat /\ q[2] \in 1..Len(dependents[q[1]]) /\ dependents[q[1]][q[2]] = t
    BY <1>2 DEF Places
  <2>2. q[1] \in Tasks /\ q = <<q[1], q[2]>>
    BY <2>1
  <2>3. In(dependents[q[1]], t)
    BY <2>1 DEF In
  <2> QED BY <2>1, <2>2, <2>3 DEF TokenInv, DependInv
<1>3. ASSUME NEW q \in P, NEW r \in P, q[1] = r[1] PROVE q = r
  <2>1. Once(dependents[q[1]])
    BY <1>2 DEF TokenInv, OnceEach
  <2>2. q[2] = r[2]
    BY <1>2, <1>3, <2>1 DEF Once
  <2> QED BY <1>2, <1>3, <2>2
<1> HIDE DEF P, D
<1>4. f \in [P -> D]
  BY <1>2
<1>5. f \in Injection(P, D)
  BY <1>3, <1>4 DEF Injection, IsInjective
<1> HIDE DEF f
<1>7. IsFiniteSet(P) /\ Cardinality(P) <= Cardinality(D)
  BY <1>1, <1>5, FS_Injection, Zenon
<1>8. Cardinality(P) \in Nat /\ Cardinality(D) \in Nat
  BY <1>1, <1>7, FS_CardinalityType
<1>9. Cardinality(P) < Modulus
  BY <1>1, <1>7, <1>8, ModulusAssumption
<1> QED BY <1>9 DEF P

\* The counter says that the registration that is removed is the last one.
LEMMA LastRelease ==
  ASSUME SoundUse, TaskInv, CountInv, TokenInv, NEW u \in Tasks, completed[u], NEW d \in Tasks,
         In(dependents[u], d), pendingDependencies[d] = 1
  PROVE  DepsMet(d) /\ \A v \in Tasks : In(dependents[v], d) => v = u
<1>1. u \in Deps[d] /\ \A v \in Tasks : In(dependents[v], d) => v \in Deps[d]
  BY DEF TokenInv, DependInv
<1>2. PICK p \in Owners : \E i \in DOMAIN Program[p] : Program[p][i].op = "schedule" /\ Program[p][i].task = d
  BY <1>1 DEF Deps
<1>3. PICK i \in DOMAIN Program[p] : Program[p][i].op = "schedule" /\ Program[p][i].task = d
  BY <1>2
<1>4. Starts(p, i, d)
  BY <1>3 DEF Starts
<1>5. \A e : e \in Deps[d] <=> e \in Tasks /\ In(Program[p][i].deps, e)
  BY <1>3, <1>4, OnlyStart
<1>6. Pending(d)
  <2>1. Held(DependPlace, d)
    BY DEF Held, PoolHolds
  <2>2. Suits(DependPlace, d)
    BY <2>1 DEF TokenInv, Placed
  <2> QED BY <2>2, PlaceParts DEF Suits
<1>7. Program[p][i].deps \in Seq(Tasks)
  <2>1. Program[p] \in Seq(Calls)
    BY ProgramAssumption
  <2>2. Program[p][i] \in Calls
    BY <2>1
  <2> QED BY <2>2 DEF Calls
<1>8. CASE Len(Program[p][i].deps) <= 1
  <2>1. \A e \in Deps[d] : e = u
    <3>1. ASSUME NEW e \in Deps[d] PROVE e = u
      <4>1. PICK a \in 1..Len(Program[p][i].deps) : Program[p][i].deps[a] = e
        BY <1>5, <3>1 DEF In
      <4>2. PICK b \in 1..Len(Program[p][i].deps) : Program[p][i].deps[b] = u
        BY <1>1, <1>5 DEF In
      <4>3. Len(Program[p][i].deps) \in Nat
        BY <1>7
      <4>4. a = b
        BY <1>8, <4>1, <4>2, <4>3
      <4> QED BY <4>1, <4>2, <4>4
    <3> QED BY <3>1
  <2> QED BY <1>1, <2>1 DEF DepsMet
<1>9. CASE Len(Program[p][i].deps) > 1
  <2>1. ASSUME NEW x \in Threads, NEW j \in 1..Len(stack[x]), stack[x][j].at \in LoopPoints,
               CallOf(stack[x][j]).task = d
        PROVE  FALSE
    <3>0. PICK f : f = stack[x][j]
      OBVIOUS
    <3>1. f.who \in Owners /\ f.pc \in DOMAIN Program[f.who] /\ Starts(f.who, f.pc, d)
      BY <2>1, <3>0, LoopStarts
    <3>2. f.who = p /\ f.pc = i
      BY <1>4, <3>1 DEF SoundUse
    <3>3. CallOf(f) = Program[p][i]
      BY <3>2 DEF CallOf
    <3>4. Fresh(u)
      BY <1>1, <1>5, <1>9, <2>1, <3>0, <3>3, LoopDeps
    <3> QED BY <3>4 DEF Fresh
  <2>2. InFlight(d) = {}
    <3> SUFFICES ASSUME NEW x \in InFlight(d) PROVE FALSE
      OBVIOUS
    <3>1. x \in Threads /\ stack[x] # <<>> /\ Top(x).at = "fetch_add" /\ CallOf(Top(x)).task = d
      BY DEF InFlight, At, Call, CallOf
    <3>2. Len(stack[x]) \in 1..Len(stack[x]) /\ stack[x][Len(stack[x])] = Top(x)
      BY <3>1, TopGood DEF TaskInv, Top
    <3> QED BY <2>1, <3>1, <3>2 DEF LoopPoints
  <2>3. \A e : ~ToLookAt(d, e)
    BY <2>1 DEF ToLookAt, LoopsOver
  <2>4. IsFiniteSet(Places(dependents, d)) /\ 1 % Modulus = Cardinality(Places(dependents, d)) % Modulus
    <3>1. Counted(d)
      BY DEF CountInv
    <3>2. Cardinality(InFlight(d)) = 0
      BY <2>2, FS_EmptySet
    <3> QED BY <3>1, <3>2 DEF Counted
  <2>5. \A v \in Tasks : In(dependents[v], d) =>
          \E a \in 1..Len(dependents[v]) : <<v, a>> \in Places(dependents, d)
    <3> SUFFICES ASSUME NEW v \in Tasks, In(dependents[v], d)
                 PROVE  \E a \in 1..Len(dependents[v]) : <<v, a>> \in Places(dependents, d)
      OBVIOUS
    <3>1. PICK a \in 1..Len(dependents[v]) : dependents[v][a] = d
      BY DEF In
    <3>2. <<v, a>> \in Tasks \X Nat /\ <<v, a>>[1] = v /\ <<v, a>>[2] = a
      OBVIOUS
    <3> QED BY <3>1, <3>2 DEF Places
  <2>6. Cardinality(Places(dependents, d)) = 1
    <3> DEFINE n == Cardinality(Places(dependents, d))
    <3>1. n \in Nat /\ n < Modulus
      BY <2>4, FewPlaces, FS_CardinalityType
    <3>2. Places(dependents, d) # {}
      BY <2>5
    <3>3. n # 0
      BY <2>4, <3>2, FS_EmptySet
    <3>4. 1 % Modulus = n % Modulus
      BY <2>4
    <3> HIDE DEF n
    <3>5. n \in 0..(Modulus - 1) /\ 1 \in 0..(Modulus - 1)
      BY <3>1, <3>3, ModulusAssumption
    <3>6. (Modulus * 0 + n) % Modulus = n /\ (Modulus * 0 + 1) % Modulus = 1
      BY <3>5, Remainder
    <3>7. Modulus * 0 + n = n /\ Modulus * 0 + 1 = 1
      BY <3>1, ModulusAssumption
    <3>8. n = 1
      BY <3>4, <3>6, <3>7
    <3> QED BY <3>8 DEF n
  <2>7. PICK q : Places(dependents, d) = {q}
    BY <2>4, <2>6, FS_Singleton
  <2>8. \A v \in Tasks : In(dependents[v], d) => v = u
    <3> SUFFICES ASSUME NEW v \in Tasks, In(dependents[v], d) PROVE v = u
      OBVIOUS
    <3>1. PICK a : <<v, a>> = q
      BY <2>5, <2>7
    <3>2. PICK b : <<u, b>> = q
      BY <2>5, <2>7
    <3> QED BY <3>1, <3>2
  <2>9. DepsMet(d)
    <3> SUFFICES ASSUME NEW e \in Deps[d] PROVE completed[e]
      BY DEF DepsMet
    <3>1. e \in Tasks
      BY <1>5
    <3> QED BY <1>6, <2>3, <2>8, <3>1 DEF Pending
  <2> QED BY <2>8, <2>9
<1>10. Len(Program[p][i].deps) \in Nat
  BY <1>7
<1> QED BY <1>8, <1>9, <1>10

\* One dependent: it is ready, or it waits for others.
LEMMA ReleaseEffect ==
  ASSUME SoundUse, TaskInv, CountInv, TokenInv, NEW th \in Threads, Release(th)
  PROVE  Effect(th)
<1>0. PICK m, f, u, d, l, g :
        /\ m = Len(stack[th]) /\ f = Top(th) /\ u = Top(th).who /\ d = Head(dependents[u])
        /\ l = IF LastOne(pendingDependencies[d]) THEN Append(f.list, d) ELSE f.list
        /\ g = [f EXCEPT !.list = l]
  BY Zenon
<1>1. stack[th] # <<>> /\ f.at = "on_task_finished" /\ StackOK /\ TasksOK /\ OnceEach /\ f.at \in ListPoints
  BY <1>0 DEF Release, At, TaskInv, TokenInv, ListPoints
<1>2. u \in Tasks
  BY <1>0, <1>1, LibraryTask, PointNames
<1>3. /\ suspendedAt' = suspendedAt /\ completed' = completed /\ continuations' = continuations /\ m_jobs' = m_jobs
      /\ dependents[u] # <<>> /\ dependents' = [dependents EXCEPT ![u] = Tail(@)]
  BY <1>0 DEF Release, poolVars
<1>4. Goto(th, <<g>>)
  BY <1>0 DEF Release
<1>5. /\ d \in Tasks /\ In(dependents[u], d) /\ PoolHolds(DependPlace, d)
      /\ \A s, t : PoolHolds(s, t)' => PoolHolds(s, t)
      /\ \A v \in Tasks : \A t : In(dependents'[v], t) <=> (In(dependents[v], t) /\ ~(v = u /\ t = d))
      /\ OnceEach'
  BY <1>0, <1>1, <1>2, <1>3, PoolRelease, ZenonT(60)
<1>6. f \in GoodFrames /\ f.list \in Seq(Tasks) /\ completed[u] /\ Once(f.list) /\ m \in Nat \ {0}
      /\ Fits(f.at, f.who, f.pc, f.list)
  <2>1. RecordSound(f) /\ f \in GoodFrames /\ f.list \in Seq(Tasks) /\ m \in Nat \ {0} /\ Fits(f.at, f.who, f.pc, f.list)
    BY <1>0, <1>1, TopFacts
  <2>2. f.at \in CompletionPoints \ {"on_completed"}
    BY <1>1 DEF CompletionPoints
  <2> QED BY <1>0, <1>1, <2>1, <2>2 DEF RecordSound
<1>7. \A s, t : Held(s, t) <=> (PoolHolds(s, t) \/ Rest(th, s, t) \/ RecordHolds(f, th, m, s, t))
  BY <1>0, <1>1, HeldBefore
<1>8. \A s, t : RecordHolds(f, th, m, s, t) <=> (s = ListPlace(th, m) /\ In(f.list, t))
  BY <1>1, HoldList, Zenon
<1>9. Held(DependPlace, d)
  BY <1>5, <1>7
<1>10. \A s : ~Rest(th, s, d) /\ (Held(s, d) => s = DependPlace)
  BY <1>0, <1>1, <1>9, PlaceParts, Alone DEF TokenInv
<1>11. ~In(f.list, d)
  <2>1. DependPlace # ListPlace(th, m)
    BY PlaceParts
  <2> QED BY <1>7, <1>8, <1>10, <2>1
<1>12. l \in Seq(Tasks) /\ Once(l)
  <2>1. CASE l = f.list
    BY <1>6, <2>1
  <2>2. CASE l = Append(f.list, d)
    BY <1>5, <1>6, <1>11, <2>2, AppendOnce
  <2> QED BY <1>0, <2>1, <2>2
<1>13. g \in GoodFrames /\ g.at = "on_task_finished" /\ g.who = u /\ g.list = l
  <2>1. Fits(f.at, f.who, f.pc, l)
    BY <1>1, <1>6 DEF Fits
  <2>2. g \in Moved(f, f.at, l)
    BY <1>0, <1>6, <1>12, <2>1, RelistGood
  <2> QED BY <1>0, <1>1, <2>2 DEF Moved
<1>14. OneAfter(th, m, g)
  BY <1>0, <1>1, <1>4, <1>13, GotoAfter
<1>15. \A s, t : Held(s, t)' <=> (PoolHolds(s, t)' \/ Rest(th, s, t) \/ RecordHolds(g, th, m, s, t))
  BY <1>14, HeldAfter
<1>16. \A s, t : RecordHolds(g, th, m, s, t) <=> (s = ListPlace(th, m) /\ In(l, t))
  BY <1>13 DEF RecordHolds, RunPoints, BodyPoints, ListPoints
<1>17. RunGoesOn(th)
  BY <1>0, <1>1 DEF RunGoesOn, RunPoints, BodyPoints
<1>18. NewSound(th, g)
  BY <1>3, <1>6, <1>12, <1>13 DEF NewSound, RecordSound, BodyPoints, LoopPoints
<1>19. \A x \in Threads : \A j \in 1..Len(stack'[x]) :
         RestRecord(th, x, j) \/ \E r : r = stack'[x][j] /\ NewSound(th, r)
  BY <1>14, <1>18 DEF OneAfter
<1>20. DependInv' /\ JobInv'
  <2>1. DependInv'
    BY <1>5 DEF TokenInv, DependInv
  <2>2. JobInv'
    BY <1>3 DEF TokenInv, JobInv
  <2> QED BY <2>1, <2>2
<1>21. CASE ~LastOne(pendingDependencies[d])
  <2>1. l = f.list
    BY <1>0, <1>21
  <2>2. \A s, t : Held(s, t)' => Held(s, t)
    BY <1>5, <1>7, <1>8, <1>15, <1>16, <2>1
  <2> QED BY <1>3, <1>5, <1>14, <1>17, <1>19, <1>20, <2>2, QuietTokens DEF Effect, OneAfter
<1>22. CASE LastOne(pendingDependencies[d])
  <2>1. l = Append(f.list, d) /\ pendingDependencies[d] = 1
    BY <1>0, <1>22 DEF LastOne
  <2>2. \A t : In(l, t) <=> In(f.list, t) \/ t = d
    BY <1>5, <1>6, <2>1, AppendIn
  <2>3. DepsMet(d) /\ \A v \in Tasks : In(dependents[v], d) => v = u
    BY <1>2, <1>5, <1>6, <2>1, LastRelease
  <2>4. ~completed[d] /\ suspendedAt[d] = 0
    <3>1. Suits(DependPlace, d)
      BY <1>5, <1>9 DEF TokenInv, Placed
    <3> QED BY <3>1, PlaceParts DEF Suits
  <2>5. MayGoOn(d)
    BY <2>3, <2>4 DEF MayGoOn
  <2>6. \A s : ~PoolHolds(s, d)'
    <3> SUFFICES ASSUME NEW s, PoolHolds(s, d)' PROVE FALSE
      OBVIOUS
    <3>1. s = DependPlace
      BY <1>5, <1>7, <1>10
    <3>2. DependPlace # JobPlace /\ \A v : DependPlace # AwaitPlace(v)
      BY PlaceParts
    <3>3. PoolHolds(s, d)' <=> \/ s = JobPlace /\ \E i \in 1..Len(m_jobs') : m_jobs'[i].task = d
                               \/ \E v \in Tasks : s = AwaitPlace(v) /\ In(continuations'[v], d)
                               \/ s = DependPlace /\ \E v \in Tasks : In(dependents'[v], d)
      BY DEF PoolHolds
    <3>4. \E v \in Tasks : In(dependents'[v], d)
      BY <3>1, <3>2, <3>3
    <3> QED BY <1>5, <2>3, <3>4
  <2>7. PICK p : p = ListPlace(th, m)
    OBVIOUS
  <2>8. Suits(p, d)'
    <3>1. Kind(p) = "ready"
      BY <2>7, PlaceParts
    <3> QED BY <1>3, <1>5, <2>4, <2>5, <3>1, ReadySuits
  <2>9. \A s : Held(s, d)' => s = p
    BY <1>10, <1>15, <1>16, <2>6, <2>7
  <2>10. \A s, t : t # d /\ Held(s, t)' => Held(s, t)
    BY <1>5, <1>7, <1>8, <1>15, <1>16, <2>2
  <2>11. \A t : Token(th, t)
    BY <1>3, <1>9, <2>8, <2>9, <2>10, MoveTokens
  <2> QED BY <1>5, <1>14, <1>17, <1>19, <1>20, <2>11 DEF Effect, OneAfter
<1> QED BY <1>21, <1>22

-----------------------------------------------------------------------------
(* Every step.                                                             *)

\* A call of a module that is built on this one: here it is only left.
Passes(th) ==
  /\ \E op : op \notin {"await", "get", "wait"} /\ AtCall(th, op)
  /\ Goto(th, <<Step(th)>>)
  /\ UNCHANGED <<taskVars, m_jobs>>

Moves(th) == ThreadStep(th) \/ Passes(th)

\* What every step does to the tasks and to the records.
LEMMA StepEffect ==
  ASSUME SoundUse, TaskInv, CountInv, TokenInv, NEW th \in Threads, Moves(th)
  PROVE  Effect(th)
<1>1. CASE ApiStep(th)
  <2>1. CASE run(th) \/ stop(th) \/ join(th) \/ wait(th) \/ GetReturn(th)
    BY <2>1, QuietCalls
  <2>2. CASE run_async(th)
    BY <2>2, RunAsyncEffect
  <2>3. CASE schedule(th)
    BY <2>3, ScheduleEffect
  <2>4. CASE Register(th)
    BY <2>4, RegisterEffect
  <2>5. CASE FetchAdd(th)
    BY <2>5, FetchAddEffect
  <2>6. CASE ScheduleEnd(th)
    BY <2>6, ScheduleEndEffect
  <2>7. CASE await(th)
    BY <2>7, AwaitEffect
  <2>8. CASE add_continuation(th)
    BY <2>8, AddEffect
  <2>9. CASE await_suspend(th)
    BY <2>9, ProduceEffect
  <2>10. CASE resume(th)
    BY <2>10, ResumeEffect
  <2>11. CASE get(th)
    BY <2>11, GetEffect
  <2> QED BY <1>1, <2>1, <2>2, <2>3, <2>4, <2>5, <2>6, <2>7, <2>8, <2>9, <2>10, <2>11 DEF ApiStep
<1>2. CASE CompletionStep(th)
  <2>1. CASE Throw(th)
    BY <2>1, QuietCalls
  <2>2. CASE BodyEnd(th)
    BY <2>2, BodyEndEffect
  <2>3. CASE on_completed(th)
    BY <2>3, CompleteEffect
  <2>4. CASE resume_continuations(th)
    BY <2>4, SwapEffect
  <2>5. CASE Continue(th)
    BY <2>5, ContinueEffect
  <2>6. CASE ContinueEnd(th) \/ ReleaseEnd(th)
    BY <2>6, ListMoveEffect
  <2>7. CASE Release(th)
    BY <2>7, ReleaseEffect
  <2>8. CASE Ready(th)
    BY <2>8, ReadyEffect
  <2> QED BY <1>2, <2>1, <2>2, <2>3, <2>4, <2>5, <2>6, <2>7, <2>8 DEF CompletionStep
<1>3. CASE WorkerStep(th)
  BY <1>3, TakeEffect, IdleEffect DEF WorkerStep
<1>4. CASE Passes(th)
  <2>1. PICK op : op \notin {"await", "get", "wait"} /\ AtCall(th, op)
    BY <1>4 DEF Passes
  <2>2. stack[th] # <<>> /\ Top(th).at = "call" /\ CallOf(Top(th)).op = op
    BY <2>1 DEF AtCall, At, Call, CallOf
  <2>3. Leaves(th) /\ Top(th).at \in BodyPoints
    BY <2>1, <2>2 DEF Leaves, BodyPoints
  <2>4. Goto(th, <<Step(th)>>) /\ m_jobs' = m_jobs /\ UNCHANGED taskVars
    BY <1>4 DEF Passes
  <2> QED BY <2>2, <2>3, <2>4, LeaveEffect
<1> QED BY <1>1, <1>2, <1>3, <1>4 DEF Moves, ThreadStep

\* Only the end of a body makes a frame done, and only co_await suspends one.
LEMMA FrameSteps ==
  ASSUME NEW th \in Threads, Moves(th)
  PROVE  /\ BodyEnd(th) \/ done' = done
         /\ await(th) \/ suspendedAt' = suspendedAt
         /\ on_completed(th) \/ completed' = completed
         /\ Register(th) \/ Release(th) \/ dependents' = dependents
<1>1. CASE ApiStep(th)
  BY <1>1 DEF ApiStep, taskVars, run, stop, join, run_async, schedule, Register, FetchAdd,
              ScheduleEnd, await, add_continuation, await_suspend, resume, get, GetReturn, wait
<1>2. CASE CompletionStep(th)
  BY <1>2 DEF CompletionStep, taskVars, Throw, BodyEnd, on_completed, resume_continuations, Continue,
              ContinueEnd, Release, ReleaseEnd, Ready
<1>3. CASE WorkerStep(th)
  BY <1>3 DEF WorkerStep, WorkerLoop, WorkerTake, WorkerExit, taskVars
<1>4. CASE Passes(th)
  BY <1>4 DEF Passes, taskVars
<1> QED BY <1>1, <1>2, <1>3, <1>4 DEF Moves, ThreadStep

\* The step that a thread takes at these points.
LEMMA PointSteps ==
  ASSUME NEW th \in Threads, Moves(th), stack[th] # <<>>
  PROVE  /\ Top(th).at = "on_completed" => on_completed(th)
         /\ Top(th).at \in LoopPoints => Register(th) \/ FetchAdd(th) \/ ScheduleEnd(th)
<1> USE DEF LoopPoints
<1>1. CASE ApiStep(th)
  BY <1>1 DEF ApiStep, AtCall, At, run, stop, join, run_async, schedule, await, add_continuation,
              await_suspend, resume, get, GetReturn, wait, Register, FetchAdd, ScheduleEnd
<1>2. CASE CompletionStep(th)
  BY <1>2 DEF CompletionStep, At, Throw, BodyEnd, on_completed, resume_continuations, Continue,
              ContinueEnd, Release, ReleaseEnd, Ready
<1>3. CASE WorkerStep(th)
  BY <1>3 DEF WorkerStep, WorkerLoop, WorkerTake, WorkerExit
<1>4. CASE Passes(th)
  BY <1>4 DEF Passes, AtCall, At
<1> QED BY <1>1, <1>2, <1>3, <1>4 DEF Moves, ThreadStep

\* What becomes of one task.
LEMMA TaskSteps ==
  ASSUME TaskInv, NEW th \in Threads, Moves(th), NEW t \in Tasks
  PROVE  /\ completed[t] => completed'[t]
         /\ completed'[t] # completed[t] => stack[th] # <<>> /\ Top(th).who = t /\ Top(th).at = "on_completed"
         /\ suspendedAt'[t] # suspendedAt[t] => stack[th] # <<>> /\ Top(th).who = t /\ Top(th).at = "call"
         /\ done'[t] # done[t] =>
              /\ stack[th] # <<>> /\ Top(th).who = t /\ Top(th).at = "call"
              /\ \E j \in 1..Len(stack'[th]) : stack'[th][j].who = t /\ stack'[th][j].at = "on_completed"
         /\ stack[th] # <<>> /\ Top(th).at = "on_completed" /\ Top(th).who = t => completed'[t]
<1>1. TasksOK /\ StackOK
  BY DEF TaskInv
<1>2. ASSUME on_completed(th)
      PROVE  /\ stack[th] # <<>> /\ Top(th).at = "on_completed"
             /\ completed'[t] = (completed[t] \/ t = Top(th).who)
  <2>1. completed' = [completed EXCEPT ![Top(th).who] = TRUE]
    BY <1>2 DEF on_completed
  <2>2. completed \in [Tasks -> BOOLEAN]
    BY <1>1 DEF TasksOK
  <2>3. completed'[t] = IF t = Top(th).who THEN TRUE ELSE completed[t]
    BY <2>1, <2>2
  <2>4. completed[t] \in BOOLEAN
    BY <2>2
  <2> QED BY <1>2, <2>3, <2>4 DEF on_completed, At
<1>3. completed[t] => completed'[t]
  BY <1>2, FrameSteps
<1>4. completed'[t] # completed[t] => stack[th] # <<>> /\ Top(th).who = t /\ Top(th).at = "on_completed"
  <2>1. completed[t] \in BOOLEAN
    BY <1>1 DEF TasksOK
  <2> QED BY <1>2, <2>1, FrameSteps
<1>5. ASSUME suspendedAt'[t] # suspendedAt[t] PROVE stack[th] # <<>> /\ Top(th).who = t /\ Top(th).at = "call"
  <2>1. await(th)
    BY <1>5, FrameSteps
  <2>2. suspendedAt' = suspendedAt \/ suspendedAt' = [suspendedAt EXCEPT ![Top(th).who] = Top(th).pc]
    BY <2>1 DEF await
  <2>3. Top(th).who = t
    BY <1>1, <1>5, <2>2 DEF TasksOK
  <2> QED BY <2>1, <2>3 DEF await, AtCall, At
<1>6. ASSUME done'[t] # done[t]
      PROVE  /\ stack[th] # <<>> /\ Top(th).who = t /\ Top(th).at = "call"
             /\ \E j \in 1..Len(stack'[th]) : stack'[th][j].who = t /\ stack'[th][j].at = "on_completed"
  <2>1. BodyEnd(th)
    BY <1>6, FrameSteps
  <2>2. stack[th] # <<>> /\ Top(th).at = "call"
    BY <2>1 DEF BodyEnd, At
  <2>3. PICK p : p = Top(th).who
    OBVIOUS
  <2>4. /\ p \in Tasks => done' = [done EXCEPT ![p] = p \in Coroutines] /\ Goto(th, <<Frame("on_completed", p, 0, <<>>)>>)
        /\ p \notin Tasks => done' = done
    BY <2>1, <2>3 DEF BodyEnd
  <2>5. p = t
    BY <1>1, <1>6, <2>4 DEF TasksOK
  <2>6. PICK g : g = Frame("on_completed", t, 0, <<>>)
    OBVIOUS
  <2>7. g \in GoodFrames /\ g.at = "on_completed" /\ g.who = t
    BY <2>6, LibraryGood DEF Frame
  <2>8. OneAfter(th, Len(stack[th]), g)
    BY <1>1, <2>2, <2>4, <2>5, <2>6, <2>7, GotoAfter
  <2> QED BY <2>2, <2>3, <2>5, <2>7, <2>8 DEF OneAfter
<1>7. stack[th] # <<>> /\ Top(th).at = "on_completed" /\ Top(th).who = t => completed'[t]
  BY <1>2, PointSteps
<1> QED BY <1>3, <1>4, <1>5, <1>6, <1>7

\* No dependency is forgotten.
LEMMA PendingStep ==
  ASSUME SoundUse, TaskInv, CountInv, TokenInv, NEW th \in Threads, Moves(th), NEW t \in Tasks, Pending(t)
  PROVE  Pending(t)'
<1>1. Kept(th)
  BY StepEffect DEF Effect
<1>2. \A d \in Tasks : completed[d] => completed'[d]
  BY TaskSteps
<1>3. CASE Register(th)
  BY <1>3, RegisterPending
<1>4. CASE ~Register(th)
  <2>1. ASSUME NEW d \in Tasks, In(dependents[d], t) PROVE In(dependents'[d], t) \/ completed'[d]
    <3>1. CASE dependents' = dependents
      BY <2>1, <3>1
    <3>2. CASE Release(th)
      <4>0. PICK u : u = Top(th).who
        OBVIOUS
      <4>1. stack[th] # <<>> /\ Top(th).at = "on_task_finished" /\ StackOK /\ TasksOK /\ OnceEach
        BY <3>2 DEF Release, At, TaskInv, TokenInv
      <4>2. u \in Tasks
        BY <4>0, <4>1, LibraryTask, PointNames
      <4>3. dependents[u] # <<>> /\ dependents' = [dependents EXCEPT ![u] = Tail(@)]
            /\ m_jobs' = m_jobs /\ continuations' = continuations
        BY <3>2, <4>0 DEF Release, poolVars
      <4>4. \A v \in Tasks : \A e : In(dependents'[v], e) <=>
              (In(dependents[v], e) /\ ~(v = u /\ e = Head(dependents[u])))
        BY <4>1, <4>2, <4>3, PoolRelease
      <4>5. completed[u]
        BY <4>0, <4>1, TopFacts DEF RecordSound, CompletionPoints
      <4> QED BY <1>2, <2>1, <4>2, <4>4, <4>5
    <3> QED BY <1>4, <3>1, <3>2, FrameSteps
  <2>2. ASSUME NEW d \in Tasks, stack[th] # <<>>, LoopsOver(Top(th), t, d)
        PROVE  completed'[d] \/ In(dependents'[d], t) \/ ToLookAt(t, d)'
    <3>1. Top(th).at \in LoopPoints /\ In(Top(th).list, d)
      BY <2>2 DEF LoopsOver
    <3>2. ~ScheduleEnd(th)
      BY <3>1, SmallLists DEF ScheduleEnd
    <3>3. FetchAdd(th)
      BY <1>4, <2>2, <3>1, <3>2, PointSteps
    <3>4. PICK m, f, g : m = Len(stack[th]) /\ f = Top(th) /\ g = [f EXCEPT !.at = "register", !.n = @ + 1]
      BY Zenon
    <3>5. f \in GoodFrames /\ f.n + 1 \in Nat /\ f.pc \in DOMAIN Program[f.who] /\ Program[f.who][f.pc].op = "schedule"
      <4>1. f \in GoodFrames /\ f.n \in Nat /\ CallOf(f).op = "schedule" /\ f.pc \in DOMAIN Program[f.who]
        BY <2>2, <3>1, <3>4, LoopFacts
      <4> QED BY <4>1 DEF CallOf
    <3>6. g \in Moved(f, "register", f.list)
      <4>1. Fits("register", f.who, f.pc, f.list)
        BY <3>5, PointNames DEF Fits
      <4> QED BY <3>4, <3>5, <4>1, CountGood
    <3>7. g \in GoodFrames /\ g.at = "register" /\ g.who = f.who /\ g.pc = f.pc /\ g.list = f.list
      BY <3>6 DEF Moved
    <3>8. OneAfter(th, m, g)
      BY <2>2, <3>3, <3>4, <3>7, GotoAfter DEF TaskInv, FetchAdd
    <3>9. LoopsOver(g, t, d)
      BY <2>2, <3>4, <3>7 DEF LoopsOver, CallOf, LoopPoints
    <3>10. m \in 1..Len(stack'[th]) /\ LoopsOver(stack'[th][m], t, d)
      BY <3>8, <3>9 DEF OneAfter
    <3> QED BY <3>10 DEF ToLookAt
  <2> QED BY <1>1, <1>2, <2>1, <2>2, PendingBy
<1> QED BY <1>3, <1>4

-----------------------------------------------------------------------------
(* The invariant is kept.                                                  *)

\* Nothing is in two places, and every place suits what it holds.
LEMMA PlacesStep ==
  ASSUME SoundUse, TaskInv, CountInv, TokenInv, NEW th \in Threads, Moves(th)
  PROVE  OnePlace' /\ Placed'
<1>1. \A t : Token(th, t)
  BY StepEffect DEF Effect
<1>2. ASSUME NEW r, NEW s, NEW t, Held(r, t)', Held(s, t)' PROVE r = s
  <2>1. Token(th, t)
    BY <1>1
  <2>2. CASE \A p : Held(p, t)' => Held(p, t)
    BY <1>2, <2>2 DEF TokenInv, OnePlace
  <2>3. CASE \E d : \A p : Held(p, t)' => p = d
    BY <1>2, <2>3
  <2> QED BY <2>1, <2>2, <2>3 DEF Token
<1>3. ASSUME NEW s, NEW t \in Tasks, Held(s, t)' PROVE Suits(s, t)'
  <2>1. Token(th, t)
    BY <1>1
  <2>2. CASE \A p : Held(p, t)' => Held(p, t) /\ completed'[t] = completed[t] /\ suspendedAt'[t] = suspendedAt[t]
    <3>1. Suits(s, t) /\ completed'[t] = completed[t] /\ suspendedAt'[t] = suspendedAt[t]
      BY <1>3, <2>2 DEF TokenInv, Placed
    <3>2. \A d \in Tasks : completed[d] => completed'[d]
      BY TaskSteps
    <3>3. DepsMet(t) => DepsMet(t)'
      BY <3>2 DEF DepsMet, Deps
    <3>4. \A u : Awaits(t, u) => Awaits(t, u)'
      BY <3>1 DEF Awaits
    <3>5. Pending(t) => Pending(t)'
      BY PendingStep
    <3>6. MayGoOn(t) => MayGoOn(t)'
      BY <3>1, <3>2, <3>3, <3>4 DEF MayGoOn
    <3> QED BY <3>1, <3>3, <3>4, <3>5, <3>6 DEF Suits
  <2>3. CASE \E d : (\A p : Held(p, t)' => p = d) /\ Suits(d, t)'
    BY <1>3, <2>3
  <2> QED BY <1>3, <2>1, <2>2, <2>3 DEF Token
<1>4. OnePlace'
  BY <1>2 DEF OnePlace
<1>5. Placed'
  BY <1>3 DEF Placed
<1> QED BY <1>4, <1>5

\* The loop of another schedule() is not disturbed.
LEMMA LoopStays ==
  ASSUME SoundUse, TaskInv, TokenInv, NEW th \in Threads, Moves(th), NEW x, NEW j, RestRecord(th, x, j),
         NEW f, f = stack[x][j], f.at \in LoopPoints, LoopSound(f)
  PROVE  LoopSound(f)'
<1>0. PICK a : a = CallOf(f).task
  OBVIOUS
<1>1. x \in Threads /\ j \in 1..Len(stack[x])
  BY DEF RestRecord
<1>2. /\ f \in GoodFrames /\ f.who \in Owners /\ f.pc \in DOMAIN Program[f.who] /\ a \in Tasks
      /\ Starts(f.who, f.pc, a) /\ CallOf(f).op = "schedule" /\ CallOf(f).deps \in Seq(Tasks)
  BY <1>0, <1>1, LoopStarts
<1>3. ASSUME \A d \in Tasks : In(dependents'[d], a) <=> In(dependents[d], a) PROVE LoopSound(f)'
  BY <1>0, <1>3 DEF LoopSound
<1>4. CASE dependents' = dependents
  BY <1>3, <1>4
<1>5. CASE Register(th)
  <2>0. PICK m, h, u, d : m = Len(stack[th]) /\ h = Top(th) /\ u = Call(th).task /\ d = Head(h.list)
    BY Zenon
  <2>1. /\ stack[th] # <<>> /\ h.at = "register" /\ d \in Tasks /\ m_jobs' = m_jobs
        /\ continuations' = continuations
        /\ dependents' = dependents \/ dependents' = [dependents EXCEPT ![d] = Append(@, u)]
    BY <1>5, <2>0, RegisterTurn
  <2>2. u \in Tasks /\ CallOf(h).task = u /\ h.at \in LoopPoints
    BY <2>0, <2>1, LoopFacts DEF LoopPoints
  <2>3. m \in 1..Len(stack[th]) /\ stack[th][m] = h
    <3>1. m \in Nat \ {0} BY <2>0, <2>1, TopFacts, SMTT(30)
    <3>2. m \in 1..m BY <3>1
    <3>3. stack[th][m] = h BY <2>0, Zenon DEF Top
    <3> QED BY <2>0, <3>2, <3>3, Zenon
  <2>4. u # a
    <3>1. ASSUME u = a PROVE FALSE
      <4>1. x = th /\ j = m
        BY <1>0, <1>1, <2>2, <2>3, <3>1, SoleLoop DEF TokenInv
      <4> QED BY <2>0, <4>1 DEF RestRecord
    <3> QED BY <3>1
  <2>5. CASE dependents' = [dependents EXCEPT ![d] = Append(@, u)]
    <3>1. TasksOK BY DEF TaskInv
    <3>2. \A v \in Tasks : \A t : In(dependents'[v], t) <=> (In(dependents[v], t) \/ (v = d /\ t = u))
      <4>1. d \in Tasks /\ u \in Tasks /\ m_jobs' = m_jobs /\ continuations' = continuations
        BY <2>1, <2>2
      <4> QED BY <2>5, <3>1, <4>1, PoolDepend
    <3> QED BY <1>3, <2>4, <3>2
  <2> QED BY <1>4, <2>1, <2>5
<1>6. CASE Release(th)
  <2>0. PICK u, d : u = Top(th).who /\ d = Head(dependents[u])
    BY Zenon
  <2>1. stack[th] # <<>> /\ Top(th).at = "on_task_finished" /\ StackOK /\ TasksOK /\ OnceEach
    BY <1>6 DEF Release, At, TaskInv, TokenInv
  <2>2. u \in Tasks
    BY <2>0, <2>1, LibraryTask, PointNames
  <2>3. dependents[u] # <<>> /\ dependents' = [dependents EXCEPT ![u] = Tail(@)]
        /\ m_jobs' = m_jobs /\ continuations' = continuations
    BY <1>6, <2>0 DEF Release, poolVars
  <2>4. d \in Tasks /\ In(dependents[u], d)
        /\ \A v \in Tasks : \A e : In(dependents'[v], e) <=> (In(dependents[v], e) /\ ~(v = u /\ e = d))
    BY <2>0, <2>1, <2>2, <2>3, PoolRelease
  <2>5. completed[u]
    BY <2>0, <2>1, TopFacts DEF RecordSound, CompletionPoints
  <2>6. CASE d # a
    BY <1>3, <2>4, <2>6
  <2>7. CASE d = a
    <3>1. In(CallOf(f).deps, u)
      <4>1. u \in Deps[a]
        BY <1>2, <2>2, <2>4, <2>7 DEF TokenInv, DependInv
      <4>2. \A e : e \in Deps[a] <=> e \in Tasks /\ In(Program[f.who][f.pc].deps, e)
        <5>1. Program[f.who][f.pc].op = "schedule"
          BY <1>2 DEF CallOf
        <5> QED BY <1>2, <5>1, OnlyStart
      <4> QED BY <4>1, <4>2 DEF CallOf
    <3>2. ~(Len(CallOf(f).deps) > 1)
      <4>1. ASSUME Len(CallOf(f).deps) > 1 PROVE FALSE
        <5>1. Fresh(u)
          BY <1>1, <2>2, <3>1, <4>1, LoopDeps
        <5> QED BY <2>5, <5>1 DEF Fresh
      <4> QED BY <4>1
    <3> QED BY <1>0, <2>4, <3>2 DEF LoopSound
  <2> QED BY <2>6, <2>7
<1> QED BY <1>4, <1>5, <1>6, FrameSteps

\* The records.
LEMMA RecordsSoundStep ==
  ASSUME SoundUse, TaskInv, CountInv, TokenInv, NEW th \in Threads, Moves(th)
  PROVE  RecordsSound'
<1> SUFFICES ASSUME NEW x \in Threads, NEW j \in 1..Len(stack'[x]) PROVE RecordSound(stack[x][j])'
  BY DEF RecordsSound
<1>1. Kept(th) /\ (RestRecord(th, x, j) \/ \E g : g = stack'[x][j] /\ NewSound(th, g))
  BY StepEffect DEF Effect
<1>2. PICK g : g = stack'[x][j]
  OBVIOUS
<1>3. CASE NewSound(th, g)
  <2>1. RecordSound(g)'
    BY <1>3 DEF NewSound
  <2> QED BY <1>2, <2>1 DEF RecordSound, LoopSound
<1>4. CASE RestRecord(th, x, j)
  <2>1. g = stack[x][j] /\ j \in 1..Len(stack[x])
    BY <1>1, <1>2, <1>4 DEF Kept, RestRecord
  <2>2. RecordSound(g) /\ g \in GoodFrames
    BY <2>1 DEF TokenInv, RecordsSound, TaskInv, StackOK
  <2>3. g.at \in CompletionPoints => g.who \in Tasks
    <3>1. g.at \in CompletionPoints => g.at \in LibraryPoints
      BY DEF CompletionPoints, LibraryPoints, Points, BodyPoints
    <3> QED BY <2>2, <3>1, FrameFields DEF Fits
  <2>4. \A t \in Tasks : completed[t] => completed'[t]
    BY TaskSteps
  <2>5. g.at \in LoopPoints => LoopSound(g)'
    <3>1. g.at \in LoopPoints => LoopSound(g)
      BY <2>2 DEF RecordSound
    <3> QED BY <1>4, <2>1, <3>1, LoopStays
  <2>6. RecordSound(g)'
    BY <2>2, <2>3, <2>4, <2>5 DEF RecordSound
  <2> QED BY <1>2, <2>6 DEF RecordSound, LoopSound
<1> QED BY <1>1, <1>2, <1>3, <1>4

\* Done frames and tasks that have begun.
LEMMA BegunStep ==
  ASSUME SoundUse, TaskInv, CountInv, TokenInv, NEW th \in Threads, Moves(th)
  PROVE  DoneInv' /\ BegunInv'
<1>1. ASSUME NEW t \in Tasks, done'[t], ~completed'[t]
      PROVE  \E x \in Threads : \E j \in 1..Len(stack'[x]) :
               stack'[x][j].who = t /\ stack'[x][j].at = "on_completed"
  <2>1. CASE done'[t] # done[t]
    BY <2>1, TaskSteps
  <2>2. CASE done'[t] = done[t]
    <3>1. done[t] /\ ~completed[t]
      BY <1>1, <2>2, TaskSteps
    <3>2. PICK x \in Threads : \E j \in 1..Len(stack[x]) : stack[x][j].who = t /\ stack[x][j].at = "on_completed"
      BY <3>1 DEF TokenInv, DoneInv
    <3>3. PICK j \in 1..Len(stack[x]) : stack[x][j].who = t /\ stack[x][j].at = "on_completed"
      BY <3>2
    <3>4. RestRecord(th, x, j)
      <4>1. ASSUME ~RestRecord(th, x, j) PROVE FALSE
        <5>1. x = th /\ j = Len(stack[th]) /\ stack[th] # <<>>
          BY <4>1, TopGood DEF RestRecord, TaskInv
        <5>2. Top(th).who = t /\ Top(th).at = "on_completed"
          BY <3>3, <5>1 DEF Top
        <5> QED BY <1>1, <5>1, <5>2, TaskSteps
      <4> QED BY <4>1
    <3>5. j \in 1..Len(stack'[x]) /\ stack'[x][j] = stack[x][j]
      BY <3>4, StepEffect DEF Effect, Kept
    <3> QED BY <3>3, <3>5
  <2> QED BY <2>1, <2>2
<1>2. ASSUME NEW t \in Tasks, completed'[t] \/ suspendedAt'[t] # 0 PROVE DepsMet(t)'
  <2>1. DepsMet(t)
    <3>1. CASE completed[t] \/ suspendedAt[t] # 0
      BY <3>1 DEF TokenInv, BegunInv
    <3>2. CASE ~completed[t] /\ suspendedAt[t] = 0
      <4>1. completed'[t] # completed[t] \/ suspendedAt'[t] # suspendedAt[t]
        BY <1>2, <3>2
      <4>2. stack[th] # <<>> /\ Top(th).who = t /\ Top(th).at \in RunPoints
        BY <4>1, TaskSteps DEF RunPoints, BodyPoints
      <4> QED BY <4>2, TopFacts
    <3> QED BY <3>1, <3>2
  <2>2. \A d \in Tasks : completed[d] => completed'[d]
    BY TaskSteps
  <2> QED BY <2>1, <2>2 DEF DepsMet, Deps
<1>3. DoneInv'
  BY <1>1 DEF DoneInv
<1>4. BegunInv'
  BY <1>2 DEF BegunInv
<1> QED BY <1>3, <1>4

\* A task that is not started stays untouched.
LEMMA FreshStays ==
  ASSUME SoundUse, TaskInv, CountInv, TokenInv, NEW th \in Threads, Moves(th), NEW t \in Tasks, Fresh(t), ~Begins(th, t)
  PROVE  Fresh(t)'
<1>1. ~completed[t] /\ ~done[t] /\ suspendedAt[t] = 0 /\ \A s : ~Held(s, t)
  BY DEF Fresh
<1>2. ~(stack[th] # <<>> /\ Top(th).who = t /\ Top(th).at \in RunPoints)
  BY <1>1, TopFacts
<1>3. completed'[t] = completed[t] /\ suspendedAt'[t] = suspendedAt[t] /\ done'[t] = done[t]
  BY <1>2, TaskSteps DEF RunPoints, BodyPoints
<1>4. \A s : ~Held(s, t)'
  <2>1. Token(th, t)
    BY StepEffect DEF Effect
  <2> QED BY <1>1, <2>1 DEF Token
<1> QED BY <1>1, <1>3, <1>4 DEF Fresh

-----------------------------------------------------------------------------
(* Calls to come.                                                          *)

\* One record executes a body.
LEMMA SoleRun ==
  ASSUME OnePlace, NEW x \in Threads, NEW j \in 1..Len(stack[x]), NEW y \in Threads, NEW k \in 1..Len(stack[y]),
         stack[x][j].at \in RunPoints, stack[y][k].at \in RunPoints, stack[x][j].who = stack[y][k].who
  PROVE  x = y /\ j = k
<1>1. PICK p : p = stack[x][j].who
  OBVIOUS
<1>2. RecordHolds(stack[x][j], x, j, RunPlace(x, j), p) /\ RecordHolds(stack[y][k], y, k, RunPlace(y, k), p)
  BY <1>1 DEF RecordHolds
<1>3. Held(RunPlace(x, j), p) /\ Held(RunPlace(y, k), p)
  BY <1>2 DEF Held
<1>4. RunPlace(x, j) = RunPlace(y, k)
  BY <1>3 DEF OnePlace
<1> QED BY <1>4, PlaceParts

\* A task that is held by anything but a run place is not running.
LEMMA HeldParked ==
  ASSUME TokenInv, NEW p \in Tasks, NEW s, Held(s, p), Kind(s) # "run"
  PROVE  Parked(p)
<1>1. ~completed[p]
  BY DEF TokenInv, Placed, Suits
<1>2. ASSUME NEW x \in Threads, NEW j \in 1..Len(stack[x]), stack[x][j].who = p, stack[x][j].at \in RunPoints
      PROVE  FALSE
  <2>1. RecordHolds(stack[x][j], x, j, RunPlace(x, j), p)
    BY <1>2 DEF RecordHolds
  <2>2. Held(RunPlace(x, j), p)
    BY <2>1 DEF Held
  <2>3. s = RunPlace(x, j)
    BY <2>2 DEF TokenInv, OnePlace
  <2> QED BY <2>3, PlaceParts
<1> QED BY <1>1, <1>2 DEF Parked

\* A task that is parked after the step was parked before, or th suspended it.
LEMMA ParkedStep ==
  ASSUME SoundUse, TaskInv, CountInv, TokenInv, NEW th \in Threads, Moves(th), NEW p \in Tasks, Parked(p)'
  PROVE  \/ Parked(p) /\ suspendedAt'[p] = suspendedAt[p]
         \/ /\ stack[th] # <<>> /\ Top(th).at = "call" /\ Top(th).who = p
            /\ suspendedAt'[p] = Top(th).pc
<1>1. ~completed'[p] /\ ~completed[p]
  BY TaskSteps DEF Parked
<1>2. Kept(th) /\ RunGoesOn(th)
  BY StepEffect DEF Effect
<1>3. \A x \in Threads : \A j \in 1..Len(stack'[x]) : stack'[x][j].who = p => stack'[x][j].at \notin RunPoints
  BY DEF Parked
<1>4. CASE Parked(p)
  <2>1. suspendedAt'[p] = suspendedAt[p]
    <3>1. ASSUME suspendedAt'[p] # suspendedAt[p] PROVE FALSE
      <4>1. stack[th] # <<>> /\ Top(th).who = p /\ Top(th).at = "call"
        BY <3>1, TaskSteps
      <4>2. Len(stack[th]) \in 1..Len(stack[th])
        BY <4>1, TopGood DEF TaskInv
      <4> QED BY <1>4, <4>1, <4>2 DEF Parked, Top, RunPoints, BodyPoints
    <3> QED BY <3>1
  <2> QED BY <1>4, <2>1
<1>5. CASE ~Parked(p)
  <2>1. PICK x \in Threads : \E j \in 1..Len(stack[x]) : stack[x][j].who = p /\ stack[x][j].at \in RunPoints
    BY <1>1, <1>5 DEF Parked
  <2>2. PICK j \in 1..Len(stack[x]) : stack[x][j].who = p /\ stack[x][j].at \in RunPoints
    BY <2>1
  <2>3. ~RestRecord(th, x, j)
    BY <1>2, <1>3, <2>2 DEF Kept
  <2>4. x = th /\ j = Len(stack[th]) /\ stack[th] # <<>>
    BY <2>3, TopGood DEF RestRecord, TaskInv
  <2>5. Top(th).who = p /\ Top(th).at \in RunPoints
    BY <2>2, <2>4 DEF Top
  <2>6. Top(th).at = "call" /\ suspendedAt'[p] = Top(th).pc
    BY <1>1, <1>2, <1>3, <2>4, <2>5 DEF RunGoesOn
  <2> QED BY <2>4, <2>5, <2>6
<1> QED BY <1>4, <1>5

\* Where the body comes from that th executes at a new record.
LEMMA BodyComes ==
  ASSUME SoundUse, TaskInv, CountInv, TokenInv, NEW th \in Threads, Moves(th), NEW g, g.at \in BodyPoints,
         BodyMove(th, g), NEW i \in DOMAIN Program[g.who], Ahead(g, i)
  PROVE  \/ /\ stack[th] # <<>> /\ Top(th).who = g.who /\ Top(th).at \in BodyPoints
            /\ i \in Nat /\ i > Top(th).pc
         \/ /\ g.who \in Tasks /\ Parked(g.who) /\ i > suspendedAt[g.who]
            /\ stack[th] # <<>> => Top(th).at = "resume"
<1>1. i > g.pc \/ (i = g.pc /\ g.at = "call")
  BY DEF Ahead
<1>2. ASSUME g.who \in Owners PROVE i \in 1..Len(Program[g.who]) /\ Len(Program[g.who]) \in Nat
  BY <1>2, ProgramAssumption
<1>3. ASSUME NEW p \in Tasks PROVE suspendedAt[p] \in Nat /\ p \in Owners
  BY <1>3 DEF TaskInv, TasksOK, Owners
<1>4. CASE /\ stack[th] # <<>> /\ Top(th).at \in BodyPoints /\ g.who = Top(th).who
           /\ \/ g.at \in InsidePoints /\ g.pc = Top(th).pc
              \/ g.at = "call" /\ g.pc = Top(th).pc + 1 /\ Leaves(th)
              \/ g.at = "call" /\ g.pc = Len(Program[g.who]) + 1 /\ g.who \in Tasks /\ exception'[g.who]
  <2>1. Top(th).pc \in Nat /\ g.who \in Owners
    BY <1>4, TopFacts
  <2>2. i \in 1..Len(Program[g.who]) /\ Len(Program[g.who]) \in Nat
    BY <1>2, <2>1
  <2>3. "call" \notin InsidePoints
    BY DEF InsidePoints
  <2>4. i > Top(th).pc
    BY <1>1, <1>4, <2>1, <2>2, <2>3
  <2> QED BY <1>4, <2>2, <2>4
<1>5. CASE /\ stack[th] # <<>> /\ Top(th).at = "resume" /\ g.who = Top(th).who /\ g.who \in Tasks /\ g.at = "call"
           /\ \/ suspendedAt[g.who] = 0 /\ g.pc = 1
              \/ /\ suspendedAt[g.who] # 0
                 /\ \/ g.pc = suspendedAt[g.who] + 1 /\ ~exception[Program[g.who][suspendedAt[g.who]].task]
                    \/ g.pc = Len(Program[g.who]) + 1 /\ exception'[g.who]
  <2>1. PICK m, p : m = Len(stack[th]) /\ p = g.who
    BY Zenon
  <2>2. RecordHolds(Top(th), th, m, OfferPlace(th, m), p)
    BY <1>5, <2>1 DEF RecordHolds
  <2>3. Held(OfferPlace(th, m), p)
    BY <1>5, <2>1, <2>2, TopFacts
  <2>4. Parked(p)
    BY <1>5, <2>1, <2>3, HeldParked, PlaceParts
  <2>5. i > suspendedAt[p]
    BY <1>1, <1>2, <1>3, <1>5, <2>1
  <2> QED BY <1>5, <2>1, <2>4, <2>5
<1>6. CASE /\ stack[th] = <<>> /\ Held(JobPlace, g.who) /\ g.who \in Tasks
           /\ suspendedAt[g.who] = 0 /\ g.at = "call" /\ g.pc = 1
  <2>1. Parked(g.who)
    BY <1>6, HeldParked, PlaceParts
  <2>2. i > suspendedAt[g.who]
    BY <1>1, <1>2, <1>3, <1>6
  <2> QED BY <1>6, <2>1, <2>2
<1> QED BY <1>4, <1>5, <1>6, Zenon DEF BodyMove

\* What a call still to come starts is untouched.
LEMMA FreshStep ==
  ASSUME SoundUse, TaskInv, CountInv, TokenInv, NEW th \in Threads, Moves(th)
  PROVE  FreshInv'
<1> SUFFICES ASSUME NEW p \in Owners, NEW i \in DOMAIN Program[p], NEW t \in Tasks, Starts(p, i, t), ToCome(p, i)'
             PROVE  Fresh(t)'
  BY DEF FreshInv
<1>1. ASSUME Begins(th, t)
      PROVE  /\ stack[th] # <<>> /\ Top(th).at = "call" /\ Top(th).who = p /\ Top(th).pc = i /\ i \in Nat
             /\ Len(stack[th]) \in 1..Len(stack[th])
  <2>1. stack[th] # <<>> /\ Top(th).at = "call" /\ Starts(Top(th).who, Top(th).pc, t)
    BY <1>1 DEF Begins
  <2>2. Top(th).who \in Owners /\ Top(th).pc \in Nat /\ Len(stack[th]) \in 1..Len(stack[th])
    BY <2>1, TopFacts, SMTT(30)
  <2>3. Top(th).pc \in DOMAIN Program[Top(th).who]
    BY <2>1 DEF Starts
  <2>4. Top(th).who = p /\ Top(th).pc = i
    BY <2>1, <2>2, <2>3 DEF SoundUse
  <2> QED BY <2>1, <2>2, <2>4
<1>2. ASSUME ToCome(p, i), ~Begins(th, t) PROVE Fresh(t)'
  <2>1. Fresh(t)
    BY <1>2 DEF TokenInv, FreshInv
  <2> QED BY <1>2, <2>1, FreshStays
<1>3. CASE \E x \in Threads : \E j \in 1..Len(stack'[x]) : stack'[x][j].who = p /\ Ahead(stack'[x][j], i)
  <2>1. PICK x \in Threads : \E j \in 1..Len(stack'[x]) : stack'[x][j].who = p /\ Ahead(stack'[x][j], i)
    BY <1>3
  <2>2. PICK j \in 1..Len(stack'[x]) : stack'[x][j].who = p /\ Ahead(stack'[x][j], i)
    BY <2>1
  <2>3. PICK g : g = stack'[x][j]
    OBVIOUS
  <2>4. g.who = p /\ Ahead(g, i) /\ g.at \in BodyPoints
    BY <2>2, <2>3 DEF Ahead
  <2>5. CASE RestRecord(th, x, j)
    <3>1. stack[x][j] = g /\ j \in 1..Len(stack[x])
      BY <2>3, <2>5, StepEffect DEF Effect, Kept, RestRecord
    <3>2. ToCome(p, i)
      BY <2>4, <3>1 DEF ToCome
    <3>3. ASSUME Begins(th, t) PROVE FALSE
      <4>1. PICK m : m = Len(stack[th])
        OBVIOUS
      <4>2. m \in 1..Len(stack[th]) /\ stack[th][m].who = p /\ stack[th][m].at = "call"
        BY <1>1, <3>3, <4>1 DEF Top
      <4>3. stack[th][m].at \in RunPoints /\ stack[x][j].at \in RunPoints /\ stack[x][j].who = stack[th][m].who
        BY <2>4, <3>1, <4>2 DEF RunPoints, BodyPoints
      <4>4. x = th /\ j = m
        BY <3>1, <4>2, <4>3, SoleRun DEF TokenInv
      <4> QED BY <2>5, <4>1, <4>4 DEF RestRecord
    <3> QED BY <1>2, <3>2, <3>3
  <2>6. CASE ~RestRecord(th, x, j)
    <3>1. NewSound(th, g)
      BY <2>3, <2>6, StepEffect DEF Effect
    <3>2. BodyMove(th, g)
      BY <2>4, <3>1 DEF NewSound
    <3>3. CASE /\ stack[th] # <<>> /\ Top(th).who = p /\ Top(th).at \in BodyPoints
               /\ i \in Nat /\ i > Top(th).pc
      <4>1. PICK m, f : m = Len(stack[th]) /\ f = Top(th)
        BY Zenon
      <4>2. m \in 1..Len(stack[th]) /\ stack[th][m] = f
        BY <3>3, <4>1, TopGood DEF TaskInv, Top
      <4>3. f.who = p /\ Ahead(f, i)
        BY <3>3, <4>1 DEF Ahead
      <4>4. ToCome(p, i)
        BY <4>2, <4>3 DEF ToCome
      <4>5. Top(th).pc # i
        BY <3>3, TopFacts
      <4> QED BY <1>1, <1>2, <4>4, <4>5
    <3>4. CASE /\ p \in Tasks /\ Parked(p) /\ i > suspendedAt[p]
               /\ stack[th] # <<>> => Top(th).at = "resume"
      BY <1>1, <1>2, <3>4 DEF ToCome
    <3> QED BY <2>4, <3>2, <3>3, <3>4, BodyComes
  <2> QED BY <2>5, <2>6
<1>4. CASE p \in Tasks /\ Parked(p)' /\ i > suspendedAt'[p]
  <2>1. CASE Parked(p) /\ suspendedAt'[p] = suspendedAt[p]
    <3>1. ToCome(p, i)
      BY <1>4, <2>1 DEF ToCome
    <3>2. ~Begins(th, t)
      BY <1>1, <2>1 DEF Parked, Top, RunPoints, BodyPoints
    <3> QED BY <1>2, <3>1, <3>2
  <2>2. CASE stack[th] # <<>> /\ Top(th).at = "call" /\ Top(th).who = p /\ suspendedAt'[p] = Top(th).pc
    <3>1. PICK m, f : m = Len(stack[th]) /\ f = Top(th)
      BY Zenon
    <3>2. m \in 1..Len(stack[th]) /\ stack[th][m] = f /\ f.pc \in Nat
      BY <2>2, <3>1, TopFacts DEF Top
    <3>3. f.who = p /\ Ahead(f, i)
      BY <1>4, <2>2, <3>1 DEF Ahead, BodyPoints
    <3>4. ToCome(p, i)
      BY <3>2, <3>3 DEF ToCome
    <3>5. f.pc # i
      <4>1. i > f.pc
        BY <1>4, <2>2, <3>1
      <4>2. i \in Nat
        BY ProgramAssumption
      <4> QED BY <3>2, <4>1, <4>2
    <3> QED BY <1>1, <1>2, <3>1, <3>4, <3>5
  <2> QED BY <1>4, <2>1, <2>2, ParkedStep
<1> QED BY <1>3, <1>4 DEF ToCome

-----------------------------------------------------------------------------
(* The invariant holds.                                                    *)

\* Every step keeps the invariant.
LEMMA TokenStep ==
  ASSUME SoundUse, TaskInv, CountInv, TokenInv, NEW th \in Threads, Moves(th)
  PROVE  TokenInv'
<1>1. OnePlace' /\ Placed'
  BY PlacesStep
<1>2. OnceEach' /\ DependInv' /\ JobInv'
  BY StepEffect DEF Effect
<1>3. RecordsSound' /\ DoneInv' /\ BegunInv' /\ FreshInv'
  BY RecordsSoundStep, BegunStep, FreshStep
<1> QED BY <1>1, <1>2, <1>3 DEF TokenInv

\* A step that leaves the tasks, the queue and the stacks alone.
LEMMA TokenStays ==
  ASSUME TokenInv, UNCHANGED <<taskVars, m_jobs, stack>>
  PROVE  TokenInv'
<1>1. \A s, t : Held(s, t)' <=> Held(s, t)
  BY DEF Held, PoolHolds, taskVars
<1>2. OnePlace' /\ OnceEach' /\ DependInv' /\ JobInv' /\ DoneInv'
  BY <1>1 DEF TokenInv, OnePlace, OnceEach, DependInv, JobInv, DoneInv, taskVars
<1>3. Placed'
  BY <1>1 DEF TokenInv, Placed, Suits, MayGoOn, DepsMet, Awaits, Pending, ToLookAt, taskVars
<1>4. RecordsSound'
  BY SMTT(30) DEF TokenInv, RecordsSound, RecordSound, LoopSound, taskVars
<1>5. BegunInv'
  BY DEF TokenInv, BegunInv, DepsMet, taskVars
<1>6. \A t \in Tasks : Fresh(t) => Fresh(t)'
  BY <1>1 DEF Fresh, taskVars
<1>7. \A p, i : ToCome(p, i)' => ToCome(p, i)
  BY DEF ToCome, Parked, taskVars
<1>8. FreshInv'
  BY <1>6, <1>7 DEF TokenInv, FreshInv
<1> QED BY <1>2, <1>3, <1>4, <1>5, <1>8 DEF TokenInv

\* At the start the clients execute their programs and no task is anywhere.
LEMMA TokenStart == Init => TokenInv
<1> SUFFICES ASSUME Init PROVE TokenInv
  OBVIOUS
<1>1. ASSUME NEW x \in Threads, NEW j \in 1..Len(stack[x])
      PROVE  x \in Clients /\ j = 1 /\ stack[x][j] = Body(x, 1)
  <2>1. stack[x] = IF x \in Clients THEN <<Body(x, 1)>> ELSE <<>>
    BY DEF Init
  <2>2. CASE x \in Clients
    <3>1. stack[x] = <<Body(x, 1)>>
      BY <2>1, <2>2
    <3>2. Len(<<Body(x, 1)>>) = 1 /\ <<Body(x, 1)>>[1] = Body(x, 1) /\ \A k \in 1..1 : k = 1
      OBVIOUS
    <3> QED BY <1>1, <2>2, <3>1, <3>2
  <2>3. CASE x \notin Clients
    <3>1. stack[x] = <<>> /\ Len(<<>>) = 0
      BY <2>1, <2>3
    <3> QED BY <1>1, <3>1
  <2> QED BY <2>2, <2>3
<1>2. ASSUME NEW s, NEW t, Held(s, t) PROVE t \in Clients /\ s = RunPlace(t, 1)
  <2>1. ~PoolHolds(s, t)
    BY SmallLists DEF Init, PoolHolds
  <2>2. PICK x \in Threads : \E j \in 1..Len(stack[x]) : RecordHolds(stack[x][j], x, j, s, t)
    BY <1>2, <2>1 DEF Held
  <2>3. PICK j \in 1..Len(stack[x]) : RecordHolds(stack[x][j], x, j, s, t)
    BY <2>2
  <2>4. x \in Clients /\ j = 1 /\ stack[x][j] = Body(x, 1)
    BY <1>1
  <2>5. RecordHolds(Body(x, 1), x, 1, s, t)
    BY <2>3, <2>4
  <2>6. PICK g : g = Body(x, 1)
    OBVIOUS
  <2>7. g.at = "call" /\ g.who = x
    BY <2>6 DEF Body, Frame
  <2>8. s = RunPlace(x, 1) /\ t = x
    BY <2>5, <2>6, <2>7 DEF RecordHolds, ListPoints
  <2> QED BY <2>4, <2>8
<1>3. \A t \in Tasks : \A s : ~Held(s, t)
  BY <1>2, OwnersAssumption
<1>4. OnePlace /\ Placed
  BY <1>2, <1>3 DEF OnePlace, Placed
<1>5. OnceEach /\ DependInv /\ JobInv
  <2>1. /\ m_jobs = <<>> /\ Len(<<>>) = 0
        /\ \A u \in Tasks : dependents[u] = <<>> /\ continuations[u] = <<>>
    BY DEF Init
  <2> QED BY <2>1, SmallLists DEF OnceEach, DependInv, JobInv
<1>6. RecordsSound
  <2>1. ASSUME NEW x \in Threads, NEW j \in 1..Len(stack[x]) PROVE RecordSound(stack[x][j])
    <3>1. PICK g : g = stack[x][j]
      OBVIOUS
    <3>2. g = Body(x, 1)
      BY <1>1, <3>1
    <3>3. g.at = "call" /\ g.n = 0
      BY <3>2 DEF Body, Frame
    <3>4. RecordSound(g)
      BY <3>3 DEF RecordSound, CompletionPoints, ListPoints, LoopPoints
    <3> QED BY <3>1, <3>4
  <2> QED BY <2>1 DEF RecordsSound
<1>7. DoneInv /\ BegunInv /\ \A t \in Tasks : Fresh(t)
  BY <1>3 DEF Init, DoneInv, BegunInv, Fresh
<1>8. FreshInv
  BY <1>7 DEF FreshInv
<1> QED BY <1>4, <1>5, <1>6, <1>7, <1>8 DEF TokenInv

\* SoundUse says nothing of the state.
LEMMA SoundUseStays == SoundUse' <=> SoundUse
BY DEF SoundUse, Starts, DependentFirst, Once, In

\* All the invariants together.
ScheduleInv == TaskInv /\ NestInv /\ CountInv /\ (SoundUse => TokenInv)

\* They are kept by every step.
LEMMA ScheduleStep == ScheduleInv /\ [Next]_vars => ScheduleInv'
<1> SUFFICES ASSUME ScheduleInv, [Next]_vars PROVE ScheduleInv'
  OBVIOUS
<1>1. TaskInv /\ NestInv /\ CountInv /\ (SoundUse => TokenInv)
  BY DEF ScheduleInv
<1>2. TaskInv' /\ NestInv' /\ CountInv'
  BY <1>1, StepInv, CountStep
<1>3. ASSUME SoundUse PROVE TokenInv'
  <2>1. CASE UNCHANGED vars
    BY <1>1, <1>3, <2>1, TokenStays DEF vars, poolVars
  <2>2. ASSUME NEW th \in Threads, ThreadStep(th) PROVE TokenInv'
    <3>1. Moves(th)
      BY <2>2 DEF Moves
    <3> QED BY <1>1, <1>3, <3>1, TokenStep
  <2> QED BY <2>1, <2>2 DEF Next
<1> QED BY <1>2, <1>3, SoundUseStays DEF ScheduleInv

\* They hold in every state.
LEMMA ScheduleAlways == Spec => []ScheduleInv
<1>1. Init => ScheduleInv
  BY InitInv, CountStart, TokenStart DEF ScheduleInv
<1> QED BY <1>1, ScheduleStep, PTL DEF Spec

-----------------------------------------------------------------------------
(* Nothing is resumed twice, and tasks begin after their dependencies.     *)

\* The activations of a task are its records at the points of a body.
LEMMA ActivationsMeaning ==
  ASSUME NEW t, NEW e
  PROVE  /\ e \in Activations(t) <=>
              \E x \in Threads : \E j \in 1..Len(stack[x]) :
                e = <<x, j>> /\ stack[x][j].who = t /\ stack[x][j].at \in BodyPoints
         /\ e \in Activations(t)' <=>
              \E x \in Threads : \E j \in 1..Len(stack'[x]) :
                e = <<x, j>> /\ stack'[x][j].who = t /\ stack'[x][j].at \in BodyPoints
BY DEF Activations

\* A record that executes t, and one that has completed it.
LEMMA RecordOf ==
  ASSUME TokenInv, NEW t \in Tasks, NEW x \in Threads, NEW j \in 1..Len(stack[x]), stack[x][j].who = t
  PROVE  /\ stack[x][j].at \in RunPoints => ~completed[t] /\ DepsMet(t)
         /\ stack[x][j].at \in CompletionPoints \ {"on_completed"} => completed[t] /\ DepsMet(t)
<1>1. ASSUME stack[x][j].at \in RunPoints PROVE ~completed[t] /\ DepsMet(t)
  <2>1. RecordHolds(stack[x][j], x, j, RunPlace(x, j), t)
    BY <1>1 DEF RecordHolds
  <2>2. Held(RunPlace(x, j), t)
    BY <2>1 DEF Held
  <2>3. Suits(RunPlace(x, j), t)
    BY <2>2 DEF TokenInv, Placed
  <2> QED BY <2>3, PlaceParts DEF Suits
<1>2. ASSUME stack[x][j].at \in CompletionPoints \ {"on_completed"} PROVE completed[t] /\ DepsMet(t)
  <2>1. completed[t]
    BY <1>2 DEF TokenInv, RecordsSound, RecordSound
  <2> QED BY <2>1 DEF TokenInv, BegunInv
<1> QED BY <1>1, <1>2

\* One place for each task means one activation.
LEMMA ResumedOnceMeaning == TaskInv /\ TokenInv => NoDoubleResumption
<1> SUFFICES ASSUME TaskInv, TokenInv PROVE NoDoubleResumption
  OBVIOUS
<1>0. BodyPoints \subseteq RunPoints /\ "on_completed" \in RunPoints
  BY DEF RunPoints
<1>1. ASSUME NEW t \in Tasks PROVE Cardinality(Activations(t)) <= 1
  <2>1. ASSUME NEW d \in Activations(t), NEW e \in Activations(t) PROVE d = e
    <3>1. PICK x \in Threads : \E j \in 1..Len(stack[x]) :
            d = <<x, j>> /\ stack[x][j].who = t /\ stack[x][j].at \in BodyPoints
      BY ActivationsMeaning
    <3>2. PICK j \in 1..Len(stack[x]) : d = <<x, j>> /\ stack[x][j].who = t /\ stack[x][j].at \in BodyPoints
      BY <3>1
    <3>3. PICK y \in Threads : \E k \in 1..Len(stack[y]) :
            e = <<y, k>> /\ stack[y][k].who = t /\ stack[y][k].at \in BodyPoints
      BY ActivationsMeaning
    <3>4. PICK k \in 1..Len(stack[y]) : e = <<y, k>> /\ stack[y][k].who = t /\ stack[y][k].at \in BodyPoints
      BY <3>3
    <3>5. stack[x][j].at \in RunPoints /\ stack[y][k].at \in RunPoints /\ stack[x][j].who = stack[y][k].who
      BY <1>0, <3>2, <3>4
    <3>6. x = y /\ j = k
      BY <3>5, SoleRun DEF TokenInv
    <3> QED BY <3>2, <3>4, <3>6
  <2>2. CASE Activations(t) = {}
    BY <2>2, FS_EmptySet
  <2>3. CASE Activations(t) # {}
    <3>1. PICK e : e \in Activations(t)
      BY <2>3
    <3>2. Activations(t) = {e}
      BY <2>1, <3>1
    <3>3. Cardinality({e}) = 1
      BY FS_Singleton
    <3> QED BY <3>2, <3>3
  <2> QED BY <2>2, <2>3
<1>2. ASSUME NEW t \in Tasks, completed[t] PROVE Activations(t) = {}
  <2>1. ASSUME NEW e \in Activations(t) PROVE FALSE
    <3>1. \E x \in Threads : \E j \in 1..Len(stack[x]) : stack[x][j].who = t /\ stack[x][j].at \in BodyPoints
      BY ActivationsMeaning
    <3> QED BY <1>0, <1>2, <3>1, RecordOf
  <2> QED BY <2>1
<1>3. ASSUME NEW t \in Tasks, completed[t], NEW th \in Threads, Completing(th, t, {"on_completed"}) PROVE FALSE
  <2>1. \E j \in 1..Len(stack[th]) : stack[th][j].who = t /\ stack[th][j].at = "on_completed"
    BY <1>3 DEF Completing, Records
  <2> QED BY <1>0, <1>3, <2>1, RecordOf
<1>4. ASSUME NEW th \in Threads, At(th, "crashed") PROVE FALSE
  <2>1. stack[th] # <<>> /\ Top(th).at = "crashed"
    BY <1>4 DEF At
  <2>2. RecordSound(Top(th))
    BY <2>1, TopFacts
  <2> QED BY <2>1, <2>2 DEF RecordSound
<1> QED BY <1>1, <1>2, <1>3, <1>4 DEF NoDoubleResumption

\* Whoever has begun has met its dependencies.
LEMMA BegunMeaning ==
  ASSUME TokenInv, NEW t \in Tasks, Begun(t)
  PROVE  DepsMet(t)
<1>1. CASE suspendedAt[t] # 0
  BY <1>1 DEF TokenInv, BegunInv
<1>2. CASE Activations(t) # {}
  <2>1. \E x \in Threads : \E j \in 1..Len(stack[x]) : stack[x][j].who = t /\ stack[x][j].at \in BodyPoints
    BY <1>2, ActivationsMeaning
  <2> QED BY <2>1, RecordOf DEF RunPoints
<1>3. CASE \E th \in Threads : Completing(th, t, CompletionPoints)
  <2>1. \E x \in Threads : \E j \in 1..Len(stack[x]) : stack[x][j].who = t /\ stack[x][j].at \in CompletionPoints
    BY <1>3 DEF Completing, Records
  <2> QED BY <2>1, RecordOf DEF RunPoints
<1> QED BY <1>1, <1>2, <1>3 DEF Begun

\* Task.h:233-235, "copying is deliberately disallowed to avoid double resumption":
\* for every program that starts each task by one call and that schedules a task
\* with several dependencies before them, whatever the threads do, a body is
\* executed by one thread at a time, it completes once and no finished coroutine
\* frame is resumed.
THEOREM ResumedOnce == Spec => [](SoundUse => NoDoubleResumption)
<1>1. ScheduleInv => (SoundUse => NoDoubleResumption)
  BY ResumedOnceMeaning DEF ScheduleInv
<1> QED BY <1>1, ScheduleAlways, PTL

\* Task.h:104, "tokens that must complete before this task begins": under the same
\* programs the body of a task is entered after every task of its dependency list
\* has completed.
THEOREM DependenciesFirst == Spec => [](SoundUse => StartsAfterDependencies)
<1>1. ScheduleInv => (SoundUse => StartsAfterDependencies)
  BY BegunMeaning DEF ScheduleInv, StartsAfterDependencies, DepsMet
<1> QED BY <1>1, ScheduleAlways, PTL

-----------------------------------------------------------------------------
(* Calls that are passed: the tasks they wait for are completed.           *)

\* What p relies on after call i: the task that it waited for is completed, and an
\* exception of it has become one of p.
Passed(p, i) ==
  (p \in Tasks => ~exception[p]) =>
     /\ Program[p][i].op \in {"await", "get", "wait"} => completed[Program[p][i].task]
     /\ p \in Tasks /\ Program[p][i].op \in {"await", "get"} => ~exception[Program[p][i].task]
PassedBefore(p, k) == \A i \in DOMAIN Program[p] : i < k => Passed(p, i)

PassInv ==
  /\ \A x \in Threads : \A j \in 1..Len(stack[x]) :
       stack[x][j].at \in BodyPoints => PassedBefore(stack[x][j].who, stack[x][j].pc)
  /\ \A p \in Tasks : PassedBefore(p, suspendedAt[p])

\* Only a task that is executed gets an exception, and it keeps it.
LEMMA ExceptionSteps ==
  ASSUME TaskInv, TokenInv, NEW th \in Threads, Moves(th), NEW t \in Tasks
  PROVE  (exception[t] => exception'[t]) /\ (completed[t] => exception'[t] = exception[t])
<1>1. exception \in [Tasks -> BOOLEAN]
  BY DEF TaskInv, TasksOK
<1>2. CASE exception' = exception
  BY <1>2
<1>3. ASSUME NEW p \in Tasks, ~completed[p], exception' = [exception EXCEPT ![p] = TRUE]
      PROVE  (exception[t] => exception'[t]) /\ (completed[t] => exception'[t] = exception[t])
  BY <1>1, <1>3
<1>4. ASSUME stack[th] # <<>>, Top(th).at \in BodyPoints \cup {"resume"}, Top(th).who \in Tasks
      PROVE  ~completed[Top(th).who]
  <2>1. CASE Top(th).at \in BodyPoints
    BY <1>4, <2>1, TopFacts DEF RunPoints
  <2>2. CASE Top(th).at = "resume"
    <3>1. PICK m : m = Len(stack[th])
      OBVIOUS
    <3>2. RecordHolds(Top(th), th, m, OfferPlace(th, m), Top(th).who)
      BY <2>2 DEF RecordHolds
    <3>3. Held(OfferPlace(th, m), Top(th).who)
      BY <1>4, <3>1, <3>2, TopFacts
    <3> QED BY <1>4, <3>3 DEF TokenInv, Placed, Suits
  <2> QED BY <1>4, <2>1, <2>2
<1>5. ASSUME NEW i, NEW u, NEW p, Return(th, p, i, u)
      PROVE  exception' = exception \/ (p \in Tasks /\ exception' = [exception EXCEPT ![p] = TRUE])
  BY <1>5 DEF Return
<1>6. \/ exception' = exception
      \/ /\ stack[th] # <<>> /\ Top(th).at \in BodyPoints \cup {"resume"} /\ Top(th).who \in Tasks
         /\ exception' = [exception EXCEPT ![Top(th).who] = TRUE]
  <2>1. CASE await(th)
    BY <1>5, <2>1 DEF await, AtCall, At, BodyPoints
  <2>2. CASE resume(th)
    BY <1>5, <2>2 DEF resume, At
  <2>3. CASE GetReturn(th)
    BY <1>5, <2>3 DEF GetReturn, At, BodyPoints
  <2>4. CASE Throw(th)
    BY <2>4, OwnersAssumption DEF Throw, At, BodyPoints
  <2>5. CASE ApiStep(th) /\ ~await(th) /\ ~resume(th) /\ ~GetReturn(th)
    BY <2>5 DEF ApiStep, taskVars, run, stop, join, run_async, schedule, Register, FetchAdd,
                ScheduleEnd, add_continuation, await_suspend, get, wait
  <2>6. CASE CompletionStep(th) /\ ~Throw(th)
    BY <2>6 DEF CompletionStep, taskVars, BodyEnd, on_completed, resume_continuations, Continue,
                ContinueEnd, Release, ReleaseEnd, Ready
  <2>7. CASE WorkerStep(th) \/ Passes(th)
    BY <2>7 DEF WorkerStep, WorkerLoop, WorkerTake, WorkerExit, Passes, taskVars
  <2> QED BY <2>1, <2>2, <2>3, <2>4, <2>5, <2>6, <2>7 DEF Moves, ThreadStep
<1> QED BY <1>2, <1>3, <1>4, <1>6

\* What is passed stays so.
LEMMA PassedStays ==
  ASSUME TaskInv, TokenInv, NEW th \in Threads, Moves(th), NEW p \in Owners, NEW i \in DOMAIN Program[p], Passed(p, i)
  PROVE  Passed(p, i)'
<1>1. PICK u : u = Program[p][i].task
  OBVIOUS
<1>2. u \in Tasks
  <2>1. Program[p] \in Seq(Calls)
    BY ProgramAssumption
  <2>2. Program[p][i] \in Calls
    BY <2>1
  <2> QED BY <1>1, <2>2 DEF Calls
<1>3. (completed[u] => completed'[u]) /\ (completed[u] => exception'[u] = exception[u])
  BY <1>2, TaskSteps, ExceptionSteps
<1>4. p \in Tasks => (exception[p] => exception'[p])
  BY ExceptionSteps
<1> QED BY <1>1, <1>3, <1>4 DEF Passed

\* The point that th comes to is past calls that are passed.
LEMMA BodyPasses ==
  ASSUME TaskInv, TokenInv, PassInv, NEW th \in Threads, Moves(th), NEW g, g.at \in BodyPoints, g.who \in Owners,
         BodyMove(th, g), NEW i \in DOMAIN Program[g.who], i < g.pc
  PROVE  Passed(g.who, i)'
<1>0. PICK p, f, m : p = g.who /\ f = Top(th) /\ m = Len(stack[th])
  BY Zenon
<1>1. i \in 1..Len(Program[p]) /\ Len(Program[p]) \in Nat /\ i \in Nat /\ i >= 1
  BY <1>0, ProgramAssumption
<1>2. ASSUME Passed(p, i) PROVE Passed(p, i)'
  BY <1>0, <1>2, PassedStays
<1>3. ASSUME p \in Tasks, exception'[p] PROVE Passed(p, i)'
  BY <1>3 DEF Passed
<1>4. CASE /\ stack[th] # <<>> /\ Top(th).at \in BodyPoints /\ g.who = Top(th).who
           /\ \/ g.at \in InsidePoints /\ g.pc = Top(th).pc
              \/ g.at = "call" /\ g.pc = Top(th).pc + 1 /\ Leaves(th)
              \/ g.at = "call" /\ g.pc = Len(Program[g.who]) + 1 /\ g.who \in Tasks /\ exception'[g.who]
  <2>1. m \in 1..Len(stack[th]) /\ stack[th][m] = f /\ f.pc \in Nat /\ f.who = p /\ f.at \in BodyPoints
    BY <1>0, <1>4, TopFacts DEF Top
  <2>2. PassedBefore(p, f.pc)
    BY <2>1 DEF PassInv
  <2>3. CASE i < f.pc
    BY <1>0, <1>2, <2>2, <2>3 DEF PassedBefore
  <2>4. CASE i = f.pc /\ Leaves(th)
    <3>1. Passed(p, i)
      BY <1>0, <2>1, <2>4 DEF Leaves, CallOf, Passed
    <3> QED BY <1>0, <1>2, <3>1
  <2>5. CASE g.who \in Tasks /\ exception'[g.who]
    BY <1>0, <1>3, <2>5
  <2> QED BY <1>0, <1>1, <1>4, <2>1, <2>3, <2>4, <2>5
<1>5. CASE /\ stack[th] # <<>> /\ Top(th).at = "resume" /\ g.who = Top(th).who /\ g.who \in Tasks /\ g.at = "call"
           /\ \/ suspendedAt[g.who] = 0 /\ g.pc = 1
              \/ /\ suspendedAt[g.who] # 0
                 /\ \/ g.pc = suspendedAt[g.who] + 1 /\ ~exception[Program[g.who][suspendedAt[g.who]].task]
                    \/ g.pc = Len(Program[g.who]) + 1 /\ exception'[g.who]
  <2>1. PICK k : k = suspendedAt[p]
    OBVIOUS
  <2>2. k \in Nat /\ PassedBefore(p, k)
    BY <1>0, <1>5, <2>1 DEF TaskInv, TasksOK, PassInv
  <2>3. CASE i < k
    BY <1>0, <1>2, <2>2, <2>3 DEF PassedBefore
  <2>4. CASE i = k /\ k # 0 /\ ~exception[Program[p][k].task]
    <3>1. RecordHolds(f, th, m, OfferPlace(th, m), p)
      BY <1>0, <1>5 DEF RecordHolds
    <3>2. Held(OfferPlace(th, m), p)
      BY <1>0, <1>5, <3>1, TopFacts
    <3>3. MayGoOn(p)
      BY <1>0, <1>5, <3>2, PlaceParts DEF TokenInv, Placed, Suits
    <3>4. Program[p][k].op = "await" /\ completed[Program[p][k].task]
      BY <2>1, <2>4, <3>3 DEF MayGoOn, Awaits
    <3>5. Passed(p, i)
      BY <2>4, <3>4 DEF Passed
    <3> QED BY <1>0, <1>2, <3>5
  <2>5. CASE exception'[g.who]
    BY <1>0, <1>3, <1>5, <2>5
  <2> QED BY <1>0, <1>1, <1>5, <2>1, <2>2, <2>3, <2>4, <2>5, SMTT(30)
<1>6. CASE /\ stack[th] = <<>> /\ Held(JobPlace, g.who) /\ g.who \in Tasks
           /\ suspendedAt[g.who] = 0 /\ g.at = "call" /\ g.pc = 1
  BY <1>1, <1>6
<1> QED BY <1>4, <1>5, <1>6, Zenon DEF BodyMove

\* Every step keeps it.
LEMMA PassStep ==
  ASSUME SoundUse, TaskInv, CountInv, TokenInv, PassInv, TaskInv', NEW th \in Threads, Moves(th)
  PROVE  PassInv'
<1>1. ASSUME NEW x \in Threads, NEW j \in 1..Len(stack'[x]), NEW g, g = stack'[x][j], g.at \in BodyPoints,
             NEW i \in DOMAIN Program[g.who], i < g.pc
      PROVE  Passed(g.who, i)'
  <2>1. g.who \in Owners
    BY <1>1, FrameFields DEF TaskInv, StackOK
  <2>2. CASE RestRecord(th, x, j)
    <3>1. stack[x][j] = g /\ j \in 1..Len(stack[x])
      BY <1>1, <2>2, StepEffect DEF Effect, Kept, RestRecord
    <3>2. Passed(g.who, i)
      BY <1>1, <3>1 DEF PassInv, PassedBefore
    <3> QED BY <1>1, <2>1, <3>2, PassedStays
  <2>3. CASE ~RestRecord(th, x, j)
    <3>1. BodyMove(th, g)
      BY <1>1, <2>3, StepEffect DEF Effect, NewSound
    <3> QED BY <1>1, <2>1, <3>1, BodyPasses
  <2> QED BY <2>2, <2>3
<1>2. ASSUME NEW p \in Tasks, NEW i \in DOMAIN Program[p], i < suspendedAt'[p] PROVE Passed(p, i)'
  <2>1. CASE suspendedAt'[p] = suspendedAt[p]
    <3>1. Passed(p, i)
      BY <1>2, <2>1 DEF PassInv, PassedBefore
    <3> QED BY <1>2, <3>1, PassedStays DEF Owners
  <2>2. CASE suspendedAt'[p] # suspendedAt[p]
    <3>1. stack[th] # <<>> /\ Top(th).who = p /\ Top(th).at = "call"
      BY <2>2, TaskSteps
    <3>2. await(th)
      BY <2>2, FrameSteps
    <3>3. suspendedAt' = [suspendedAt EXCEPT ![p] = Top(th).pc]
      BY <2>2, <3>1, <3>2 DEF await
    <3>4. suspendedAt'[p] = Top(th).pc
      BY <3>3 DEF TaskInv, TasksOK
    <3>5. Len(stack[th]) \in 1..Len(stack[th]) /\ Top(th) = stack[th][Len(stack[th])]
      BY <3>1, TopGood DEF TaskInv, Top
    <3>6. Top(th).at \in BodyPoints
      BY <3>1 DEF BodyPoints
    <3>7. PassedBefore(p, Top(th).pc)
      BY <3>1, <3>5, <3>6 DEF PassInv
    <3>8. Passed(p, i)
      BY <1>2, <3>4, <3>7 DEF PassedBefore
    <3> QED BY <1>2, <3>8, PassedStays DEF Owners
  <2> QED BY <2>1, <2>2
<1> QED BY <1>1, <1>2 DEF PassInv, PassedBefore

\* Nobody is past a call at the start.
LEMMA PassStart == Init => PassInv
<1> SUFFICES ASSUME Init PROVE PassInv
  OBVIOUS
<1>1. TaskInv
  BY InitInv
<1>2. ASSUME NEW p \in Owners PROVE PassedBefore(p, 0) /\ PassedBefore(p, 1)
  <2>1. Program[p] \in Seq(Calls)
    BY ProgramAssumption
  <2>2. \A i \in DOMAIN Program[p] : i \in Nat /\ i >= 1
    BY <2>1
  <2> QED BY <2>2 DEF PassedBefore
<1>3. ASSUME NEW x \in Threads, NEW j \in 1..Len(stack[x]) PROVE PassedBefore(stack[x][j].who, stack[x][j].pc)
  <2>1. stack[x] \in {<<>>, <<Body(x, 1)>>}
    BY DEF Init
  <2>2. stack[x][j] = Body(x, 1)
    <3>1. CASE stack[x] = <<>> BY <3>1
    <3>2. CASE stack[x] = <<Body(x, 1)>> BY <3>2
    <3> QED BY <2>1, <3>1, <3>2
  <2>3. stack[x][j].pc = 1
    BY <2>2 DEF Body, Frame
  <2>4. stack[x][j].who \in Owners
    BY <1>1, FrameFields DEF TaskInv, StackOK
  <2> QED BY <1>2, <2>3, <2>4
<1>4. \A p \in Tasks : suspendedAt[p] = 0 /\ p \in Owners
  BY DEF Init, Owners
<1> QED BY <1>2, <1>3, <1>4 DEF PassInv

\* Task.h:268-315 and TaskScheduler::wait: for the same programs, whoever gets past
\* co_await, get() or wait() finds the task completed, and after co_await and get()
\* an exception of the task has become an exception of the task that waited.
THEOREM WaitsAreOver == Spec => [](SoundUse => PassedCallsCompleted)
<1> DEFINE I == ScheduleInv /\ (SoundUse => PassInv)
<1>1. Init => I
  BY InitInv, CountStart, TokenStart, PassStart DEF ScheduleInv
<1>2. I /\ [Next]_vars => I'
  <2> SUFFICES ASSUME I, [Next]_vars PROVE I'
    OBVIOUS
  <2>1. ScheduleInv'
    BY ScheduleStep
  <2>2. ASSUME SoundUse PROVE PassInv'
    <3>1. CASE UNCHANGED vars
      BY <2>2, <3>1, ZenonT(60) DEF PassInv, PassedBefore, Passed, vars, taskVars
    <3>2. ASSUME NEW th \in Threads, ThreadStep(th) PROVE PassInv'
      <4>1. Moves(th)
        BY <3>2 DEF Moves
      <4>2. TaskInv /\ CountInv /\ TokenInv /\ TaskInv'
        BY <2>1, <2>2 DEF ScheduleInv
      <4> QED BY <2>2, <4>1, <4>2, PassStep
    <3> QED BY <3>1, <3>2 DEF Next
  <2> QED BY <2>1, <2>2, SoundUseStays
<1>3. I => (SoundUse => PassedCallsCompleted)
  <2> SUFFICES ASSUME I, SoundUse, NEW p \in Owners, p \in Tasks => ~exception[p], NEW i \in PassedCalls(p)
               PROVE  /\ Program[p][i].op \in {"await", "get", "wait"} => completed[Program[p][i].task]
                      /\ p \in Tasks /\ Program[p][i].op \in {"await", "get"} => ~exception[Program[p][i].task]
    BY DEF PassedCallsCompleted
  <2>1. i \in DOMAIN Program[p]
    BY DEF PassedCalls
  <2>2. \/ \E x \in Threads : \E j \in 1..Len(stack[x]) :
             stack[x][j].who = p /\ stack[x][j].at \in BodyPoints /\ i < stack[x][j].pc
        \/ p \in Tasks /\ i < suspendedAt[p]
    BY DEF PassedCalls, Records
  <2>3. Passed(p, i)
    BY <2>1, <2>2 DEF PassInv, PassedBefore
  <2> QED BY <2>3 DEF Passed
<1> QED BY <1>1, <1>2, <1>3, PTL DEF Spec

-----------------------------------------------------------------------------
(* The safety part of TaskDag.                                             *)

\* A record of t at one of the points.
HasRecord(t, points) == \E x \in Threads : \E j \in 1..Len(stack[x]) :
                          stack[x][j].who = t /\ stack[x][j].at \in points

\* A task has begun when it is suspended in its body, or when a record of it is
\* inside the body or its completion.
LEMMA BegunWhere ==
  ASSUME NEW t
  PROVE  /\ Begun(t) <=> suspendedAt[t] # 0 \/ HasRecord(t, BodyPoints \cup CompletionPoints)
         /\ Begun(t)' <=> suspendedAt'[t] # 0 \/ HasRecord(t, BodyPoints \cup CompletionPoints)'
<1>1. Begun(t) <=> suspendedAt[t] # 0 \/ HasRecord(t, BodyPoints \cup CompletionPoints)
  <2>1. Activations(t) # {} <=> HasRecord(t, BodyPoints)
    BY ActivationsMeaning DEF HasRecord
  <2>2. (\E th \in Threads : Completing(th, t, CompletionPoints)) <=> HasRecord(t, CompletionPoints)
    BY DEF HasRecord, Completing, Records
  <2>3. HasRecord(t, BodyPoints \cup CompletionPoints) <=> HasRecord(t, BodyPoints) \/ HasRecord(t, CompletionPoints)
    BY DEF HasRecord
  <2> QED BY <2>1, <2>2, <2>3 DEF Begun
<1>2. Begun(t)' <=> suspendedAt'[t] # 0 \/ HasRecord(t, BodyPoints \cup CompletionPoints)'
  <2>1. Activations(t)' # {} <=> HasRecord(t, BodyPoints)'
    <3>1. ASSUME NEW e \in Activations(t)' PROVE HasRecord(t, BodyPoints)'
      BY <3>1, ActivationsMeaning DEF HasRecord
    <3>2. ASSUME NEW x \in Threads, NEW j \in 1..Len(stack'[x]), stack'[x][j].who = t, stack'[x][j].at \in BodyPoints
          PROVE  <<x, j>> \in Activations(t)'
      BY <3>2, ActivationsMeaning
    <3> QED BY <3>1, <3>2 DEF HasRecord
  <2>2. (\E th \in Threads : Completing(th, t, CompletionPoints)') <=> HasRecord(t, CompletionPoints)'
    BY DEF HasRecord, Completing, Records
  <2>3. HasRecord(t, BodyPoints \cup CompletionPoints)' <=> HasRecord(t, BodyPoints)' \/ HasRecord(t, CompletionPoints)'
    BY DEF HasRecord
  <2> QED BY <2>1, <2>2, <2>3 DEF Begun
<1> QED BY <1>1, <1>2

\* The innermost record of a thread shows that its owner has begun.
LEMMA TopBegun ==
  ASSUME TaskInv, NEW th \in Threads, stack[th] # <<>>, Top(th).at \in BodyPoints \cup CompletionPoints
  PROVE  Begun(Top(th).who)
<1>1. PICK m, u : m = Len(stack[th]) /\ u = Top(th).who
  BY Zenon
<1>2. m \in 1..Len(stack[th]) /\ stack[th][m] = Top(th)
  BY <1>1, TopGood DEF TaskInv, Top
<1>3. HasRecord(u, BodyPoints \cup CompletionPoints)
  BY <1>1, <1>2 DEF HasRecord
<1> QED BY <1>1, <1>3, BegunWhere

\* Calls are counted from one.
FromOne == \A x \in Threads : \A j \in 1..Len(stack[x]) : stack[x][j].at \in BodyPoints => stack[x][j].pc # 0

\* A client's body starts at its first call.
LEMMA FromOneStart == Init => FromOne
<1> SUFFICES ASSUME Init, NEW x \in Threads, NEW j \in 1..Len(stack[x]) PROVE stack[x][j].pc # 0
  BY DEF FromOne
<1>1. stack[x] \in {<<>>, <<Body(x, 1)>>}
  BY DEF Init
<1>2. stack[x][j] = Body(x, 1)
  <2>1. CASE stack[x] = <<>> BY <2>1
  <2>2. CASE stack[x] = <<Body(x, 1)>> BY <2>2
  <2> QED BY <1>1, <2>1, <2>2
<1> QED BY <1>2 DEF Body, Frame

\* Only call numbers from one on are pushed or advanced to.
LEMMA FromOneStep ==
  ASSUME SoundUse, TaskInv, CountInv, TokenInv, FromOne, NEW th \in Threads, Moves(th)
  PROVE  FromOne'
<1> SUFFICES ASSUME NEW x \in Threads, NEW j \in 1..Len(stack'[x]), NEW g, g = stack'[x][j], g.at \in BodyPoints
             PROVE  g.pc # 0
  BY DEF FromOne
<1>1. CASE RestRecord(th, x, j)
  <2>1. stack[x][j] = g /\ j \in 1..Len(stack[x])
    BY <1>1, StepEffect DEF Effect, Kept, RestRecord
  <2> QED BY <2>1 DEF FromOne
<1>2. CASE ~RestRecord(th, x, j)
  <2>1. BodyMove(th, g)
    BY <1>2, StepEffect DEF Effect, NewSound
  <2>2. ASSUME NEW p \in Owners PROVE Len(Program[p]) \in Nat
    BY ProgramAssumption
  <2>3. ASSUME NEW p \in Tasks PROVE suspendedAt[p] \in Nat /\ p \in Owners
    BY DEF TaskInv, TasksOK, Owners
  <2>4. ASSUME stack[th] # <<>>, Top(th).at \in BodyPoints PROVE Top(th).pc \in Nat \ {0}
    <3>1. Len(stack[th]) \in 1..Len(stack[th]) /\ Top(th) = stack[th][Len(stack[th])]
      BY <2>4, TopGood DEF TaskInv, Top
    <3>2. Top(th).pc \in Nat
      BY <2>4, TopFacts
    <3> QED BY <2>4, <3>1, <3>2 DEF FromOne
  <2> QED BY <2>1, <2>2, <2>3, <2>4 DEF BodyMove
<1> QED BY <1>1, <1>2

\* A task that has begun goes on or is completed.
LEMMA BegunStays ==
  ASSUME SoundUse, TaskInv, CountInv, TokenInv, FromOne, NEW th \in Threads, Moves(th), NEW u \in Tasks, Begun(u)
  PROVE  completed'[u] \/ Begun(u)'
<1> SUFFICES ASSUME ~completed'[u] PROVE Begun(u)'
  OBVIOUS
<1>0. ~completed[u]
  BY TaskSteps
<1>1. ASSUME stack[th] # <<>>, Top(th).who = u, Top(th).at = "call" PROVE Top(th).pc # 0
  <2>1. Len(stack[th]) \in 1..Len(stack[th]) /\ Top(th) = stack[th][Len(stack[th])]
    BY <1>1, TopGood DEF TaskInv, Top
  <2> QED BY <1>1, <2>1 DEF FromOne, BodyPoints
<1>2. CASE suspendedAt[u] # 0
  <2>1. CASE suspendedAt'[u] = suspendedAt[u]
    BY <1>2, <2>1, BegunWhere
  <2>2. CASE suspendedAt'[u] # suspendedAt[u]
    <3>1. stack[th] # <<>> /\ Top(th).who = u /\ Top(th).at = "call" /\ await(th)
      BY <2>2, TaskSteps, FrameSteps
    <3>2. suspendedAt' = [suspendedAt EXCEPT ![u] = Top(th).pc]
      BY <2>2, <3>1 DEF await
    <3>3. suspendedAt'[u] = Top(th).pc
      BY <3>2 DEF TaskInv, TasksOK
    <3> QED BY <1>1, <3>1, <3>3, BegunWhere
  <2> QED BY <2>1, <2>2
<1>3. CASE HasRecord(u, BodyPoints \cup CompletionPoints)
  <2>1. PICK x \in Threads : \E j \in 1..Len(stack[x]) :
          stack[x][j].who = u /\ stack[x][j].at \in BodyPoints \cup CompletionPoints
    BY <1>3 DEF HasRecord
  <2>2. PICK j \in 1..Len(stack[x]) : stack[x][j].who = u /\ stack[x][j].at \in BodyPoints \cup CompletionPoints
    BY <2>1
  <2>3. stack[x][j].at \in RunPoints
    BY <1>0, <2>2, RecordOf DEF RunPoints
  <2>4. RunPoints \subseteq BodyPoints \cup CompletionPoints
    BY DEF RunPoints, CompletionPoints
  <2>5. CASE RestRecord(th, x, j)
    <3>1. j \in 1..Len(stack'[x]) /\ stack'[x][j] = stack[x][j]
      BY <2>5, StepEffect DEF Effect, Kept
    <3>2. HasRecord(u, BodyPoints \cup CompletionPoints)'
      BY <2>2, <3>1 DEF HasRecord
    <3> QED BY <3>2, BegunWhere
  <2>6. CASE ~RestRecord(th, x, j)
    <3>1. x = th /\ j = Len(stack[th]) /\ stack[th] # <<>>
      BY <2>6, TopGood DEF RestRecord, TaskInv
    <3>2. Top(th).who = u /\ Top(th).at \in RunPoints
      BY <2>2, <2>3, <3>1 DEF Top
    <3>3. RunGoesOn(th)
      BY StepEffect DEF Effect
    <3>4. CASE \E k \in 1..Len(stack'[th]) : stack'[th][k].who = u /\ stack'[th][k].at \in RunPoints
      <4>1. HasRecord(u, BodyPoints \cup CompletionPoints)'
        BY <2>4, <3>4 DEF HasRecord
      <4> QED BY <4>1, BegunWhere
    <3>5. CASE Top(th).at = "call" /\ suspendedAt'[u] = Top(th).pc
      BY <1>1, <3>1, <3>2, <3>5, BegunWhere
    <3> QED BY <3>1, <3>2, <3>3, <3>4, <3>5 DEF RunGoesOn
  <2> QED BY <2>5, <2>6
<1> QED BY <1>2, <1>3, BegunWhere

\* th replaces its innermost record by at most two, none of them in on_completed.
PlainGoto(th) ==
  \/ Goto(th, <<>>)
  \/ \E g : g.at # "on_completed" /\ Goto(th, <<g>>)
  \/ \E g, h : g.at # "on_completed" /\ h.at # "on_completed" /\ Goto(th, <<g, h>>)

\* Every step but the end of a body.
LEMMA PlainSteps ==
  ASSUME TaskInv, NEW th \in Threads, Moves(th), stack[th] # <<>>, ~BodyEnd(th)
  PROVE  PlainGoto(th)
<1>0. PICK f : f = Top(th)
  OBVIOUS
<1>1. f \in Frames /\ f \in GoodFrames
  BY <1>0, TopGood, FrameFields DEF TaskInv
<1>2. /\ Step(th).at = "call"
      /\ \A p, i : Body(p, i).at = "call"
      /\ \A a, p, i, l : Frame(a, p, i, l).at = a
  BY <1>0, <1>1 DEF Step, Body, Frame, Frames
<1>3. ASSUME NEW g, g.at # "on_completed", Goto(th, <<g>>) PROVE PlainGoto(th)
  BY <1>3 DEF PlainGoto
<1>4. ASSUME NEW g, NEW h, g.at # "on_completed", h.at # "on_completed", Goto(th, <<g, h>>) PROVE PlainGoto(th)
  BY <1>4 DEF PlainGoto
<1>5. ASSUME Goto(th, <<>>) PROVE PlainGoto(th)
  BY <1>5 DEF PlainGoto
<1>6. ASSUME NEW i, NEW u, NEW p, Return(th, p, i, u) PROVE PlainGoto(th)
  BY <1>2, <1>3, <1>6, Zenon DEF Return
<1>7. ASSUME NEW u, Produce(th, u, <<>>) PROVE PlainGoto(th)
  <2>1. PICK g : g = Frame("resume", u, 0, <<>>)
    OBVIOUS
  <2>2. Append(<<>>, g) = <<g>> /\ g.at = "resume"
    BY <1>2, <2>1, ShortAppends
  <2> QED BY <1>3, <1>5, <1>7, <2>1, <2>2 DEF Produce
<1>8. ASSUME NEW u, NEW b, b.at = "blocked", Produce(th, u, <<b>>) PROVE PlainGoto(th)
  <2>1. PICK g : g = Frame("resume", u, 0, <<>>)
    OBVIOUS
  <2>2. Append(<<b>>, g) = <<b, g>> /\ g.at = "resume"
    <3>1. b \in {b, g} /\ g \in {b, g}
      OBVIOUS
    <3>2. Append(<<b>>, g) = <<b, g>>
      BY <3>1, ShortAppends, Zenon
    <3> QED BY <1>2, <2>1, <3>2
  <2> QED BY <1>3, <1>4, <1>8, <2>1, <2>2 DEF Produce
<1>9. CASE run(th) \/ join(th) \/ wait(th) \/ run_async(th) \/ ScheduleEnd(th) \/ Passes(th)
  BY <1>2, <1>3, <1>9 DEF run, join, wait, run_async, ScheduleEnd, Passes
<1>10. CASE stop(th)
  <2>1. PICK g : g = [f EXCEPT !.at = "join"]
    OBVIOUS
  <2>2. g.at # "on_completed"
    BY <1>0, <1>1, <1>10, <2>1 DEF Frames, stop, At
  <2> QED BY <1>0, <1>3, <1>10, <2>1, <2>2 DEF stop
<1>11. CASE schedule(th)
  <2>1. PICK g : g = [f EXCEPT !.at = "register", !.list = Call(th).deps]
    OBVIOUS
  <2>2. g.at # "on_completed"
    BY <1>0, <1>1, <1>11, <2>1 DEF Frames, schedule, At
  <2> QED BY <1>0, <1>3, <1>11, <2>1, <2>2 DEF schedule
<1>12. CASE FetchAdd(th)
  <2>1. PICK g : g = [f EXCEPT !.at = "register", !.n = @ + 1]
    OBVIOUS
  <2>2. g.at # "on_completed"
    BY <1>0, <1>1, <1>12, <2>1 DEF Frames, FetchAdd, At
  <2> QED BY <1>0, <1>3, <1>12, <2>1, <2>2 DEF FetchAdd
<1>13. CASE resume_continuations(th)
  <2>1. PICK g : g = [f EXCEPT !.at = "continue", !.list = continuations[f.who]]
    OBVIOUS
  <2>2. g.at # "on_completed"
    BY <1>0, <1>1, <1>13, <2>1 DEF Frames, resume_continuations, At
  <2> QED BY <1>0, <1>3, <1>13, <2>1, <2>2 DEF resume_continuations
<1>14. CASE ReleaseEnd(th)
  <2>1. PICK g : g = [f EXCEPT !.at = "ready"]
    OBVIOUS
  <2>2. g.at # "on_completed"
    BY <1>0, <1>1, <1>14, <2>1 DEF Frames, ReleaseEnd, At
  <2> QED BY <1>0, <1>3, <1>14, <2>1, <2>2 DEF ReleaseEnd
<1>15. CASE on_completed(th)
  <2>1. PICK g : g = [f EXCEPT !.at = "resume_continuations"]
    OBVIOUS
  <2>2. g.at # "on_completed"
    BY <1>0, <1>1, <1>15, <2>1 DEF Frames, on_completed, At
  <2> QED BY <1>0, <1>3, <1>15, <2>1, <2>2 DEF on_completed
<1>16. CASE Register(th)
  <2>1. PICK g, h : g = [f EXCEPT !.list = Tail(@)] /\ h = [f EXCEPT !.list = Tail(@), !.at = "fetch_add"]
    BY Zenon
  <2>2. g.at # "on_completed" /\ h.at # "on_completed"
    BY <1>0, <1>1, <1>16, <2>1 DEF Frames, Register, At
  <2> QED BY <1>0, <1>3, <1>16, <2>1, <2>2 DEF Register
<1>17. CASE Release(th)
  <2>1. PICK l : Goto(th, <<[f EXCEPT !.list = l]>>)
    BY <1>0, <1>17 DEF Release
  <2>2. PICK g : g = [f EXCEPT !.list = l]
    OBVIOUS
  <2>3. g.at # "on_completed"
    BY <1>0, <1>1, <1>17, <2>2 DEF Frames, Release, At
  <2> QED BY <1>3, <2>1, <2>2, <2>3
<1>18. CASE await(th) \/ GetReturn(th) \/ resume(th) \/ Throw(th)
  BY <1>2, <1>3, <1>6, <1>18 DEF await, GetReturn, resume, Throw
<1>19. CASE add_continuation(th)
  BY <1>2, <1>3, <1>4, <1>19 DEF add_continuation
<1>20. CASE await_suspend(th)
  BY <1>7, <1>20 DEF await_suspend
<1>21. CASE get(th)
  <2>1. PICK b : b = [f EXCEPT !.at = "blocked"]
    OBVIOUS
  <2>2. b.at = "blocked"
    BY <1>1, <2>1 DEF Frames
  <2> QED BY <1>0, <1>3, <1>8, <1>21, <2>1, <2>2 DEF get
<1>22. CASE Continue(th)
  <2>1. PICK g, h : g = [f EXCEPT !.list = Tail(@)] /\ h = Frame("resume", Head(f.list), 0, <<>>)
    BY Zenon
  <2>2. g.at # "on_completed" /\ h.at # "on_completed"
    BY <1>0, <1>1, <1>2, <1>22, <2>1 DEF Frames, Continue, At
  <2> QED BY <1>0, <1>3, <1>4, <1>22, <2>1, <2>2 DEF Continue
<1>23. CASE ContinueEnd(th)
  <2>1. PICK g : g = [f EXCEPT !.at = "on_task_finished"]
    OBVIOUS
  <2>2. g.at # "on_completed"
    BY <1>1, <2>1 DEF Frames
  <2> QED BY <1>0, <1>3, <1>5, <1>23, <2>1, <2>2 DEF ContinueEnd
<1>24. CASE Ready(th)
  <2>1. PICK g : g = [f EXCEPT !.list = Tail(@)]
    OBVIOUS
  <2>2. g.at # "on_completed"
    BY <1>0, <1>1, <1>24, <2>1 DEF Frames, Ready, At
  <2> QED BY <1>0, <1>3, <1>5, <1>24, <2>1, <2>2 DEF Ready
<1>25. ~WorkerStep(th)
  BY DEF WorkerStep, WorkerLoop, WorkerTake, WorkerExit
<1> QED BY <1>9, <1>18, <1>19, <1>20, <1>21, <1>25, <1>10, <1>11, <1>12, <1>13, <1>14, <1>15, <1>16, <1>17, <1>22, <1>23, <1>24
       DEF Moves, ThreadStep, ApiStep, CompletionStep

\* A record in on_completed is put there by a step at the end of that body.
LEMMA EndsOwnBody ==
  ASSUME TaskInv, NEW th \in Threads, Moves(th), NEW x \in Threads, NEW j \in 1..Len(stack'[x]),
         ~RestRecord(th, x, j), stack'[x][j].at = "on_completed", stack[th] # <<>>
  PROVE  Top(th).at = "call" /\ stack'[x][j].who = Top(th).who
<1>0. PICK m : m = Len(stack[th])
  OBVIOUS
<1>1. StackOK /\ m \in Nat \ {0} /\ stack \in [Threads -> Seq(GoodFrames)]
  BY <1>0, TopGood DEF TaskInv, StackOK
<1>2. ASSUME NEW fs, Goto(th, fs), NEW n, n = Len(fs), n \in Nat, fs \in Seq({fs[k] : k \in 1..n})
      PROVE  \E k \in 1..n : stack'[x][j] = fs[k]
  <2>1. PICK p : p = SubSeq(stack[th], 1, m - 1)
    OBVIOUS
  <2>2. p \in Seq(GoodFrames) /\ Len(p) = m - 1
    BY <1>0, <1>1, <2>1
  <2>3. stack' = [stack EXCEPT ![th] = p \o fs]
    BY <1>0, <1>2, <2>1 DEF Goto
  <2>4. x = th
    <3>1. ASSUME x # th PROVE FALSE
      <4>1. stack'[x] = stack[x]
        BY <1>1, <2>3, <3>1
      <4> QED BY <3>1, <4>1 DEF RestRecord
    <3> QED BY <3>1
  <2>5. stack'[th] = p \o fs
    BY <1>1, <2>3
  <2>6. PICK S : S = GoodFrames \cup {fs[k] : k \in 1..n}
    OBVIOUS
  <2>7. p \in Seq(S) /\ fs \in Seq(S)
    BY <1>2, <2>2, <2>6
  <2>8. Len(p \o fs) = m - 1 + n /\ \A k \in 1..(m - 1 + n) : k > m - 1 => (p \o fs)[k] = fs[k - (m - 1)]
    <3>1. Len(p \o fs) = Len(p) + Len(fs) /\ Len(p) \in Nat /\ Len(fs) \in Nat
          /\ \A k \in 1..(Len(p) + Len(fs)) : (p \o fs)[k] = IF k <= Len(p) THEN p[k] ELSE fs[k - Len(p)]
      BY <2>7
    <3>2. Len(p) = m - 1 /\ Len(fs) = n
      BY <1>2, <2>2
    <3> QED BY <1>1, <3>1, <3>2
  <2>9. j \in 1..(m - 1 + n)
    BY <2>4, <2>5, <2>8
  <2>10. ~(j \in 1..m /\ j # m)
    BY <1>0, <2>4 DEF RestRecord
  <2>11. j > m - 1 /\ j - (m - 1) \in 1..n
    BY <1>1, <1>2, <2>9, <2>10
  <2>12. stack'[x][j] = fs[j - (m - 1)]
    BY <2>4, <2>5, <2>8, <2>9, <2>11
  <2> QED BY <2>11, <2>12
<1>3. ASSUME NEW g, Goto(th, <<g>>) PROVE stack'[x][j] = g
  <2>1. PICK fs : fs = <<g>>
    OBVIOUS
  <2>2. Len(fs) = 1 /\ fs \in Seq({fs[k] : k \in 1..1}) /\ fs[1] = g /\ \A k \in 1..1 : k = 1
    BY <2>1
  <2>3. \E k \in 1..1 : stack'[x][j] = fs[k]
    BY <1>2, <1>3, <2>1, <2>2, ZenonT(60)
  <2> QED BY <2>2, <2>3
<1>4. ASSUME NEW g, NEW h, Goto(th, <<g, h>>) PROVE stack'[x][j] \in {g, h}
  <2>1. PICK fs : fs = <<g, h>>
    OBVIOUS
  <2>2. Len(fs) = 2 /\ fs \in Seq({fs[k] : k \in 1..2}) /\ fs[1] = g /\ fs[2] = h /\ \A k \in 1..2 : k = 1 \/ k = 2
    BY <2>1
  <2>3. \E k \in 1..2 : stack'[x][j] = fs[k]
    <3>1. Goto(th, fs) /\ 2 = Len(fs) /\ 2 \in Nat /\ fs \in Seq({fs[k] : k \in 1..2})
      BY <1>4, <2>1, <2>2
    <3> QED BY <1>2, <3>1, Zenon
  <2> QED BY <2>2, <2>3
<1>5. ASSUME Goto(th, <<>>) PROVE FALSE
  <2>1. NoneAfter(th)
    BY <1>1, <1>5, GotoAfter
  <2> QED BY <2>1 DEF NoneAfter
<1>6. BodyEnd(th)
  <2>1. ~PlainGoto(th)
    BY <1>3, <1>4, <1>5 DEF PlainGoto
  <2> QED BY <2>1, PlainSteps
<1>7. Top(th).at = "call"
  BY <1>6 DEF BodyEnd, At
<1>8. PICK g : g = Frame("on_completed", Top(th).who, 0, <<>>)
  OBVIOUS
<1>9. g.who = Top(th).who
  BY <1>8 DEF Frame
<1>10. Goto(th, <<g>>) \/ Goto(th, <<>>)
  BY <1>6, <1>8 DEF BodyEnd
<1> QED BY <1>3, <1>5, <1>7, <1>9, <1>10

\* The records that an idle worker gets.
LEMMA IdleTakes ==
  ASSUME TaskInv, NEW th \in Threads, Moves(th), stack[th] = <<>>,
         NEW x \in Threads, NEW j \in 1..Len(stack'[x]), ~RestRecord(th, x, j)
  PROVE  x = th /\ j = 1 /\ stack'[x][j].at # "on_completed"
<1>1. WorkerStep(th)
  <2>1. ~ApiStep(th)
    BY DEF ApiStep, AtCall, At, run, stop, join, run_async, schedule, await, add_continuation,
           await_suspend, resume, get, GetReturn, wait, Register, FetchAdd, ScheduleEnd
  <2>2. ~CompletionStep(th)
    BY DEF CompletionStep, At, Throw, BodyEnd, on_completed, resume_continuations, Continue,
           ContinueEnd, Release, ReleaseEnd, Ready
  <2>3. ~Passes(th)
    BY DEF Passes, AtCall, At
  <2> QED BY <2>1, <2>2, <2>3 DEF Moves, ThreadStep
<1>2. StackOK /\ PoolOK
  BY DEF TaskInv
<1>3. CASE stack' = stack
  BY <1>2, <1>3, WorkerAfter DEF NoneAfter
<1>4. CASE WorkerTake(th)
  <2>1. PICK u : u = Head(m_jobs).task
    OBVIOUS
  <2>2. u \in Tasks /\ u \in Owners
    <3>1. m_jobs \in Seq(Jobs) /\ m_jobs # <<>>
      BY <1>2, <1>4 DEF WorkerTake, PoolOK
    <3>2. Head(m_jobs) \in Jobs
      BY <3>1
    <3> QED BY <2>1, <3>2 DEF Jobs, Owners
  <2>3. PICK g, h : g = Body(u, 1) /\ h = Frame("resume", u, 0, <<>>)
    BY Zenon
  <2>4. g.at # "on_completed" /\ h.at # "on_completed"
    BY <2>3 DEF Body, Frame
  <2>5. stack' \in {[stack EXCEPT ![th] = <<g>>], [stack EXCEPT ![th] = <<h>>], [stack EXCEPT ![th] = <<>>]}
    BY <1>4, <2>1, <2>3 DEF WorkerTake
  <2>6. ASSUME NEW e, e.at # "on_completed", stack' = [stack EXCEPT ![th] = <<e>>]
        PROVE  x = th /\ j = 1 /\ stack'[x][j].at # "on_completed"
    <3>1. stack'[th] = <<e>> /\ \A y \in Threads \ {th} : stack'[y] = stack[y]
      BY <1>2, <2>6 DEF StackOK
    <3>2. x = th
      BY <3>1 DEF RestRecord
    <3>3. Len(<<e>>) = 1 /\ <<e>>[1] = e /\ \A k \in 1..1 : k = 1
      OBVIOUS
    <3> QED BY <2>6, <3>1, <3>2, <3>3
  <2>7. ASSUME stack' = [stack EXCEPT ![th] = <<>>] PROVE stack' = stack
    BY <1>2, <2>7 DEF StackOK
  <2> QED BY <1>3, <2>4, <2>5, <2>6, <2>7
<1> QED BY <1>1, <1>3, <1>4 DEF WorkerStep, WorkerLoop, WorkerExit

\* A task is entered when it is resumed or taken from the queue.
Enters(th, u) ==
  \/ stack[th] # <<>> /\ Top(th).at = "resume" /\ Top(th).who = u
  \/ stack[th] = <<>> /\ stack'[th][1].who = u

\* A task that begins in a step is entered in it, its dependencies are met, and
\* it does not complete in the same step.
LEMMA Beginning ==
  ASSUME SoundUse, TaskInv, CountInv, TokenInv, NEW th \in Threads, Moves(th), NEW u \in Tasks,
         ~completed[u], ~Begun(u), completed'[u] \/ Begun(u)'
  PROVE  ~completed'[u] /\ DepsMet(u) /\ Enters(th, u)
<1>1. ASSUME stack[th] # <<>>, Top(th).who = u PROVE Top(th).at \notin BodyPoints \cup CompletionPoints
  BY <1>1, TopBegun
<1>2. "call" \in BodyPoints /\ "on_completed" \in CompletionPoints
  BY DEF BodyPoints, CompletionPoints
<1>3. ~completed'[u]
  BY <1>1, <1>2, TaskSteps
<1>4. suspendedAt'[u] = 0
  BY <1>1, <1>2, TaskSteps, BegunWhere
<1>5. HasRecord(u, BodyPoints \cup CompletionPoints)'
  BY <1>3, <1>4, BegunWhere
<1>6. PICK x \in Threads : \E j \in 1..Len(stack'[x]) :
        stack'[x][j].who = u /\ stack'[x][j].at \in BodyPoints \cup CompletionPoints
  BY <1>5 DEF HasRecord
<1>7. PICK j \in 1..Len(stack'[x]) : stack'[x][j].who = u /\ stack'[x][j].at \in BodyPoints \cup CompletionPoints
  BY <1>6
<1>8. PICK g : g = stack'[x][j]
  OBVIOUS
<1>9. ~RestRecord(th, x, j)
  <2>1. ASSUME RestRecord(th, x, j) PROVE FALSE
    <3>1. stack[x][j] = stack'[x][j] /\ j \in 1..Len(stack[x])
      BY <2>1, StepEffect DEF Effect, Kept, RestRecord
    <3>2. HasRecord(u, BodyPoints \cup CompletionPoints)
      BY <1>7, <3>1 DEF HasRecord
    <3> QED BY <3>2, BegunWhere
  <2> QED BY <2>1
<1>10. NewSound(th, g)
  BY <1>8, <1>9, StepEffect DEF Effect
<1>11. g.at # "on_completed"
  <2>1. CASE stack[th] = <<>>
    BY <1>8, <1>9, <2>1, IdleTakes
  <2>2. CASE stack[th] # <<>>
    BY <1>1, <1>2, <1>7, <1>8, <1>9, <2>2, EndsOwnBody
  <2> QED BY <2>1, <2>2
<1>12. g.at \in BodyPoints
  <2>1. RecordSound(g)'
    BY <1>10 DEF NewSound
  <2>2. g.at \in CompletionPoints \ {"on_completed"} => completed'[g.who]
    BY <2>1 DEF RecordSound
  <2> QED BY <1>3, <1>7, <1>8, <1>11, <2>2
<1>13. BodyMove(th, g) /\ g.who = u
  BY <1>7, <1>8, <1>10, <1>12 DEF NewSound
<1>14. CASE stack[th] # <<>>
  <2>1. Top(th).at = "resume" /\ Top(th).who = u
    BY <1>1, <1>13, <1>14 DEF BodyMove
  <2>2. PICK m : m = Len(stack[th])
    OBVIOUS
  <2>3. RecordHolds(Top(th), th, m, OfferPlace(th, m), u)
    BY <2>1 DEF RecordHolds
  <2>4. Held(OfferPlace(th, m), u)
    BY <1>14, <2>2, <2>3, TopFacts
  <2>5. DepsMet(u)
    BY <2>4, ReadyNotDone, PlaceParts
  <2> QED BY <1>3, <1>14, <2>1, <2>5 DEF Enters
<1>15. CASE stack[th] = <<>>
  <2>1. Held(JobPlace, u)
    BY <1>13, <1>15 DEF BodyMove
  <2>2. DepsMet(u)
    BY <2>1, ReadyNotDone, PlaceParts
  <2>3. x = th /\ j = 1
    BY <1>9, <1>15, IdleTakes
  <2> QED BY <1>3, <1>7, <1>15, <2>2, <2>3 DEF Enters
<1> QED BY <1>14, <1>15

\* Every step begins a task, completes one, or changes the phase of none.
LEMMA DagStep ==
  ASSUME SoundUse, TaskInv, CountInv, TokenInv, FromOne, NEW th \in Threads, Moves(th)
  PROVE  [Dag!Next]_(Dag!vars)
<1>1. /\ phaseOf = [t \in Tasks |-> phaseOf[t]]
      /\ \A t \in Tasks : /\ completed[t] => phaseOf[t] = "completed"
                          /\ ~completed[t] /\ Begun(t) => phaseOf[t] = "running"
                          /\ ~completed[t] /\ ~Begun(t) => phaseOf[t] = "created"
  BY DEF phaseOf
<1>2. PICK q : q = phaseOf'
  OBVIOUS
<1>3. /\ q = [t \in Tasks |-> q[t]]
      /\ \A t \in Tasks : /\ completed'[t] => q[t] = "completed"
                          /\ ~completed'[t] /\ Begun(t)' => q[t] = "running"
                          /\ ~completed'[t] /\ ~Begun(t)' => q[t] = "created"
  BY <1>2 DEF phaseOf
<1>4. ASSUME NEW t \in Tasks, completed'[t] = completed[t], ~Enters(th, t) PROVE q[t] = phaseOf[t]
  <2>1. CASE completed[t]
    <3>1. completed'[t]
      BY <2>1, TaskSteps
    <3> QED BY <1>1, <1>3, <2>1, <3>1
  <2>2. CASE ~completed[t] /\ Begun(t)
    <3>1. Begun(t)'
      BY <1>4, <2>2, BegunStays
    <3> QED BY <1>1, <1>3, <1>4, <2>2, <3>1
  <2>3. CASE ~completed[t] /\ ~Begun(t)
    <3>1. ~Begun(t)'
      BY <1>4, <2>3, Beginning
    <3> QED BY <1>1, <1>3, <1>4, <2>3, <3>1
  <2> QED BY <2>1, <2>2, <2>3
<1>5. CASE stack[th] # <<>> /\ Top(th).at = "on_completed"
  <2>1. PICK t : t = Top(th).who
    OBVIOUS
  <2>2. t \in Tasks
    BY <1>5, <2>1, LibraryTask, PointNames DEF TaskInv
  <2>3. ~completed[t] /\ completed'[t] /\ Begun(t)
    BY <1>5, <2>1, <2>2, TopFacts, TaskSteps, TopBegun DEF RunPoints, CompletionPoints
  <2>4. phaseOf[t] = "running" /\ q[t] = "completed"
    BY <1>1, <1>3, <2>2, <2>3
  <2>5. ASSUME NEW u \in Tasks, u # t PROVE q[u] = phaseOf[u]
    <3>1. completed'[u] = completed[u]
      BY <2>1, <2>5, TaskSteps
    <3> QED BY <1>4, <1>5, <3>1 DEF Enters
  <2>6. q = [phaseOf EXCEPT ![t] = "completed"]
    BY <1>1, <1>3, <2>2, <2>4, <2>5
  <2>7. Dag!Complete(t)
    BY <1>2, <2>4, <2>6 DEF Dag!Complete
  <2> QED BY <2>2, <2>7 DEF Dag!Next
<1>6. CASE ~(stack[th] # <<>> /\ Top(th).at = "on_completed")
  <2>1. \A t \in Tasks : completed'[t] = completed[t]
    BY <1>6, TaskSteps
  <2>2. CASE \E u \in Tasks : ~completed[u] /\ ~Begun(u) /\ Begun(u)'
    <3>1. PICK u \in Tasks : ~completed[u] /\ ~Begun(u) /\ Begun(u)'
      BY <2>2
    <3>2. ~completed'[u] /\ DepsMet(u) /\ Enters(th, u)
      BY <3>1, Beginning
    <3>3. phaseOf[u] = "created" /\ q[u] = "running" /\ \A d \in Deps[u] : phaseOf[d] = "completed"
      <4>1. \A d \in Deps[u] : d \in Tasks
        BY DEF Deps
      <4> QED BY <1>1, <1>3, <3>1, <3>2, <4>1 DEF DepsMet
    <3>4. ASSUME NEW t \in Tasks, t # u PROVE q[t] = phaseOf[t]
      <4>1. ~Enters(th, t)
        BY <3>2, <3>4 DEF Enters
      <4> QED BY <1>4, <2>1, <4>1
    <3>5. q = [phaseOf EXCEPT ![u] = "running"]
      BY <1>1, <1>3, <3>3, <3>4
    <3>6. Dag!Begin(u)
      BY <1>2, <3>3, <3>5 DEF Dag!Begin
    <3> QED BY <3>6 DEF Dag!Next
  <2>3. CASE ~\E u \in Tasks : ~completed[u] /\ ~Begun(u) /\ Begun(u)'
    <3>1. ASSUME NEW t \in Tasks PROVE q[t] = phaseOf[t]
      <4>1. CASE completed[t]
        BY <1>1, <1>3, <2>1, <4>1
      <4>2. CASE ~completed[t] /\ Begun(t)
        <5>1. ~completed'[t] /\ Begun(t)'
          BY <2>1, <4>2, BegunStays
        <5> QED BY <1>1, <1>3, <4>2, <5>1
      <4>3. CASE ~completed[t] /\ ~Begun(t)
        <5>1. ~completed'[t] /\ ~Begun(t)'
          BY <2>1, <2>3, <4>3
        <5> QED BY <1>1, <1>3, <4>3, <5>1
      <4> QED BY <4>1, <4>2, <4>3
    <3>2. q = phaseOf
      BY <1>1, <1>3, <3>1
    <3> QED BY <1>2, <3>2 DEF Dag!vars
  <2> QED BY <2>2, <2>3
<1> QED BY <1>5, <1>6

\* docs/Architecture.md:102, "tasks start when dependencies finish", as TaskDag
\* states it: for every program that starts each task by one call and schedules a
\* task with several dependencies before them, each task begins once, after its
\* dependencies have completed, and completes once; nothing else that threads,
\* queues, counters and locks do can be seen.
THEOREM ScheduleIsADag == SoundUse => (Spec => Dag!Init /\ [][Dag!Next]_(Dag!vars))
<1> SUFFICES ASSUME SoundUse PROVE Spec => Dag!Init /\ [][Dag!Next]_(Dag!vars)
  OBVIOUS
<1> DEFINE I == ScheduleInv /\ FromOne
<1>1. Init => I
  BY InitInv, CountStart, TokenStart, FromOneStart DEF ScheduleInv
<1>2. Init => Dag!Init
  <2> SUFFICES ASSUME Init PROVE Dag!Init
    OBVIOUS
  <2>1. ASSUME NEW t \in Tasks PROVE ~completed[t] /\ ~Begun(t)
    <3>1. ~completed[t] /\ suspendedAt[t] = 0
      BY DEF Init
    <3>2. ASSUME NEW x \in Threads, NEW j \in 1..Len(stack[x]) PROVE stack[x][j].who # t
      <4>1. stack[x] = IF x \in Clients THEN <<Body(x, 1)>> ELSE <<>>
        BY DEF Init
      <4>2. CASE x \in Clients
        <5>1. stack[x] = <<Body(x, 1)>> /\ Len(<<Body(x, 1)>>) = 1 /\ <<Body(x, 1)>>[1] = Body(x, 1)
          BY <4>1, <4>2
        <5>2. stack[x][j] = Body(x, 1)
          BY <5>1
        <5>3. stack[x][j].who = x
          BY <5>2 DEF Body, Frame
        <5> QED BY <4>2, <5>3, OwnersAssumption
      <4>3. CASE x \notin Clients
        BY <3>2, <4>1, <4>3
      <4> QED BY <4>2, <4>3
    <3> QED BY <3>1, <3>2, BegunWhere DEF HasRecord
  <2> QED BY <2>1 DEF Dag!Init, phaseOf
<1>3. I /\ [Next]_vars => I'
  <2> SUFFICES ASSUME I, [Next]_vars PROVE I'
    OBVIOUS
  <2>1. ScheduleInv'
    BY ScheduleStep
  <2>2. CASE UNCHANGED vars
    BY <2>1, <2>2 DEF FromOne, vars
  <2>3. ASSUME NEW th \in Threads, ThreadStep(th) PROVE FromOne'
    <3>1. Moves(th) /\ TaskInv /\ CountInv /\ TokenInv
      BY <2>3 DEF Moves, ScheduleInv
    <3> QED BY <3>1, FromOneStep
  <2> QED BY <2>1, <2>2, <2>3 DEF Next
<1>4. I /\ [Next]_vars => [Dag!Next]_(Dag!vars)
  <2> SUFFICES ASSUME I, [Next]_vars PROVE [Dag!Next]_(Dag!vars)
    OBVIOUS
  <2>1. CASE UNCHANGED vars
    BY <2>1 DEF Dag!vars, phaseOf, Begun, Activations, Completing, Records, vars, taskVars
  <2>2. ASSUME NEW th \in Threads, ThreadStep(th) PROVE [Dag!Next]_(Dag!vars)
    <3>1. Moves(th) /\ TaskInv /\ CountInv /\ TokenInv
      BY <2>2 DEF Moves, ScheduleInv
    <3> QED BY <3>1, DagStep
  <2> QED BY <2>1, <2>2 DEF Next
<1> QED BY <1>1, <1>2, <1>3, <1>4, PTL DEF Spec

-----------------------------------------------------------------------------
(* FrameScheduler                                                          *)

\* How frames use the scheduler: every task has a name of its own (emplace drops
\* the token of a name that is taken), and the frame loop, not a task, waits.
FrameUse ==
  /\ \A s, t \in Tasks : Name[s] = Name[t] => s = t
  /\ \A t \in Tasks : \A i \in DOMAIN Program[t] : Program[t][i].op # "wait_for_all"

\* A token is found under the name of its task.
TokensOK == \A n \in DOMAIN m_tokens : m_tokens[n] \in Tasks /\ Name[m_tokens[n]] = n

\* What the calls of p before the k-th one have left behind.
Recorded(t) == Name[t] \in DOMAIN m_tokens
Behind(p, i) ==
  /\ Program[p][i].op = "emplace" => Recorded(Program[p][i].task)
  /\ Program[p][i].op = "wait_for_all" =>
       \A j \in 1..(i - 1) : Program[p][j].op = "emplace" => completed[Program[p][j].task]
AllBehind(p, k) == \A i \in DOMAIN Program[p] : i < k => Behind(p, i)

BarrierInv == \A th \in Threads : \A j \in 1..Len(stack[th]) :
                stack[th][j].who \in Clients => AllBehind(stack[th][j].who, stack[th][j].pc)

-----------------------------------------------------------------------------
\* The two calls of FrameScheduler move their thread to the next call.
LEMMA FrameCall ==
  ASSUME TaskInv, NEW th \in Threads, emplace(th) \/ wait_for_all(th)
  PROVE  /\ TaskInv' /\ completed' = completed
         /\ stack[th] # <<>> /\ Top(th) \in GoodFrames
         /\ Top(th).pc \in DOMAIN Program[Top(th).who] /\ Call(th).task \in Tasks
         /\ Program[Top(th).who][Top(th).pc] = Call(th)
         /\ \A x \in Threads : \A j \in 1..Len(stack'[x]) :
              \/ j \in 1..Len(stack[x]) /\ stack'[x][j] = stack[x][j]
              \/ /\ x = th /\ stack'[x][j].who = Top(th).who
                 /\ stack'[x][j].pc = Top(th).pc + 1
         /\ \A x \in Threads \ {th} : stack'[x] = stack[x]
         /\ Len(stack'[th]) = Len(stack[th]) /\ Top(th).at = "call" /\ (Top(th).at)' = "call"
         /\ \A i \in 1..(Len(stack[th]) - 1) : stack'[th][i] = stack[th][i]
         /\ Passes(th) /\ UNCHANGED taskVars
<1> USE DEF TaskInv
<1>1. \E op : AtCall(th, op)
  BY DEF emplace, wait_for_all
<1>2. /\ stack[th] # <<>> /\ Top(th) \in GoodFrames
      /\ Top(th).pc \in DOMAIN Program[Top(th).who] /\ Call(th).task \in Tasks
      /\ Program[Top(th).who][Top(th).pc] = Call(th)
  BY <1>1, CallType
<1>3. PICK g : g = Step(th)
  OBVIOUS
<1>4. g \in GoodFrames /\ g.who = Top(th).who /\ g.pc = Top(th).pc + 1
  BY <1>2, <1>3, NextCallGood DEF Step
<1>5. Goto(th, <<g>>) /\ UNCHANGED <<taskVars, poolVars>>
  BY <1>3 DEF emplace, wait_for_all
<1>6. <<g>> \in Seq(GoodFrames) /\ Len(<<g>>) = 1 /\ <<g>>[1] = g
  BY <1>4
<1>7. /\ StackOK'
      /\ \A x \in Threads \ {th} : stack'[x] = stack[x]
      /\ Len(stack'[th]) = Len(stack[th]) - 1 + Len(<<g>>)
      /\ \A i \in 1..(Len(stack[th]) - 1) : stack'[th][i] = stack[th][i]
      /\ \A i \in 1..Len(<<g>>) : stack'[th][Len(stack[th]) - 1 + i] = <<g>>[i]
  BY <1>2, <1>5, <1>6, GotoStack, Zenon
<1>8. TaskInv' /\ completed' = completed
  BY <1>5, <1>7 DEF taskVars, poolVars, TasksOK, PoolOK
<1>9. ASSUME NEW j \in 1..Len(stack'[th])
      PROVE  \/ j \in 1..Len(stack[th]) /\ stack'[th][j] = stack[th][j]
             \/ stack'[th][j] = g
  <2>1. Len(stack[th]) \in Nat \ {0}
    BY <1>2, TopGood
  <2>2. stack'[th][Len(stack[th])] = g /\ Len(stack'[th]) = Len(stack[th])
    BY <1>6, <1>7, <2>1
  <2>3. j \in 1..(Len(stack[th]) - 1) \/ j = Len(stack[th])
    BY <2>1, <2>2
  <2> QED BY <1>7, <2>1, <2>2, <2>3
<1>10. Len(stack'[th]) = Len(stack[th]) /\ Top(th).at = "call" /\ (Top(th).at)' = "call"
  <2>1. Len(stack[th]) \in Nat \ {0}
    BY <1>2, TopGood
  <2>2. stack'[th][Len(stack[th])] = g /\ Len(stack'[th]) = Len(stack[th])
    BY <1>6, <1>7, <2>1
  <2>3. g.at = "call" /\ Top(th).at = "call"
    BY <1>1, <1>2, <1>3, FrameFields DEF Step, Frames, AtCall, At
  <2> QED BY <2>2, <2>3 DEF Top
<1>11. Passes(th)
  BY DEF emplace, wait_for_all, Passes, poolVars
<1> QED BY <1>2, <1>4, <1>5, <1>7, <1>8, <1>9, <1>10, <1>11

\* A completed task stays completed, a recorded one recorded.
LEMMA BehindStays ==
  ASSUME TaskInv, [FrameNext]_frameVars
  PROVE  /\ \A t \in Tasks : completed[t] => completed'[t]
         /\ \A t : Recorded(t) => Recorded(t)'
<1>1. CASE UNCHANGED frameVars
  BY <1>1 DEF frameVars, vars, taskVars, Recorded
<1>2. ASSUME NEW th \in Threads, ThreadStep(th), UNCHANGED m_tokens
      PROVE  \A t \in Tasks : completed[t] => completed'[t]
  BY <1>2, CompletedSteps DEF on_completed, TaskInv, TasksOK
<1>3. ASSUME NEW th \in Threads, emplace(th) \/ wait_for_all(th)
      PROVE  /\ completed' = completed
             /\ \A t : Recorded(t) => Recorded(t)'
  BY <1>3, FrameCall DEF emplace, wait_for_all, Recorded
<1> QED BY <1>1, <1>2, <1>3 DEF FrameNext, FrameThreadStep, Recorded

\* Types.
LEMMA FrameTypeStep == TaskInv /\ [FrameNext]_frameVars => TaskInv'
<1> SUFFICES ASSUME TaskInv, [FrameNext]_frameVars PROVE TaskInv'
  OBVIOUS
<1>1. CASE UNCHANGED frameVars
  BY <1>1, StepInv DEF frameVars
<1>2. ASSUME NEW th \in Threads, ThreadStep(th) PROVE TaskInv'
  BY <1>2, StepInv DEF Next
<1>3. ASSUME NEW th \in Threads, emplace(th) \/ wait_for_all(th) PROVE TaskInv'
  BY <1>3, FrameCall
<1> QED BY <1>1, <1>2, <1>3 DEF FrameNext, FrameThreadStep

\* emplace records a task under its name; the other calls leave m_tokens alone.
LEMMA TokensStep == TaskInv /\ TokensOK /\ [FrameNext]_frameVars => TokensOK'
<1> SUFFICES ASSUME TaskInv, TokensOK, [FrameNext]_frameVars PROVE TokensOK'
  OBVIOUS
<1>1. CASE m_tokens' = m_tokens
  BY <1>1 DEF TokensOK
<1>2. ASSUME NEW th \in Threads, emplace(th) PROVE TokensOK'
  <2>1. Call(th).task \in Tasks
    BY <1>2, FrameCall
  <2> QED BY <1>2, <2>1 DEF emplace, TokensOK
<1> QED BY <1>1, <1>2 DEF FrameNext, FrameThreadStep, wait_for_all, frameVars

\* A call that is passed leaves behind what it should: wait_for_all finds every
\* token completed, hence every task that was recorded before.
LEMMA BarrierStep ==
  FrameUse /\ TaskInv /\ TokensOK /\ BarrierInv /\ [FrameNext]_frameVars => BarrierInv'
<1> SUFFICES ASSUME FrameUse, TaskInv, TokensOK, BarrierInv, [FrameNext]_frameVars,
                    NEW x \in Threads, NEW j \in 1..Len(stack'[x]),
                    NEW p \in Clients, p = stack'[x][j].who, NEW k, k = stack'[x][j].pc,
                    NEW i \in DOMAIN Program[p], i < k
             PROVE  Behind(p, i)'
  BY DEF BarrierInv, AllBehind
<1>1. p \in Owners /\ i \in Nat /\ \A n \in DOMAIN Program[p] : Program[p][n].task \in Tasks
  <2>1. p \in Owners
    BY DEF Owners
  <2>2. Program[p] \in Seq(Calls)
    BY <2>1, ProgramAssumption
  <2>3. \A n \in DOMAIN Program[p] : Program[p][n] \in Calls
    BY <2>2
  <2>4. \A n \in DOMAIN Program[p] : Program[p][n].task \in Tasks
    BY <2>3 DEF Calls
  <2> QED BY <2>1, <2>2, <2>4
<1>2. \A n \in 1..(i - 1) : n \in DOMAIN Program[p]
  BY <1>1, ProgramAssumption
<1>3. Behind(p, i) => Behind(p, i)'
  BY <1>1, <1>2, BehindStays DEF Behind
<1>4. CASE j \in 1..Len(stack[x]) /\ stack'[x][j] = stack[x][j]
  BY <1>3, <1>4 DEF BarrierInv, AllBehind
<1>5. ASSUME NEW th \in Threads, x = th, stack[th] # <<>>, Top(th) \in GoodFrames,
             Top(th).who = p, i < Top(th).pc
      PROVE  Behind(p, i)'
  <2>1. Len(stack[th]) \in 1..Len(stack[th]) /\ Top(th) = stack[th][Len(stack[th])]
    BY <1>5, TopGood DEF Top, TaskInv
  <2> QED BY <1>3, <1>5, <2>1 DEF BarrierInv, AllBehind
<1>6. ASSUME NEW th \in Threads, ThreadStep(th) PROVE Behind(p, i)'
  <2>1. ASSUME NEW g \in GoodFrames, x = th, stack'[x][j] = g, Move(th, g),
               stack[th] = <<>> => g.at \in LibraryPoints \/ EntersBody(g)
        PROVE  Behind(p, i)'
    <3> DEFINE f == Top(th)
    <3>1. g.who = p /\ g.pc = k /\ g.who \notin Tasks /\ g.at \notin LibraryPoints
      BY <2>1, FrameFields, OwnersAssumption DEF Fits
    <3>2. stack[th] # <<>> /\ (InsideACall(th, g) \/ PassesCall(th, g) \/ ContinuesBody(th, g))
      BY <2>1, <3>1 DEF Move, EntersBody, EndsBody
    <3>3. f \in GoodFrames /\ f.who = g.who /\ f.at \notin LibraryPoints
      BY <3>1, <3>2, TopGood, LibraryTask DEF InsideACall, PassesCall, ContinuesBody, TaskInv
    <3>4. InsideACall(th, g) \/ PassesCall(th, g)
      BY <3>2, <3>3, PointNames DEF ContinuesBody
    <3>5. CASE i < f.pc
      BY <1>5, <2>1, <3>1, <3>2, <3>3, <3>5
    <3>6. CASE ~(i < f.pc)
      <4>1. f.pc \in Nat
        BY <3>3, FrameFields
      <4>2. PassesCall(th, g) /\ i = f.pc
        BY <1>1, <3>1, <3>4, <3>6, <4>1 DEF InsideACall, PassesCall
      <4>3. Program[p][i].op \notin {"emplace", "wait_for_all"}
        BY <3>1, <3>3, <4>2 DEF PassesCall, Passable
      <4> QED BY <4>3 DEF Behind
    <3> QED BY <3>5, <3>6
  <2> QED BY <1>4, <1>6, <2>1, RecordsStep
<1>7. ASSUME NEW th \in Threads, emplace(th) \/ wait_for_all(th) PROVE Behind(p, i)'
  <2>1. /\ stack[th] # <<>> /\ Top(th) \in GoodFrames /\ completed' = completed
        /\ Program[Top(th).who][Top(th).pc] = Call(th) /\ Call(th).task \in Tasks
    BY <1>7, FrameCall
  <2>2. CASE x = th /\ p = Top(th).who /\ k = Top(th).pc + 1
    <3>1. Top(th).pc \in Nat
      BY <2>1, FrameFields
    <3>2. CASE i < Top(th).pc
      BY <1>5, <2>1, <2>2, <3>2
    <3>3. CASE i = Top(th).pc
      <4>1. CASE emplace(th)
        <5>1. Program[p][i].op = "emplace" /\ Recorded(Program[p][i].task)'
          BY <2>1, <2>2, <3>3, <4>1 DEF emplace, Recorded, AtCall
        <5> QED BY <5>1 DEF Behind
      <4>2. CASE wait_for_all(th)
        <5>1. Program[p][i].op = "wait_for_all" /\ \A n \in DOMAIN m_tokens : completed[m_tokens[n]]
          BY <2>1, <2>2, <3>3, <4>2 DEF wait_for_all, AtCall
        <5>2. ASSUME NEW n \in 1..(i - 1), Program[p][n].op = "emplace"
              PROVE  completed[Program[p][n].task]
          <6>1. n \in DOMAIN Program[p] /\ n < Top(th).pc /\ Program[p][n].task \in Tasks
            BY <1>1, <1>2, <3>3
          <6>2. Recorded(Program[p][n].task)
            <7>1. Len(stack[th]) \in 1..Len(stack[th]) /\ Top(th) = stack[th][Len(stack[th])]
              BY <2>1, TopGood DEF Top, TaskInv
            <7>2. Behind(p, n)
              BY <2>2, <6>1, <7>1 DEF BarrierInv, AllBehind
            <7> QED BY <5>2, <7>2 DEF Behind
          <6>3. m_tokens[Name[Program[p][n].task]] = Program[p][n].task
            BY <6>1, <6>2 DEF Recorded, TokensOK, FrameUse
          <6> QED BY <5>1, <6>2, <6>3 DEF Recorded
        <5> QED BY <2>1, <5>1, <5>2 DEF Behind
      <4> QED BY <1>7, <4>1, <4>2
    <3> QED BY <1>1, <2>2, <3>1, <3>2, <3>3
  <2> QED BY <1>4, <1>7, <2>2, FrameCall
<1>8. CASE UNCHANGED frameVars
  BY <1>4, <1>8 DEF frameVars, vars
<1> QED BY <1>6, <1>7, <1>8 DEF FrameNext, FrameThreadStep

\* Nobody is past a call at the start.
LEMMA BarrierStart == FrameInit => TaskInv /\ TokensOK /\ BarrierInv
<1> SUFFICES ASSUME FrameInit PROVE TaskInv /\ TokensOK /\ BarrierInv
  OBVIOUS
<1>1. TaskInv /\ TokensOK
  BY InitInv DEF FrameInit, TokensOK
<1>2. ASSUME NEW th \in Threads, NEW j \in 1..Len(stack[th]), stack[th][j].who \in Clients
      PROVE  AllBehind(stack[th][j].who, stack[th][j].pc)
  <2>1. stack[th] \in {<<>>, <<Body(th, 1)>>}
    BY DEF FrameInit, Init
  <2>2. stack[th][j] = Body(th, 1)
    <3>1. CASE stack[th] = <<>> BY <3>1
    <3>2. CASE stack[th] = <<Body(th, 1)>> BY <3>2
    <3> QED BY <2>1, <3>1, <3>2
  <2>3. stack[th][j].pc = 1 /\ stack[th][j].who \in Owners
    BY <1>2, <2>2 DEF Body, Frame, Owners
  <2> QED BY <2>3, ProgramAssumption DEF AllBehind
<1> QED BY <1>1, <1>2 DEF BarrierInv

\* The records of clients are those that PassedCalls looks at.
LEMMA BarrierMeaning == FrameUse /\ BarrierInv => BarrierCompletes
<1> SUFFICES ASSUME FrameUse, BarrierInv, NEW p \in Owners, NEW i \in PassedCalls(p),
                    Program[p][i].op = "wait_for_all",
                    NEW j \in 1..(i - 1), Program[p][j].op = "emplace"
             PROVE  completed[Program[p][j].task]
  BY DEF BarrierCompletes
<1>1. i \in DOMAIN Program[p] /\ p \notin Tasks /\ p \in Clients
  BY DEF PassedCalls, FrameUse, Owners
<1>2. \E th \in Threads : \E f \in Records(th) : f.who = p /\ i < f.pc
  BY <1>1 DEF PassedCalls
<1>3. Behind(p, i)
  BY <1>1, <1>2 DEF Records, BarrierInv, AllBehind
<1> QED BY <1>3 DEF Behind

\* FrameScheduler::wait_for_all (FrameScheduler.cpp:40-44), "Blocks until all
\* in-flight frame tasks reach completion": for every program in which each task
\* has a name of its own and the clients do the waiting, a client past
\* wait_for_all finds every task that it recorded before completed, whatever the
\* other clients, the tasks and the workers do meanwhile.
THEOREM BarrierAlways == FrameSpec => [](FrameUse => BarrierCompletes)
<1> DEFINE I == TaskInv /\ TokensOK /\ (FrameUse => BarrierInv)
<1>1. FrameInit => I
  BY BarrierStart
<1>2. I /\ [FrameNext]_frameVars => I'
  <2> SUFFICES ASSUME I, [FrameNext]_frameVars PROVE I'
    OBVIOUS
  <2>1. TaskInv' /\ TokensOK'
    BY FrameTypeStep, TokensStep
  <2>2. FrameUse => BarrierInv'
    BY BarrierStep
  <2>3. FrameUse' <=> FrameUse
    BY DEF FrameUse
  <2> QED BY <2>1, <2>2, <2>3
<1>3. I => (FrameUse => BarrierCompletes)
  BY BarrierMeaning
<1> QED BY <1>1, <1>2, <1>3, PTL DEF FrameSpec

-----------------------------------------------------------------------------
(* Delays.                                                                 *)

\* The two calls touch no counter and no registration.
LEMMA FrameCounts ==
  ASSUME TaskInv, NestInv, CountInv, NEW th \in Threads, emplace(th) \/ wait_for_all(th)
  PROVE  NestInv' /\ CountInv'
<1>1. /\ \A x \in Threads \ {th} : stack'[x] = stack[x]
      /\ Len(stack'[th]) = Len(stack[th]) /\ Top(th).at = "call" /\ (Top(th).at)' = "call"
      /\ \A i \in 1..(Len(stack[th]) - 1) : stack'[th][i] = stack[th][i]
      /\ UNCHANGED taskVars
  BY FrameCall
<1>2. NestInv'
  <2>1. ASSUME NEW x \in Threads, NEW j \in 1..(Len(stack'[x]) - 1) PROVE stack'[x][j].at \in NestingPoints
    BY <1>1 DEF NestInv
  <2> QED BY <2>1 DEF NestInv
<1>3. ASSUME NEW t \in Tasks PROVE InFlight(t)' = InFlight(t)
  <2>1. ~At(th, "fetch_add") /\ ~At(th, "fetch_add")'
    BY <1>1 DEF At
  <2>2. \A x \in Threads \ {th} : /\ At(x, "fetch_add")' <=> At(x, "fetch_add")
                                  /\ Call(x)' = Call(x)
    BY <1>1 DEF At, Call, Top
  <2> QED BY <2>1, <2>2 DEF InFlight
<1>4. ASSUME NEW t \in Tasks PROVE Counted(t)'
  BY <1>1, <1>3 DEF CountInv, Counted, taskVars
<1> QED BY <1>2, <1>4 DEF CountInv

\* A step of FrameScheduler is a step of TaskScheduler or passes a call.
LEMMA FrameScheduleStep == ScheduleInv /\ [FrameNext]_frameVars => ScheduleInv'
<1> SUFFICES ASSUME ScheduleInv, [FrameNext]_frameVars PROVE ScheduleInv'
  OBVIOUS
<1>1. CASE UNCHANGED frameVars
  BY <1>1, ScheduleStep DEF frameVars
<1>2. ASSUME NEW th \in Threads, ThreadStep(th) PROVE ScheduleInv'
  BY <1>2, ScheduleStep DEF Next
<1>3. ASSUME NEW th \in Threads, emplace(th) \/ wait_for_all(th) PROVE ScheduleInv'
  <2>1. TaskInv /\ NestInv /\ CountInv /\ (SoundUse => TokenInv)
    BY DEF ScheduleInv
  <2>2. TaskInv' /\ NestInv' /\ CountInv' /\ Moves(th)
    BY <1>3, <2>1, FrameCall, FrameCounts DEF Moves
  <2>3. SoundUse => TokenInv'
    BY <2>1, <2>2, TokenStep
  <2> QED BY <2>2, <2>3, SoundUseStays DEF ScheduleInv
<1> QED BY <1>1, <1>2, <1>3 DEF FrameNext, FrameThreadStep

\* The delay of a task is one of its dependencies.
LEMMA DelayIsDependency ==
  ASSUME NEW p \in Owners, NEW i \in DOMAIN Program[p], Delays(p, i)
  PROVE  Program[p][i + 1].task \in Tasks /\ Program[p][i].task \in Deps[Program[p][i + 1].task]
<1>1. PICK k, l, t, d : k = i + 1 /\ l = Program[p][k].deps /\ t = Program[p][k].task /\ d = Program[p][i].task
  BY Zenon
<1>2. k \in DOMAIN Program[p] /\ Program[p][k].op = "schedule" /\ l # <<>> /\ l[Len(l)] = d
  BY <1>1 DEF Delays
<1>3. l \in Seq(Tasks) /\ t \in Tasks /\ d \in Tasks
  <2>1. Program[p] \in Seq(Calls)
    BY ProgramAssumption
  <2>2. Program[p][k] \in Calls /\ Program[p][i] \in Calls
    BY <1>2, <2>1
  <2> QED BY <1>1, <2>2 DEF Calls
<1>4. Len(l) \in DOMAIN l
  BY <1>2, <1>3
<1>5. d \in Deps[t]
  BY <1>1, <1>2, <1>3, <1>4 DEF Deps
<1> QED BY <1>1, <1>3, <1>5

\* FrameScheduler.h:48, "Duration to wait before the task becomes eligible for
\* execution": for every program that starts each task by one call and gives a
\* task at most one dependency or schedules it before them, the sleeping coroutine
\* of schedule_after has completed when the body of the delayed task is entered.
\* schedule_after starts the coroutine first, so the delayed tasks it speaks of are
\* those without further prerequisites; TaskRootsFirst shows why the others fail.
THEOREM DelaysElapse == FrameSpec => [](SoundUse => DelayElapsesFirst)
<1>1. FrameInit => ScheduleInv
  BY InitInv, CountStart, TokenStart DEF FrameInit, ScheduleInv
<1>2. ScheduleInv => (SoundUse => DelayElapsesFirst)
  <2> SUFFICES ASSUME ScheduleInv, SoundUse, NEW p \in Owners, NEW i \in DOMAIN Program[p],
                      Delays(p, i), Begun(Program[p][i + 1].task)
               PROVE  completed[Program[p][i].task]
    BY DEF DelayElapsesFirst
  <2>1. PICK t, d : t = Program[p][i + 1].task /\ d = Program[p][i].task
    BY Zenon
  <2>2. t \in Tasks /\ d \in Deps[t] /\ Begun(t)
    BY <2>1, DelayIsDependency
  <2> QED BY <2>1, <2>2, BegunMeaning DEF ScheduleInv, DepsMet
<1> QED BY <1>1, <1>2, FrameScheduleStep, PTL DEF FrameSpec
=============================================================================
