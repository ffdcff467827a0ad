---------------------------- MODULE StorageProofs ----------------------------
(***************************************************************************)
(* The managers' ledgers and the order of log entries, for every number of *)
(* threads, addresses, channels and tags; and what an arena hands out, for *)
(* every capacity and all sizes and alignments whose sums stay below the   *)
(* width of size_t; the free list of the pool, for every block count;      *)
(* the storage of vectors, for any of them and every small capacity; and   *)
(* the three maps, for any keys, values and sizes.                         *)
(***************************************************************************)
EXTENDS MemoryTracking, BlockAllocators, SoulVector, SoulMaps, TLAPS, WellFoundedInduction, FiniteSetTheorems, SequenceTheorems

-----------------------------------------------------------------------------
(* Log                                                                     *)

CallShape(c) ==
  /\ c = [at |-> c.at, level |-> c.level, left |-> c.left, entry |-> c.entry]
  /\ c.at \in {"out", "lock", "write"}

\* Whoever writes holds the mutex and writes the latest entry, so no channel gets
\* an older entry after a younger one.
LogInv ==
  /\ logging = [th \in LogThreads |-> logging[th]]
  /\ \A th \in LogThreads : CallShape(logging[th])
  /\ entries \in Nat
  /\ written \in [Channels -> Seq(Nat)]
  /\ \A th \in LogThreads :
       logging[th].at = "write" => logMutex = th /\ logging[th].entry = entries
  /\ \A c \in Channels : \A i \in DOMAIN written[c] : written[c][i] <= entries
  /\ \A c \in Channels : \A i, j \in DOMAIN written[c] : i < j => written[c][i] <= written[c][j]

\* The fields of a call of Log when the channels left change.
LEMMA CallLeft ==
  ASSUME NEW c, NEW y, NEW new, CallShape(c), new = [c EXCEPT !.left = y]
  PROVE  CallShape(new) /\ new.at = c.at /\ new.entry = c.entry
<1>1. PICK a, l, f, e : c = [at |-> a, level |-> l, left |-> f, entry |-> e] BY DEF CallShape
<1>2. new = [at |-> a, level |-> l, left |-> y, entry |-> e] BY <1>1
<1>3. c.at = a /\ c.entry = e /\ a \in {"out", "lock", "write"} BY <1>1 DEF CallShape
<1> QED BY <1>2, <1>3 DEF CallShape

\* A call of Log begins.
LEMMA LogEntered ==
  ASSUME LogInv, NEW th \in LogThreads, NEW level, ~Logs(th), EnterLog(th, level),
         UNCHANGED <<logMutex, logChannels, minLogLevel, entries, written>>
  PROVE  LogInv' /\ \A o \in LogThreads : o # th => (Logs(o)' <=> Logs(o))
<1> DEFINE new == [at |-> "lock", level |-> level, left |-> <<>>, entry |-> 0]
<1>1. logging' = [logging EXCEPT ![th] = new] BY DEF EnterLog
<1>2. CallShape(new) /\ new.at = "lock" BY DEF CallShape
<1> HIDE DEF new
<1>3. \A o \in LogThreads : logging'[o] = IF o = th THEN new ELSE logging[o] BY <1>1 DEF LogInv
<1>4. logging' = [o \in LogThreads |-> logging'[o]] BY <1>1 DEF LogInv
<1>5. \A o \in LogThreads : CallShape(logging'[o]) BY <1>2, <1>3 DEF LogInv
<1>6. \A o \in LogThreads : logging'[o].at = "write" => logMutex' = o /\ logging'[o].entry = entries'
  BY <1>2, <1>3 DEF LogInv
<1>7. LogInv' BY <1>4, <1>5, <1>6 DEF LogInv, CallShape
<1> QED BY <1>3, <1>7 DEF Logs

\* Log takes the mutex, or drops the entry.
LEMMA LogLocked ==
  ASSUME LogInv, NEW th \in LogThreads, LogLock(th)
  PROVE  LogInv' /\ \A o \in LogThreads : Logs(o)' => Logs(o)
<1>1. logging[th].at = "lock" /\ logMutex = Nobody /\ UNCHANGED written BY DEF LogLock
<1>2. \A o \in LogThreads : logging[o].at # "write" BY <1>1, LogAssumption DEF LogInv
<1>3. CASE logging' = [logging EXCEPT ![th] = NotLogging] /\ UNCHANGED <<logMutex, entries>>
  <2>1. CallShape(NotLogging) /\ NotLogging.at = "out" BY DEF CallShape, NotLogging
  <2>2. \A o \in LogThreads : logging'[o] = IF o = th THEN NotLogging ELSE logging[o] BY <1>3 DEF LogInv
  <2>3. logging' = [o \in LogThreads |-> logging'[o]] BY <1>3 DEF LogInv
  <2>4. \A o \in LogThreads : CallShape(logging'[o]) /\ logging'[o].at # "write"
    BY <1>2, <2>1, <2>2 DEF LogInv
  <2>5. LogInv' BY <1>1, <1>3, <2>3, <2>4 DEF LogInv, CallShape
  <2> QED BY <2>1, <2>2, <2>5 DEF Logs
<1>4. CASE /\ logMutex' = th /\ entries' = entries + 1
           /\ \E rest : logging' = [logging EXCEPT ![th].at = "write", ![th].entry = entries + 1, ![th].left = rest]
  <2>1. PICK rest : logging' = [logging EXCEPT ![th].at = "write", ![th].entry = entries + 1, ![th].left = rest]
    BY <1>4
  <2>2. PICK c : c = logging[th] OBVIOUS
  <2> DEFINE new == [c EXCEPT !.at = "write", !.entry = entries + 1, !.left = rest]
  <2>3. logging' = [logging EXCEPT ![th] = new]
    BY <2>1, <2>2 DEF LogInv
  <2>4. CallShape(c) BY <2>2 DEF LogInv
  <2>5. CallShape(new) /\ new.at = "write" /\ new.entry = entries + 1
    <3>1. PICK a, l, f, e : c = [at |-> a, level |-> l, left |-> f, entry |-> e] BY <2>4 DEF CallShape
    <3>2. PICK c1 : c1 = [c EXCEPT !.at = "write"] OBVIOUS
    <3>3. PICK c2 : c2 = [c1 EXCEPT !.entry = entries + 1] OBVIOUS
    <3>4. new = [c2 EXCEPT !.left = rest] BY <3>2, <3>3
    <3>5. c1 = [at |-> "write", level |-> l, left |-> f, entry |-> e] BY <3>1, <3>2
    <3>6. c2 = [at |-> "write", level |-> l, left |-> f, entry |-> entries + 1] BY <3>3, <3>5
    <3> HIDE DEF new
    <3>7. new = [at |-> "write", level |-> l, left |-> rest, entry |-> entries + 1] BY <3>4, <3>6
    <3> QED BY <3>7 DEF CallShape
  <2> HIDE DEF new
  <2>6. \A o \in LogThreads : logging'[o] = IF o = th THEN new ELSE logging[o] BY <2>3 DEF LogInv
  <2>7. logging' = [o \in LogThreads |-> logging'[o]] BY <2>3 DEF LogInv
  <2>8. \A o \in LogThreads : CallShape(logging'[o]) BY <2>5, <2>6 DEF LogInv
  <2>9. \A o \in LogThreads : logging'[o].at = "write" => logMutex' = o /\ logging'[o].entry = entries'
    BY <1>2, <1>4, <2>5, <2>6
  <2>10. entries' \in Nat /\ \A c_ \in Channels : \A i \in DOMAIN written[c_] : written[c_][i] <= entries'
    <3>1. entries \in Nat /\ entries' = entries + 1 BY <1>4 DEF LogInv
    <3>2. \A c_ \in Channels : \A i \in DOMAIN written[c_] : written[c_][i] \in Nat /\ written[c_][i] <= entries
      BY DEF LogInv
    <3> QED BY <3>1, <3>2
  <2>11. LogInv' BY <1>1, <2>7, <2>8, <2>9, <2>10 DEF LogInv, CallShape
  <2> QED BY <1>1, <2>6, <2>11 DEF Logs
<1> QED BY <1>3, <1>4 DEF LogLock

\* One channel's Write.
LEMMA LogWritten ==
  ASSUME LogInv, NEW th \in LogThreads, LogWrite(th)
  PROVE  LogInv' /\ \A o \in LogThreads : Logs(o)' => Logs(o)
<1>1. /\ logging[th].at = "write" /\ UNCHANGED <<logMutex, entries>>
      /\ logging' = [logging EXCEPT ![th].left = Tail(logging[th].left)]
  BY DEF LogWrite, LogInv
<1>2. PICK c : c = logging[th] OBVIOUS
<1> DEFINE new == [c EXCEPT !.left = Tail(c.left)]
<1>3. logging' = [logging EXCEPT ![th] = new] BY <1>1, <1>2 DEF LogInv
<1>4. CallShape(c) BY <1>2 DEF LogInv
<1>5. CallShape(new) /\ new.at = "write" /\ new.entry = c.entry
  <2>1. PICK n : n = new OBVIOUS
  <2>2. CallShape(n) /\ n.at = c.at /\ n.entry = c.entry BY <1>4, <2>1, CallLeft
  <2> QED BY <1>1, <1>2, <2>1, <2>2
<1> HIDE DEF new
<1>6. \A o \in LogThreads : logging'[o] = IF o = th THEN new ELSE logging[o] BY <1>3 DEF LogInv
<1>7. logging' = [o \in LogThreads |-> logging'[o]] BY <1>3 DEF LogInv
<1>8. \A o \in LogThreads : CallShape(logging'[o]) BY <1>5, <1>6 DEF LogInv
<1>9. \A o \in LogThreads : logging'[o].at = "write" => logMutex' = o /\ logging'[o].entry = entries'
  BY <1>1, <1>2, <1>5, <1>6 DEF LogInv
<1>10. PICK e \in Nat : e = entries /\ \E x : written' = [written EXCEPT ![x] = Append(@, e)]
  BY <1>1 DEF LogWrite, LogInv
<1>11. entries \in Nat /\ written \in [Channels -> Seq(Nat)] BY DEF LogInv
<1>12. written' \in [Channels -> Seq(Nat)] /\ \A d \in Channels : written'[d] \in {written[d], Append(written[d], e)}
  <2>1. PICK x : written' = [written EXCEPT ![x] = Append(@, e)] BY <1>10
  <2>2. \A d \in Channels : written'[d] = IF d = x THEN Append(written[d], e) ELSE written[d]
    BY <1>11, <2>1
  <2>3. \A q \in Seq(Nat) : Append(q, e) \in Seq(Nat) OBVIOUS
  <2>4. \A d \in Channels : written'[d] \in Seq(Nat) BY <1>11, <2>2, <2>3
  <2>5. written' = [d \in Channels |-> written'[d]] BY <1>11, <2>1
  <2> QED BY <2>2, <2>4, <2>5
<1>13. ASSUME NEW d \in Channels
       PROVE  /\ \A i \in DOMAIN written'[d] : written'[d][i] <= entries
              /\ \A i, j \in DOMAIN written'[d] : i < j => written'[d][i] <= written'[d][j]
  <2>1. PICK w \in Seq(Nat) : w = written[d] BY <1>11
  <2>2. /\ \A i \in 1..Len(w) : w[i] \in Nat /\ w[i] <= entries
        /\ \A i, j \in 1..Len(w) : i < j => w[i] <= w[j]
    BY <2>1 DEF LogInv
  <2>3. CASE written'[d] = w BY <2>2, <2>3
  <2>4. CASE written'[d] = Append(w, e)
    <3>1. PICK v \in Seq(Nat) : v = Append(w, e)
      <4>1. Append(w, e) \in Seq(Nat) OBVIOUS
      <4> QED BY <4>1
    <3>2. /\ DOMAIN v = 1..(Len(w) + 1) /\ Len(w) \in Nat /\ v[Len(w) + 1] = e
          /\ \A i \in 1..Len(w) : v[i] = w[i]
      BY <3>1
    <3>3. \A i \in DOMAIN v : (i \in 1..Len(w) /\ i < Len(w) + 1) \/ i = Len(w) + 1 BY <3>2
    <3>4. \A i \in DOMAIN v : v[i] \in Nat /\ v[i] <= entries BY <1>10, <1>11, <2>2, <3>2, <3>3, SMTT(30)
    <3>5. ASSUME NEW i \in DOMAIN v, NEW j \in DOMAIN v, i < j PROVE v[i] <= v[j]
      <4>1. i \in 1..Len(w) BY <3>2, <3>3, <3>5
      <4>2. CASE j = Len(w) + 1 BY <1>10, <3>2, <3>4, <4>2
      <4>3. CASE j \in 1..Len(w) BY <2>2, <3>2, <3>5, <4>1, <4>3
      <4> QED BY <3>3, <4>2, <4>3
    <3> QED BY <2>4, <3>1, <3>4, <3>5
  <2> QED BY <1>12, <2>1, <2>3, <2>4
<1>14. LogInv' BY <1>1, <1>7, <1>8, <1>9, <1>11, <1>12, <1>13 DEF LogInv, CallShape
<1> QED BY <1>1, <1>6, <1>14 DEF Logs

\* Log returns and the mutex is free.
LEMMA LogReturned ==
  ASSUME LogInv, NEW th \in LogThreads, LogReturn(th)
  PROVE  LogInv' /\ \A o \in LogThreads : Logs(o)' => Logs(o)
<1>1. /\ logging[th].at = "write" /\ UNCHANGED <<entries, written>>
      /\ logging' = [logging EXCEPT ![th] = NotLogging]
  BY DEF LogReturn
<1>2. \A o \in LogThreads : o # th => logging[o].at # "write" BY <1>1 DEF LogInv
<1>3. CallShape(NotLogging) /\ NotLogging.at = "out" BY DEF CallShape, NotLogging
<1>4. \A o \in LogThreads : logging'[o] = IF o = th THEN NotLogging ELSE logging[o] BY <1>1 DEF LogInv
<1>5. logging' = [o \in LogThreads |-> logging'[o]] BY <1>1 DEF LogInv
<1>6. \A o \in LogThreads : CallShape(logging'[o]) /\ logging'[o].at # "write"
  BY <1>2, <1>3, <1>4 DEF LogInv
<1>7. LogInv' BY <1>1, <1>5, <1>6 DEF LogInv, CallShape
<1> QED BY <1>1, <1>4, <1>7 DEF Logs

\* The configuration is no part of the invariant.
LEMMA LogSame ==
  ASSUME LogInv, UNCHANGED <<logMutex, logging, entries, written>>
  PROVE  LogInv' /\ \A o \in LogThreads : Logs(o)' <=> Logs(o)
BY DEF LogInv, CallShape, Logs

\* Entries that come in order come in the same order everywhere.
LEMMA InOrder == ASSUME LogInv PROVE ChannelsAgree
<1> SUFFICES ASSUME NEW c \in Channels, NEW d \in Channels,
                    NEW i \in DOMAIN written[c], NEW j \in DOMAIN written[c],
                    NEW k \in DOMAIN written[d], NEW l \in DOMAIN written[d],
                    i < j, written[c][i] # written[c][j],
                    written[c][i] = written[d][k], written[c][j] = written[d][l], ~(k < l)
             PROVE  FALSE
  BY DEF ChannelsAgree
<1>1. written[c] \in Seq(Nat) /\ written[d] \in Seq(Nat) BY DEF LogInv
<1>2. /\ written[c][i] \in Nat /\ written[c][j] \in Nat /\ k \in Nat /\ l \in Nat
  BY <1>1
<1>3. written[c][i] <= written[c][j] BY DEF LogInv
<1>4. l < k \/ l = k BY <1>2
<1>5. CASE l = k BY <1>5
<1>6. CASE l < k
  <2>1. written[d][l] <= written[d][k] BY <1>6 DEF LogInv
  <2> QED BY <1>2, <1>3, <2>1
<1> QED BY <1>4, <1>5, <1>6

-----------------------------------------------------------------------------
(* Ledgers                                                                 *)

Object == [manager : Managers, tag : AllTags, listed : BOOLEAN]

Places == {"idle", "exchange", "new", "register", "registered", "unregister", "erase",
           "delete", "report"}

StepType == [at : Places, manager : Managers \cup {NoManager}, address : Addresses \cup {Nobody},
             tag : AllTags, leaks : SUBSET Addresses]

MemTypes ==
  /\ g_registry \in Managers \cup {NoManager}
  /\ memory \in [Addresses -> Object \cup {Free}]
  /\ step \in [LogThreads -> StepType]
  /\ DOMAIN allocations = Managers /\ allocations = [m \in Managers |-> allocations[m]]
  /\ \A m \in Managers : DOMAIN allocations[m] \subseteq Addresses

Working == {"register", "registered", "unregister", "erase", "delete"}

\* Thread th works on the object at address a.
Works(th, a) == step[th].at \in Working /\ step[th].address = a

\* What a thread in a call knows of its object, which is its own until it returns.
CallInv ==
  /\ \A th \in LogThreads :
       /\ step[th].at \in {"exchange", "new", "report"} => step[th].address = Nobody
       /\ step[th].at = "new" => step[th].manager \in Managers
       /\ step[th].at \in Working => step[th].address \in Addresses
  /\ \A th \in LogThreads, a \in Addresses : Works(th, a) =>
       /\ memory[a] # Free /\ memory[a].manager = step[th].manager
       /\ step[th].at = "register" => memory[a].tag = step[th].tag /\ ~memory[a].listed
       /\ step[th].at = "delete" => ~memory[a].listed
       /\ \A other \in LogThreads : Works(other, a) => other = th

\* The ledgers list what is marked as listed, under its tag.
Listed ==
  \A m \in Managers, a \in Addresses :
    /\ a \in DOMAIN allocations[m] <=> memory[a] # Free /\ memory[a].manager = m /\ memory[a].listed
    /\ a \in DOMAIN allocations[m] => allocations[m][a] = memory[a].tag

Installed == wanted # NoManager => g_registry = wanted

MemInv == MemTypes /\ CallInv /\ Listed /\ Installed

\* What a thread at place local.at must know of the object at the address it works on.
Knows(local, obj) ==
  /\ obj # Free /\ obj.manager = local.manager
  /\ local.at = "register" => obj.tag = local.tag /\ ~obj.listed
  /\ local.at = "delete" => ~obj.listed

\* A thread's own variables outside of its work on an object.
LocalFits(local) ==
  /\ local.at \in {"exchange", "new", "report"} => local.address = Nobody
  /\ local.at = "new" => local.manager \in Managers
  /\ local.at \in Working => local.address \in Addresses

\* One thread's step, in a call or between two, and the other threads'.
LEMMA OneStep ==
  ASSUME MemInv, NEW th \in LogThreads, NEW new \in StepType, step' = [step EXCEPT ![th] = new]
  PROVE  /\ step' \in [LogThreads -> StepType] /\ step'[th] = new
         /\ \A o \in LogThreads : o # th => step'[o] = step[o]
         /\ \A o \in LogThreads, a \in Addresses : o # th => (Works(o, a)' <=> Works(o, a))
<1>1. step \in [LogThreads -> StepType] BY DEF MemInv, MemTypes
<1>2. step' \in [LogThreads -> StepType] /\ step'[th] = new /\ \A o \in LogThreads : o # th => step'[o] = step[o]
  BY <1>1
<1> QED BY <1>2 DEF Works

\* A step that changes no object, and not the one the thread works on.
LEMMA NoObject ==
  ASSUME MemInv, NEW th \in LogThreads, NEW new \in StepType, step' = [step EXCEPT ![th] = new],
         new.at \notin Working, LocalFits(new), UNCHANGED <<memory, allocations>>
  PROVE  step' \in [LogThreads -> StepType] /\ CallInv' /\ Listed'
<1>1. /\ step' \in [LogThreads -> StepType] /\ step'[th] = new
      /\ \A o \in LogThreads : o # th => step'[o] = step[o]
      /\ \A o \in LogThreads, a \in Addresses : o # th => (Works(o, a)' <=> Works(o, a))
  BY OneStep
<1>2. \A a \in Addresses : ~Works(th, a)' BY <1>1 DEF Works, Working
<1>3. \A o \in LogThreads : LocalFits(step'[o]) BY <1>1 DEF MemInv, CallInv, LocalFits
<1>4. ASSUME NEW o \in LogThreads, NEW a \in Addresses, Works(o, a)'
      PROVE  Knows(step'[o], memory'[a]) /\ \A p \in LogThreads : Works(p, a)' => p = o
  <2>1. o # th /\ Works(o, a) /\ step'[o] = step[o] BY <1>1, <1>2, <1>4
  <2> QED BY <1>1, <1>2, <2>1 DEF MemInv, CallInv, Knows
<1>5. CallInv' BY <1>3, <1>4 DEF CallInv, LocalFits, Knows
<1>6. Listed' BY DEF MemInv, Listed
<1> QED BY <1>1, <1>5, <1>6

\* The ledgers after a step at address a: elsewhere, and there.
OthersKept(a) ==
  \A m \in Managers : \A b \in Addresses : b # a =>
    /\ b \in DOMAIN allocations'[m] <=> b \in DOMAIN allocations[m]
    /\ b \in DOMAIN allocations[m] => allocations'[m][b] = allocations[m][b]

EntryBecomes(a, obj) ==
  \A m \in Managers :
    /\ a \in DOMAIN allocations'[m] <=> obj # Free /\ obj.manager = m /\ obj.listed
    /\ a \in DOMAIN allocations'[m] => allocations'[m][a] = obj.tag

\* A step of the thread that works on the object at a, or comes to.
LEMMA OneObject ==
  ASSUME MemInv, NEW th \in LogThreads, NEW new \in StepType, step' = [step EXCEPT ![th] = new],
         NEW a \in Addresses, NEW obj \in Object \cup {Free}, memory' = [memory EXCEPT ![a] = obj],
         LocalFits(new), new.at \in Working => new.address = a /\ Knows(new, obj),
         \A o \in LogThreads : Works(o, a) => o = th,
         OthersKept(a), EntryBecomes(a, obj)
  PROVE  step' \in [LogThreads -> StepType] /\ memory' \in [Addresses -> Object \cup {Free}] /\ CallInv' /\ Listed'
<1>1. /\ step' \in [LogThreads -> StepType] /\ step'[th] = new
      /\ \A o \in LogThreads : o # th => step'[o] = step[o]
      /\ \A o \in LogThreads, b \in Addresses : o # th => (Works(o, b)' <=> Works(o, b))
  BY OneStep
<1>2. /\ memory' \in [Addresses -> Object \cup {Free}] /\ memory'[a] = obj
      /\ \A b \in Addresses : b # a => memory'[b] = memory[b]
  BY DEF MemInv, MemTypes
<1>3. \A o \in LogThreads : LocalFits(step'[o]) BY <1>1 DEF MemInv, CallInv, LocalFits
<1>4. \A b \in Addresses : Works(th, b)' => b = a /\ new.at \in Working BY <1>1 DEF Works, Working
<1>5. ASSUME NEW o \in LogThreads, NEW b \in Addresses, Works(o, b)'
      PROVE  Knows(step'[o], memory'[b]) /\ \A p \in LogThreads : Works(p, b)' => p = o
  <2>1. CASE o = th BY <1>1, <1>2, <1>4, <1>5, <2>1
  <2>2. CASE o # th
    <3>1. Works(o, b) /\ b # a /\ step'[o] = step[o] BY <1>1, <1>5, <2>2
    <3> QED BY <1>1, <1>2, <1>4, <2>2, <3>1 DEF MemInv, CallInv, Knows
  <2> QED BY <2>1, <2>2
<1>6. CallInv' BY <1>3, <1>5 DEF CallInv, LocalFits, Knows
<1>7. Listed'
  <2> SUFFICES ASSUME NEW m \in Managers, NEW b \in Addresses
               PROVE  /\ b \in DOMAIN allocations'[m] <=>
                           memory'[b] # Free /\ memory'[b].manager = m /\ memory'[b].listed
                      /\ b \in DOMAIN allocations'[m] => allocations'[m][b] = memory'[b].tag
    BY DEF Listed
  <2>1. CASE b = a BY <1>2, <2>1 DEF EntryBecomes
  <2>2. CASE b # a BY <1>2, <2>2 DEF MemInv, Listed, OthersKept
  <2> QED BY <2>1, <2>2
<1> QED BY <1>1, <1>2, <1>6, <1>7

\* What becomes of a thread's variables.
LEMMA GotoKeeps ==
  ASSUME NEW local \in StepType, NEW to \in Places
  PROVE  LET new == [local EXCEPT !.at = to]
         IN  /\ new \in StepType /\ new.at = to /\ new.manager = local.manager
             /\ new.address = local.address /\ new.tag = local.tag /\ new.leaks = local.leaks
BY DEF StepType

\* A thread outside every call of the tracked code.
LEMMA IdleStep == Idle \in StepType /\ Idle.at = "idle" /\ Idle.address = Nobody /\ LocalFits(Idle) /\ Idle.at \notin Working
BY DEF Idle, StepType, Places, AllTags, LocalFits, Working

\* Steps of a thread that touch no object.
LEMMA CallsStep ==
  ASSUME MemInv, NEW th \in LogThreads,
         \/ GetExchange(th) \/ (\E tag \in AllTags : Get(th, tag)) \/ reportLeaks(th)
         \/ ReportOne(th) \/ ReportReturn(th) \/ RegisterReturn(th)
  PROVE  step' \in [LogThreads -> StepType] /\ CallInv' /\ Listed'
<1>1. step[th] \in StepType /\ g_registry \in Managers \cup {NoManager} BY DEF MemInv, MemTypes
<1>2. UNCHANGED <<memory, allocations>>
  BY DEF GetExchange, Get, reportLeaks, ReportOne, ReportReturn, RegisterReturn
<1>3. CASE GetExchange(th)
  <2>1. PICK m \in Managers : m = g_registry' BY <1>1, <1>3 DEF GetExchange, Managers
  <2> DEFINE new == [step[th] EXCEPT !.at = "new", !.manager = m]
  <2>2. step' = [step EXCEPT ![th] = new] BY <1>3, <2>1 DEF GetExchange, MemInv, MemTypes
  <2>3. new \in StepType /\ new.at = "new" /\ new.manager = m /\ new.address = step[th].address
    BY <1>1 DEF StepType, Places
  <2> HIDE DEF new
  <2>4. step[th].at = "exchange" BY <1>3 DEF GetExchange
  <2>5. LocalFits(new) /\ new.at \notin Working BY <2>3, <2>4 DEF MemInv, CallInv, LocalFits, Working
  <2> QED BY <1>2, <2>2, <2>3, <2>5, NoObject
<1>4. ASSUME NEW tag \in AllTags, Get(th, tag) PROVE step' \in [LogThreads -> StepType] /\ CallInv' /\ Listed'
  <2> DEFINE new == [Idle EXCEPT !.at = IF g_registry = NoManager THEN "exchange" ELSE "new",
                                 !.manager = g_registry, !.tag = tag]
  <2>1. step' = [step EXCEPT ![th] = new] BY <1>4 DEF Get
  <2>2. /\ new \in StepType /\ new.manager = g_registry /\ new.address = Nobody
        /\ new.at = IF g_registry = NoManager THEN "exchange" ELSE "new"
    BY <1>1, IdleStep DEF StepType, Places
  <2> HIDE DEF new
  <2>3. LocalFits(new) /\ new.at \notin Working BY <1>1, <2>2 DEF LocalFits, Working
  <2> QED BY <1>2, <2>1, <2>2, <2>3, NoObject
<1>5. CASE reportLeaks(th)
  <2>1. PICK m \in Managers :
          step' = [step EXCEPT ![th] = [Idle EXCEPT !.at = "report", !.manager = m, !.leaks = DOMAIN allocations[m]]]
    BY <1>5 DEF reportLeaks
  <2> DEFINE new == [Idle EXCEPT !.at = "report", !.manager = m, !.leaks = DOMAIN allocations[m]]
  <2>2. DOMAIN allocations[m] \in SUBSET Addresses BY DEF MemInv, MemTypes
  <2>3. new \in StepType /\ new.at = "report" /\ new.address = Nobody
    BY <2>2, IdleStep DEF StepType, Places
  <2>4. step' = [step EXCEPT ![th] = new] BY <2>1
  <2> HIDE DEF new
  <2>5. LocalFits(new) /\ new.at \notin Working BY <2>3 DEF LocalFits, Working
  <2> QED BY <1>2, <2>3, <2>4, <2>5, NoObject
<1>6. CASE ReportOne(th)
  <2>1. PICK a : step' = [step EXCEPT ![th].leaks = @ \ {a}] BY <1>6 DEF ReportOne
  <2> DEFINE new == [step[th] EXCEPT !.leaks = step[th].leaks \ {a}]
  <2>2. step' = [step EXCEPT ![th] = new] BY <2>1 DEF MemInv, MemTypes
  <2>3. new \in StepType /\ new.at = step[th].at /\ new.address = step[th].address
    BY <1>1 DEF StepType
  <2> HIDE DEF new
  <2>4. step[th].at = "report" BY <1>6 DEF ReportOne
  <2>5. LocalFits(new) /\ new.at \notin Working BY <2>3, <2>4 DEF MemInv, CallInv, LocalFits, Working
  <2> QED BY <1>2, <2>2, <2>3, <2>5, NoObject
<1>7. CASE ReportReturn(th)
  <2>1. step' = [step EXCEPT ![th] = Idle] BY <1>7 DEF ReportReturn
  <2> QED BY <1>2, <2>1, IdleStep, NoObject
<1>8. CASE RegisterReturn(th)
  <2> DEFINE new == [step[th] EXCEPT !.at = "idle"]
  <2>1. step' = [step EXCEPT ![th] = new] BY <1>8 DEF RegisterReturn, Goto, MemInv, MemTypes
  <2>2. new \in StepType /\ new.at = "idle" BY <1>1, GotoKeeps DEF Places
  <2> HIDE DEF new
  <2>3. LocalFits(new) /\ new.at \notin Working BY <2>2 DEF LocalFits, Working
  <2> QED BY <1>2, <2>1, <2>2, <2>3, NoObject
<1> QED BY <1>3, <1>4, <1>5, <1>6, <1>7, <1>8

\* A living object and the thread that works on it.
LEMMA OwnObject ==
  ASSUME MemInv, NEW th \in LogThreads, step[th].at \in Working
  PROVE  LET a == step[th].address
         IN  /\ a \in Addresses /\ Knows(step[th], memory[a]) /\ memory[a] \in Object
             /\ \A o \in LogThreads : Works(o, a) => o = th
             /\ step[th].manager \in Managers
<1>1. Works(th, step[th].address) /\ step[th].address \in Addresses BY DEF Works, MemInv, CallInv
<1>2. Knows(step[th], memory[step[th].address]) /\ \A o \in LogThreads : Works(o, step[th].address) => o = th
  BY <1>1 DEF MemInv, CallInv, Knows
<1>3. memory[step[th].address] \in Object BY <1>1, <1>2 DEF MemInv, MemTypes, Knows
<1>4. step[th].manager \in Managers BY <1>2, <1>3 DEF Knows, Object
<1> QED BY <1>1, <1>2, <1>3, <1>4

\* The ledgers as functions.
LedgerTypes ==
  /\ allocations = [m \in Managers |-> allocations[m]]
  /\ \A m \in Managers : DOMAIN allocations[m] \subseteq Addresses

\* The steps of a thread that create, list, unlist or delete an object.
LEMMA AllocateStep ==
  ASSUME MemInv, NEW th \in LogThreads, allocate(th)
  PROVE  step' \in [LogThreads -> StepType] /\ memory' \in [Addresses -> Object \cup {Free}] /\ CallInv' /\ Listed'
<1>1. step[th] \in StepType /\ step[th].at = "new" BY DEF allocate, MemInv, MemTypes
<1>2. UNCHANGED allocations BY DEF allocate
<1>3. CASE step' = [step EXCEPT ![th] = Idle] /\ UNCHANGED memory
  <2>1. step' \in [LogThreads -> StepType] /\ CallInv' /\ Listed' BY <1>2, <1>3, IdleStep, NoObject
  <2> QED BY <1>3, <2>1 DEF MemInv, MemTypes
<1>4. ASSUME NEW a \in Addresses, memory[a] = Free,
             memory' = [memory EXCEPT ![a] = [manager |-> step[th].manager, tag |-> step[th].tag, listed |-> FALSE]],
             step' = [step EXCEPT ![th].at = "register", ![th].address = a]
      PROVE  step' \in [LogThreads -> StepType] /\ memory' \in [Addresses -> Object \cup {Free}] /\ CallInv' /\ Listed'
  <2> DEFINE obj == [manager |-> step[th].manager, tag |-> step[th].tag, listed |-> FALSE]
             new == [step[th] EXCEPT !.at = "register", !.address = a]
  <2>1. step[th].manager \in Managers BY <1>1 DEF MemInv, CallInv
  <2>2. obj \in Object /\ ~obj.listed /\ obj.tag = step[th].tag /\ obj.manager = step[th].manager
    BY <1>1, <2>1 DEF Object, StepType
  <2>3. /\ new \in StepType /\ new.at = "register" /\ new.address = a
        /\ new.manager = step[th].manager /\ new.tag = step[th].tag
    BY <1>1 DEF StepType, Places
  <2>4. step' = [step EXCEPT ![th] = new] BY <1>4 DEF MemInv, MemTypes
  <2>5. memory' = [memory EXCEPT ![a] = obj] BY <1>4
  <2> HIDE DEF obj, new
  <2>6. obj # Free BY <2>2, MemAssumption DEF Object
  <2>7. LocalFits(new) /\ Knows(new, obj) BY <2>2, <2>3, <2>6 DEF LocalFits, Knows, Working
  <2>8. \A o \in LogThreads : ~Works(o, a) BY <1>4 DEF MemInv, CallInv
  <2>9. \A m \in Managers : a \notin DOMAIN allocations'[m] BY <1>2, <1>4 DEF MemInv, Listed
  <2>10. OthersKept(a) BY <1>2 DEF OthersKept
  <2>11. EntryBecomes(a, obj) BY <2>2, <2>9 DEF EntryBecomes
  <2> QED BY <2>2, <2>3, <2>4, <2>5, <2>7, <2>8, <2>10, <2>11, OneObject
<1> QED BY <1>3, <1>4 DEF allocate

\* registerAllocation() lists the object under the address.
LEMMA RegisterStep ==
  ASSUME MemInv, NEW th \in LogThreads, registerAllocation(th)
  PROVE  /\ step' \in [LogThreads -> StepType] /\ memory' \in [Addresses -> Object \cup {Free}]
         /\ CallInv' /\ Listed' /\ LedgerTypes'
<1>1. step[th] \in StepType /\ step[th].at = "register" BY DEF registerAllocation, MemInv, MemTypes
<1>2. PICK m, a, tag : m = step[th].manager /\ a = step[th].address /\ tag = step[th].tag OBVIOUS
<1>3. /\ a \in Addresses /\ Knows(step[th], memory[a]) /\ memory[a] \in Object
      /\ \A o \in LogThreads : Works(o, a) => o = th
      /\ m \in Managers
  BY <1>1, <1>2, OwnObject DEF Working
<1>4. PICK to \in {"registered", "idle"} : step' = [step EXCEPT ![th].at = to]
  BY DEF registerAllocation, LogOrUnlock, Goto
<1> DEFINE new == [step[th] EXCEPT !.at = to]
           obj == [memory[a] EXCEPT !.listed = TRUE]
           led == [x \in DOMAIN allocations[m] \cup {a} |-> IF x = a THEN tag ELSE allocations[m][x]]
<1>5. step' = [step EXCEPT ![th] = new] BY <1>4 DEF MemInv, MemTypes
<1>6. memory' = [memory EXCEPT ![a] = obj]
  BY <1>2, <1>3 DEF registerAllocation, MemInv, MemTypes
<1>7. allocations' = [allocations EXCEPT ![m] = led] BY <1>2 DEF registerAllocation
<1>8. new \in StepType /\ new.at = to /\ new.manager = m /\ new.address = a
  <2>1. to \in Places BY <1>4 DEF Places
  <2> QED BY <1>1, <1>2, <2>1, GotoKeeps
<1>9. obj \in Object /\ obj.listed /\ obj.manager = m /\ obj.tag = tag
  BY <1>1, <1>2, <1>3 DEF Object, Knows
<1>10. /\ DOMAIN led = DOMAIN allocations[m] \cup {a} /\ led[a] = tag
       /\ \A b \in DOMAIN allocations[m] : b # a => led[b] = allocations[m][b]
  OBVIOUS
<1> HIDE DEF new, obj, led
<1>11. obj # Free BY <1>9, MemAssumption DEF Object
<1>12. allocations = [k \in Managers |-> allocations[k]] BY DEF MemInv, MemTypes
<1>13. /\ allocations' = [k \in Managers |-> allocations'[k]]
       /\ \A k \in Managers : allocations'[k] = IF k = m THEN led ELSE allocations[k]
  BY <1>3, <1>7, <1>12
<1>14. LedgerTypes' BY <1>3, <1>10, <1>13 DEF LedgerTypes, MemInv, MemTypes
<1>15. LocalFits(new) /\ (new.at \in Working => Knows(new, obj))
  BY <1>3, <1>4, <1>8, <1>9, <1>11 DEF LocalFits, Knows, Working
<1>16. OthersKept(a) BY <1>10, <1>13 DEF OthersKept
<1>17. ASSUME NEW k \in Managers
       PROVE  /\ a \in DOMAIN allocations'[k] <=> obj # Free /\ obj.manager = k /\ obj.listed
              /\ a \in DOMAIN allocations'[k] => allocations'[k][a] = obj.tag
  <2>1. CASE k = m BY <1>9, <1>10, <1>11, <1>13, <2>1
  <2>2. CASE k # m
    <3>1. memory[a].manager = m BY <1>2, <1>3 DEF Knows
    <3>2. a \notin DOMAIN allocations[k] BY <1>3, <2>2, <3>1 DEF MemInv, Listed
    <3> QED BY <1>9, <1>13, <2>2, <3>2
  <2> QED BY <2>1, <2>2
<1>18. obj \in Object \cup {Free} /\ (new.at \in Working => new.address = a /\ Knows(new, obj))
  BY <1>8, <1>9, <1>15
<1>19. step' \in [LogThreads -> StepType] /\ memory' \in [Addresses -> Object \cup {Free}] /\ CallInv' /\ Listed'
  <2>1. EntryBecomes(a, obj) BY <1>17 DEF EntryBecomes
  <2> QED BY <1>3, <1>5, <1>6, <1>8, <1>15, <1>16, <1>18, <2>1, OneObject
<1> QED BY <1>14, <1>19

\* EraseEntry by the thread that unregisters the object.
LEMMA ErasedStep ==
  ASSUME MemInv, NEW th \in LogThreads, step[th].at \in {"unregister", "erase"},
         EraseEntry(step[th].manager, step[th].address), Goto(th, "delete")
  PROVE  /\ step' \in [LogThreads -> StepType] /\ memory' \in [Addresses -> Object \cup {Free}]
         /\ CallInv' /\ Listed' /\ LedgerTypes'
<1>1. step[th] \in StepType BY DEF MemInv, MemTypes
<1>2. PICK m, a : m = step[th].manager /\ a = step[th].address OBVIOUS
<1>3. /\ a \in Addresses /\ Knows(step[th], memory[a]) /\ memory[a] \in Object
      /\ \A o \in LogThreads : Works(o, a) => o = th
      /\ m \in Managers
  BY <1>1, <1>2, OwnObject DEF Working
<1> DEFINE new == [step[th] EXCEPT !.at = "delete"]
           obj == [memory[a] EXCEPT !.listed = FALSE]
           led == [x \in DOMAIN allocations[m] \ {a} |-> allocations[m][x]]
<1>4. step' = [step EXCEPT ![th] = new] BY DEF Goto, MemInv, MemTypes
<1>5. memory' = [memory EXCEPT ![a] = obj]
  BY <1>2, <1>3 DEF EraseEntry, Knows, MemInv, MemTypes
<1>6. allocations' = [allocations EXCEPT ![m] = led] BY <1>2 DEF EraseEntry
<1>7. new \in StepType /\ new.at = "delete" /\ new.manager = m /\ new.address = a
  BY <1>1, <1>2, GotoKeeps DEF Places
<1>8. obj \in Object /\ ~obj.listed /\ obj.manager = m
  BY <1>1, <1>2, <1>3 DEF Object, Knows
<1>9. /\ DOMAIN led = DOMAIN allocations[m] \ {a}
      /\ \A b \in DOMAIN allocations[m] : b # a => led[b] = allocations[m][b]
  OBVIOUS
<1> HIDE DEF new, obj, led
<1>10. obj # Free BY <1>8, MemAssumption DEF Object
<1>11. allocations = [k \in Managers |-> allocations[k]] BY DEF MemInv, MemTypes
<1>12. /\ allocations' = [k \in Managers |-> allocations'[k]]
       /\ \A k \in Managers : allocations'[k] = IF k = m THEN led ELSE allocations[k]
  BY <1>3, <1>6, <1>11
<1>13. LedgerTypes' BY <1>3, <1>9, <1>12 DEF LedgerTypes, MemInv, MemTypes
<1>14. LocalFits(new) /\ Knows(new, obj) BY <1>3, <1>7, <1>8, <1>10 DEF LocalFits, Knows, Working
<1>15. OthersKept(a) BY <1>9, <1>12 DEF OthersKept
<1>16. ASSUME NEW k \in Managers PROVE a \notin DOMAIN allocations'[k]
  <2>1. memory[a].manager = m BY <1>2, <1>3 DEF Knows
  <2> QED BY <1>3, <1>9, <1>12, <2>1 DEF MemInv, Listed
<1>17. obj \in Object \cup {Free} /\ (new.at \in Working => new.address = a /\ Knows(new, obj))
  BY <1>7, <1>8, <1>14
<1>18. EntryBecomes(a, obj) BY <1>8, <1>16 DEF EntryBecomes
<1>19. step' \in [LogThreads -> StepType] /\ memory' \in [Addresses -> Object \cup {Free}] /\ CallInv' /\ Listed'
  BY <1>3, <1>4, <1>5, <1>7, <1>14, <1>15, <1>17, <1>18, OneObject
<1> QED BY <1>13, <1>19

\* A thread begins to work on an object that it leaves as it is, or goes on to.
LEMMA SameObject ==
  ASSUME MemInv, NEW th \in LogThreads, NEW new \in StepType, step' = [step EXCEPT ![th] = new],
         NEW a \in Addresses, Knows(new, memory[a]), new.at \in Working, new.address = a,
         \A o \in LogThreads : Works(o, a) => o = th, UNCHANGED <<memory, allocations>>
  PROVE  step' \in [LogThreads -> StepType] /\ CallInv' /\ Listed'
<1>1. PICK obj \in Object \cup {Free} : obj = memory[a] BY DEF MemInv, MemTypes
<1>2. memory' = [memory EXCEPT ![a] = obj] BY <1>1 DEF MemInv, MemTypes
<1>3. LocalFits(new) BY DEF LocalFits, Working
<1>4. OthersKept(a) /\ EntryBecomes(a, obj) BY <1>1 DEF OthersKept, EntryBecomes, MemInv, Listed
<1> QED BY <1>1, <1>2, <1>3, <1>4, OneObject

\* The steps of a deallocation: the entry leaves before the memory does.
LEMMA UnregisterStep ==
  ASSUME MemInv, NEW th \in LogThreads, deallocate(th) \/ unregisterAllocation(th) \/ Erase(th)
  PROVE  /\ step' \in [LogThreads -> StepType] /\ memory' \in [Addresses -> Object \cup {Free}]
         /\ CallInv' /\ Listed' /\ LedgerTypes'
<1>0. memory \in [Addresses -> Object \cup {Free}] /\ LedgerTypes /\ step[th] \in StepType
  BY DEF MemInv, MemTypes, LedgerTypes
<1>1. CASE deallocate(th)
  <2>1. PICK a \in Addresses :
          /\ memory[a] # Free /\ ~Owned(a)
          /\ step' = [step EXCEPT ![th] = [Idle EXCEPT !.at = "unregister", !.address = a,
                                                       !.manager = memory[a].manager]]
    BY <1>1 DEF deallocate
  <2> DEFINE new == [Idle EXCEPT !.at = "unregister", !.address = a, !.manager = memory[a].manager]
  <2>2. memory[a] \in Object BY <1>0, <2>1
  <2>3. memory[a].manager \in Managers BY <2>2 DEF Object
  <2>4. new \in StepType /\ new.at = "unregister" /\ new.address = a /\ new.manager = memory[a].manager
    BY <2>3, IdleStep DEF StepType, Places
  <2>5. step' = [step EXCEPT ![th] = new] BY <2>1
  <2> HIDE DEF new
  <2>6. Knows(new, memory[a]) /\ new.at \in Working BY <2>1, <2>4 DEF Knows, Working
  <2>7. \A o \in LogThreads : Works(o, a) => o = th BY <2>1 DEF Owned, Works, Working
  <2>8. UNCHANGED <<memory, allocations>> BY <1>1 DEF deallocate
  <2>9. step' \in [LogThreads -> StepType] /\ CallInv' /\ Listed'
    BY <2>4, <2>5, <2>6, <2>7, <2>8, SameObject
  <2> QED BY <1>0, <2>8, <2>9 DEF LedgerTypes
<1>2. CASE unregisterAllocation(th) /\ UNCHANGED <<memory, allocations>>
  <2>1. step[th].at = "unregister" BY <1>2 DEF unregisterAllocation
  <2>2. PICK a : a = step[th].address OBVIOUS
  <2>3. /\ a \in Addresses /\ Knows(step[th], memory[a]) /\ memory[a] \in Object
        /\ \A o \in LogThreads : Works(o, a) => o = th
        /\ step[th].manager \in Managers
    BY <2>1, <2>2, OwnObject DEF Working
  <2>4. PICK to \in {"erase", "delete"} :
          /\ step' = [step EXCEPT ![th].at = to]
          /\ to = "delete" => a \notin DOMAIN allocations[step[th].manager]
    <3>1. CASE a \notin DOMAIN allocations[step[th].manager]
      BY <1>2, <2>2, <3>1 DEF unregisterAllocation, Goto
    <3>2. CASE a \in DOMAIN allocations[step[th].manager] /\ debugMode[step[th].manager]
      BY <1>2, <2>2, <3>2 DEF unregisterAllocation, LogOrUnlock, Goto
    <3>3. CASE a \in DOMAIN allocations[step[th].manager] /\ ~debugMode[step[th].manager]
      <4>1. EraseEntry(step[th].manager, a) BY <1>2, <2>2, <3>3 DEF unregisterAllocation
      <4>2. memory[a].listed BY <2>3, <3>3 DEF MemInv, Listed
      <4>3. memory'[a] = [memory[a] EXCEPT !.listed = FALSE] BY <1>0, <2>3, <4>1 DEF EraseEntry, Knows
      <4>4. ~memory'[a].listed BY <2>3, <4>3 DEF Object
      <4> QED BY <1>2, <4>2, <4>4
    <3> QED BY <3>1, <3>2, <3>3
  <2> DEFINE new == [step[th] EXCEPT !.at = to]
  <2>5. step' = [step EXCEPT ![th] = new] BY <2>4 DEF MemInv, MemTypes
  <2>6. new \in StepType /\ new.at = to /\ new.manager = step[th].manager /\ new.address = a
    <3>1. to \in Places BY <2>4 DEF Places
    <3> QED BY <1>0, <2>2, <3>1, GotoKeeps
  <2> HIDE DEF new
  <2>7. to = "delete" => ~memory[a].listed BY <2>3, <2>4 DEF MemInv, Listed, Knows
  <2>8. Knows(new, memory[a]) /\ new.at \in Working BY <2>3, <2>4, <2>6, <2>7 DEF Knows, Working
  <2>9. step' \in [LogThreads -> StepType] /\ CallInv' /\ Listed'
    BY <1>2, <2>3, <2>5, <2>6, <2>8, SameObject
  <2> QED BY <1>0, <1>2, <2>9 DEF LedgerTypes
<1>3. CASE unregisterAllocation(th) /\ ~UNCHANGED <<memory, allocations>>
  <2>1. /\ step[th].at = "unregister" /\ EraseEntry(step[th].manager, step[th].address)
        /\ Goto(th, "delete")
    BY <1>3 DEF unregisterAllocation, LogOrUnlock
  <2> QED BY <2>1, ErasedStep
<1>4. CASE Erase(th) BY <1>4, ErasedStep DEF Erase
<1> QED BY <1>1, <1>2, <1>3, <1>4

\* operator delete after the entry is gone.
LEMMA DeleteStep ==
  ASSUME MemInv, NEW th \in LogThreads, Delete(th)
  PROVE  step' \in [LogThreads -> StepType] /\ memory' \in [Addresses -> Object \cup {Free}] /\ CallInv' /\ Listed'
<1>1. step[th].at = "delete" /\ UNCHANGED allocations /\ step' = [step EXCEPT ![th] = Idle] BY DEF Delete
<1>2. PICK a : a = step[th].address OBVIOUS
<1>3. /\ a \in Addresses /\ Knows(step[th], memory[a]) /\ memory[a] \in Object
      /\ \A o \in LogThreads : Works(o, a) => o = th
  BY <1>1, <1>2, OwnObject DEF Working
<1>4. memory' = [memory EXCEPT ![a] = Free] BY <1>2 DEF Delete
<1>5. \A m \in Managers : a \notin DOMAIN allocations[m] BY <1>1, <1>3 DEF MemInv, Listed, Knows
<1>6. OthersKept(a) /\ EntryBecomes(a, Free) BY <1>1, <1>5 DEF OthersKept, EntryBecomes
<1>7. Free \in Object \cup {Free} OBVIOUS
<1> QED BY <1>1, <1>3, <1>4, <1>6, <1>7, IdleStep, OneObject

\* clear() empties one manager's ledger.
LEMMA ClearStep ==
  ASSUME MemInv, NEW m \in Managers, clear(m)
  PROVE  memory' \in [Addresses -> Object \cup {Free}] /\ CallInv' /\ Listed' /\ LedgerTypes'
<1>1. UNCHANGED step /\ allocations' = [allocations EXCEPT ![m] = Empty] BY DEF clear, Administer
<1>2. memory \in [Addresses -> Object \cup {Free}] BY DEF MemInv, MemTypes
<1>3. memory' = [a \in Addresses |-> IF memory[a] # Free /\ memory[a].manager = m
                                       THEN [memory[a] EXCEPT !.listed = FALSE] ELSE memory[a]]
  BY DEF clear
<1>4. ASSUME NEW a \in Addresses, memory[a] # Free
      PROVE  /\ memory'[a] \in Object /\ memory'[a] # Free
             /\ memory'[a].manager = memory[a].manager /\ memory'[a].tag = memory[a].tag
             /\ memory'[a].listed <=> (memory[a].listed /\ memory[a].manager # m)
  <2>1. memory[a] \in Object BY <1>2, <1>4
  <2>2. CASE memory[a].manager = m
    <3>1. memory'[a] = [memory[a] EXCEPT !.listed = FALSE] BY <1>3, <1>4, <2>2
    <3>2. /\ memory'[a] \in Object /\ memory'[a].manager = memory[a].manager
          /\ memory'[a].tag = memory[a].tag /\ memory'[a].listed = FALSE
      BY <2>1, <3>1 DEF Object
    <3> QED BY <2>2, <3>2, MemAssumption DEF Object
  <2>3. CASE memory[a].manager # m BY <1>3, <1>4, <2>1, <2>3
  <2> QED BY <2>2, <2>3
<1>5. \A a \in Addresses : memory[a] = Free => memory'[a] = Free BY <1>3
<1>6. memory' \in [Addresses -> Object \cup {Free}] BY <1>2, <1>3, <1>4, <1>5
<1>7. allocations = [k \in Managers |-> allocations[k]] BY DEF MemInv, MemTypes
<1>8. /\ allocations' = [k \in Managers |-> allocations'[k]]
      /\ \A k \in Managers : allocations'[k] = IF k = m THEN Empty ELSE allocations[k]
  BY <1>1, <1>7
<1>9. DOMAIN Empty = {} BY DEF Empty
<1>10. LedgerTypes' BY <1>8, <1>9 DEF LedgerTypes, MemInv, MemTypes
<1>11. Listed'
  <2> SUFFICES ASSUME NEW k \in Managers, NEW b \in Addresses
               PROVE  /\ b \in DOMAIN allocations'[k] <=>
                           memory'[b] # Free /\ memory'[b].manager = k /\ memory'[b].listed
                      /\ b \in DOMAIN allocations'[k] => allocations'[k][b] = memory'[b].tag
    BY DEF Listed
  <2>1. CASE memory[b] = Free BY <1>5, <1>8, <1>9, <2>1 DEF MemInv, Listed
  <2>2. CASE memory[b] # Free BY <1>4, <1>8, <1>9, <2>2 DEF MemInv, Listed
  <2> QED BY <2>1, <2>2
<1>12. CallInv' BY <1>1, <1>4 DEF MemInv, CallInv, Works
<1> QED BY <1>6, <1>10, <1>11, <1>12

-----------------------------------------------------------------------------
(* Both                                                                    *)

\* A thread that logs is in a call that logs, or has called Debug itself.
LogPlaces ==
  \A th \in LogThreads : Logs(th) => step[th].at \in {"idle", "registered", "erase", "report"}

TrackInv == MemInv /\ LogInv /\ LogPlaces

\* A step that leaves the objects alone.
LEMMA SameMemory ==
  ASSUME MemInv, UNCHANGED <<step, memory, allocations>>, g_registry' \in Managers \cup {NoManager}, Installed'
  PROVE  MemInv'
<1>1. MemTypes' BY DEF MemInv, MemTypes
<1>2. CallInv' BY DEF MemInv, CallInv, Works
<1>3. Listed' BY DEF MemInv, Listed
<1> QED BY <1>1, <1>2, <1>3 DEF MemInv

\* Thread th's step keeps the ledgers exact.
LEMMA MemorySteps ==
  ASSUME MemInv, NEW th \in LogThreads,
         \/ MemStep(th) \/ MemoryAllocator(th) \/ TaggedMemoryAllocator(th)
         \/ UniquePtr(th) \/ SharedPtr(th) \/ deallocate(th) \/ reportLeaks(th) \/ Complain(th)
  PROVE  MemInv'
<1>1. g_registry' \in Managers \cup {NoManager} /\ Installed'
  <2>1. CASE GetExchange(th)
    BY <2>1 DEF GetExchange, MemInv, MemTypes, Installed, Managers
  <2>2. CASE UNCHANGED <<g_registry, wanted>> BY <2>2 DEF MemInv, MemTypes, Installed
  <2> QED BY <2>1, <2>2 DEF MemStep, MemoryAllocator, TaggedMemoryAllocator, UniquePtr, SharedPtr,
       Get, allocate, registerAllocation, RegisterReturn, deallocate, unregisterAllocation, Erase,
       Delete, reportLeaks, ReportOne, ReportReturn, Complain
<1>2. memory \in [Addresses -> Object \cup {Free}] /\ LedgerTypes BY DEF MemInv, MemTypes, LedgerTypes
<1>3. ASSUME step' \in [LogThreads -> StepType], memory' \in [Addresses -> Object \cup {Free}], CallInv', Listed', LedgerTypes'
      PROVE  MemInv'
  <2>1. MemTypes' BY <1>1, <1>3 DEF MemTypes, LedgerTypes
  <2> QED BY <1>1, <1>3, <2>1 DEF MemInv
<1>4. CASE \/ GetExchange(th) \/ (\E tag \in AllTags : Get(th, tag)) \/ reportLeaks(th)
           \/ ReportOne(th) \/ ReportReturn(th) \/ RegisterReturn(th)
  <2>1. UNCHANGED <<memory, allocations>>
    BY <1>4 DEF GetExchange, Get, reportLeaks, ReportOne, ReportReturn, RegisterReturn
  <2>2. LedgerTypes' BY <1>2, <2>1 DEF LedgerTypes
  <2> QED BY <1>2, <1>3, <1>4, <2>1, <2>2, CallsStep
<1>5. CASE allocate(th)
  <2>1. LedgerTypes' BY <1>2, <1>5 DEF LedgerTypes, allocate
  <2> QED BY <1>3, <1>5, <2>1, AllocateStep
<1>6. CASE registerAllocation(th) BY <1>3, <1>6, RegisterStep
<1>7. CASE deallocate(th) \/ unregisterAllocation(th) \/ Erase(th) BY <1>3, <1>7, UnregisterStep
<1>8. CASE Delete(th)
  <2>1. LedgerTypes' BY <1>2, <1>8 DEF LedgerTypes, Delete
  <2> QED BY <1>3, <1>8, <2>1, DeleteStep
<1>9. CASE UNCHANGED <<step, memory, allocations>> BY <1>1, <1>9, SameMemory
<1>10. ASSUME MemoryAllocator(th) \/ TaggedMemoryAllocator(th) \/ UniquePtr(th) \/ SharedPtr(th)
       PROVE  \E tag \in AllTags : Get(th, tag)
  BY <1>10 DEF MemoryAllocator, TaggedMemoryAllocator, UniquePtr, SharedPtr, AllTags
<1>11. Complain(th) => UNCHANGED <<step, memory, allocations>> BY DEF Complain
<1> QED BY <1>4, <1>5, <1>6, <1>7, <1>8, <1>9, <1>10, <1>11 DEF MemStep

\* The administrator's calls.
LEMMA AdminSteps ==
  ASSUME MemInv, LogInv,
         \/ SetManager \/ Reset \/ ConfigureLog
         \/ \E m \in Managers : setDebugMode(m) \/ clear(m)
  PROVE  MemInv' /\ LogInv' /\ UNCHANGED step /\ \A o \in LogThreads : Logs(o)' <=> Logs(o)
<1>1. UNCHANGED <<logMutex, logging, entries, written>> /\ UNCHANGED step
  BY DEF SetManager, Reset, ConfigureLog, setDebugMode, clear, Administer, logVars,
         RegisterChannel, SetConfig, InitLog, Shutdown, Configure
<1>2. LogInv' /\ \A o \in LogThreads : Logs(o)' <=> Logs(o) BY <1>1, LogSame
<1>3. CASE SetManager \/ Reset
  <2>1. UNCHANGED <<memory, allocations>> BY <1>3 DEF SetManager, Reset
  <2>2. g_registry' \in Managers \cup {NoManager} /\ Installed'
    BY <1>3 DEF SetManager, Reset, Managers, Installed
  <2> QED BY <1>1, <1>2, <2>1, <2>2, SameMemory
<1>4. CASE ConfigureLog \/ \E m \in Managers : setDebugMode(m)
  <2>1. UNCHANGED <<memory, allocations, g_registry, wanted>> BY <1>4 DEF ConfigureLog, setDebugMode
  <2>2. g_registry' \in Managers \cup {NoManager} /\ Installed'
    BY <2>1 DEF MemInv, MemTypes, Installed
  <2> QED BY <1>1, <1>2, <2>1, <2>2, SameMemory
<1>5. ASSUME NEW m \in Managers, clear(m) PROVE MemInv'
  <2>1. memory' \in [Addresses -> Object \cup {Free}] /\ CallInv' /\ Listed' /\ LedgerTypes'
    BY <1>5, ClearStep
  <2>2. UNCHANGED <<g_registry, wanted, step>> BY <1>5 DEF clear, Administer
  <2>3. MemTypes' BY <2>1, <2>2 DEF MemInv, MemTypes, LedgerTypes
  <2>4. Installed' BY <2>2 DEF MemInv, Installed
  <2> QED BY <2>1, <2>3, <2>4 DEF MemInv
<1> QED BY <1>1, <1>2, <1>3, <1>4, <1>5

\* Thread th's step keeps the entries in order.
LEMMA LogSteps ==
  ASSUME TrackInv, NEW th \in LogThreads,
         \/ MemStep(th) \/ MemoryAllocator(th) \/ TaggedMemoryAllocator(th)
         \/ UniquePtr(th) \/ SharedPtr(th) \/ deallocate(th) \/ reportLeaks(th) \/ Complain(th)
  PROVE  LogInv' /\ LogPlaces'
<1>0. step \in [LogThreads -> StepType] /\ LogInv /\ LogPlaces BY DEF TrackInv, MemInv, MemTypes
<1>1. \A o \in LogThreads : o # th => step'[o] = step[o]
  BY <1>0 DEF MemStep, MemoryAllocator, TaggedMemoryAllocator, UniquePtr, SharedPtr, GetExchange,
       Get, allocate, registerAllocation, LogOrUnlock, Goto, RegisterReturn, deallocate,
       unregisterAllocation, Erase, Delete, reportLeaks, ReportOne, ReportReturn, Complain
<1>2. CASE LogStep(th) /\ UNCHANGED step
  <2>1. LogInv' /\ \A o \in LogThreads : Logs(o)' => Logs(o)
    BY <1>0, <1>2, LogLocked, LogWritten, LogReturned DEF LogStep
  <2> QED BY <1>0, <1>2, <2>1 DEF LogPlaces
<1>3. CASE UNCHANGED logVars /\ ~Logs(th)
  <2>1. LogInv' /\ \A o \in LogThreads : Logs(o)' <=> Logs(o) BY <1>0, <1>3, LogSame DEF logVars
  <2> QED BY <1>0, <1>1, <1>3, <2>1 DEF LogPlaces
<1>4. CASE /\ ~Logs(th) /\ \E level : EnterLog(th, level)
           /\ UNCHANGED <<logMutex, logChannels, minLogLevel, entries, written>>
           /\ step'[th].at \in {"idle", "registered", "erase", "report"}
  <2>1. PICK level : EnterLog(th, level) BY <1>4
  <2>2. LogInv' /\ \A o \in LogThreads : o # th => (Logs(o)' <=> Logs(o))
    BY <1>0, <1>4, <2>1, LogEntered
  <2> QED BY <1>0, <1>1, <1>4, <2>2 DEF LogPlaces
<1>5. step[th].at \in {"exchange", "new", "register", "unregister", "delete"} => ~Logs(th)
  BY <1>0 DEF LogPlaces
<1>6. CASE GetExchange(th) \/ allocate(th) \/ Delete(th)
  BY <1>3, <1>5, <1>6 DEF GetExchange, allocate, Delete
<1>7. CASE RegisterReturn(th) \/ Erase(th) \/ ReportReturn(th) \/ deallocate(th) \/ reportLeaks(th)
  BY <1>3, <1>7 DEF RegisterReturn, Erase, ReportReturn, deallocate, reportLeaks
<1>8. CASE MemoryAllocator(th) \/ TaggedMemoryAllocator(th) \/ UniquePtr(th) \/ SharedPtr(th)
  BY <1>3, <1>8 DEF MemoryAllocator, TaggedMemoryAllocator, UniquePtr, SharedPtr, Get
<1>9. ASSUME NEW m, NEW logged, NEW done, ~Logs(th), LogOrUnlock(th, m, logged, done),
             logged \in {"registered", "erase"}
      PROVE  LogInv' /\ LogPlaces'
  <2>1. CASE UNCHANGED logVars BY <1>3, <1>9, <2>1
  <2>2. CASE EnterLog(th, 1) /\ Goto(th, logged)
    <3>1. step'[th].at = logged
      <4>1. step[th] \in StepType BY <1>0
      <4>2. logged \in Places BY <1>9 DEF Places
      <4>3. step' = [step EXCEPT ![th] = [step[th] EXCEPT !.at = logged]] BY <1>0, <2>2 DEF Goto
      <4>4. [step[th] EXCEPT !.at = logged].at = logged BY <4>1, <4>2, GotoKeeps
      <4> QED BY <1>0, <4>3, <4>4
    <3> QED BY <1>4, <1>9, <2>2, <3>1 DEF LogOrUnlock, logVars
  <2> QED BY <1>9, <2>1, <2>2 DEF LogOrUnlock
<1>10. CASE registerAllocation(th) BY <1>5, <1>9, <1>10 DEF registerAllocation
<1>11. CASE unregisterAllocation(th) BY <1>3, <1>5, <1>9, <1>11 DEF unregisterAllocation
<1>12. CASE ReportOne(th)
  <2>1. PICK a : step' = [step EXCEPT ![th].leaks = @ \ {a}] BY <1>12 DEF ReportOne
  <2>2. step[th] \in StepType /\ step[th].at = "report" BY <1>0, <1>12 DEF ReportOne
  <2>3. [step[th] EXCEPT !.leaks = step[th].leaks \ {a}].at = "report" BY <2>2 DEF StepType
  <2>4. step'[th].at = "report" BY <1>0, <2>1, <2>3
  <2> QED BY <1>4, <1>12, <2>4 DEF ReportOne
<1>13. CASE Complain(th) BY <1>4, <1>13 DEF Complain
<1> QED BY <1>2, <1>6, <1>7, <1>8, <1>10, <1>11, <1>12, <1>13 DEF MemStep

\* Every step keeps the invariant.
LEMMA TrackSteps == ASSUME TrackInv, [MemNext]_memVars PROVE TrackInv'
<1>1. ASSUME NEW th \in LogThreads,
             \/ MemStep(th) \/ MemoryAllocator(th) \/ TaggedMemoryAllocator(th)
             \/ UniquePtr(th) \/ SharedPtr(th) \/ deallocate(th) \/ reportLeaks(th) \/ Complain(th)
      PROVE  TrackInv'
  BY <1>1, MemorySteps, LogSteps DEF TrackInv
<1>2. CASE SetManager \/ Reset \/ ConfigureLog \/ \E m \in Managers : setDebugMode(m) \/ clear(m)
  BY <1>2, AdminSteps DEF TrackInv, LogPlaces
<1>3. CASE UNCHANGED memVars
  <2>1. UNCHANGED <<step, memory, allocations, g_registry, wanted>> /\ UNCHANGED logVars
    BY <1>3 DEF memVars
  <2>2. g_registry' \in Managers \cup {NoManager} /\ Installed'
    BY <2>1 DEF TrackInv, MemInv, MemTypes, Installed
  <2>3. MemInv' BY <2>1, <2>2, SameMemory DEF TrackInv
  <2>4. LogInv' /\ \A o \in LogThreads : Logs(o)' <=> Logs(o) BY <2>1, LogSame DEF TrackInv, logVars
  <2> QED BY <2>1, <2>3, <2>4 DEF TrackInv, LogPlaces
<1> QED BY <1>1, <1>2, <1>3 DEF MemNext

\* Nothing is allocated and nobody logs.
LEMMA TrackStart == ASSUME MemInit PROVE TrackInv
<1>1. \A th \in LogThreads : logging[th] = NotLogging BY DEF MemInit, LogInit
<1>2. CallShape(NotLogging) /\ NotLogging.at = "out" BY DEF CallShape, NotLogging
<1>3. LogInv
  <2>1. logging = [th \in LogThreads |-> logging[th]] BY DEF MemInit, LogInit
  <2>2. written \in [Channels -> Seq(Nat)] /\ \A c \in Channels : DOMAIN written[c] = {}
    BY DEF MemInit, LogInit
  <2>3. entries \in Nat BY DEF MemInit, LogInit
  <2> QED BY <1>1, <1>2, <2>1, <2>2, <2>3 DEF LogInv
<1>4. LogPlaces BY <1>1, <1>2 DEF LogPlaces, Logs
<1>5. \A th \in LogThreads : step[th] = Idle BY DEF MemInit
<1>6. MemTypes
  <2>1. step \in [LogThreads -> StepType] BY IdleStep DEF MemInit
  <2>2. allocations = [m \in Managers |-> allocations[m]] /\ \A m \in Managers : DOMAIN allocations[m] = {}
    BY DEF MemInit, Empty
  <2> QED BY <2>1, <2>2 DEF MemInit, MemTypes
<1>7. CallInv BY <1>5, IdleStep DEF CallInv, Works, LocalFits
<1>8. Listed BY DEF MemInit, Listed, Empty
<1>9. Installed BY DEF MemInit, Installed
<1> QED BY <1>3, <1>4, <1>6, <1>7, <1>8, <1>9 DEF TrackInv, MemInv

\* For every number of threads, addresses and tags, a manager lists exactly the
\* living objects that were registered with it, under their tags, however
\* allocations, deletions, clear(), debug mode and changes of the registry
\* interleave; and MemoryRegistry::Get never replaces a manager that was set.
THEOREM LedgersAlways == MemInit /\ [][MemNext]_memVars => []LedgerExact
<1>1. MemInit => TrackInv BY TrackStart
<1>2. TrackInv /\ [MemNext]_memVars => TrackInv' BY TrackSteps
<1>3. TrackInv => LedgerExact BY DEF TrackInv, MemInv, Listed, Installed, LedgerExact
<1> QED BY <1>1, <1>2, <1>3, PTL

\* All channels of the log show the entries in one order, whoever logs and however
\* channels come and go.
THEOREM ChannelsAlways == MemInit /\ [][MemNext]_memVars => []ChannelsAgree
<1>1. MemInit => TrackInv BY TrackStart
<1>2. TrackInv /\ [MemNext]_memVars => TrackInv' BY TrackSteps
<1>3. TrackInv => ChannelsAgree BY InOrder DEF TrackInv
<1> QED BY <1>1, <1>2, <1>3, PTL

-----------------------------------------------------------------------------
(* ArenaAllocator                                                          *)

Piece == Nat \X Nat \X Alignments

\* PiecesDisjoint is not inductive: a new piece is disjoint from the older ones
\* because all of them end at or before buffer_ + offset_, which align() never lowers.
ArenaInv ==
  /\ offset_ \in 0..Capacity
  /\ given \subseteq Piece
  /\ \A p \in given : /\ kAlignment % p[3] = 0 => p[1] % p[3] = 0
                      /\ ArenaBuffer <= p[1] /\ p[1] + p[2] <= ArenaBuffer + offset_
  /\ \A p, q \in given : p # q => p[1] + p[2] <= q[1] \/ q[1] + q[2] <= p[1]

\* Rounding down to a multiple loses less than the divisor.
LEMMA RoundedDown ==
  ASSUME NEW x \in Nat, NEW a \in Nat \ {0}
  PROVE  /\ (x \div a) * a \in Nat
         /\ (x \div a) * a <= x /\ x < (x \div a) * a + a
         /\ ((x \div a) * a) % a = 0
<1> DEFINE q == x \div a
           r == x % a
           m == q * a
<1>1. q \in Nat OBVIOUS
<1>2. r \in Nat /\ r < a OBVIOUS
<1>3. x = a * q + r OBVIOUS
<1>4. m = a * q /\ m \in Nat
  <2> HIDE DEF q
  <2> QED BY <1>1
<1>5. m \in Nat /\ m <= x /\ x < m + a
  <2> HIDE DEF m, r
  <2>1. x = m + r BY <1>3, <1>4
  <2> QED BY <1>2, <1>4, <2>1
<1>6. (q * a) % a = 0
  <2> HIDE DEF q
  <2>1. q \in Nat BY <1>1 DEF q
  <2> QED BY <2>1
<1> QED BY <1>5, <1>6

\* align() of an offset within the capacity: a multiple, not below the offset, and
\* too small for the sum with a size to wrap around.
LEMMA Aligned ==
  ASSUME NEW v \in 0..Capacity, NEW size \in Sizes, NEW a \in Alignments
  PROVE  /\ align(v, a) \in Nat /\ v <= align(v, a) /\ align(v, a) % a = 0
         /\ (align(v, a) + size) % SizeMod = align(v, a) + size
<1> DEFINE x == v + (a - 1)
<1>1. a \in Nat \ {0} /\ size \in Nat /\ Capacity \in Nat /\ SizeMod \in Nat \ {0}
      /\ Capacity + size + a < SizeMod
  BY BlockAssumption
<1>2. x \in Nat /\ x + size < SizeMod BY <1>1
<1>3. x % SizeMod = x BY <1>1, <1>2
<1>4. align(v, a) = (x \div a) * a BY <1>3 DEF align
<1> HIDE DEF x
<1>5. /\ align(v, a) \in Nat /\ align(v, a) <= x /\ x < align(v, a) + a
      /\ align(v, a) % a = 0
  BY <1>1, <1>2, <1>4, RoundedDown
<1>6. v <= align(v, a) BY <1>1, <1>5 DEF x
<1>7. align(v, a) + size \in Nat /\ align(v, a) + size < SizeMod BY <1>1, <1>2, <1>5
<1> QED BY <1>1, <1>5, <1>6, <1>7

\* A divisor of the alignment of a buffer divides the sum of its address and of any
\* multiple of the divisor.
LEMMA AddressAligned ==
  ASSUME NEW a \in Nat \ {0}, NEW n \in Nat, n % a = 0, kAlignment % a = 0
  PROVE  (ArenaBuffer + n) % a = 0
<1>1. kAlignment \in Nat \ {0} /\ ArenaBuffer \in Nat /\ ArenaBuffer % kAlignment = 0 BY BlockAssumption
<1>2. \A x \in Nat, d \in Nat \ {0} : x % d = 0 => \E m \in Nat : x = d * m
  <2> SUFFICES ASSUME NEW x \in Nat, NEW d \in Nat \ {0}, x % d = 0 PROVE \E m \in Nat : x = d * m
    OBVIOUS
  <2>1. x \div d \in Nat /\ x = d * (x \div d) + (x % d) OBVIOUS
  <2>2. d * (x \div d) \in Nat BY <2>1
  <2>3. x = d * (x \div d)
    <3>1. PICK m \in Nat : m = d * (x \div d) /\ x = m + (x % d) BY <2>1, <2>2
    <3> QED BY <3>1
  <2> QED BY <2>1, <2>3
<1>3. PICK b \in Nat : ArenaBuffer = kAlignment * b BY <1>1, <1>2
<1>4. PICK k \in Nat : kAlignment = a * k BY <1>1, <1>2
<1>5. PICK c \in Nat : n = a * c BY <1>2
<1>6. k * b + c \in Nat /\ ArenaBuffer + n = (k * b + c) * a BY <1>3, <1>4, <1>5
<1>7. \A m \in Nat : (m * a) % a = 0 OBVIOUS
<1> QED BY <1>6, <1>7

\* One allocation keeps the pieces apart.
LEMMA ArenaAllocateKeeps ==
  ASSUME ArenaInv, NEW size \in Sizes, NEW a \in Alignments, arenaAllocate(size, a)
  PROVE  ArenaInv'
<1> DEFINE current == align(offset_, a)
           new == <<ArenaBuffer + current, size, a>>
<1>1. offset_ \in 0..Capacity BY DEF ArenaInv
<1>2. /\ current \in Nat /\ offset_ <= current /\ current % a = 0
      /\ (current + size) % SizeMod = current + size
  BY <1>1, Aligned
<1>3. /\ current + size <= Capacity /\ offset_' = current + size
      /\ given' = given \cup {new}
  BY <1>2 DEF arenaAllocate
<1>4. size \in Nat /\ Capacity \in Nat /\ ArenaBuffer \in Nat /\ a \in Nat \ {0} BY BlockAssumption
<1>11. kAlignment % a = 0 => (ArenaBuffer + current) % a = 0 BY <1>2, <1>4, AddressAligned
<1> HIDE DEF current
<1>5. new \in Piece BY <1>2, <1>4 DEF Piece
<1>6. offset_' \in 0..Capacity /\ offset_ <= offset_' BY <1>1, <1>2, <1>3, <1>4
<1>7. given' \subseteq Piece BY <1>3, <1>5 DEF ArenaInv
<1>8. ASSUME NEW p \in given'
      PROVE  /\ kAlignment % p[3] = 0 => p[1] % p[3] = 0
             /\ ArenaBuffer <= p[1] /\ p[1] + p[2] <= ArenaBuffer + offset_'
  <2>1. CASE p \in given
    <3>1. /\ p[1] \in Nat /\ p[2] \in Nat /\ (kAlignment % p[3] = 0 => p[1] % p[3] = 0)
          /\ ArenaBuffer <= p[1] /\ p[1] + p[2] <= ArenaBuffer + offset_
      BY <2>1 DEF ArenaInv, Piece
    <3>2. p[1] + p[2] <= ArenaBuffer + offset_' BY <1>1, <1>4, <1>6, <3>1
    <3> QED BY <3>1, <3>2
  <2>2. CASE p = new
    <3>1. p[1] = ArenaBuffer + current /\ p[2] = size /\ p[3] = a BY <2>2
    <3>2. ArenaBuffer <= p[1] /\ p[1] + p[2] <= ArenaBuffer + offset_' BY <1>2, <1>3, <1>4, <3>1
    <3> QED BY <1>11, <3>1, <3>2
  <2> QED BY <1>3, <2>1, <2>2
<1>9. ASSUME NEW p \in given PROVE p[1] + p[2] <= new[1]
  <2>1. p[1] \in Nat /\ p[2] \in Nat /\ p[1] + p[2] <= ArenaBuffer + offset_ BY DEF ArenaInv, Piece
  <2>2. new[1] = ArenaBuffer + current OBVIOUS
  <2> QED BY <1>1, <1>2, <1>4, <2>1, <2>2
<1>10. ASSUME NEW p \in given', NEW q \in given', p # q
       PROVE  p[1] + p[2] <= q[1] \/ q[1] + q[2] <= p[1]
  <2>1. CASE p \in given /\ q \in given BY <1>10, <2>1 DEF ArenaInv
  <2>2. CASE p = new \/ q = new BY <1>3, <1>9, <1>10, <2>2
  <2> QED BY <1>3, <2>1, <2>2
<1> QED BY <1>6, <1>7, <1>8, <1>10 DEF ArenaInv

\* For every buffer, capacity and sequence of allocations and resets, the pieces an
\* arena has handed out since reset() are inside the buffer and disjoint, and at
\* addresses that have the alignment asked for if buffer_ is aligned to it:
\* ArenaAllocator::allocate checks the bound after aligning.
THEOREM ArenaPiecesAreDisjoint == BlockSpec => []PiecesDisjoint
<1>1. BlocksInit => ArenaInv
  BY BlockAssumption DEF BlocksInit, ArenaInv
<1>2. ArenaInv /\ [PoolNext \/ ArenaNext]_blockVars => ArenaInv'
  <2> SUFFICES ASSUME ArenaInv, [PoolNext \/ ArenaNext]_blockVars PROVE ArenaInv'
    OBVIOUS
  <2>1. ASSUME NEW z \in Sizes, NEW t \in Alignments, arenaAllocate(z, t) PROVE ArenaInv'
    BY <2>1, ArenaAllocateKeeps
  <2>2. CASE arenaReset BY <2>2, BlockAssumption DEF arenaReset, ArenaInv
  <2>3. CASE UNCHANGED <<offset_, given>> BY <2>3 DEF ArenaInv
  <2>4. CASE PoolNext
    BY <2>3, <2>4 DEF PoolNext, poolAllocate, poolReset, UserWrites, poolDeallocate
  <2>5. CASE UNCHANGED blockVars BY <2>3, <2>5 DEF blockVars
  <2> QED BY <2>1, <2>2, <2>4, <2>5 DEF ArenaNext
<1>3. ArenaInv => PiecesDisjoint
  <2> SUFFICES ASSUME ArenaInv, NEW p \in given
               PROVE  /\ kAlignment % p[3] = 0 => p[1] % p[3] = 0
                      /\ ArenaBuffer <= p[1] /\ p[1] + p[2] <= ArenaBuffer + Capacity
                      /\ \A q \in given : p # q => p[1] + p[2] <= q[1] \/ q[1] + q[2] <= p[1]
    BY DEF PiecesDisjoint
  <2>1. p[1] \in Nat /\ p[2] \in Nat /\ offset_ \in 0..Capacity /\ Capacity \in Nat
        /\ p[1] + p[2] <= ArenaBuffer + offset_ /\ ArenaBuffer \in Nat
    BY BlockAssumption DEF ArenaInv, Piece
  <2>2. p[1] + p[2] <= ArenaBuffer + Capacity BY <2>1
  <2> QED BY <2>2 DEF ArenaInv
<1> QED BY <1>1, <1>2, <1>3, PTL DEF BlockSpec

-----------------------------------------------------------------------------
(* PoolAllocator                                                           *)

\* q lists the blocks met from the head on, n of them, and the null at the end:
\* the free blocks, each once.
Chain(q, n) ==
  /\ q \in [1..(n + 1) -> 0..BlockCount] /\ q[1] = freeList /\ q[n + 1] = 0
  /\ \A i \in 1..n : q[i] \in Blocks \ inUse /\ q[i + 1] = word[q[i]]
  /\ \A i, j \in 1..n : q[i] = q[j] => i = j
  /\ \A b \in Blocks \ inUse : \E i \in 1..n : q[i] = b

\* The free blocks form a chain and are those that are counted.
PoolInv ==
  /\ inUse \subseteq Blocks /\ word \in [Blocks -> 0..BlockCount] /\ available_ \in Nat
  /\ available_ = BlockCount - Cardinality(inUse)
  /\ \E q : Chain(q, available_)

\* Sets of blocks are finite.
LEMMA BlocksFinite ==
  ASSUME NEW S, S \subseteq Blocks
  PROVE  IsFiniteSet(S) /\ Cardinality(S) \in Nat
<1>1. IsFiniteSet(Blocks)
  BY BlockAssumption, FS_Interval DEF Blocks
<1> QED BY <1>1, FS_Subset, FS_CardinalityType

\* The list that buildFreeList threads.
LEMMA BuiltChain ==
  ASSUME NEW q, q = [i \in 1..(BlockCount + 1) |-> BlockCount + 1 - i],
         freeList = BlockCount, word = BuiltWords, inUse = {}
  PROVE  Chain(q, BlockCount)
<1>1. BlockCount \in Nat \ {0}
  BY BlockAssumption
<1>2. q \in [1..(BlockCount + 1) -> 0..BlockCount] /\ q[1] = freeList /\ q[BlockCount + 1] = 0
  BY <1>1
<1>3. ASSUME NEW i \in 1..BlockCount PROVE q[i] \in Blocks \ inUse /\ q[i + 1] = word[q[i]]
  BY <1>1 DEF Blocks, BuiltWords
<1>4. ASSUME NEW i \in 1..BlockCount, NEW j \in 1..BlockCount, q[i] = q[j] PROVE i = j
  BY <1>1, <1>4
<1>5. ASSUME NEW b \in Blocks \ inUse PROVE \E i \in 1..BlockCount : q[i] = b
  <2>1. BlockCount + 1 - b \in 1..BlockCount /\ q[BlockCount + 1 - b] = b
    BY <1>1 DEF Blocks
  <2> QED BY <2>1
<1> QED BY <1>2, <1>3, <1>4, <1>5 DEF Chain

\* The state after construction and after reset().
Built == freeList = BlockCount /\ word = BuiltWords /\ available_ = BlockCount /\ inUse = {}

\* The invariant holds there.
LEMMA BuiltInv == Built => PoolInv
<1> SUFFICES ASSUME Built PROVE PoolInv
  OBVIOUS
<1> USE DEF Built
<1>1. BlockCount \in Nat /\ Cardinality({}) = 0
  BY BlockAssumption, FS_EmptySet
<1>2. PICK q : q = [i \in 1..(BlockCount + 1) |-> BlockCount + 1 - i]
  BY Zenon
<1>3. Chain(q, BlockCount)
  BY <1>2, BuiltChain
<1>4. word \in [Blocks -> 0..BlockCount]
  BY <1>1 DEF BuiltWords, Blocks
<1> QED BY <1>1, <1>3, <1>4 DEF PoolInv

\* allocate() takes the first block of the chain.
LEMMA AllocateInv ==
  ASSUME PoolInv, poolAllocate
  PROVE  PoolInv'
<1>1. PICK n, q : n = available_ /\ Chain(q, n)
  BY DEF PoolInv
<1>2. PICK m, p : m = n - 1 /\ p = [i \in 1..n |-> q[i + 1]]
  BY Zenon
<1>3. BlockCount \in Nat /\ n \in Nat
  BY <1>1, BlockAssumption DEF PoolInv
<1>4. /\ freeList' = word[freeList] /\ available_' = n - 1
      /\ inUse' = inUse \cup {freeList} /\ word' = word /\ freeList # 0
  BY <1>1 DEF poolAllocate
<1>5. n > 0 /\ m \in Nat /\ n = m + 1
  <2>1. n # 0
    BY <1>1, <1>4 DEF Chain
  <2> QED BY <1>2, <1>3, <2>1
<1>6. freeList \in Blocks \ inUse /\ q[1] = freeList /\ q[2] = word[freeList]
  <2>1. 1 \in 1..n
    BY <1>3, <1>5
  <2> QED BY <1>1, <2>1 DEF Chain
<1>7. Chain(p, m)'
  <2>1. p \in [1..(m + 1) -> 0..BlockCount] /\ p[1] = freeList' /\ p[m + 1] = 0
    <3>1. \A i \in 1..n : i + 1 \in 1..(n + 1)
      BY <1>3
    <3>2. \A i \in 1..n : q[i + 1] \in 0..BlockCount
      BY <1>1, <3>1 DEF Chain
    <3>3. p \in [1..n -> 0..BlockCount]
      BY <1>2, <3>2
    <3>4. p[1] = q[2] /\ p[n] = q[n + 1]
      BY <1>2, <1>3, <1>5
    <3> QED BY <1>1, <1>4, <1>5, <1>6, <3>3, <3>4 DEF Chain
  <2>2. \A i \in 1..m : i \in 1..n /\ i + 1 \in 1..n /\ i + 1 # 1 /\ p[i] = q[i + 1] /\ p[i + 1] = q[(i + 1) + 1]
    BY <1>2, <1>3, <1>5
  <2>3. ASSUME NEW i \in 1..m PROVE p[i] \in Blocks \ inUse' /\ p[i + 1] = word'[p[i]]
    <3>1. q[i + 1] \in Blocks \ inUse /\ q[(i + 1) + 1] = word[q[i + 1]]
      BY <1>1, <2>2 DEF Chain
    <3>2. q[i + 1] # q[1]
      <4>1. 1 \in 1..n
        BY <1>3, <1>5
      <4> QED BY <1>1, <2>2, <4>1 DEF Chain
    <3> QED BY <1>4, <1>6, <2>2, <3>1, <3>2
  <2>4. ASSUME NEW i \in 1..m, NEW j \in 1..m, p[i] = p[j] PROVE i = j
    <3>1. i + 1 = j + 1
      BY <1>1, <2>2, <2>4 DEF Chain
    <3> QED BY <1>5, <3>1
  <2>5. ASSUME NEW b \in Blocks \ inUse' PROVE \E i \in 1..m : p[i] = b
    <3>1. b \in Blocks \ inUse /\ b # freeList
      BY <1>4
    <3>2. PICK k \in 1..n : q[k] = b
      BY <1>1, <3>1 DEF Chain
    <3>3. k # 1
      BY <1>6, <3>1, <3>2
    <3>4. k - 1 \in 1..m /\ p[k - 1] = q[k]
      BY <1>2, <1>3, <1>5, <3>3
    <3> QED BY <3>2, <3>4
  <2> QED BY <2>1, <2>3, <2>4, <2>5 DEF Chain, Blocks
<1>8. inUse' \subseteq Blocks /\ word' \in [Blocks -> 0..BlockCount]
  BY <1>4, <1>6 DEF PoolInv
<1>9. Cardinality(inUse \cup {freeList}) = Cardinality(inUse) + 1 /\ Cardinality(inUse) \in Nat
  BY <1>6, BlocksFinite, FS_AddElement DEF PoolInv
<1>10. available_' = m /\ available_' = BlockCount - Cardinality(inUse')
  <2>1. n = BlockCount - Cardinality(inUse)
    BY <1>1 DEF PoolInv
  <2> QED BY <1>2, <1>3, <1>4, <1>9, <2>1
<1>11. (\E r : Chain(r, available_))'
  BY <1>7, <1>10
<1> QED BY <1>5, <1>8, <1>10, <1>11 DEF PoolInv, Blocks

\* What a user writes into its block is on no chain.
LEMMA UserWritesInv ==
  ASSUME PoolInv, NEW b \in Blocks, UserWrites(b)
  PROVE  PoolInv'
<1>1. PICK n, q : n = available_ /\ Chain(q, n)
  BY DEF PoolInv
<1>2. PICK x \in 0..BlockCount : word' = [word EXCEPT ![b] = x]
  BY DEF UserWrites
<1>3. b \in inUse /\ UNCHANGED <<freeList, available_, inUse>>
  BY DEF UserWrites
<1>4. word' \in [Blocks -> 0..BlockCount] /\ \A c \in Blocks \ {b} : word'[c] = word[c]
  BY <1>2 DEF PoolInv
<1>5. \A i \in 1..n : q[i] \in Blocks \ inUse /\ q[i + 1] = word'[q[i]]
  BY <1>1, <1>3, <1>4 DEF Chain
<1>6. Chain(q, n)'
  BY <1>1, <1>3, <1>5 DEF Chain, Blocks
<1>7. (\E r : Chain(r, available_))'
  BY <1>1, <1>3, <1>6
<1> QED BY <1>3, <1>4, <1>7 DEF PoolInv, Blocks

\* deallocate() puts a block in front of the chain.
LEMMA DeallocateInv ==
  ASSUME PoolInv, NEW b \in Blocks, poolDeallocate(b)
  PROVE  PoolInv'
<1>1. PICK n, q : n = available_ /\ Chain(q, n)
  BY DEF PoolInv
<1>2. PICK m, p : m = n + 1 /\ p = [i \in 1..(n + 2) |-> IF i = 1 THEN b ELSE q[i - 1]]
  BY Zenon
<1>3. BlockCount \in Nat /\ n \in Nat /\ m \in Nat
  BY <1>1, <1>2, BlockAssumption DEF PoolInv
<1>4. /\ b \in inUse /\ word' = [word EXCEPT ![b] = freeList] /\ freeList' = b
      /\ available_' = n + 1 /\ inUse' = inUse \ {b}
  BY <1>1 DEF poolDeallocate
<1>5. b \in 0..BlockCount /\ freeList \in 0..BlockCount
  <2>1. q[1] \in 0..BlockCount
    BY <1>1, <1>3 DEF Chain
  <2> QED BY <1>1, <1>3, <2>1 DEF Chain, Blocks
<1>6. /\ word' \in [Blocks -> 0..BlockCount] /\ word'[b] = freeList
      /\ \A c \in Blocks \ {b} : word'[c] = word[c]
  BY <1>4, <1>5 DEF PoolInv
<1>7. p[1] = b /\ \A i \in 1..(n + 1) : p[i + 1] = q[i] /\ i + 1 \in 1..(m + 1)
  BY <1>2, <1>3
<1>8. Chain(p, m)'
  <2>1. p \in [1..(m + 1) -> 0..BlockCount]
    <3>1. \A i \in 1..(n + 2) : i = 1 \/ i - 1 \in 1..(n + 1)
      BY <1>3
    <3>2. \A i \in 1..(n + 1) : q[i] \in 0..BlockCount
      BY <1>1 DEF Chain
    <3>3. m + 1 = n + 2
      BY <1>2, <1>3
    <3> QED BY <1>2, <1>5, <3>1, <3>2, <3>3
  <2>2. p[m + 1] = 0
    <3>1. n + 1 \in 1..(n + 1) /\ m = n + 1
      BY <1>2, <1>3
    <3> QED BY <1>1, <1>7, <3>1 DEF Chain
  <2>3. \A i \in 1..m : i = 1 \/ \E k \in 1..n : i = k + 1
    <3>1. ASSUME NEW i \in 1..m, i # 1 PROVE i - 1 \in 1..n /\ i = (i - 1) + 1
      BY <1>2, <1>3, <3>1
    <3> QED BY <3>1
  <2>4. ASSUME NEW k \in 1..n
        PROVE  /\ p[k + 1] = q[k] /\ p[(k + 1) + 1] = q[k + 1] /\ k + 1 \in 1..m
               /\ q[k] \in Blocks \ inUse /\ q[k] # b
    <3>1. k \in 1..(n + 1) /\ k + 1 \in 1..(n + 1) /\ k + 1 \in 1..m
      BY <1>2, <1>3
    <3> QED BY <1>1, <1>4, <1>7, <3>1 DEF Chain
  <2>5. ASSUME NEW i \in 1..m PROVE p[i] \in Blocks \ inUse' /\ p[i + 1] = word'[p[i]]
    <3>1. CASE i = 1
      <4>1. 1 \in 1..(n + 1) /\ p[1 + 1] = q[1]
        BY <1>3, <1>7
      <4> QED BY <1>1, <1>4, <1>6, <1>7, <3>1, <4>1 DEF Chain
    <3>2. CASE i # 1
      <4>1. PICK k \in 1..n : i = k + 1
        BY <2>3, <3>2
      <4>2. q[k + 1] = word[q[k]]
        BY <1>1 DEF Chain
      <4> QED BY <1>4, <1>6, <2>4, <4>1, <4>2
    <3> QED BY <3>1, <3>2
  <2>6. ASSUME NEW i \in 1..m, NEW j \in 1..m, p[i] = p[j] PROVE i = j
    <3>1. CASE i = 1 /\ j = 1 BY <3>1
    <3>2. CASE i = 1 /\ j # 1 BY <1>7, <2>3, <2>4, <2>6, <3>2
    <3>3. CASE i # 1 /\ j = 1 BY <1>7, <2>3, <2>4, <2>6, <3>3
    <3>4. CASE i # 1 /\ j # 1
      <4>1. PICK k \in 1..n : i = k + 1
        BY <2>3, <3>4
      <4>2. PICK l \in 1..n : j = l + 1
        BY <2>3, <3>4
      <4>3. q[k] = q[l]
        BY <2>4, <2>6, <4>1, <4>2
      <4> QED BY <1>1, <4>1, <4>2, <4>3 DEF Chain
    <3> QED BY <3>1, <3>2, <3>3, <3>4
  <2>7. ASSUME NEW c \in Blocks \ inUse' PROVE \E i \in 1..m : p[i] = c
    <3>1. CASE c = b
      <4>1. 1 \in 1..m
        BY <1>2, <1>3
      <4> QED BY <1>7, <3>1, <4>1
    <3>2. CASE c # b
      <4>1. c \in Blocks \ inUse
        BY <1>4, <3>2
      <4>2. PICK k \in 1..n : q[k] = c
        BY <1>1, <4>1 DEF Chain
      <4> QED BY <2>4, <4>2
    <3> QED BY <3>1, <3>2
  <2>8. p[1] = freeList'
    BY <1>4, <1>7
  <2> QED BY <2>1, <2>2, <2>5, <2>6, <2>7, <2>8 DEF Chain, Blocks
<1>9. Cardinality(inUse \ {b}) = Cardinality(inUse) - 1 /\ Cardinality(inUse) \in Nat
  BY <1>4, BlocksFinite, FS_RemoveElement DEF PoolInv
<1>10. available_' = m /\ available_' = BlockCount - Cardinality(inUse')
  <2>1. n = BlockCount - Cardinality(inUse)
    BY <1>1 DEF PoolInv
  <2> QED BY <1>2, <1>3, <1>4, <1>9, <2>1
<1>11. (\E r : Chain(r, available_))'
  BY <1>8, <1>10
<1>12. inUse' \subseteq Blocks
  BY <1>4 DEF PoolInv
<1> QED BY <1>3, <1>6, <1>10, <1>11, <1>12 DEF PoolInv, Blocks

\* Induction as a least counterexample.
LEMMA LeastNatural ==
  ASSUME NEW T, T \subseteq Nat, T # {}
  PROVE  \E x \in T : \A y \in T : x <= y
<1>1. PICK R : R = OpToRel(<, Nat)
  BY Zenon
<1>2. IsWellFoundedOn(R, Nat)
  BY <1>1, NatLessThanWellFounded, Zenon
<1>3. PICK x \in T : \A y \in T : <<y, x>> \notin R
  BY ONLY <1>2, WFMin, T \subseteq Nat, T # {}
<1>4. \A y, z \in Nat : <<y, z>> \in R <=> y < z
  <2>1. R = {ss \in Nat \X Nat : ss[1] < ss[2]}
    BY <1>1, Zenon DEF OpToRel
  <2> QED BY <2>1
<1>5. ASSUME NEW y \in T PROVE x <= y
  <2>1. x \in Nat /\ y \in Nat
    BY Zenon
  <2>2. ~(y < x)
    BY <1>3, <1>4, <2>1, Zenon
  <2> QED BY <2>1, <2>2
<1> QED BY <1>5, Zenon

\* The step of Walk and the equation it was defined by.
Follow(w) == IF w[Len(w)] = 0 THEN w ELSE Append(w, word[w[Len(w)]])
WalkEquation(f) == f = [n \in 0..BlockCount |-> IF n = 0 THEN <<freeList>> ELSE Follow(f[n - 1])]

\* If the equation has a solution, Walk is one.
LEMMA WalkSolves ==
  ASSUME NEW f, WalkEquation(f)
  PROVE  WalkEquation(Walk)
BY Zenon DEF Walk, WalkEquation, Follow

\* The equation has at most one solution.
LEMMA WalkUnique ==
  ASSUME NEW f, NEW g, WalkEquation(f), WalkEquation(g)
  PROVE  \A n \in 0..BlockCount : f[n] = g[n]
<1> SUFFICES ASSUME NEW T, T = {n \in 0..BlockCount : f[n] # g[n]}, T # {} PROVE FALSE
  OBVIOUS
<1>1. BlockCount \in Nat
  BY BlockAssumption
<1>2. T \subseteq Nat
  BY <1>1
<1>3. PICK n \in T : \A y \in T : n <= y
  BY <1>2, LeastNatural
<1>4. n \in 0..BlockCount /\ f[n] # g[n]
  OBVIOUS
<1>5. n # 0
  BY <1>1, <1>4 DEF WalkEquation
<1>6. n - 1 \in 0..BlockCount /\ ~(n <= n - 1)
  BY <1>1, <1>4, <1>5
<1>7. f[n - 1] = g[n - 1]
  BY <1>3, <1>6
<1>8. f[n] = Follow(f[n - 1]) /\ g[n] = Follow(g[n - 1])
  BY <1>4, <1>5 DEF WalkEquation
<1> QED BY <1>4, <1>7, <1>8

\* The beginnings of a chain are sequences.
Beginning(q, k) == [i \in 1..k |-> q[i]]

\* Their length and elements.
LEMMA BeginningOf ==
  ASSUME NEW q, NEW k \in Nat, \A i \in 1..k : q[i] \in 0..BlockCount
  PROVE  /\ Beginning(q, k) \in Seq(0..BlockCount) /\ Len(Beginning(q, k)) = k
         /\ \A i \in 1..k : Beginning(q, k)[i] = q[i]
BY DEF Beginning

\* One more element.
LEMMA BeginningGrows ==
  ASSUME NEW q, NEW k \in Nat, \A i \in 1..(k + 1) : q[i] \in 0..BlockCount
  PROVE  Append(Beginning(q, k), q[k + 1]) = Beginning(q, k + 1)
<1> DEFINE b == Beginning(q, k)
           c == Append(b, q[k + 1])
<1>1. b \in Seq(0..BlockCount) /\ Len(b) = k /\ \A i \in 1..k : b[i] = q[i]
  BY BeginningOf
<1>2. q[k + 1] \in 0..BlockCount
  OBVIOUS
<1> HIDE DEF b
<1>3. c = [i \in 1..(k + 1) |-> IF i = k + 1 THEN q[k + 1] ELSE b[i]]
  BY <1>1, <1>2
<1>4. \A i \in 1..(k + 1) : c[i] = q[i]
  BY <1>1, <1>3
<1>5. c = [i \in 1..(k + 1) |-> q[i]]
  BY <1>3, <1>4
<1> QED BY <1>5 DEF Beginning, b

\* Walk follows the chain to its end.
LEMMA WalkIsChain ==
  ASSUME NEW n \in Nat, NEW q, Chain(q, n), n <= BlockCount
  PROVE  Walk[BlockCount] = Beginning(q, n + 1)
<1>1. BlockCount \in Nat
  BY BlockAssumption
<1>2. PICK f : f = [m \in 0..BlockCount |-> Beginning(q, IF m < n THEN m + 1 ELSE n + 1)]
  BY Zenon
<1>3. \A i \in 1..(n + 1) : q[i] \in 0..BlockCount
  BY DEF Chain
<1>4. f[0] = <<freeList>>
  <2>1. f[0] = Beginning(q, 1)
    BY <1>1, <1>2
  <2>2. Beginning(q, 1) = <<q[1]>>
    BY DEF Beginning
  <2> QED BY <2>1, <2>2 DEF Chain
<1>5. ASSUME NEW m \in 0..BlockCount, m # 0 PROVE f[m] = Follow(f[m - 1])
  <2>1. m - 1 \in 0..BlockCount /\ m \in Nat
    BY <1>1, <1>5
  <2>2. CASE m <= n
    <3>1. f[m - 1] = Beginning(q, m)
      <4>1. m - 1 < n /\ (m - 1) + 1 = m
        BY <2>1, <2>2
      <4> QED BY <1>2, <2>1, <4>1
    <3>2. f[m] = Beginning(q, m + 1)
      <4>1. (IF m < n THEN m + 1 ELSE n + 1) = m + 1
        BY <2>1, <2>2
      <4> QED BY <1>2, <4>1
    <3>3. \A i \in 1..(m + 1) : q[i] \in 0..BlockCount
      BY <1>3, <2>1, <2>2
    <3>4. m \in 1..n /\ \A i \in 1..m : q[i] \in 0..BlockCount
      BY <1>5, <2>1, <2>2, <3>3
    <3>5. Len(f[m - 1]) = m /\ f[m - 1][m] = q[m]
      BY <2>1, <3>1, <3>4, BeginningOf
    <3>6. q[m] # 0 /\ q[m + 1] = word[q[m]]
      BY <1>1, <3>4 DEF Chain, Blocks
    <3>7. Follow(f[m - 1]) = Append(f[m - 1], q[m + 1])
      BY <3>5, <3>6 DEF Follow
    <3> QED BY <2>1, <3>1, <3>2, <3>3, <3>7, BeginningGrows
  <2>3. CASE m > n
    <3>1. f[m] = Beginning(q, n + 1) /\ f[m - 1] = Beginning(q, n + 1)
      <4>1. ~(m < n) /\ ~(m - 1 < n)
        BY <2>1, <2>3
      <4> QED BY <1>2, <2>1, <4>1
    <3>2. Len(f[m - 1]) = n + 1 /\ f[m - 1][n + 1] = q[n + 1]
      BY <1>3, <3>1, BeginningOf
    <3>3. f[m - 1][Len(f[m - 1])] = 0
      BY <3>2 DEF Chain
    <3> QED BY <3>1, <3>3 DEF Follow
  <2> QED BY <2>1, <2>2, <2>3
<1>6. WalkEquation(f)
  <2>1. f = [m \in 0..BlockCount |-> f[m]]
    BY <1>2
  <2>2. \A m \in 0..BlockCount : f[m] = (IF m = 0 THEN <<freeList>> ELSE Follow(f[m - 1]))
    BY <1>4, <1>5
  <2> QED BY <2>1, <2>2, Zenon DEF WalkEquation
<1>7. Walk[BlockCount] = f[BlockCount]
  BY <1>1, <1>6, WalkSolves, WalkUnique
<1>8. (IF BlockCount < n THEN BlockCount + 1 ELSE n + 1) = n + 1
  BY <1>1
<1> QED BY <1>1, <1>2, <1>7, <1>8

\* The invariant says what FreeListSound says of Walk.
LEMMA PoolMeaning == PoolInv => FreeListSound
<1> SUFFICES ASSUME PoolInv PROVE FreeListSound
  OBVIOUS
<1>1. PICK n, q : n = available_ /\ Chain(q, n)
  BY DEF PoolInv
<1>2. BlockCount \in Nat /\ n \in Nat /\ n = BlockCount - Cardinality(inUse) /\ Cardinality(inUse) \in Nat
  BY <1>1, BlockAssumption, BlocksFinite DEF PoolInv
<1>3. n <= BlockCount
  BY <1>2
<1>4. PICK w : w = Walk[BlockCount]
  BY Zenon
<1>5. w = Beginning(q, n + 1)
  BY <1>1, <1>2, <1>3, <1>4, WalkIsChain
<1>6. \A i \in 1..(n + 1) : q[i] \in 0..BlockCount
  BY <1>1 DEF Chain
<1>7. Len(w) = n + 1 /\ \A i \in 1..(n + 1) : w[i] = q[i]
  BY <1>2, <1>5, <1>6, BeginningOf
<1>8. w[Len(w)] = 0
  <2>1. n + 1 \in 1..(n + 1)
    BY <1>2
  <2> QED BY <1>1, <1>7, <2>1 DEF Chain
<1>9. Len(w) - 1 = n /\ \A i \in 1..n : w[i] = q[i]
  BY <1>2, <1>7
<1>10. {w[i] : i \in 1..(Len(w) - 1)} = Blocks \ inUse
  <2>1. {w[i] : i \in 1..n} = {q[i] : i \in 1..n}
    BY <1>9
  <2>2. \A i \in 1..n : q[i] \in Blocks \ inUse
    BY <1>1 DEF Chain
  <2>3. \A b \in Blocks \ inUse : \E i \in 1..n : q[i] = b
    BY <1>1 DEF Chain
  <2>4. {q[i] : i \in 1..n} = Blocks \ inUse
    BY <2>2, <2>3
  <2> QED BY <1>9, <2>1, <2>4
<1> QED BY <1>1, <1>2, <1>4, <1>7, <1>8, <1>10 DEF FreeListSound

\* PoolAllocator::allocate and deallocate (PoolAllocator.h:39-57): for every number
\* of blocks and every sequence of allocations, returns, writes into the blocks
\* and resets, the words followed from the head meet exactly the blocks the user
\* does not hold, each once, and available() of them.
THEOREM FreeListAlways == BlockSpec => []FreeListSound
<1>1. BlocksInit => PoolInv
  BY BuiltInv DEF BlocksInit, Built
<1>2. PoolInv /\ [PoolNext \/ ArenaNext]_blockVars => PoolInv'
  <2> SUFFICES ASSUME PoolInv, [PoolNext \/ ArenaNext]_blockVars PROVE PoolInv'
    OBVIOUS
  <2>1. CASE UNCHANGED freeVars
    BY <2>1 DEF freeVars, PoolInv, Chain
  <2>2. CASE UNCHANGED blockVars
    BY <2>1, <2>2 DEF blockVars, freeVars
  <2>3. CASE ArenaNext
    BY <2>1, <2>3 DEF ArenaNext, arenaReset, arenaAllocate
  <2>4. CASE poolAllocate
    BY <2>4, AllocateInv
  <2>5. CASE poolReset
    <3>1. (Built => PoolInv)'
      BY BuiltInv, PTL
    <3>2. Built'
      BY <2>5 DEF poolReset, Built, BuiltWords, Blocks
    <3> QED BY <3>1, <3>2
  <2>6. ASSUME NEW b \in Blocks, UserWrites(b) \/ poolDeallocate(b) PROVE PoolInv'
    BY <2>6, UserWritesInv, DeallocateInv
  <2> QED BY <2>2, <2>3, <2>4, <2>5, <2>6 DEF PoolNext
<1> QED BY <1>1, <1>2, PoolMeaning, PTL DEF BlockSpec

-----------------------------------------------------------------------------
(* SoulVector: heaps and the primitive operations on them.                 *)

Positions == 1..(2 * MaxSize)
Cell == Elements \cup {Raw}

\* A heap is a record of these functions.
Shape(h) ==
  /\ h = [data |-> h.data, size |-> h.size, capacity |-> h.capacity, allocator |-> h.allocator,
          cells |-> h.cells, owner |-> h.owner, bad |-> h.bad]
  /\ h.data \in [AllVectors -> Areas] /\ h.size \in [AllVectors -> Nat]
  /\ h.capacity \in [AllVectors -> Nat] /\ DOMAIN h.allocator = AllVectors
  /\ h.allocator = [v \in AllVectors |-> h.allocator[v]]
  /\ h.cells \in [Areas -> [Positions -> Cell]]
  /\ h.owner = [b \in DOMAIN h.owner |-> h.owner[b]]

\* The vectors are as before.
SameVectors(h, g) ==
  g.data = h.data /\ g.size = h.size /\ g.capacity = h.capacity /\ g.allocator = h.allocator

\* A heap with other cells in one area, and with other owners.
WithCells(h, area, new, bad) == [h EXCEPT !.cells[area] = new, !.bad = bad]
WithOwners(h, own, bad) == [h EXCEPT !.owner = own, !.bad = bad]

\* Its fields.
LEMMA CellsChange ==
  ASSUME NEW h, Shape(h), NEW area \in Areas, NEW new \in [Positions -> Cell], NEW bad, NEW g,
         g = WithCells(h, area, new, bad)
  PROVE  /\ Shape(g) /\ SameVectors(h, g) /\ g.owner = h.owner /\ g.bad = bad
         /\ g.cells[area] = new /\ \A a \in Areas \ {area} : g.cells[a] = h.cells[a]
<1>1. PICK d, n, k, l, c, o, b : h = [data |-> d, size |-> n, capacity |-> k, allocator |-> l, cells |-> c, owner |-> o, bad |-> b]
  BY DEF Shape
<1>2. /\ d \in [AllVectors -> Areas] /\ n \in [AllVectors -> Nat] /\ k \in [AllVectors -> Nat]
      /\ DOMAIN l = AllVectors /\ l = [v \in AllVectors |-> l[v]] /\ c \in [Areas -> [Positions -> Cell]]
      /\ o = [x \in DOMAIN o |-> o[x]]
  BY <1>1 DEF Shape
<1>3. PICK e : e = [c EXCEPT ![area] = new]
  BY Zenon
<1>4. g = [data |-> d, size |-> n, capacity |-> k, allocator |-> l, cells |-> e, owner |-> o, bad |-> bad]
  BY <1>1, <1>3 DEF WithCells
<1>5. /\ e \in [Areas -> [Positions -> Cell]] /\ e[area] = new
      /\ \A a \in Areas \ {area} : e[a] = c[a]
  BY <1>2, <1>3
<1>6. /\ h.data = d /\ h.size = n /\ h.capacity = k /\ h.allocator = l /\ h.cells = c /\ h.owner = o
      /\ g.data = d /\ g.size = n /\ g.capacity = k /\ g.allocator = l /\ g.cells = e /\ g.owner = o
  BY <1>1, <1>4
<1>7. g.bad = bad
  BY <1>4, SMT
<1>8. g = [data |-> g.data, size |-> g.size, capacity |-> g.capacity, allocator |-> g.allocator,
           cells |-> g.cells, owner |-> g.owner, bad |-> g.bad]
  BY <1>4, <1>6, <1>7, Zenon
<1>9. Shape(g)
  BY <1>2, <1>5, <1>6, <1>8, Zenon DEF Shape
<1> QED BY <1>5, <1>6, <1>7, <1>9, Zenon DEF SameVectors

\* Placement new.
Constructed(h, area, from, xs, g) ==
  /\ Shape(g) /\ SameVectors(h, g) /\ g.owner = h.owner /\ (g.bad <=> h.bad)
  /\ \A a \in Areas \ {area} : g.cells[a] = h.cells[a]
  /\ \A i \in Positions : g.cells[area][i] =
       IF i \in (from + 1)..(from + Len(xs)) THEN xs[i - from] ELSE h.cells[area][i]

\* Placement new leaves the rest of the storage alone.
LEMMA ConstructFields ==
  ASSUME NEW h, Shape(h), NEW area \in Areas, NEW from \in Nat, NEW xs \in Seq(Elements), NEW g,
         g = Construct(h, area, from, xs), from + Len(xs) <= 2 * MaxSize,
         \A i \in (from + 1)..(from + Len(xs)) : h.cells[area][i] = Raw
  PROVE  Constructed(h, area, from, xs, g)
<1>1. PICK row : row = [i \in Positions |-> IF i \in (from + 1)..(from + Len(xs)) THEN xs[i - from] ELSE h.cells[area][i]]
  BY Zenon
<1>2. h.cells[area] \in [Positions -> Cell]
  BY DEF Shape
<1>3. row \in [Positions -> Cell]
  <2>1. \A i \in (from + 1)..(from + Len(xs)) : xs[i - from] \in Elements
    <3>1. \A i \in (from + 1)..(from + Len(xs)) : i - from \in 1..Len(xs)
      OBVIOUS
    <3> QED BY <3>1
  <2> QED BY <1>1, <1>2, <2>1 DEF Cell
<1>4. PICK bad : bad = (h.bad \/ \E i \in (from + 1)..(from + Len(xs)) : h.cells[area][i] # Raw)
  BY Zenon
<1>5. g = WithCells(h, area, row, bad)
  <2>1. DOMAIN h.cells[area] = Positions
    BY <1>2
  <2>2. "cells" \in DOMAIN h /\ "bad" \in DOMAIN h /\ area \in DOMAIN h.cells
    BY DEF Shape
  <2> QED BY <1>1, <1>4, <2>1, <2>2 DEF Construct, WithCells
<1>6. bad <=> h.bad
  BY <1>4
<1>7. /\ Shape(g) /\ SameVectors(h, g) /\ g.owner = h.owner /\ g.bad = bad
      /\ g.cells[area] = row /\ \A a \in Areas \ {area} : g.cells[a] = h.cells[a]
  BY <1>3, <1>5, CellsChange
<1>8. g.bad <=> h.bad
  BY <1>6, <1>7, Zenon
<1>9. \A i \in Positions : g.cells[area][i] = row[i]
  BY <1>7, Zenon
<1>10. \A i \in Positions : g.cells[area][i] = IF i \in (from + 1)..(from + Len(xs)) THEN xs[i - from] ELSE h.cells[area][i]
  BY <1>1, <1>9
<1> QED BY <1>7, <1>8, <1>10, Zenon DEF Constructed

\* Destructors.
Destroyed(h, area, from, to, g) ==
  /\ Shape(g) /\ SameVectors(h, g) /\ g.owner = h.owner /\ (g.bad <=> h.bad)
  /\ \A a \in Areas \ {area} : g.cells[a] = h.cells[a]
  /\ \A i \in Positions : g.cells[area][i] = IF i \in from..to THEN Raw ELSE h.cells[area][i]

\* Destructors leave the rest of the storage alone.
LEMMA DestroyFields ==
  ASSUME NEW h, Shape(h), NEW area \in Areas, NEW from \in Nat \ {0}, NEW to \in Nat, NEW g,
         g = destroy_range(h, area, from, to), to <= 2 * MaxSize,
         \A i \in from..to : h.cells[area][i] # Raw
  PROVE  Destroyed(h, area, from, to, g)
<1>1. PICK row : row = [i \in Positions |-> IF i \in from..to THEN Raw ELSE h.cells[area][i]]
  BY Zenon
<1>2. h.cells[area] \in [Positions -> Cell]
  BY DEF Shape
<1>3. row \in [Positions -> Cell]
  BY <1>1, <1>2 DEF Cell
<1>4. PICK bad : bad = (h.bad \/ \E i \in from..to : h.cells[area][i] = Raw)
  BY Zenon
<1>5. g = WithCells(h, area, row, bad)
  <2>1. DOMAIN h.cells[area] = Positions
    BY <1>2
  <2>2. "cells" \in DOMAIN h /\ "bad" \in DOMAIN h /\ area \in DOMAIN h.cells
    BY DEF Shape
  <2> QED BY <1>1, <1>4, <2>1, <2>2 DEF destroy_range, WithCells
<1>6. bad <=> h.bad
  BY <1>4
<1>7. /\ Shape(g) /\ SameVectors(h, g) /\ g.owner = h.owner /\ g.bad = bad
      /\ g.cells[area] = row /\ \A a \in Areas \ {area} : g.cells[a] = h.cells[a]
  BY <1>3, <1>5, CellsChange
<1>8. g.bad <=> h.bad
  BY <1>6, <1>7, Zenon
<1>9. \A i \in Positions : g.cells[area][i] = row[i]
  BY <1>7, Zenon
<1>10. \A i \in Positions : g.cells[area][i] = IF i \in from..to THEN Raw ELSE h.cells[area][i]
  BY <1>1, <1>9
<1> QED BY <1>7, <1>8, <1>10, Zenon DEF Destroyed

\* Its fields.
LEMMA OwnerChange ==
  ASSUME NEW h, Shape(h), NEW own, own = [b \in DOMAIN own |-> own[b]], NEW bad, NEW g,
         g = WithOwners(h, own, bad)
  PROVE  Shape(g) /\ SameVectors(h, g) /\ g.owner = own /\ g.bad = bad /\ g.cells = h.cells
<1>1. PICK d, n, k, l, c, o, b : h = [data |-> d, size |-> n, capacity |-> k, allocator |-> l, cells |-> c, owner |-> o, bad |-> b]
  BY DEF Shape
<1>2. /\ d \in [AllVectors -> Areas] /\ n \in [AllVectors -> Nat] /\ k \in [AllVectors -> Nat]
      /\ DOMAIN l = AllVectors /\ l = [v \in AllVectors |-> l[v]] /\ c \in [Areas -> [Positions -> Cell]]
  BY <1>1 DEF Shape
<1>3. g = [data |-> d, size |-> n, capacity |-> k, allocator |-> l, cells |-> c, owner |-> own, bad |-> bad]
  BY <1>1 DEF WithOwners
<1>4. /\ h.data = d /\ h.size = n /\ h.capacity = k /\ h.allocator = l /\ h.cells = c
      /\ g.data = d /\ g.size = n /\ g.capacity = k /\ g.allocator = l /\ g.cells = c /\ g.owner = own
  BY <1>1, <1>3
<1>5. g.bad = bad
  BY <1>3, SMT
<1>6. g = [data |-> g.data, size |-> g.size, capacity |-> g.capacity, allocator |-> g.allocator,
           cells |-> g.cells, owner |-> g.owner, bad |-> g.bad]
  BY <1>3, <1>4, <1>5, Zenon
<1>7. Shape(g)
  BY <1>2, <1>4, <1>6, Zenon DEF Shape
<1> QED BY <1>4, <1>5, <1>7, Zenon DEF SameVectors

\* A block is taken for v.
LEMMA AllocateFields ==
  ASSUME NEW h, Shape(h), NEW v \in AllVectors, NEW n, NEW g, g = AllocateBlock(h, v, n), NEW b, b = FreshBlock(h),
         \E x \in HeapBlocks : x \notin DOMAIN h.owner
  PROVE  /\ b \in HeapBlocks /\ b \notin DOMAIN h.owner
         /\ Shape(g) /\ SameVectors(h, g) /\ (g.bad <=> h.bad) /\ g.cells = h.cells
         /\ DOMAIN g.owner = DOMAIN h.owner \cup {b} /\ g.owner[b] = Grant(h.allocator[v], n)
         /\ \A x \in DOMAIN h.owner : g.owner[x] = h.owner[x]
<1>1. b \in HeapBlocks /\ b \notin DOMAIN h.owner
  BY DEF FreshBlock
<1>2. PICK own : own = [x \in DOMAIN h.owner \cup {b} |-> IF x = b THEN Grant(h.allocator[v], n) ELSE h.owner[x]]
  BY Zenon
<1>3. DOMAIN own = DOMAIN h.owner \cup {b} /\ own = [x \in DOMAIN own |-> own[x]]
  BY <1>2
<1>4. g = [h EXCEPT !.owner = own]
  BY <1>2 DEF AllocateBlock, Shape
<1>5. PICK bad : bad = h.bad
  BY Zenon
<1>6. g = WithOwners(h, own, bad)
  BY <1>4, <1>5 DEF Shape, WithOwners
<1>7. Shape(g) /\ SameVectors(h, g) /\ g.owner = own /\ g.bad = bad /\ g.cells = h.cells
  BY <1>3, <1>6, OwnerChange
<1> QED BY <1>1, <1>2, <1>3, <1>5, <1>7

\* A block is given back to v's allocator.
LEMMA DeallocateFields ==
  ASSUME NEW h, Shape(h), NEW v \in AllVectors, NEW b, NEW n, NEW g, g = DeallocateBlock(h, v, b, n),
         b \in DOMAIN h.owner, h.owner[b] = Grant(h.allocator[v], n), b \in Areas, \A i \in Positions : h.cells[b][i] = Raw
  PROVE  /\ Shape(g) /\ SameVectors(h, g) /\ (g.bad <=> h.bad) /\ g.cells = h.cells
         /\ DOMAIN g.owner = DOMAIN h.owner \ {b}
         /\ \A x \in DOMAIN h.owner \ {b} : g.owner[x] = h.owner[x]
<1>1. PICK own : own = [x \in DOMAIN h.owner \ {b} |-> h.owner[x]]
  BY Zenon
<1>2. DOMAIN own = DOMAIN h.owner \ {b} /\ own = [x \in DOMAIN own |-> own[x]]
  BY <1>1
<1>3. h.cells[b] = RawCells
  <2>1. h.cells[b] \in [Positions -> Cell]
    BY DEF Shape
  <2> QED BY <2>1 DEF RawCells, Positions
<1>4. PICK bad : bad = (h.bad \/ b \notin DOMAIN h.owner \/ h.owner[b] # Grant(h.allocator[v], n) \/ h.cells[b] # RawCells)
  BY Zenon
<1>5. g = WithOwners(h, own, bad)
  BY <1>1, <1>4 DEF DeallocateBlock, Shape, WithOwners
<1>6. bad <=> h.bad
  BY <1>3, <1>4
<1>7. Shape(g) /\ SameVectors(h, g) /\ g.owner = own /\ g.bad = bad /\ g.cells = h.cells
  BY <1>2, <1>5, OwnerChange
<1> QED BY <1>1, <1>2, <1>6, <1>7

\* A heap whose vectors have changed: its fields.
LEMMA VectorsChange ==
  ASSUME NEW h, Shape(h), NEW d \in [AllVectors -> Areas], NEW n \in [AllVectors -> Nat],
         NEW k \in [AllVectors -> Nat], NEW l, DOMAIN l = AllVectors, l = [v \in AllVectors |-> l[v]],
         NEW c, NEW o, NEW b, h.cells = c, h.owner = o, h.bad = b,
         NEW g, g = [data |-> d, size |-> n, capacity |-> k, allocator |-> l,
             cells |-> c, owner |-> o, bad |-> b]
  PROVE  /\ Shape(g) /\ g.data = d /\ g.size = n /\ g.capacity = k /\ g.allocator = l
         /\ g.cells = h.cells /\ g.owner = h.owner /\ g.bad = h.bad
<1>1. c \in [Areas -> [Positions -> Cell]] /\ o = [x \in DOMAIN o |-> o[x]]
  BY DEF Shape
<1>2. g.data = d /\ g.size = n /\ g.capacity = k /\ g.allocator = l /\ g.cells = c /\ g.owner = o
  OBVIOUS
<1>3. g.bad = b
  BY SMT
<1>4. g = [data |-> g.data, size |-> g.size, capacity |-> g.capacity, allocator |-> g.allocator,
           cells |-> g.cells, owner |-> g.owner, bad |-> g.bad]
  BY <1>2, <1>3, Zenon
<1>5. Shape(g)
  BY <1>1, <1>2, <1>4, Zenon DEF Shape
<1> QED BY <1>2, <1>3, <1>5, Zenon

\* The updates of vectors that the member functions make.
Place(h, v, a, k) == [h EXCEPT !.data[v] = a, !.capacity[v] = k]
Resize(h, v, n) == [h EXCEPT !.size[v] = n]
PlaceAndResize(h, v, a, k, n) == [h EXCEPT !.data[v] = a, !.capacity[v] = k, !.size[v] = n]
Reassign(h, v, a) == [h EXCEPT !.allocator[v] = a]

\* A vector gets another area.
LEMMA PlaceFields ==
  ASSUME NEW h, Shape(h), NEW v \in AllVectors, NEW a \in Areas, NEW k \in Nat, NEW g, g = Place(h, v, a, k)
  PROVE  /\ Shape(g) /\ g.data = [h.data EXCEPT ![v] = a] /\ g.size = h.size /\ g.capacity = [h.capacity EXCEPT ![v] = k] /\ g.allocator = h.allocator
         /\ g.cells = h.cells /\ g.owner = h.owner /\ g.bad = h.bad
<1>1. PICK d0, n0, k0, l0, c, o, b : h = [data |-> d0, size |-> n0, capacity |-> k0, allocator |-> l0,
             cells |-> c, owner |-> o, bad |-> b]
  BY DEF Shape
<1>2. h.data = d0 /\ h.size = n0 /\ h.capacity = k0 /\ h.allocator = l0 /\ h.cells = c /\ h.owner = o
  BY <1>1
<1>3. h.bad = b
  BY <1>1, SMT
<1>4. /\ d0 \in [AllVectors -> Areas] /\ n0 \in [AllVectors -> Nat] /\ k0 \in [AllVectors -> Nat]
      /\ DOMAIN l0 = AllVectors /\ l0 = [w \in AllVectors |-> l0[w]]
  BY <1>2 DEF Shape
<1>5. g = [data |-> [d0 EXCEPT ![v] = a], size |-> n0, capacity |-> [k0 EXCEPT ![v] = k], allocator |-> l0,
             cells |-> c, owner |-> o, bad |-> b]
  <2>1. PICK e1 : e1 = [h EXCEPT !.data[v] = a] BY Zenon
  <2>2. e1 = [data |-> [d0 EXCEPT ![v] = a], size |-> n0, capacity |-> k0, allocator |-> l0,
             cells |-> c, owner |-> o, bad |-> b] BY <1>1, <2>1
  <2>3. [e1 EXCEPT !.capacity[v] = k] = [data |-> [d0 EXCEPT ![v] = a], size |-> n0, capacity |-> [k0 EXCEPT ![v] = k], allocator |-> l0,
             cells |-> c, owner |-> o, bad |-> b] BY <2>2
  <2>4. g = [e1 EXCEPT !.capacity[v] = k] BY <2>1 DEF Place
  <2> QED BY <2>3, <2>4
<1>6. [d0 EXCEPT ![v] = a] \in [AllVectors -> Areas] /\ [k0 EXCEPT ![v] = k] \in [AllVectors -> Nat]
  BY <1>4
<1> QED BY <1>2, <1>3, <1>4, <1>5, <1>6, VectorsChange, SMTT(30)

\* A vector gets another size.
LEMMA ResizeFields ==
  ASSUME NEW h, Shape(h), NEW v \in AllVectors, NEW n \in Nat, NEW g, g = Resize(h, v, n)
  PROVE  /\ Shape(g) /\ g.data = h.data /\ g.size = [h.size EXCEPT ![v] = n] /\ g.capacity = h.capacity /\ g.allocator = h.allocator
         /\ g.cells = h.cells /\ g.owner = h.owner /\ g.bad = h.bad
<1>1. PICK d0, n0, k0, l0, c, o, b : h = [data |-> d0, size |-> n0, capacity |-> k0, allocator |-> l0,
             cells |-> c, owner |-> o, bad |-> b]
  BY DEF Shape
<1>2. h.data = d0 /\ h.size = n0 /\ h.capacity = k0 /\ h.allocator = l0 /\ h.cells = c /\ h.owner = o
  BY <1>1
<1>3. h.bad = b
  BY <1>1, SMT
<1>4. /\ d0 \in [AllVectors -> Areas] /\ n0 \in [AllVectors -> Nat] /\ k0 \in [AllVectors -> Nat]
      /\ DOMAIN l0 = AllVectors /\ l0 = [w \in AllVectors |-> l0[w]]
  BY <1>2 DEF Shape
<1>5. g = [data |-> d0, size |-> [n0 EXCEPT ![v] = n], capacity |-> k0, allocator |-> l0,
             cells |-> c, owner |-> o, bad |-> b]
  BY <1>1 DEF Resize
<1>6. [n0 EXCEPT ![v] = n] \in [AllVectors -> Nat]
  BY <1>4
<1> QED BY <1>2, <1>3, <1>4, <1>5, <1>6, VectorsChange

\* A vector gets another allocator.
LEMMA ReassignFields ==
  ASSUME NEW h, Shape(h), NEW v \in AllVectors, NEW a, NEW g, g = Reassign(h, v, a)
  PROVE  /\ Shape(g) /\ g.data = h.data /\ g.size = h.size /\ g.capacity = h.capacity /\ g.allocator = [h.allocator EXCEPT ![v] = a]
         /\ g.cells = h.cells /\ g.owner = h.owner /\ g.bad = h.bad
<1>1. PICK d0, n0, k0, l0, c, o, b : h = [data |-> d0, size |-> n0, capacity |-> k0, allocator |-> l0,
             cells |-> c, owner |-> o, bad |-> b]
  BY DEF Shape
<1>2. h.data = d0 /\ h.size = n0 /\ h.capacity = k0 /\ h.allocator = l0 /\ h.cells = c /\ h.owner = o
  BY <1>1
<1>3. h.bad = b
  BY <1>1, SMT
<1>4. /\ d0 \in [AllVectors -> Areas] /\ n0 \in [AllVectors -> Nat] /\ k0 \in [AllVectors -> Nat]
      /\ DOMAIN l0 = AllVectors /\ l0 = [w \in AllVectors |-> l0[w]]
  BY <1>2 DEF Shape
<1>5. g = [data |-> d0, size |-> n0, capacity |-> k0, allocator |-> [l0 EXCEPT ![v] = a],
             cells |-> c, owner |-> o, bad |-> b]
  BY <1>1 DEF Reassign
<1>6. DOMAIN [l0 EXCEPT ![v] = a] = AllVectors /\ [l0 EXCEPT ![v] = a] = [w \in AllVectors |-> [l0 EXCEPT ![v] = a][w]]
  BY <1>4
<1> QED BY <1>2, <1>3, <1>4, <1>5, <1>6, VectorsChange

\* A vector gets another area and size.
LEMMA PlaceAndResizeFields ==
  ASSUME NEW h, Shape(h), NEW v \in AllVectors, NEW a \in Areas, NEW k \in Nat, NEW n \in Nat,
         NEW g, g = PlaceAndResize(h, v, a, k, n)
  PROVE  /\ Shape(g) /\ g.data = [h.data EXCEPT ![v] = a] /\ g.size = [h.size EXCEPT ![v] = n]
         /\ g.capacity = [h.capacity EXCEPT ![v] = k] /\ g.allocator = h.allocator
         /\ g.cells = h.cells /\ g.owner = h.owner /\ g.bad = h.bad
<1>1. PICK e : e = Place(h, v, a, k)
  BY Zenon
<1>2. g = Resize(e, v, n)
  BY <1>1 DEF Place, Resize, PlaceAndResize
<1>3. /\ Shape(e) /\ e.data = [h.data EXCEPT ![v] = a] /\ e.size = h.size
      /\ e.capacity = [h.capacity EXCEPT ![v] = k] /\ e.allocator = h.allocator
      /\ e.cells = h.cells /\ e.owner = h.owner /\ e.bad = h.bad
  BY <1>1, PlaceFields
<1>4. /\ Shape(g) /\ g.data = e.data /\ g.size = [e.size EXCEPT ![v] = n]
      /\ g.capacity = e.capacity /\ g.allocator = e.allocator
      /\ g.cells = e.cells /\ g.owner = e.owner /\ g.bad = e.bad
  BY <1>2, <1>3, ResizeFields
<1> QED BY <1>3, <1>4, Zenon

-----------------------------------------------------------------------------
(* Sound heaps.                                                            *)

\* Vector v keeps the sequence c[v] in its own storage or in a block that came
\* from its allocator, for its capacity.
VectorOK(h, c, v) ==
  /\ h.size[v] = Len(c[v]) /\ h.size[v] <= h.capacity[v] /\ h.size[v] <= MaxSize /\ 0 < h.capacity[v]
  /\ \/ h.data[v] = v /\ h.capacity[v] = SmallCapacity
     \/ h.data[v] \in DOMAIN h.owner /\ h.owner[h.data[v]] = Grant(h.allocator[v], h.capacity[v])
  /\ \A i \in 1..h.size[v] : h.cells[h.data[v]][i] = c[v][i]

Apart(h) == \A v, w \in AllVectors : h.data[v] = h.data[w] => v = w

OwnersOK(h) ==
  DOMAIN h.owner \subseteq HeapBlocks /\ \A b \in DOMAIN h.owner : \E v \in AllVectors : h.data[v] = b

\* Whatever is beyond a vector's size is not constructed.
RestRaw(h) ==
  \A a \in Areas : \A i \in Positions :
    (\A v \in AllVectors : h.data[v] = a => h.size[v] < i) => h.cells[a][i] = Raw

\* The heap h holds the sequences c.
Stored(h, c) ==
  /\ Shape(h) /\ ~h.bad /\ c \in [AllVectors -> Seq(Elements)]
  /\ (\A v \in AllVectors : VectorOK(h, c, v)) /\ Apart(h) /\ OwnersOK(h) /\ RestRaw(h)

\* The types of what a sound heap says of a vector.
LEMMA StoredTypes ==
  ASSUME NEW h, NEW c, Stored(h, c), NEW v \in AllVectors
  PROVE  /\ h.data[v] \in Areas /\ h.size[v] \in Nat /\ h.capacity[v] \in Nat
         /\ c[v] \in Seq(Elements) /\ Len(c[v]) = h.size[v]
         /\ h.size[v] <= h.capacity[v] /\ h.size[v] <= MaxSize /\ 0 < h.capacity[v]
         /\ \A i \in 1..h.size[v] : i \in Positions /\ h.cells[h.data[v]][i] = c[v][i]
         /\ \A i \in 1..h.size[v] : c[v][i] \in Elements /\ c[v][i] # Raw
<1>1. h.data[v] \in Areas /\ h.size[v] \in Nat /\ h.capacity[v] \in Nat
  BY DEF Stored, Shape
<1>2. c[v] \in Seq(Elements) /\ VectorOK(h, c, v)
  BY DEF Stored
<1>3. MaxSize \in Nat /\ Raw \notin Elements
  BY VectorAssumption
<1>4. h.size[v] <= MaxSize /\ Len(c[v]) = h.size[v] /\ h.size[v] <= h.capacity[v] /\ 0 < h.capacity[v]
  BY <1>2 DEF VectorOK
<1>5. \A i \in 1..h.size[v] : i \in Positions
  BY <1>1, <1>3, <1>4 DEF Positions
<1>6. \A i \in 1..h.size[v] : c[v][i] \in Elements
  BY <1>2, <1>4
<1>7. \A i \in 1..h.size[v] : h.cells[h.data[v]][i] = c[v][i]
  BY <1>2 DEF VectorOK
<1> QED BY <1>1, <1>2, <1>3, <1>4, <1>5, <1>6, <1>7

\* The elements of a vector are its sequence.
LEMMA ItemsAre ==
  ASSUME NEW h, NEW c, Stored(h, c), NEW v \in AllVectors
  PROVE  Items(h, v) = c[v]
<1>1. /\ c[v] \in Seq(Elements) /\ Len(c[v]) = h.size[v]
      /\ \A i \in 1..h.size[v] : h.cells[h.data[v]][i] = c[v][i]
  BY StoredTypes
<1>2. c[v] = [i \in 1..Len(c[v]) |-> c[v][i]]
  BY <1>1
<1> QED BY <1>1, <1>2 DEF Items

\* A vector uses its own storage or a block.
LEMMA WhereData ==
  ASSUME NEW h, NEW c, Stored(h, c), NEW v \in AllVectors
  PROVE  /\ v \in Areas /\ v \notin HeapBlocks
         /\ h.data[v] = v => h.capacity[v] = SmallCapacity
         /\ h.data[v] # v => /\ h.data[v] \in DOMAIN h.owner /\ h.data[v] \in HeapBlocks
                             /\ h.owner[h.data[v]] = Grant(h.allocator[v], h.capacity[v])
                             /\ \A w \in AllVectors : h.data[w] # v
<1>1. v \in Areas /\ v \notin HeapBlocks
  BY VectorAssumption DEF Areas
<1>2. \A w \in AllVectors : VectorOK(h, c, w) /\ DOMAIN h.owner \subseteq HeapBlocks
  BY DEF Stored, OwnersOK
<1>3. ASSUME h.data[v] # v
      PROVE  /\ h.data[v] \in DOMAIN h.owner /\ h.data[v] \in HeapBlocks
             /\ h.owner[h.data[v]] = Grant(h.allocator[v], h.capacity[v]) /\ \A w \in AllVectors : h.data[w] # v
  BY <1>1, <1>2, <1>3 DEF VectorOK
<1>4. h.data[v] = v => h.capacity[v] = SmallCapacity
  BY <1>1, <1>2 DEF VectorOK
<1> QED BY <1>1, <1>3, <1>4

\* There is a block to allocate, nobody uses it, and it is raw.
LEMMA FreshIsFree ==
  ASSUME NEW h, NEW c, Stored(h, c)
  PROVE  /\ \E x \in HeapBlocks : x \notin DOMAIN h.owner
         /\ FreshBlock(h) \in HeapBlocks /\ FreshBlock(h) \in Areas /\ FreshBlock(h) \notin DOMAIN h.owner
         /\ \A w \in AllVectors : h.data[w] # FreshBlock(h)
<1>1. h.data \in [AllVectors -> Areas] /\ OwnersOK(h)
  BY DEF Stored, Shape
<1>2. PICK x \in HeapBlocks : x \notin Range(h.data)
  BY <1>1, VectorAssumption
<1>3. \A v \in AllVectors : h.data[v] # x
  BY <1>1, <1>2 DEF Range
<1>4. x \notin DOMAIN h.owner
  BY <1>1, <1>3 DEF OwnersOK
<1>5. FreshBlock(h) \in HeapBlocks /\ FreshBlock(h) \notin DOMAIN h.owner
  BY <1>4 DEF FreshBlock
<1>6. ASSUME NEW w \in AllVectors PROVE h.data[w] # FreshBlock(h)
  BY <1>5, WhereData
<1> QED BY <1>4, <1>5, <1>6 DEF Areas

\* Unused areas are raw.
LEMMA UnusedRaw ==
  ASSUME NEW h, NEW c, Stored(h, c), NEW a \in Areas, \A w \in AllVectors : h.data[w] # a
  PROVE  \A i \in Positions : h.cells[a][i] = Raw
BY DEF Stored, RestRaw

\* The elements of v are now in area a, which nobody used, and its old area is raw.
LEMMA Relocated ==
  ASSUME NEW h, NEW c, Stored(h, c), NEW v \in AllVectors, NEW a \in Areas, \A w \in AllVectors : h.data[w] # a,
         NEW g, Shape(g), ~g.bad,
         g.data = [h.data EXCEPT ![v] = a], g.size = h.size, g.allocator = h.allocator,
         h.size[v] <= g.capacity[v], 0 < g.capacity[v], \A w \in AllVectors \ {v} : g.capacity[w] = h.capacity[w],
         \/ a = v /\ g.capacity[v] = SmallCapacity
         \/ a \in HeapBlocks /\ g.owner[a] = Grant(h.allocator[v], g.capacity[v]),
         DOMAIN g.owner = (DOMAIN h.owner \cup ({a} \cap HeapBlocks)) \ {h.data[v]},
         \A b \in DOMAIN g.owner \ {a} : g.owner[b] = h.owner[b],
         \A i \in Positions : g.cells[a][i] = IF i <= h.size[v] THEN c[v][i] ELSE Raw,
         \A i \in Positions : g.cells[h.data[v]][i] = Raw,
         \A b \in Areas \ {a, h.data[v]} : g.cells[b] = h.cells[b]
  PROVE  Stored(g, c)
<1>1. h.data \in [AllVectors -> Areas] /\ Apart(h) /\ OwnersOK(h) /\ RestRaw(h)
  BY DEF Stored, Shape
<1>2. g.data[v] = a /\ \A w \in AllVectors \ {v} : g.data[w] = h.data[w]
  BY <1>1
<1>3. \A w \in AllVectors \ {v} : h.data[w] # h.data[v] /\ h.data[w] # a
  BY <1>1 DEF Apart
<1>4. Apart(g)
  BY <1>1, <1>2, <1>3 DEF Apart
<1>5. a # h.data[v] /\ h.data[v] \in Areas
  BY <1>1
<1>6. OwnersOK(g)
  <2>1. ASSUME NEW b \in DOMAIN g.owner PROVE \E w \in AllVectors : g.data[w] = b
    <3>1. CASE b = a BY <1>2, <3>1
    <3>2. CASE b # a
      <4>1. b \in DOMAIN h.owner /\ b # h.data[v]
        BY <2>1, <3>2
      <4>2. PICK w \in AllVectors : h.data[w] = b
        BY <1>1, <4>1 DEF OwnersOK
      <4> QED BY <1>2, <4>1, <4>2
    <3> QED BY <3>1, <3>2
  <2> QED BY <1>1, <2>1 DEF OwnersOK
<1>7. ASSUME NEW w \in AllVectors PROVE VectorOK(g, c, w)
  <2>1. VectorOK(h, c, w)
    BY DEF Stored
  <2>2. CASE w = v
    <3>1. g.size[v] = Len(c[v]) /\ g.size[v] <= g.capacity[v] /\ g.size[v] <= MaxSize /\ 0 < g.capacity[v]
      BY <2>1, <2>2 DEF VectorOK
    <3>2. \/ g.data[v] = v /\ g.capacity[v] = SmallCapacity
          \/ g.data[v] \in DOMAIN g.owner /\ g.owner[g.data[v]] = Grant(g.allocator[v], g.capacity[v])
      BY <1>2, <1>5
    <3>3. \A i \in 1..g.size[v] : g.cells[g.data[v]][i] = c[v][i]
      <4>1. h.size[v] \in Nat /\ \A i \in 1..h.size[v] : i \in Positions
        BY StoredTypes
      <4> QED BY <1>2, <4>1
    <3> QED BY <2>2, <3>1, <3>2, <3>3 DEF VectorOK
  <2>3. CASE w # v
    <3>1. g.data[w] = h.data[w] /\ h.data[w] \in Areas \ {a, h.data[v]}
      BY <1>1, <1>2, <1>3, <2>3
    <3>2. g.cells[g.data[w]] = h.cells[h.data[w]]
      BY <3>1
    <3>3. h.data[w] \in DOMAIN h.owner => h.data[w] \in DOMAIN g.owner /\ g.owner[h.data[w]] = h.owner[h.data[w]]
      BY <3>1
    <3>4. g.capacity[w] = h.capacity[w]
      BY <2>3
    <3> QED BY <2>1, <3>1, <3>2, <3>3, <3>4 DEF VectorOK
  <2> QED BY <2>2, <2>3
<1>8. RestRaw(g)
  <2> SUFFICES ASSUME NEW b \in Areas, NEW i \in Positions, \A w \in AllVectors : g.data[w] = b => g.size[w] < i
               PROVE  g.cells[b][i] = Raw
    BY DEF RestRaw
  <2>1. CASE b = a
    <3>1. h.size[v] < i /\ h.size[v] \in Nat /\ i \in Nat
      <4>1. h.size[v] \in Nat /\ MaxSize \in Nat
        BY StoredTypes, VectorAssumption
      <4> QED BY <1>2, <2>1, <4>1 DEF Positions
    <3>2. ~(i <= h.size[v])
      BY <3>1
    <3> QED BY <2>1, <3>2
  <2>2. CASE b = h.data[v] BY <2>2
  <2>3. CASE b \notin {a, h.data[v]}
    <3>1. \A w \in AllVectors : h.data[w] = b => h.size[w] < i
      BY <1>2, <2>3
    <3> QED BY <1>1, <2>3, <3>1 DEF RestRaw
  <2> QED BY <2>1, <2>2, <2>3
<1> QED BY <1>4, <1>6, <1>7, <1>8 DEF Stored

\* Only the storage of v has changed.
Only(h, g, v) ==
  /\ g.allocator = h.allocator
  /\ \A w \in AllVectors \ {v} : g.data[w] = h.data[w] /\ g.size[w] = h.size[w]

\* The sequence of v has changed in place.
LEMMA Rewritten ==
  ASSUME NEW h, NEW c, Stored(h, c), NEW v \in AllVectors, NEW xs \in Seq(Elements),
         Len(xs) <= h.capacity[v], Len(xs) <= MaxSize,
         NEW g, Shape(g), ~g.bad,
         g.data = h.data, g.capacity = h.capacity, g.allocator = h.allocator, g.owner = h.owner,
         g.size = [h.size EXCEPT ![v] = Len(xs)],
         \A a \in Areas \ {h.data[v]} : g.cells[a] = h.cells[a],
         \A i \in Positions : g.cells[h.data[v]][i] = IF i <= Len(xs) THEN xs[i] ELSE Raw
  PROVE  Stored(g, [c EXCEPT ![v] = xs]) /\ Only(h, g, v)
<1>1. PICK e : e = [c EXCEPT ![v] = xs]
  BY Zenon
<1>2. /\ c \in [AllVectors -> Seq(Elements)] /\ h.size \in [AllVectors -> Nat]
      /\ h.data \in [AllVectors -> Areas] /\ Apart(h) /\ OwnersOK(h) /\ RestRaw(h)
  BY DEF Stored, Shape
<1>3. e \in [AllVectors -> Seq(Elements)] /\ e[v] = xs /\ \A w \in AllVectors \ {v} : e[w] = c[w]
  BY <1>1, <1>2
<1>4. g.size[v] = Len(xs) /\ \A w \in AllVectors \ {v} : g.size[w] = h.size[w]
  BY <1>2
<1>5. Len(xs) \in Nat /\ MaxSize \in Nat
  BY VectorAssumption
<1>6. ASSUME NEW w \in AllVectors PROVE VectorOK(g, e, w)
  <2>1. VectorOK(h, c, w)
    BY DEF Stored
  <2>2. CASE w = v
    <3>1. \A i \in 1..g.size[v] : g.cells[g.data[v]][i] = e[v][i]
      <4>1. \A i \in 1..Len(xs) : i \in Positions /\ i <= Len(xs)
        BY <1>5 DEF Positions
      <4> QED BY <1>3, <1>4, <4>1
    <3> QED BY <1>3, <1>4, <2>1, <2>2, <3>1 DEF VectorOK
  <2>3. CASE w # v
    <3>1. h.data[w] \in Areas \ {h.data[v]}
      BY <1>2, <2>3 DEF Apart
    <3>2. g.cells[h.data[w]] = h.cells[h.data[w]]
      BY <3>1
    <3> QED BY <1>3, <1>4, <2>1, <2>3, <3>2 DEF VectorOK
  <2> QED BY <2>2, <2>3
<1>7. RestRaw(g)
  <2> SUFFICES ASSUME NEW b \in Areas, NEW i \in Positions, \A w \in AllVectors : g.data[w] = b => g.size[w] < i
               PROVE  g.cells[b][i] = Raw
    BY DEF RestRaw
  <2>1. CASE b = h.data[v]
    <3>1. Len(xs) < i /\ i \in Nat
      BY <1>4, <1>5, <2>1 DEF Positions
    <3>2. ~(i <= Len(xs))
      BY <1>5, <3>1
    <3> QED BY <2>1, <3>2
  <2>2. CASE b # h.data[v]
    <3>1. \A w \in AllVectors : h.data[w] = b => h.size[w] < i
      BY <1>4, <2>2
    <3>2. h.cells[b][i] = Raw
      BY <1>2, <3>1 DEF RestRaw
    <3> QED BY <2>2, <3>2
  <2> QED BY <2>1, <2>2
<1>8. Apart(g) /\ OwnersOK(g)
  BY <1>2 DEF Apart, OwnersOK
<1>9. Stored(g, e)
  BY <1>3, <1>6, <1>7, <1>8 DEF Stored
<1> QED BY <1>1, <1>4, <1>9 DEF Only

\* SoulVector::move_to_small.
LEMMA MoveToSmall ==
  ASSUME NEW h, NEW c, Stored(h, c), NEW v \in AllVectors, h.size[v] <= SmallCapacity,
         NEW g, g = move_to_small(h, v)
  PROVE  Stored(g, c) /\ Only(h, g, v) /\ g.size = h.size /\ g.capacity[v] = SmallCapacity
<1>1. CASE h.data[v] = v
  <2>1. g = h
    BY <1>1 DEF move_to_small, using_small_storage
  <2> QED BY <1>1, <2>1, WhereData DEF Only
<1>2. CASE h.data[v] # v
  <2>1. PICK old, n, xs : old = h.data[v] /\ n = h.size[v] /\ xs = c[v]
    BY Zenon
  <2>2. /\ old \in Areas /\ old # v /\ n \in Nat /\ n <= MaxSize /\ xs \in Seq(Elements) /\ Len(xs) = n
        /\ \A i \in 1..n : i \in Positions /\ h.cells[old][i] = xs[i] /\ xs[i] # Raw
    BY <1>2, <2>1, StoredTypes
  <2>3. /\ v \in Areas /\ old \in DOMAIN h.owner /\ old \in HeapBlocks /\ v \notin HeapBlocks
        /\ h.owner[old] = Grant(h.allocator[v], h.capacity[v]) /\ \A w \in AllVectors : h.data[w] # v
    BY <1>2, <2>1, WhereData
  <2>4. SmallCapacity \in Nat \ {0} /\ MaxSize \in Nat /\ n <= 2 * MaxSize
    BY <2>2, VectorAssumption
  <2>5. Shape(h) /\ ~h.bad /\ RestRaw(h) /\ Apart(h)
    BY DEF Stored
  <2>6. \A i \in Positions : h.cells[v][i] = Raw
    BY <2>3, UnusedRaw
  <2>7. PICK moved, destroyed, freed :
          /\ moved = Construct(h, v, 0, xs) /\ destroyed = destroy_range(moved, old, 1, n)
          /\ freed = DeallocateBlock(destroyed, v, old, h.capacity[v])
    BY Zenon
  <2>8. g = Place(freed, v, v, SmallCapacity)
    <3>1. Items(h, v) = xs
      BY <2>1, ItemsAre
    <3> QED BY <1>2, <2>1, <2>7, <3>1, Zenon DEF move_to_small, using_small_storage, Place
  <2>9. /\ Shape(moved) /\ SameVectors(h, moved) /\ moved.owner = h.owner /\ ~moved.bad
        /\ \A a \in Areas \ {v} : moved.cells[a] = h.cells[a]
        /\ \A i \in Positions : moved.cells[v][i] = IF i <= n THEN xs[i] ELSE Raw
    <3>1. \A i \in (0 + 1)..(0 + Len(xs)) : h.cells[v][i] = Raw
      BY <2>2, <2>6
    <3>2. 0 + Len(xs) <= 2 * MaxSize /\ 0 \in Nat
      BY <2>2, <2>4
    <3>3. /\ Shape(moved) /\ SameVectors(h, moved) /\ moved.owner = h.owner /\ (moved.bad <=> h.bad)
          /\ \A a \in Areas \ {v} : moved.cells[a] = h.cells[a]
          /\ \A i \in Positions : moved.cells[v][i] = IF i \in (0 + 1)..(0 + Len(xs)) THEN xs[i - 0] ELSE h.cells[v][i]
      <4>1. Shape(h) /\ v \in Areas /\ xs \in Seq(Elements) /\ moved = Construct(h, v, 0, xs)
        BY <2>2, <2>3, <2>5, <2>7
      <4>2. Constructed(h, v, 0, xs, moved)
        BY <3>1, <3>2, <4>1, ConstructFields, Zenon
      <4> QED BY <4>2, Zenon DEF Constructed
    <3>4. \A i \in Positions : (i \in (0 + 1)..(0 + Len(xs)) <=> i <= n) /\ i - 0 = i
      BY <2>2, <2>4 DEF Positions
    <3> QED BY <2>5, <2>6, <3>3, <3>4
  <2>10. /\ Shape(destroyed) /\ SameVectors(h, destroyed) /\ destroyed.owner = h.owner /\ ~destroyed.bad
         /\ \A a \in Areas \ {v, old} : destroyed.cells[a] = h.cells[a]
         /\ \A i \in Positions : destroyed.cells[v][i] = IF i <= n THEN xs[i] ELSE Raw
         /\ \A i \in Positions : destroyed.cells[old][i] = Raw
    <3>1. \A i \in 1..n : moved.cells[old][i] # Raw
      BY <2>2, <2>9
    <3>2. /\ Shape(destroyed) /\ SameVectors(moved, destroyed) /\ destroyed.owner = moved.owner
          /\ (destroyed.bad <=> moved.bad)
          /\ \A a \in Areas \ {old} : destroyed.cells[a] = moved.cells[a]
          /\ \A i \in Positions : destroyed.cells[old][i] = IF i \in 1..n THEN Raw ELSE moved.cells[old][i]
      <4>1. Shape(moved) /\ old \in Areas /\ 1 \in Nat \ {0} /\ n \in Nat /\ n <= 2 * MaxSize
        BY <2>2, <2>4, <2>9
      <4>2. destroyed = destroy_range(moved, old, 1, n)
        BY <2>7
      <4>3. Destroyed(moved, old, 1, n, destroyed)
        BY <3>1, <4>1, <4>2, DestroyFields, Zenon
      <4> QED BY <4>3, Zenon DEF Destroyed
    <3>3. \A i \in Positions : i \in 1..n \/ h.cells[old][i] = Raw
      <4>1. \A i \in Positions : i \notin 1..n => n < i
        BY <2>2, <2>4 DEF Positions
      <4> QED BY <2>1, <2>2, <2>5, <4>1 DEF RestRaw, Apart
    <3> QED BY <2>2, <2>3, <2>9, <3>2, <3>3 DEF SameVectors
  <2>11. /\ Shape(freed) /\ SameVectors(h, freed) /\ ~freed.bad /\ freed.cells = destroyed.cells
         /\ DOMAIN freed.owner = DOMAIN h.owner \ {old}
         /\ \A x \in DOMAIN h.owner \ {old} : freed.owner[x] = h.owner[x]
    <3>1. destroyed.owner[old] = Grant(destroyed.allocator[v], h.capacity[v]) /\ old \in DOMAIN destroyed.owner
      BY <2>3, <2>10 DEF SameVectors
    <3>2. /\ Shape(freed) /\ SameVectors(destroyed, freed) /\ (freed.bad <=> destroyed.bad) /\ freed.cells = destroyed.cells
          /\ DOMAIN freed.owner = DOMAIN destroyed.owner \ {old}
          /\ \A x \in DOMAIN destroyed.owner \ {old} : freed.owner[x] = destroyed.owner[x]
      BY <2>2, <2>7, <2>10, <3>1, DeallocateFields
    <3> QED BY <2>10, <3>2 DEF SameVectors
  <2>12. PICK d, k : d = [h.data EXCEPT ![v] = v] /\ k = [h.capacity EXCEPT ![v] = SmallCapacity]
    BY Zenon
  <2>13. /\ d \in [AllVectors -> Areas] /\ k \in [AllVectors -> Nat] /\ k[v] = SmallCapacity
         /\ \A w \in AllVectors \ {v} : k[w] = h.capacity[w] /\ d[w] = h.data[w]
    BY <2>3, <2>4, <2>5, <2>12 DEF Shape
  <2>15. /\ Shape(g) /\ g.data = d /\ g.size = h.size /\ g.capacity = k /\ g.allocator = h.allocator
         /\ g.cells = freed.cells /\ g.owner = freed.owner /\ g.bad = freed.bad
    <3>1. /\ Shape(g) /\ g.data = [freed.data EXCEPT ![v] = v] /\ g.size = freed.size
          /\ g.capacity = [freed.capacity EXCEPT ![v] = SmallCapacity] /\ g.allocator = freed.allocator
          /\ g.cells = freed.cells /\ g.owner = freed.owner /\ g.bad = freed.bad
      BY <2>3, <2>4, <2>8, <2>11, PlaceFields
    <3>2. freed.data = h.data /\ freed.size = h.size /\ freed.capacity = h.capacity /\ freed.allocator = h.allocator
      BY <2>11 DEF SameVectors
    <3> QED BY <2>12, <3>1, <3>2, Zenon
  <2>16. ~g.bad
    BY <2>11, <2>15, Zenon
  <2>17. Stored(g, c)
    <3>1. DOMAIN g.owner = (DOMAIN h.owner \cup ({v} \cap HeapBlocks)) \ {h.data[v]}
      BY <2>1, <2>3, <2>11, <2>15
    <3>2. \A b \in DOMAIN g.owner \ {v} : g.owner[b] = h.owner[b]
      BY <2>11, <2>15
    <3>3. /\ \A i \in Positions : g.cells[v][i] = IF i <= h.size[v] THEN c[v][i] ELSE Raw
          /\ \A i \in Positions : g.cells[h.data[v]][i] = Raw
          /\ \A b \in Areas \ {v, h.data[v]} : g.cells[b] = h.cells[b]
      BY <2>1, <2>10, <2>11, <2>15
    <3>4. g.data = [h.data EXCEPT ![v] = v] /\ g.capacity[v] = SmallCapacity
          /\ \A w \in AllVectors \ {v} : g.capacity[w] = h.capacity[w]
      BY <2>12, <2>13, <2>15
    <3>5. h.size[v] <= g.capacity[v] /\ 0 < g.capacity[v]
      BY <2>4, <3>4
    <3> QED BY <2>3, <2>15, <2>16, <3>1, <3>2, <3>3, <3>4, <3>5, Relocated
  <2> QED BY <2>13, <2>15, <2>17 DEF Only
<1> QED BY <1>1, <1>2

\* The new block of reallocate() with the first elements of v in it: after
\* AllocateBlock and the constructors.
LEMMA BlockFilled ==
  ASSUME NEW h, NEW c, Stored(h, c), NEW v \in AllVectors, NEW xs \in Seq(Elements), Len(xs) <= MaxSize,
         NEW k, NEW b, b = FreshBlock(h), NEW g, g = Construct(AllocateBlock(h, v, k), b, 0, xs)
  PROVE  /\ b \in HeapBlocks /\ b \in Areas /\ b \notin DOMAIN h.owner /\ \A w \in AllVectors : h.data[w] # b
         /\ Shape(g) /\ SameVectors(h, g) /\ ~g.bad
         /\ DOMAIN g.owner = DOMAIN h.owner \cup {b} /\ g.owner[b] = Grant(h.allocator[v], k)
         /\ \A x \in DOMAIN h.owner : g.owner[x] = h.owner[x]
         /\ \A a \in Areas \ {b} : g.cells[a] = h.cells[a]
         /\ \A i \in Positions : g.cells[b][i] = IF i <= Len(xs) THEN xs[i] ELSE Raw
<1>1. /\ \E x \in HeapBlocks : x \notin DOMAIN h.owner
      /\ b \in HeapBlocks /\ b \in Areas /\ b \notin DOMAIN h.owner /\ \A w \in AllVectors : h.data[w] # b
  BY FreshIsFree
<1>2. Shape(h) /\ ~h.bad
  BY DEF Stored
<1>3. PICK e : e = AllocateBlock(h, v, k)
  BY Zenon
<1>4. /\ Shape(e) /\ SameVectors(h, e) /\ (e.bad <=> h.bad) /\ e.cells = h.cells
      /\ DOMAIN e.owner = DOMAIN h.owner \cup {b} /\ e.owner[b] = Grant(h.allocator[v], k)
      /\ \A x \in DOMAIN h.owner : e.owner[x] = h.owner[x]
  BY <1>1, <1>2, <1>3, AllocateFields
<1>5. \A i \in Positions : e.cells[b][i] = Raw
  BY <1>1, <1>4, UnusedRaw
<1>6. MaxSize \in Nat /\ Len(xs) \in Nat
  BY VectorAssumption
<1>7. \A i \in (0 + 1)..(0 + Len(xs)) : e.cells[b][i] = Raw
  BY <1>5, <1>6 DEF Positions
<1>8. 0 + Len(xs) <= 2 * MaxSize /\ 0 \in Nat
  BY <1>6
<1>9. g = Construct(e, b, 0, xs)
  BY <1>3
<1>10. /\ Shape(g) /\ SameVectors(e, g) /\ g.owner = e.owner /\ (g.bad <=> e.bad)
       /\ \A a \in Areas \ {b} : g.cells[a] = e.cells[a]
       /\ \A i \in Positions : g.cells[b][i] = IF i \in (0 + 1)..(0 + Len(xs)) THEN xs[i - 0] ELSE e.cells[b][i]
  <2>1. Shape(e) /\ b \in Areas
    BY <1>1, <1>4
  <2>2. Constructed(e, b, 0, xs, g)
    BY <1>7, <1>8, <1>9, <2>1, ConstructFields, Zenon
  <2> QED BY <2>2, Zenon DEF Constructed
<1>11. \A i \in Positions : (i \in (0 + 1)..(0 + Len(xs)) <=> i <= Len(xs)) /\ i - 0 = i
  BY <1>6 DEF Positions
<1>12. \A i \in Positions : g.cells[b][i] = IF i <= Len(xs) THEN xs[i] ELSE Raw
  BY <1>5, <1>10, <1>11
<1>13. ~g.bad
  BY <1>2, <1>4, <1>10, Zenon
<1>14. SameVectors(h, g)
  BY <1>4, <1>10 DEF SameVectors
<1>15. /\ DOMAIN g.owner = DOMAIN h.owner \cup {b} /\ g.owner[b] = Grant(h.allocator[v], k)
       /\ \A x \in DOMAIN h.owner : g.owner[x] = h.owner[x]
       /\ \A a \in Areas \ {b} : g.cells[a] = h.cells[a]
  BY <1>4, <1>10
<1> QED BY <1>1, <1>10, <1>12, <1>13, <1>14, <1>15

\* SoulVector::reallocate.
LEMMA Reallocate ==
  ASSUME NEW h, NEW c, Stored(h, c), NEW v \in AllVectors, NEW requested \in Nat, h.size[v] <= requested,
         NEW g, g = reallocate(h, v, requested)
  PROVE  Stored(g, c) /\ Only(h, g, v) /\ g.size = h.size /\ requested <= g.capacity[v]
<1>0. SmallCapacity \in Nat \ {0} /\ MaxSize \in Nat
  BY VectorAssumption
<1>1. CASE requested <= SmallCapacity
  <2>1. g = move_to_small(h, v)
    BY <1>1 DEF reallocate
  <2>2. h.size[v] <= SmallCapacity
    BY <1>0, <1>1, StoredTypes
  <2> QED BY <1>1, <2>1, <2>2, MoveToSmall
<1>2. CASE ~(requested <= SmallCapacity)
  <2>1. PICK old, n, xs, b : old = h.data[v] /\ n = h.size[v] /\ xs = c[v] /\ b = FreshBlock(h)
    BY Zenon
  <2>2. /\ old \in Areas /\ n \in Nat /\ n <= MaxSize /\ xs \in Seq(Elements) /\ Len(xs) = n
        /\ \A i \in 1..n : i \in Positions /\ h.cells[old][i] = xs[i] /\ xs[i] # Raw
    BY <2>1, StoredTypes
  <2>3. v \in Areas /\ v \notin HeapBlocks
        /\ (old # v => old \in DOMAIN h.owner /\ h.owner[old] = Grant(h.allocator[v], h.capacity[v]))
    BY <2>1, WhereData
  <2>4. n <= 2 * MaxSize
    BY <1>0, <2>2
  <2>5. Shape(h) /\ ~h.bad /\ RestRaw(h) /\ Apart(h)
    BY DEF Stored
  <2>6. PICK copied, destroyed, freed :
          /\ copied = Construct(AllocateBlock(h, v, requested), b, 0, xs) /\ destroyed = destroy_range(copied, old, 1, n)
          /\ freed = IF old = v THEN destroyed ELSE DeallocateBlock(destroyed, v, old, h.capacity[v])
    BY Zenon
  <2>7. g = Place(freed, v, b, requested)
    <3>1. Items(h, v) = xs
      BY <2>1, ItemsAre
    <3> QED BY <1>2, <2>1, <2>6, <3>1, Zenon DEF reallocate, using_small_storage, Place
  <2>8. /\ b \in HeapBlocks /\ b \in Areas /\ b \notin DOMAIN h.owner /\ \A w \in AllVectors : h.data[w] # b
        /\ Shape(copied) /\ SameVectors(h, copied) /\ ~copied.bad
        /\ DOMAIN copied.owner = DOMAIN h.owner \cup {b} /\ copied.owner[b] = Grant(h.allocator[v], requested)
        /\ \A x \in DOMAIN h.owner : copied.owner[x] = h.owner[x]
        /\ \A a \in Areas \ {b} : copied.cells[a] = h.cells[a]
        /\ \A i \in Positions : copied.cells[b][i] = IF i <= n THEN xs[i] ELSE Raw
    BY <2>1, <2>2, <2>6, BlockFilled
  <2>9. old # b
    BY <2>1, <2>8
  <2>10. /\ Shape(destroyed) /\ SameVectors(h, destroyed) /\ destroyed.owner = copied.owner /\ ~destroyed.bad
         /\ \A a \in Areas \ {b, old} : destroyed.cells[a] = h.cells[a]
         /\ \A i \in Positions : destroyed.cells[b][i] = IF i <= n THEN xs[i] ELSE Raw
         /\ \A i \in Positions : destroyed.cells[old][i] = Raw
    <3>1. \A i \in 1..n : copied.cells[old][i] # Raw
      BY <2>2, <2>8, <2>9
    <3>2. /\ Shape(destroyed) /\ SameVectors(copied, destroyed) /\ destroyed.owner = copied.owner
          /\ (destroyed.bad <=> copied.bad)
          /\ \A a \in Areas \ {old} : destroyed.cells[a] = copied.cells[a]
          /\ \A i \in Positions : destroyed.cells[old][i] = IF i \in 1..n THEN Raw ELSE copied.cells[old][i]
      <4>1. Shape(copied) /\ old \in Areas /\ 1 \in Nat \ {0} /\ n \in Nat /\ n <= 2 * MaxSize
        BY <2>2, <2>4, <2>8
      <4>2. destroyed = destroy_range(copied, old, 1, n)
        BY <2>6
      <4>3. Destroyed(copied, old, 1, n, destroyed)
        BY <3>1, <4>1, <4>2, DestroyFields, Zenon
      <4> QED BY <4>3, Zenon DEF Destroyed
    <3>3. \A i \in Positions : i \in 1..n \/ h.cells[old][i] = Raw
      <4>1. \A i \in Positions : i \notin 1..n => n < i
        BY <1>0, <2>2 DEF Positions
      <4> QED BY <2>1, <2>2, <2>5, <4>1 DEF RestRaw, Apart
    <3> QED BY <2>2, <2>8, <2>9, <3>2, <3>3 DEF SameVectors
  <2>11. /\ Shape(freed) /\ SameVectors(h, freed) /\ ~freed.bad /\ freed.cells = destroyed.cells
         /\ DOMAIN freed.owner = (DOMAIN h.owner \cup {b}) \ {old}
         /\ \A x \in DOMAIN freed.owner : freed.owner[x] = copied.owner[x]
    <3>1. CASE old = v
      <4>1. freed = destroyed
        BY <2>6, <3>1
      <4>2. old \notin DOMAIN h.owner
        BY <2>3, <3>1 DEF Stored, OwnersOK
      <4> QED BY <2>8, <2>9, <2>10, <4>1, <4>2
    <3>2. CASE old # v
      <4>1. freed = DeallocateBlock(destroyed, v, old, h.capacity[v])
        BY <2>6, <3>2
      <4>2. destroyed.owner[old] = Grant(destroyed.allocator[v], h.capacity[v]) /\ old \in DOMAIN destroyed.owner
        BY <2>3, <2>8, <2>10, <3>2 DEF SameVectors
      <4>3. /\ Shape(freed) /\ SameVectors(destroyed, freed) /\ (freed.bad <=> destroyed.bad) /\ freed.cells = destroyed.cells
            /\ DOMAIN freed.owner = DOMAIN destroyed.owner \ {old}
            /\ \A x \in DOMAIN destroyed.owner \ {old} : freed.owner[x] = destroyed.owner[x]
        BY <2>2, <2>10, <4>1, <4>2, DeallocateFields
      <4> QED BY <2>8, <2>10, <4>3 DEF SameVectors
    <3> QED BY <3>1, <3>2
  <2>12. /\ Shape(g) /\ g.data = [h.data EXCEPT ![v] = b] /\ g.size = h.size
         /\ g.capacity = [h.capacity EXCEPT ![v] = requested] /\ g.allocator = h.allocator
         /\ g.cells = freed.cells /\ g.owner = freed.owner /\ g.bad = freed.bad
    <3>1. /\ Shape(g) /\ g.data = [freed.data EXCEPT ![v] = b] /\ g.size = freed.size
          /\ g.capacity = [freed.capacity EXCEPT ![v] = requested] /\ g.allocator = freed.allocator
          /\ g.cells = freed.cells /\ g.owner = freed.owner /\ g.bad = freed.bad
      BY <2>7, <2>8, <2>11, PlaceFields
    <3>2. freed.data = h.data /\ freed.size = h.size /\ freed.capacity = h.capacity /\ freed.allocator = h.allocator
      BY <2>11 DEF SameVectors
    <3> QED BY <3>1, <3>2, Zenon
  <2>13. ~g.bad
    BY <2>11, <2>12, Zenon
  <2>14. /\ g.capacity[v] = requested /\ \A w \in AllVectors \ {v} : g.capacity[w] = h.capacity[w]
         /\ \A w \in AllVectors \ {v} : g.data[w] = h.data[w]
    BY <2>5, <2>12 DEF Shape
  <2>15. Stored(g, c)
    <3>1. DOMAIN g.owner = (DOMAIN h.owner \cup ({b} \cap HeapBlocks)) \ {h.data[v]}
      BY <2>1, <2>8, <2>11, <2>12
    <3>2. \A x \in DOMAIN g.owner \ {b} : g.owner[x] = h.owner[x]
      BY <2>8, <2>11, <2>12
    <3>3. b \in DOMAIN g.owner /\ g.owner[b] = Grant(h.allocator[v], requested)
      BY <2>8, <2>9, <2>11, <2>12
    <3>4. /\ \A i \in Positions : g.cells[b][i] = IF i <= h.size[v] THEN c[v][i] ELSE Raw
          /\ \A i \in Positions : g.cells[h.data[v]][i] = Raw
          /\ \A x \in Areas \ {b, h.data[v]} : g.cells[x] = h.cells[x]
      BY <2>1, <2>10, <2>11, <2>12
    <3>5. h.size[v] <= g.capacity[v] /\ 0 < g.capacity[v]
      BY <1>0, <1>2, <2>14
    <3>6. Shape(g) /\ g.data = [h.data EXCEPT ![v] = b] /\ g.size = h.size /\ g.allocator = h.allocator
      BY <2>12, Zenon
    <3>7. b \in Areas /\ b \in HeapBlocks /\ \A w \in AllVectors : h.data[w] # b
      BY <2>8
    <3> QED BY ONLY Stored(h, c), v \in AllVectors, <2>13, <2>14, <3>1, <3>2, <3>3, <3>4, <3>5, <3>6, <3>7, Relocated
  <2> QED BY <2>12, <2>14, <2>15 DEF Only
<1> QED BY <1>1, <1>2

\* SoulVector::reallocate when a constructor throws: nothing has changed.
LEMMA ReallocateThrows ==
  ASSUME NEW h, NEW c, Stored(h, c), NEW v \in AllVectors, NEW requested, NEW done \in 0..h.size[v],
         NEW g, g = reallocateThrows(h, v, requested, done)
  PROVE  Stored(g, c) /\ Only(h, g, v)
<1>1. PICK xs, b, begun, destroyed :
        /\ xs = SubSeq(c[v], 1, done) /\ b = FreshBlock(h)
        /\ begun = Construct(AllocateBlock(h, v, requested), b, 0, xs) /\ destroyed = destroy_range(begun, b, 1, done)
  BY Zenon
<1>2. g = DeallocateBlock(destroyed, v, b, requested)
  BY <1>1, ItemsAre, Zenon DEF reallocateThrows
<1>3. MaxSize \in Nat /\ Raw \notin Elements /\ h.size[v] \in Nat /\ h.size[v] <= MaxSize /\ c[v] \in Seq(Elements)
      /\ Len(c[v]) = h.size[v] /\ done \in Nat /\ done <= 2 * MaxSize
  <2>1. MaxSize \in Nat /\ Raw \notin Elements
    BY VectorAssumption
  <2>2. h.size[v] \in Nat /\ h.size[v] <= MaxSize /\ c[v] \in Seq(Elements) /\ Len(c[v]) = h.size[v]
    BY StoredTypes
  <2> QED BY <2>1, <2>2
<1>4. xs \in Seq(Elements) /\ Len(xs) = done /\ \A i \in 1..done : xs[i] = c[v][i] /\ xs[i] \in Elements
  BY <1>1, <1>3, SubSeqProperties
<1>5. Len(xs) <= MaxSize
  BY <1>3, <1>4
<1>6. /\ b \in HeapBlocks /\ b \in Areas /\ b \notin DOMAIN h.owner /\ \A w \in AllVectors : h.data[w] # b
      /\ Shape(begun) /\ SameVectors(h, begun) /\ ~begun.bad
      /\ DOMAIN begun.owner = DOMAIN h.owner \cup {b} /\ begun.owner[b] = Grant(h.allocator[v], requested)
      /\ \A x \in DOMAIN h.owner : begun.owner[x] = h.owner[x]
      /\ \A a \in Areas \ {b} : begun.cells[a] = h.cells[a]
      /\ \A i \in Positions : begun.cells[b][i] = IF i <= Len(xs) THEN xs[i] ELSE Raw
  <2>1. b = FreshBlock(h) /\ begun = Construct(AllocateBlock(h, v, requested), b, 0, xs)
    BY <1>1, Zenon
  <2> QED BY ONLY Stored(h, c), v \in AllVectors, <1>4, <1>5, <2>1, BlockFilled
<1>7. \A i \in 1..done : begun.cells[b][i] # Raw
  <2>1. \A i \in 1..done : i \in Positions /\ i <= Len(xs)
    BY <1>3, <1>4 DEF Positions
  <2> QED BY <1>3, <1>4, <1>6, <2>1
<1>8. /\ Shape(destroyed) /\ SameVectors(begun, destroyed) /\ destroyed.owner = begun.owner
      /\ (destroyed.bad <=> begun.bad)
      /\ \A a \in Areas \ {b} : destroyed.cells[a] = begun.cells[a]
      /\ \A i \in Positions : destroyed.cells[b][i] = IF i \in 1..done THEN Raw ELSE begun.cells[b][i]
  <2>1. Shape(begun) /\ b \in Areas /\ 1 \in Nat \ {0} /\ done \in Nat /\ done <= 2 * MaxSize
    BY <1>3, <1>4, <1>6
  <2>2. destroyed = destroy_range(begun, b, 1, done)
    BY <1>1
  <2>3. Destroyed(begun, b, 1, done, destroyed)
    BY <1>7, <2>1, <2>2, DestroyFields, Zenon
  <2> QED BY <2>3, Zenon DEF Destroyed
<1>9. \A i \in Positions : destroyed.cells[b][i] = Raw
  <2>1. \A i \in Positions : i \in 1..done \/ ~(i <= Len(xs))
    BY <1>3, <1>4 DEF Positions
  <2> QED BY <1>6, <1>8, <2>1
<1>10. b \in DOMAIN destroyed.owner /\ destroyed.owner[b] = Grant(destroyed.allocator[v], requested)
  BY <1>6, <1>8 DEF SameVectors
<1>11. /\ Shape(g) /\ SameVectors(destroyed, g) /\ (g.bad <=> destroyed.bad) /\ g.cells = destroyed.cells
       /\ DOMAIN g.owner = DOMAIN destroyed.owner \ {b}
       /\ \A x \in DOMAIN destroyed.owner \ {b} : g.owner[x] = destroyed.owner[x]
  BY <1>2, <1>6, <1>8, <1>9, <1>10, DeallocateFields
<1>12. SameVectors(h, g) /\ DOMAIN g.owner = DOMAIN h.owner /\ \A x \in DOMAIN h.owner : g.owner[x] = h.owner[x]
  BY <1>6, <1>8, <1>11 DEF SameVectors
<1>13. ~g.bad
  BY <1>6, <1>8, <1>11, Zenon
<1>14. /\ \A a \in Areas \ {b} : g.cells[a] = h.cells[a]
       /\ \A i \in Positions : g.cells[b][i] = Raw
  BY <1>6, <1>8, <1>9, <1>11
<1>15. /\ c \in [AllVectors -> Seq(Elements)] /\ Apart(h) /\ OwnersOK(h) /\ RestRaw(h)
       /\ (\A w \in AllVectors : VectorOK(h, c, w)) /\ h.data \in [AllVectors -> Areas]
  BY DEF Stored, Shape
<1>16. Apart(g) /\ OwnersOK(g)
  BY <1>12, <1>15 DEF Apart, OwnersOK, SameVectors
<1>17. ASSUME NEW w \in AllVectors PROVE VectorOK(g, c, w)
  <2>1. g.cells[h.data[w]] = h.cells[h.data[w]]
    BY <1>6, <1>14, <1>15
  <2> QED BY <1>12, <1>15, <2>1 DEF VectorOK, SameVectors
<1>18. RestRaw(g)
  BY <1>12, <1>14, <1>15 DEF RestRaw, SameVectors
<1> QED BY <1>11, <1>12, <1>13, <1>15, <1>16, <1>17, <1>18 DEF Stored, Only, SameVectors

\* SoulVector::reserve.
LEMMA Reserving ==
  ASSUME NEW h, NEW c, Stored(h, c), NEW v \in AllVectors, NEW n \in Nat, NEW g, g = reserve(h, v, n)
  PROVE  Stored(g, c) /\ Only(h, g, v) /\ g.size = h.size
<1>1. CASE n <= h.capacity[v]
  <2>1. g = h
    BY <1>1 DEF reserve
  <2> QED BY <2>1 DEF Only
<1>2. CASE ~(n <= h.capacity[v])
  <2>1. g = reallocate(h, v, n)
    BY <1>2 DEF reserve
  <2>2. h.size[v] <= n
    BY <1>2, StoredTypes
  <2> QED BY <2>1, <2>2, Reallocate
<1> QED BY <1>1, <1>2

\* Appending changes the length and the last element.
LEMMA Appended ==
  ASSUME NEW q \in Seq(Elements), NEW x \in Elements
  PROVE  /\ Append(q, x) \in Seq(Elements) /\ Len(Append(q, x)) = Len(q) + 1 /\ Len(q) \in Nat
         /\ \A i \in 1..Len(q) : Append(q, x)[i] = q[i]
         /\ Append(q, x)[Len(q) + 1] = x
OBVIOUS

\* SoulVector::emplace_back_internal.
LEMMA EmplaceBack ==
  ASSUME NEW h, NEW c, Stored(h, c), NEW v \in AllVectors, NEW x \in Elements, h.size[v] < MaxSize,
         NEW g, g = emplace_back_internal(h, v, x)
  PROVE  Stored(g, [c EXCEPT ![v] = Append(c[v], x)]) /\ Only(h, g, v)
<1>1. PICK room : room = IF h.size[v] = h.capacity[v] THEN reallocate(h, v, h.capacity[v] * 2) ELSE h
  BY Zenon
<1>2. /\ h.size[v] \in Nat /\ h.capacity[v] \in Nat /\ h.size[v] <= h.capacity[v] /\ 0 < h.capacity[v]
      /\ c[v] \in Seq(Elements) /\ Len(c[v]) = h.size[v] /\ MaxSize \in Nat
  BY StoredTypes, VectorAssumption
<1>3. Stored(room, c) /\ Only(h, room, v) /\ room.size = h.size /\ h.size[v] < room.capacity[v]
  <2>1. CASE h.size[v] = h.capacity[v]
    <3>1. room = reallocate(h, v, h.capacity[v] * 2)
      BY <1>1, <2>1
    <3>2. h.capacity[v] * 2 \in Nat /\ h.size[v] <= h.capacity[v] * 2 /\ h.size[v] < h.capacity[v] * 2
      BY <1>2, <2>1
    <3>3. Stored(room, c) /\ Only(h, room, v) /\ room.size = h.size /\ h.capacity[v] * 2 <= room.capacity[v]
      BY <3>1, <3>2, Reallocate
    <3>4. room.capacity[v] \in Nat
      BY <3>3, StoredTypes
    <3> QED BY <1>2, <3>2, <3>3, <3>4
  <2>2. CASE h.size[v] # h.capacity[v]
    <3>1. room = h
      BY <1>1, <2>2
    <3>2. h.size[v] < h.capacity[v]
      BY <1>2, <2>2
    <3> QED BY <3>1, <3>2 DEF Only
  <2> QED BY <2>1, <2>2
<1>4. PICK a, n, e, xs, q : a = room.data[v] /\ n = h.size[v] /\ e = Construct(room, a, n, xs) /\ xs = <<x>> /\ q = Append(c[v], x)
  BY Zenon
<1>5. /\ a \in Areas /\ n \in Nat /\ room.capacity[v] \in Nat
      /\ \A i \in 1..n : i \in Positions /\ room.cells[a][i] = c[v][i]
  BY <1>2, <1>3, <1>4, StoredTypes
<1>6. xs \in Seq(Elements) /\ Len(xs) = 1 /\ xs[1] = x
  BY <1>4
<1>7. n + 1 \in Positions /\ n + Len(xs) <= 2 * MaxSize /\ n + 1 <= MaxSize /\ n + 1 <= room.capacity[v]
  BY <1>2, <1>3, <1>4, <1>5, <1>6 DEF Positions
<1>8. \A i \in Positions : n < i => room.cells[a][i] = Raw
  <2>1. RestRaw(room) /\ Apart(room)
    BY <1>3 DEF Stored
  <2> QED BY <1>3, <1>4, <1>5, <2>1 DEF RestRaw, Apart
<1>9. Shape(room) /\ ~room.bad
  BY <1>3 DEF Stored
<1>10. /\ Shape(e) /\ SameVectors(room, e) /\ e.owner = room.owner /\ ~e.bad
       /\ \A b \in Areas \ {a} : e.cells[b] = room.cells[b]
       /\ \A i \in Positions : e.cells[a][i] = IF i = n + 1 THEN x ELSE room.cells[a][i]
  <2>1. \A i \in (n + 1)..(n + Len(xs)) : room.cells[a][i] = Raw
    <3>1. \A i \in (n + 1)..(n + Len(xs)) : i = n + 1
      BY <1>5, <1>6
    <3>2. n < n + 1
      BY <1>5
    <3> QED BY <1>7, <1>8, <3>1, <3>2
  <2>2. e = Construct(room, a, n, xs)
    BY <1>4
  <2>3. /\ Shape(e) /\ SameVectors(room, e) /\ e.owner = room.owner /\ (e.bad <=> room.bad)
        /\ \A b \in Areas \ {a} : e.cells[b] = room.cells[b]
        /\ \A i \in Positions : e.cells[a][i] = IF i \in (n + 1)..(n + Len(xs)) THEN xs[i - n] ELSE room.cells[a][i]
    <3>1. n \in Nat /\ a \in Areas /\ xs \in Seq(Elements) /\ n + Len(xs) <= 2 * MaxSize /\ Shape(room)
      BY <1>5, <1>6, <1>7, <1>9
    <3>2. Constructed(room, a, n, xs, e)
      BY <2>1, <2>2, <3>1, ConstructFields, Zenon
    <3> QED BY <3>2, Zenon DEF Constructed
  <2>4. \A i \in Positions : (i \in (n + 1)..(n + Len(xs)) <=> i = n + 1) /\ (i = n + 1 => i - n = 1)
    BY <1>2, <1>5, <1>6 DEF Positions
  <2> QED BY <1>6, <1>9, <2>3, <2>4
<1>11. g = Resize(e, v, n + 1)
  <2>1. e.size = room.size /\ e.size[v] = n
    BY <1>3, <1>4, <1>10 DEF SameVectors
  <2>2. g = Resize(Construct(room, room.data[v], room.size[v], <<x>>), v, Construct(room, room.data[v], room.size[v], <<x>>).size[v] + 1)
    BY <1>1, Zenon DEF emplace_back_internal, Resize
  <2>3. Construct(room, room.data[v], room.size[v], <<x>>) = e
    BY <1>3, <1>4, Zenon
  <2> QED BY <2>1, <2>2, <2>3
<1>12. /\ Shape(g) /\ g.data = e.data /\ g.size = [e.size EXCEPT ![v] = n + 1] /\ g.capacity = e.capacity /\ g.allocator = e.allocator
       /\ g.cells = e.cells /\ g.owner = e.owner /\ g.bad = e.bad
  <2>1. n + 1 \in Nat /\ Shape(e)
    BY <1>5, <1>10
  <2> QED BY ONLY <1>11, <2>1, v \in AllVectors, ResizeFields
<1>13. ~g.bad
  BY <1>10, <1>12, Zenon
<1>14. /\ Shape(g) /\ g.data = room.data /\ g.size = [room.size EXCEPT ![v] = n + 1] /\ g.capacity = room.capacity
       /\ g.allocator = room.allocator /\ g.owner = room.owner /\ \A b \in Areas \ {a} : g.cells[b] = room.cells[b]
  BY <1>10, <1>12 DEF SameVectors
<1>15. q \in Seq(Elements) /\ Len(q) = n + 1 /\ q[n + 1] = x /\ \A i \in 1..n : q[i] = c[v][i]
  BY <1>2, <1>4, Appended
<1>16. \A i \in Positions : g.cells[a][i] = IF i <= Len(q) THEN q[i] ELSE Raw
  <2> SUFFICES ASSUME NEW i \in Positions PROVE g.cells[a][i] = IF i <= n + 1 THEN q[i] ELSE Raw
    BY <1>15
  <2>1. g.cells[a][i] = IF i = n + 1 THEN x ELSE room.cells[a][i]
    BY <1>10, <1>12
  <2>2. i \in Nat /\ i > 0
    BY <1>2 DEF Positions
  <2>3. CASE i = n + 1 BY <1>5, <1>15, <2>1, <2>3
  <2>4. CASE i < n + 1
    <3>1. i \in 1..n /\ i <= n + 1 /\ i # n + 1
      BY <1>5, <2>2, <2>4
    <3> QED BY <1>5, <1>15, <2>1, <3>1
  <2>5. CASE i > n + 1
    <3>1. n < i /\ ~(i <= n + 1) /\ i # n + 1
      BY <1>5, <2>2, <2>5
    <3> QED BY <1>8, <2>1, <3>1
  <2> QED BY <1>5, <2>2, <2>3, <2>4, <2>5
<1>17. Stored(g, [c EXCEPT ![v] = q]) /\ Only(room, g, v)
  <2>1. Len(q) <= room.capacity[v] /\ Len(q) <= MaxSize /\ a = room.data[v]
    BY <1>4, <1>7, <1>15
  <2>2. g.size = [room.size EXCEPT ![v] = Len(q)] /\ q \in Seq(Elements)
    BY <1>14, <1>15
  <2>3. Stored(room, c)
    BY <1>3
  <2> QED BY ONLY <2>1, <2>2, <2>3, v \in AllVectors, <1>13, <1>14, <1>16, Rewritten
<1>18. Only(h, g, v)
  BY <1>3, <1>17 DEF Only
<1> QED BY <1>4, <1>17, <1>18

\* c with another sequence for v.
Becomes(c, v, q, d) ==
  d \in [AllVectors -> Seq(Elements)] /\ d[v] = q /\ \A w \in AllVectors \ {v} : d[w] = c[w]

\* In front the beginning of v is the sequence xs.
Begins(h, v, xs, front) ==
  /\ xs \in Seq(Elements) /\ Len(xs) <= h.size[v]
  /\ Shape(front) /\ SameVectors(h, front) /\ front.owner = h.owner /\ ~front.bad
  /\ \A b \in Areas \ {h.data[v]} : front.cells[b] = h.cells[b]
  /\ \A i \in Positions : /\ i <= Len(xs) => front.cells[h.data[v]][i] = xs[i]
                          /\ i <= h.size[v] => front.cells[h.data[v]][i] # Raw
                          /\ h.size[v] < i => front.cells[h.data[v]][i] = Raw

\* Then the rest of v is destroyed.
LEMMA Shortened ==
  ASSUME NEW h, NEW c, Stored(h, c), NEW v \in AllVectors, NEW xs, NEW front, Begins(h, v, xs, front),
         NEW g, g = Resize(destroy_range(front, h.data[v], Len(xs) + 1, h.size[v]), v, Len(xs))
  PROVE  Shape(destroy_range(front, h.data[v], Len(xs) + 1, h.size[v])) /\ Only(h, g, v) /\ g.data = h.data /\ g.capacity = h.capacity /\ g.owner = h.owner
         /\ \E d : Becomes(c, v, xs, d) /\ Stored(g, d)
<1>1. PICK a, n : a = h.data[v] /\ n = h.size[v]
  BY Zenon
<1>2. xs \in Seq(Elements) /\ Len(xs) <= n
  BY <1>1 DEF Begins
<1>3. Shape(front) /\ SameVectors(h, front) /\ front.owner = h.owner /\ ~front.bad
  BY DEF Begins
<1>4. \A b \in Areas \ {a} : front.cells[b] = h.cells[b]
  BY <1>1 DEF Begins
<1>5. \A i \in Positions : (i <= Len(xs) => front.cells[a][i] = xs[i]) /\ (i <= n => front.cells[a][i] # Raw)
                                /\ (n < i => front.cells[a][i] = Raw)
  BY <1>1 DEF Begins
<1>6. g = Resize(destroy_range(front, a, Len(xs) + 1, n), v, Len(xs))
  BY <1>1
<1>7. /\ a \in Areas /\ n \in Nat /\ Len(xs) \in Nat /\ MaxSize \in Nat /\ n <= MaxSize /\ n <= 2 * MaxSize
      /\ Len(xs) <= MaxSize /\ Len(xs) <= h.capacity[v]
  <2>1. h.data[v] \in Areas /\ h.size[v] \in Nat /\ h.capacity[v] \in Nat /\ h.size[v] <= h.capacity[v] /\ h.size[v] <= MaxSize
    BY StoredTypes
  <2>2. MaxSize \in Nat /\ Len(xs) \in Nat
    BY <1>2, VectorAssumption
  <2> QED BY <1>1, <1>2, <2>1, <2>2
<1>8. PICK k, e : k = Len(xs) + 1 /\ e = destroy_range(front, a, k, n)
  BY Zenon
<1>9. k \in Nat \ {0} /\ \A i \in k..n : front.cells[a][i] # Raw
  <2>1. k \in Nat \ {0}
    BY <1>7, <1>8
  <2>2. \A i \in k..n : i \in Positions /\ i <= n
    BY <1>7, <2>1 DEF Positions
  <2> QED BY <1>5, <2>1, <2>2
<1>10. /\ Shape(e) /\ SameVectors(front, e) /\ e.owner = front.owner /\ (e.bad <=> front.bad)
       /\ \A b \in Areas \ {a} : e.cells[b] = front.cells[b]
       /\ \A i \in Positions : e.cells[a][i] = IF i \in k..n THEN Raw ELSE front.cells[a][i]
  <2>1. Shape(front)
    BY <1>3
  <2>2. a \in Areas /\ n \in Nat /\ n <= 2 * MaxSize
    BY <1>2, <1>7
  <2>3. Destroyed(front, a, k, n, e)
    BY <1>8, <1>9, <2>1, <2>2, DestroyFields, Zenon
  <2> QED BY <2>3, Zenon DEF Destroyed
<1>11. /\ Shape(g) /\ g.data = e.data /\ g.size = [e.size EXCEPT ![v] = Len(xs)] /\ g.capacity = e.capacity
       /\ g.allocator = e.allocator /\ g.cells = e.cells /\ g.owner = e.owner /\ g.bad = e.bad
  <2>1. g = Resize(e, v, Len(xs)) /\ Len(xs) \in Nat /\ Shape(e)
    BY <1>6, <1>7, <1>8, <1>10, Zenon
  <2>2. PICK m \in Nat : m = Len(xs)
    BY <2>1
  <2>3. Shape(e) /\ g = Resize(e, v, m)
    BY <2>1, <2>2, Zenon
  <2>4. /\ Shape(g) /\ g.data = e.data /\ g.size = [e.size EXCEPT ![v] = m] /\ g.capacity = e.capacity
        /\ g.allocator = e.allocator /\ g.cells = e.cells /\ g.owner = e.owner /\ g.bad = e.bad
    BY ONLY <2>3, v \in AllVectors, m \in Nat, ResizeFields
  <2> QED BY <2>2, <2>4, Zenon
<1>12. ~g.bad
  BY <1>3, <1>10, <1>11, Zenon
<1>13. /\ g.data = h.data /\ g.size = [h.size EXCEPT ![v] = Len(xs)] /\ g.capacity = h.capacity /\ g.allocator = h.allocator
       /\ g.owner = h.owner
  <2>1. SameVectors(h, front) /\ front.owner = h.owner
    BY <1>3
  <2>2. e.data = h.data /\ e.size = h.size /\ e.capacity = h.capacity /\ e.allocator = h.allocator /\ e.owner = h.owner
    BY ONLY <1>10, <2>1 DEF SameVectors
  <2> QED BY ONLY <1>11, <2>2
<1>14. \A b \in Areas \ {h.data[v]} : g.cells[b] = h.cells[b]
  BY <1>1, <1>4, <1>10, <1>11
<1>15. \A i \in Positions : g.cells[h.data[v]][i] = IF i <= Len(xs) THEN xs[i] ELSE Raw
  <2> SUFFICES ASSUME NEW i \in Positions PROVE e.cells[a][i] = IF i <= Len(xs) THEN xs[i] ELSE Raw
    BY <1>1, <1>11
  <2>1. i \in Nat
    BY <1>7 DEF Positions
  <2>2. (i \in k..n <=> ~(i <= Len(xs)) /\ i <= n) /\ (~(i <= n) => n < i)
    BY <1>7, <1>8, <2>1
  <2>3. e.cells[a][i] = IF i \in k..n THEN Raw ELSE front.cells[a][i]
    BY <1>10
  <2>4. (i <= Len(xs) => front.cells[a][i] = xs[i]) /\ (n < i => front.cells[a][i] = Raw)
    BY <1>5
  <2> QED BY ONLY <2>2, <2>3, <2>4
<1>16. Stored(g, [c EXCEPT ![v] = xs]) /\ Only(h, g, v)
  <2>1. Stored(h, c) /\ v \in AllVectors /\ xs \in Seq(Elements) /\ Shape(g)
    BY <1>2, <1>11
  <2> QED BY ONLY <1>7, <1>12, <1>13, <1>14, <1>15, <2>1, Rewritten
<1>17. Becomes(c, v, xs, [c EXCEPT ![v] = xs])
  <2>1. c \in [AllVectors -> Seq(Elements)]
    BY DEF Stored
  <2> QED BY <1>2, <2>1 DEF Becomes
<1>18. Shape(destroy_range(front, h.data[v], Len(xs) + 1, h.size[v]))
  BY <1>1, <1>8, <1>10, Zenon
<1> QED BY <1>13, <1>16, <1>17, <1>18, Zenon

\* SoulVector::clear.
LEMMA Cleared ==
  ASSUME NEW h, NEW c, Stored(h, c), NEW v \in AllVectors,
         NEW g, g = Resize(destroy_range(h, h.data[v], 1, h.size[v]), v, 0)
  PROVE  Shape(destroy_range(h, h.data[v], 1, h.size[v])) /\ Only(h, g, v) /\ g.data = h.data /\ g.capacity = h.capacity /\ g.owner = h.owner
         /\ \E d : Becomes(c, v, <<>>, d) /\ Stored(g, d)
<1>1. PICK xs, a, n : xs = <<>> /\ a = h.data[v] /\ n = h.size[v]
  BY Zenon
<1>2. xs \in Seq(Elements) /\ Len(xs) = 0 /\ n \in Nat /\ Len(xs) <= n /\ Len(xs) + 1 = 1
  BY <1>1, StoredTypes
<1>3. Shape(h) /\ ~h.bad /\ SameVectors(h, h)
  BY DEF Stored, SameVectors
<1>4. \A i \in Positions : (i <= Len(xs) => h.cells[a][i] = xs[i]) /\ (i <= n => h.cells[a][i] # Raw)
                                /\ (n < i => h.cells[a][i] = Raw)
  <2> SUFFICES ASSUME NEW i \in Positions
               PROVE  ~(i <= Len(xs)) /\ (i <= n => h.cells[a][i] # Raw) /\ (n < i => h.cells[a][i] = Raw)
    BY Zenon
  <2>1. i \in Nat /\ i > 0
    BY VectorAssumption DEF Positions
  <2>2. i <= n => i \in 1..n
    BY <1>2, <2>1
  <2>3. \A j \in 1..n : h.cells[a][j] # Raw
    BY <1>1, StoredTypes
  <2>4. n < i => h.cells[a][i] = Raw
    BY <1>1, StoredTypes DEF Stored, RestRaw, Apart
  <2> QED BY <1>2, <2>1, <2>2, <2>3, <2>4
<1>5. g = Resize(destroy_range(h, a, Len(xs) + 1, n), v, Len(xs))
  BY <1>1, <1>2, Zenon
<1>6. Begins(h, v, xs, h)
  BY <1>1, <1>2, <1>3, <1>4 DEF Begins
<1>7. /\ Shape(destroy_range(h, h.data[v], Len(xs) + 1, h.size[v])) /\ Only(h, g, v) /\ g.data = h.data
      /\ g.capacity = h.capacity /\ g.owner = h.owner /\ \E d : Becomes(c, v, xs, d) /\ Stored(g, d)
  BY <1>1, <1>5, <1>6, Shortened
<1> QED BY <1>1, <1>2, <1>7, Zenon

\* Elements of one area move.
Rearrange(h, a, new) == [h EXCEPT !.cells[a] = new]

\* The fields of such a heap.
LEMMA RearrangeFields ==
  ASSUME NEW h, Shape(h), NEW a \in Areas, NEW new \in [Positions -> Cell], NEW g, g = Rearrange(h, a, new)
  PROVE  /\ Shape(g) /\ SameVectors(h, g) /\ g.owner = h.owner /\ g.bad = h.bad
         /\ g.cells[a] = new /\ \A b \in Areas \ {a} : g.cells[b] = h.cells[b]
<1>1. g = WithCells(h, a, new, h.bad)
  BY Zenon DEF Rearrange, WithCells, Shape
<1> QED BY <1>1, CellsChange

\* The sequence without one of its elements.
LEMMA WithoutOne ==
  ASSUME NEW q \in Seq(Elements), NEW pos \in 1..Len(q), NEW xs, xs = RemoveAt(q, pos)
  PROVE  /\ xs \in Seq(Elements) /\ Len(xs) = Len(q) - 1
         /\ \A i \in 1..(Len(q) - 1) : xs[i] = IF i < pos THEN q[i] ELSE q[i + 1]
<1>1. PICK n, f, r : n = Len(q) /\ f = SubSeq(q, 1, pos - 1) /\ r = SubSeq(q, pos + 1, Len(q))
  BY Zenon
<1>2. n \in Nat /\ pos \in Nat /\ 1 <= pos /\ pos <= n
  BY <1>1
<1>3. f \in Seq(Elements) /\ Len(f) = pos - 1 /\ \A i \in 1..(pos - 1) : f[i] = q[i]
  <2>1. \A i \in 1..(pos - 1) : q[i] \in Elements
    BY <1>1, <1>2
  <2>2. f = [i \in 1..(pos - 1) |-> q[i]]
    BY <1>1, <1>2
  <2> QED BY <1>2, <2>1, <2>2
<1>4. r \in Seq(Elements) /\ Len(r) = n - pos /\ \A i \in 1..(n - pos) : r[i] = q[pos + i]
  <2>1. \A i \in 1..(n - pos) : q[pos + i] \in Elements
    BY <1>1, <1>2
  <2>2. r = [i \in 1..(n - pos) |-> q[pos + i]]
    BY <1>1, <1>2
  <2> QED BY <1>2, <2>1, <2>2
<1>5. xs = f \o r
  BY <1>1, Zenon DEF RemoveAt
<1>6. xs \in Seq(Elements) /\ Len(xs) = n - 1
  <2>1. xs \in Seq(Elements) /\ Len(xs) = Len(f) + Len(r)
    BY ONLY <1>3, <1>4, <1>5, ConcatProperties
  <2> QED BY <1>2, <1>3, <1>4, <2>1
<1>7. ASSUME NEW i \in 1..(n - 1) PROVE xs[i] = IF i < pos THEN q[i] ELSE q[i + 1]
  <2>1. CASE i < pos
    BY <1>2, <1>3, <1>4, <1>5, <2>1
  <2>2. CASE ~(i < pos)
    <3>1. i - (pos - 1) \in 1..(n - pos) /\ pos + (i - (pos - 1)) = i + 1
      BY <1>2, <2>2
    <3>2. xs[i] = r[i - (pos - 1)]
      BY <1>2, <1>3, <1>4, <1>5, <2>2
    <3> QED BY <1>4, <2>2, <3>1, <3>2
  <2> QED BY <2>1, <2>2
<1> QED BY <1>1, <1>6, <1>7

\* SoulVector::erase.
LEMMA Erased ==
  ASSUME NEW h, NEW c, Stored(h, c), NEW v \in AllVectors, NEW pos \in 1..h.size[v], NEW g, g = erase(h, v, pos)
  PROVE  Only(h, g, v) /\ g.data = h.data /\ \E d : Becomes(c, v, RemoveAt(c[v], pos), d) /\ Stored(g, d)
<1>1. PICK a, n, q, xs, old : a = h.data[v] /\ n = h.size[v] /\ q = c[v] /\ xs = RemoveAt(q, pos) /\ old = h.cells[a]
  BY Zenon
<1>2. /\ a \in Areas /\ n \in Nat /\ q \in Seq(Elements) /\ Len(q) = n /\ n <= MaxSize
      /\ \A i \in 1..n : i \in Positions /\ old[i] = q[i] /\ q[i] \in Elements /\ q[i] # Raw
  BY <1>1, StoredTypes
<1>3. Shape(h) /\ ~h.bad /\ RestRaw(h) /\ Apart(h)
  BY DEF Stored
<1>4. old \in [Positions -> Cell] /\ \A i \in Positions : n < i => old[i] = Raw
  <2>1. old \in [Positions -> Cell]
    BY <1>1, <1>2, <1>3 DEF Shape
  <2> QED BY <1>1, <1>2, <1>3, <2>1 DEF RestRaw, Apart
<1>5. pos \in 1..n /\ pos \in Nat /\ 1 <= pos /\ pos <= n /\ n \in Nat \ {0} /\ MaxSize \in Nat
  BY <1>1, <1>2, VectorAssumption
<1>6. xs \in Seq(Elements) /\ Len(xs) = n - 1 /\ \A i \in 1..(n - 1) : xs[i] = IF i < pos THEN q[i] ELSE q[i + 1]
  <2>1. pos \in 1..Len(q) /\ q \in Seq(Elements) /\ xs = RemoveAt(q, pos) /\ Len(q) = n
    BY <1>1, <1>2, <1>5
  <2>2. xs \in Seq(Elements) /\ Len(xs) = Len(q) - 1 /\ \A i \in 1..(Len(q) - 1) : xs[i] = IF i < pos THEN q[i] ELSE q[i + 1]
    BY ONLY <2>1, WithoutOne
  <2> QED BY ONLY <2>1, <2>2
<1>7. PICK new : new = [i \in Positions |-> IF i \in pos..(n - 1) THEN old[i + 1] ELSE old[i]]
  BY Zenon
<1>8. /\ new \in [Positions -> Cell]
      /\ \A i \in Positions : (i <= n - 1 => new[i] = xs[i]) /\ (i <= n => new[i] # Raw) /\ (n < i => new[i] = Raw)
  <2>1. ASSUME NEW i \in Positions
        PROVE  /\ (i <= n - 1 => new[i] = xs[i]) /\ (i <= n => new[i] # Raw) /\ (n < i => new[i] = Raw)
               /\ new[i] \in Cell
    <3>1. i \in Nat /\ i > 0
      BY <1>5 DEF Positions
    <3>2. CASE i \in pos..(n - 1)
      <4>1. i + 1 \in 1..n /\ i \in 1..(n - 1) /\ ~(i < pos) /\ ~(n < i) /\ new[i] = old[i + 1]
        BY <1>5, <1>7, <3>1, <3>2
      <4>2. new[i] = q[i + 1] /\ xs[i] = q[i + 1] /\ new[i] \in Elements /\ new[i] # Raw
        BY <1>2, <1>6, <4>1
      <4> QED BY <4>1, <4>2 DEF Cell
    <3>3. CASE i \notin pos..(n - 1) /\ i <= n
      <4>1. i \in 1..n /\ ~(n < i) /\ new[i] = old[i] /\ (i <= n - 1 => i < pos /\ i \in 1..(n - 1))
        BY <1>5, <1>7, <3>1, <3>3
      <4>2. new[i] = q[i] /\ new[i] \in Elements /\ new[i] # Raw
        BY <1>2, <4>1
      <4>3. i <= n - 1 => xs[i] = q[i]
        BY <1>6, <4>1
      <4> QED BY <4>1, <4>2, <4>3 DEF Cell
    <3>4. CASE n < i
      <4>1. i \notin pos..(n - 1) /\ ~(i <= n) /\ ~(i <= n - 1)
        BY <1>5, <3>1, <3>4
      <4> QED BY <1>4, <1>7, <3>4, <4>1 DEF Cell
    <3> QED BY <1>5, <3>1, <3>2, <3>3, <3>4
  <2> QED BY <1>7, <2>1
<1>9. PICK front : front = Rearrange(h, a, new)
  BY Zenon
<1>10. /\ Shape(front) /\ SameVectors(h, front) /\ front.owner = h.owner /\ front.bad = h.bad
       /\ front.cells[a] = new /\ \A b \in Areas \ {a} : front.cells[b] = h.cells[b]
  BY ONLY <1>2, <1>3, <1>8, <1>9, RearrangeFields
<1>11. ~front.bad
  BY <1>3, <1>10, Zenon
<1>12. Begins(h, v, xs, front)
  BY <1>1, <1>2, <1>5, <1>6, <1>8, <1>10, <1>11 DEF Begins
<1>13. g = Resize(destroy_range(front, h.data[v], Len(xs) + 1, h.size[v]), v, Len(xs))
  <2>1. DOMAIN h.cells[h.data[v]] = Positions
    BY <1>1, <1>4
  <2>2. new = [i \in DOMAIN h.cells[h.data[v]] |-> IF i \in pos..(h.size[v] - 1) THEN h.cells[h.data[v]][i + 1] ELSE h.cells[h.data[v]][i]]
    BY <1>1, <1>7, <2>1, Zenon
  <2>3. front = [h EXCEPT !.cells[h.data[v]] = [i \in DOMAIN @ |-> IF i \in pos..(h.size[v] - 1) THEN @[i + 1] ELSE @[i]]]
    BY <1>1, <1>9, <2>2, Zenon DEF Rearrange
  <2>4. ~(pos \notin 1..h.size[v])
    OBVIOUS
  <2>5. g = Resize(destroy_range(front, h.data[v], n, n), v, n - 1)
    BY <1>1, <2>3, <2>4, Zenon DEF erase, Resize
  <2>6. Len(xs) + 1 = n
    BY <1>5, <1>6
  <2> QED BY <1>1, <1>6, <2>5, <2>6
<1> QED BY <1>1, <1>12, <1>13, Shortened

-----------------------------------------------------------------------------
(* Loops over a sequence.                                                  *)

\* One turn of AppendAll, where y is the vector; of lower_bound, where y is the
\* flat map and the key; of FlatInsertAll, PutAll and StableSort, where y is the
\* comparator; or of Remaining, where y is the element to remove.
After(what, y, acc, x) ==
  IF what = "append" THEN emplace_back_internal(acc, y, x)
  ELSE IF what = "halve" THEN Halve(y[1], y[2], acc)
  ELSE IF what = "insert" THEN FlatInsert(acc, x)
  ELSE IF what = "put" THEN Put(acc, x)
  ELSE IF what = "sort" THEN SortIn(acc, x, y)
  ELSE IF what = "add" THEN acc + x
  ELSE IF what = "push" THEN Append(acc, x)
  ELSE IF x = y THEN acc ELSE Append(acc, x)

\* And n turns.
Loop(what, y, start, xs, n, f) ==
  f = [k \in 0..n |-> IF k = 0 THEN start ELSE After(what, y, f[k - 1], xs[k])]

\* The turns of a loop.
LEMMA LoopTurns ==
  ASSUME NEW what, NEW y, NEW start, NEW xs, NEW n \in Nat, NEW f, Loop(what, y, start, xs, n, f)
  PROVE  f[0] = start /\ \A k \in 1..n : f[k] = After(what, y, f[k - 1], xs[k])
<1>1. \A k \in 0..n : f[k] = IF k = 0 THEN start ELSE After(what, y, f[k - 1], xs[k])
  BY DEF Loop
<1>2. 0 \in 0..n /\ \A k \in 1..n : k \in 0..n /\ k # 0
  OBVIOUS
<1> QED BY <1>1, <1>2

\* Every loop runs: look at the least number of turns with which one does not.
LEMMA LoopRuns ==
  ASSUME NEW what, NEW y, NEW start, NEW xs, NEW n \in Nat
  PROVE  \E f : Loop(what, y, start, xs, n, f)
<1> SUFFICES ASSUME NEW T, T = {m \in Nat : ~ \E f : Loop(what, y, start, xs, m, f)}, T # {} PROVE FALSE
  <2>1. n \notin {m \in Nat : ~ \E f : Loop(what, y, start, xs, m, f)} => \E f : Loop(what, y, start, xs, n, f)
    OBVIOUS
  <2> QED BY <2>1
<1>1. PICK m \in T : \A j \in T : m <= j
  BY LeastNatural
<1>2. m \in Nat /\ ~ \E f : Loop(what, y, start, xs, m, f)
  OBVIOUS
<1>3. CASE m = 0
  <2>1. PICK f : f = [k \in 0..0 |-> start]
    BY Zenon
  <2>2. f = [k \in 0..0 |-> IF k = 0 THEN start ELSE After(what, y, f[k - 1], xs[k])]
    BY <2>1
  <2> QED BY <1>2, <1>3, <2>2 DEF Loop
<1>4. CASE m # 0
  <2>1. m - 1 \in Nat /\ ~(m <= m - 1)
    BY <1>2, <1>4
  <2>2. PICK f : Loop(what, y, start, xs, m - 1, f)
    BY <1>1, <2>1
  <2>3. f[0] = start /\ \A k \in 1..(m - 1) : f[k] = After(what, y, f[k - 1], xs[k])
    BY <2>1, <2>2, LoopTurns
  <2>4. PICK g : g = [k \in 0..m |-> IF k = m THEN After(what, y, f[m - 1], xs[m]) ELSE f[k]]
    BY Zenon
  <2>5. ASSUME NEW k \in 0..m PROVE g[k] = IF k = 0 THEN start ELSE After(what, y, g[k - 1], xs[k])
    <3>1. CASE k = 0
      BY <1>2, <1>4, <2>3, <2>4, <3>1
    <3>2. CASE k # 0
      <4>1. k - 1 \in 0..m /\ k - 1 # m
        BY <1>2, <3>2
      <4>2. g[k - 1] = f[k - 1]
        BY <2>4, <4>1
      <4>3. CASE k = m
        BY <2>4, <3>2, <4>2, <4>3
      <4>4. CASE k # m
        <5>1. k \in 1..(m - 1) /\ g[k] = f[k]
          BY <1>2, <2>4, <3>2, <4>4
        <5> QED BY <2>3, <3>2, <4>2, <5>1
      <4> QED BY <4>3, <4>4
    <3> QED BY <3>1, <3>2
  <2>6. g = [k \in 0..m |-> IF k = 0 THEN start ELSE After(what, y, g[k - 1], xs[k])]
    <3>1. g = [k \in 0..m |-> g[k]]
      BY <2>4
    <3> QED BY <2>5, <3>1, Zenon
  <2> QED BY <1>2, <2>6 DEF Loop
<1> QED BY <1>3, <1>4

\* AppendAll is such a loop.
LEMMA AppendAllIs ==
  ASSUME NEW h, NEW v, NEW xs, Len(xs) \in Nat
  PROVE  \E f : Loop("append", v, h, xs, Len(xs), f) /\ AppendAll(h, v, xs) = f[Len(xs)]
<1>1. \E f : Loop("append", v, h, xs, Len(xs), f)
  BY LoopRuns
<1>2. \A f : Loop("append", v, h, xs, Len(xs), f) <=>
        f = [k \in 0..Len(xs) |-> IF k = 0 THEN h ELSE emplace_back_internal(f[k - 1], v, xs[k])]
  BY Zenon DEF Loop, After
<1> QED BY <1>1, <1>2, Zenon DEF AppendAll

\* And so is Remaining.
LEMMA RemainingIs ==
  ASSUME NEW q, NEW x, Len(q) \in Nat
  PROVE  \E f : Loop("keep", x, <<>>, q, Len(q), f) /\ Remaining(q, x) = f[Len(q)]
<1>1. \E f : Loop("keep", x, <<>>, q, Len(q), f)
  BY LoopRuns
<1>2. \A f : Loop("keep", x, <<>>, q, Len(q), f) <=>
        f = [k \in 0..Len(q) |-> IF k = 0 THEN <<>> ELSE IF q[k] = x THEN f[k - 1] ELSE Append(f[k - 1], q[k])]
  <2>1. "keep" # "append" /\ "keep" # "halve" /\ "keep" # "insert" /\ "keep" # "put" /\ "keep" # "sort" /\ "keep" # "add" /\ "keep" # "push"
    OBVIOUS
  <2> QED BY <2>1, Zenon DEF Loop, After
<1> QED BY <1>1, <1>2, Zenon DEF Remaining

\* What remains is a sequence that is not longer.
LEMMA RemainingTypes ==
  ASSUME NEW q \in Seq(Elements), NEW x
  PROVE  Remaining(q, x) \in Seq(Elements) /\ Len(Remaining(q, x)) <= Len(q)
<1>1. PICK n : n = Len(q) /\ n \in Nat
  BY Zenon, LenProperties
<1>2. PICK f : Loop("keep", x, <<>>, q, n, f) /\ Remaining(q, x) = f[n]
  BY <1>1, RemainingIs
<1>3. f[0] = <<>> /\ \A k \in 1..n : f[k] = After("keep", x, f[k - 1], q[k])
  <2>1. PICK start, xs : start = <<>> /\ xs = q
    BY Zenon
  <2>2. n \in Nat /\ Loop("keep", x, start, xs, n, f)
    BY <1>1, <1>2, <2>1
  <2>3. f[0] = start /\ \A k \in 1..n : f[k] = After("keep", x, f[k - 1], xs[k])
    BY ONLY <2>2, LoopTurns
  <2> QED BY <2>1, <2>3
<1>4. PICK T : T = {k \in 0..n : ~(f[k] \in Seq(Elements) /\ Len(f[k]) <= k)}
  BY Zenon
<1>5. T = {}
  <2> SUFFICES ASSUME T # {} PROVE FALSE
    OBVIOUS
  <2>1. T \subseteq Nat
    BY <1>1, <1>4
  <2>2. PICK k \in T : \A j \in T : k <= j
    BY <2>1, LeastNatural
  <2>3. k \in 0..n /\ ~(f[k] \in Seq(Elements) /\ Len(f[k]) <= k)
    BY <1>4
  <2>4. CASE k = 0
    <3>1. <<>> \in Seq(Elements) /\ Len(<<>>) <= 0
      OBVIOUS
    <3> QED BY <1>3, <2>3, <2>4, <3>1
  <2>5. CASE k # 0
    <3>1. k - 1 \in 0..n /\ ~(k <= k - 1) /\ k \in 1..n /\ k \in Nat
      BY <1>1, <2>3, <2>5
    <3>2. f[k - 1] \in Seq(Elements) /\ Len(f[k - 1]) <= k - 1
      BY <1>4, <2>2, <3>1
    <3>3. q[k] \in Elements
      BY <1>1, <3>1
    <3>4. f[k] = After("keep", x, f[k - 1], q[k])
      BY <1>3, <3>1
    <3>5. f[k] = f[k - 1] \/ f[k] = Append(f[k - 1], q[k])
      BY <3>4 DEF After
    <3>6. PICK e, y : e = f[k - 1] /\ y = q[k]
      BY Zenon
    <3>7. e \in Seq(Elements) /\ Len(e) <= k - 1 /\ y \in Elements /\ (f[k] = e \/ f[k] = Append(e, y))
      BY <3>2, <3>3, <3>5, <3>6
    <3>8. Append(e, y) \in Seq(Elements) /\ Len(Append(e, y)) = Len(e) + 1 /\ Len(e) \in Nat
      BY <3>7, Appended
    <3>9. Len(Append(e, y)) <= k /\ Len(e) <= k
      BY <3>1, <3>7, <3>8
    <3> QED BY <2>3, <3>7, <3>8, <3>9
  <2> QED BY <2>4, <2>5
<1>6. n \in 0..n
  BY <1>1
<1> QED BY <1>1, <1>2, <1>4, <1>5, <1>6

\* SoulVector::removeAll.
LEMMA Removed ==
  ASSUME NEW h, NEW c, Stored(h, c), NEW v \in AllVectors, NEW x, NEW g, g = removeAll(h, v, x)
  PROVE  Only(h, g, v) /\ g.data = h.data /\ \E d : Becomes(c, v, Remaining(c[v], x), d) /\ Stored(g, d)
<1>1. PICK a, n, q, xs, old : a = h.data[v] /\ n = h.size[v] /\ q = c[v] /\ xs = Remaining(q, x) /\ old = h.cells[a]
  BY Zenon
<1>2. /\ a \in Areas /\ n \in Nat /\ q \in Seq(Elements) /\ Len(q) = n /\ n <= MaxSize
      /\ \A i \in 1..n : i \in Positions /\ old[i] = q[i] /\ q[i] \in Elements /\ q[i] # Raw
  BY <1>1, StoredTypes
<1>3. Shape(h) /\ ~h.bad /\ RestRaw(h) /\ Apart(h)
  BY DEF Stored
<1>4. old \in [Positions -> Cell] /\ \A i \in Positions : n < i => old[i] = Raw
  <2>1. old \in [Positions -> Cell]
    BY <1>1, <1>2, <1>3 DEF Shape
  <2> QED BY <1>1, <1>2, <1>3, <2>1 DEF RestRaw, Apart
<1>5. MaxSize \in Nat /\ Raw \notin Elements
  BY VectorAssumption
<1>6. xs \in Seq(Elements) /\ Len(xs) \in Nat /\ Len(xs) <= n /\ \A i \in 1..Len(xs) : xs[i] \in Elements
  BY <1>1, <1>2, RemainingTypes
<1>7. PICK new : new = [i \in Positions |-> IF i <= Len(xs) THEN xs[i] ELSE old[i]]
  BY Zenon
<1>8. /\ new \in [Positions -> Cell]
      /\ \A i \in Positions : (i <= Len(xs) => new[i] = xs[i]) /\ (i <= n => new[i] # Raw) /\ (n < i => new[i] = Raw)
  <2>1. ASSUME NEW i \in Positions
        PROVE  /\ (i <= Len(xs) => new[i] = xs[i]) /\ (i <= n => new[i] # Raw) /\ (n < i => new[i] = Raw)
               /\ new[i] \in Cell
    <3>1. i \in Nat /\ i > 0
      BY <1>5 DEF Positions
    <3>2. CASE i <= Len(xs)
      <4>1. i \in 1..Len(xs) /\ ~(n < i) /\ new[i] = xs[i]
        BY <1>2, <1>6, <1>7, <3>1, <3>2
      <4> QED BY <1>5, <1>6, <4>1 DEF Cell
    <3>3. CASE ~(i <= Len(xs)) /\ i <= n
      <4>1. i \in 1..n /\ ~(n < i) /\ new[i] = old[i]
        BY <1>2, <1>7, <3>1, <3>3
      <4> QED BY <1>2, <3>3, <4>1 DEF Cell
    <3>4. CASE n < i
      <4>1. ~(i <= n) /\ ~(i <= Len(xs))
        BY <1>2, <1>6, <3>1, <3>4
      <4> QED BY <1>4, <1>7, <3>4, <4>1 DEF Cell
    <3> QED BY <1>2, <3>1, <3>2, <3>3, <3>4
  <2> QED BY <1>7, <2>1
<1>9. PICK front : front = Rearrange(h, a, new)
  BY Zenon
<1>10. /\ Shape(front) /\ SameVectors(h, front) /\ front.owner = h.owner /\ front.bad = h.bad
       /\ front.cells[a] = new /\ \A b \in Areas \ {a} : front.cells[b] = h.cells[b]
  BY ONLY <1>2, <1>3, <1>8, <1>9, RearrangeFields
<1>11. ~front.bad
  BY <1>3, <1>10, Zenon
<1>12. Begins(h, v, xs, front)
  BY <1>1, <1>2, <1>5, <1>6, <1>8, <1>10, <1>11 DEF Begins
<1>13. g = Resize(destroy_range(front, h.data[v], Len(xs) + 1, h.size[v]), v, Len(xs))
  <2>1. DOMAIN h.cells[h.data[v]] = Positions
    BY <1>1, <1>4
  <2>2. new = [i \in DOMAIN h.cells[h.data[v]] |-> IF i <= Len(xs) THEN xs[i] ELSE h.cells[h.data[v]][i]]
    BY <1>1, <1>7, <2>1, Zenon
  <2>3. front = [h EXCEPT !.cells[h.data[v]] = [i \in DOMAIN @ |-> IF i <= Len(xs) THEN xs[i] ELSE @[i]]]
    BY <1>1, <1>9, <2>2, Zenon DEF Rearrange
  <2>4. Remaining(Items(h, v), x) = xs
    BY <1>1, ItemsAre
  <2> QED BY <2>3, <2>4, Zenon DEF removeAll, Resize
<1> QED BY <1>1, <1>12, <1>13, Shortened

\* The vector v has got the first k elements of xs.
Longer(c, v, xs, k, q) ==
  /\ q \in Seq(Elements) /\ Len(q) = Len(c[v]) + k
  /\ \A i \in 1..(Len(c[v]) + k) : q[i] = IF i <= Len(c[v]) THEN c[v][i] ELSE xs[i - Len(c[v])]
Grown(h, c, v, xs, k, g) ==
  Only(h, g, v) /\ \E q, d : Longer(c, v, xs, k, q) /\ Becomes(c, v, q, d) /\ Stored(g, d)

\* One more element.
LEMMA LongerByOne ==
  ASSUME NEW c, NEW v, NEW m, c[v] \in Seq(Elements), m = Len(c[v]), NEW xs, NEW k \in Nat, NEW x \in Elements, x = xs[k + 1],
         NEW q, Longer(c, v, xs, k, q)
  PROVE  Longer(c, v, xs, k + 1, Append(q, x))
<1>1. m \in Nat
  OBVIOUS
<1>2. q \in Seq(Elements) /\ Len(q) = m + k /\ \A i \in 1..(m + k) : q[i] = IF i <= m THEN c[v][i] ELSE xs[i - m]
  BY DEF Longer
<1>3. PICK p : p = Append(q, x)
  BY Zenon
<1>4. p \in Seq(Elements) /\ Len(p) = m + (k + 1) /\ p[m + (k + 1)] = x /\ \A i \in 1..(m + k) : p[i] = q[i]
  <2>1. p \in Seq(Elements) /\ Len(p) = Len(q) + 1 /\ p[Len(q) + 1] = x /\ \A i \in 1..Len(q) : p[i] = q[i]
    BY <1>2, <1>3, Appended
  <2>2. Len(q) + 1 = m + (k + 1)
    BY ONLY <1>1, <1>2, k \in Nat
  <2> QED BY <1>2, <2>1, <2>2
<1>5. ASSUME NEW i \in 1..(m + (k + 1)) PROVE p[i] = IF i <= m THEN c[v][i] ELSE xs[i - m]
  <2>1. CASE i = m + (k + 1)
    <3>1. ~(i <= m) /\ i - m = k + 1
      BY ONLY <1>1, <2>1, k \in Nat
    <3> QED BY <1>4, <2>1, <3>1
  <2>2. CASE i # m + (k + 1)
    <3>1. i \in 1..(m + k)
      BY ONLY <1>1, <2>2, k \in Nat, i \in 1..(m + (k + 1))
    <3> QED BY <1>2, <1>4, <3>1
  <2> QED BY <2>1, <2>2
<1> QED BY <1>3, <1>4, <1>5 DEF Longer

\* SoulVector::append_range and the loops of the constructors.
LEMMA AppendedAll ==
  ASSUME NEW h, NEW c, Stored(h, c), NEW v \in AllVectors, NEW xs \in Seq(Elements), h.size[v] + Len(xs) <= MaxSize,
         NEW g, g = AppendAll(h, v, xs)
  PROVE  Only(h, g, v) /\ \E d : Becomes(c, v, c[v] \o xs, d) /\ Stored(g, d)
<1>1. PICK n, m, ys : n = Len(xs) /\ m = Len(c[v]) /\ ys = xs
  BY Zenon
<1>2. n \in Nat /\ m \in Nat /\ MaxSize \in Nat /\ m + n <= MaxSize /\ c[v] \in Seq(Elements) /\ m = h.size[v]
      /\ \A k \in 1..n : ys[k] \in Elements
  BY <1>1, StoredTypes, VectorAssumption
<1>3. PICK f : Loop("append", v, h, ys, n, f) /\ g = f[n]
  BY <1>1, <1>2, AppendAllIs
<1>4. f[0] = h /\ \A k \in 1..n : f[k] = After("append", v, f[k - 1], ys[k])
  <2>1. n \in Nat /\ Loop("append", v, h, ys, n, f)
    BY <1>2, <1>3
  <2> QED BY ONLY <2>1, LoopTurns
<1>5. PICK T : T = {k \in 0..n : ~Grown(h, c, v, ys, k, f[k])}
  BY Zenon
<1>6. T = {}
  <2> SUFFICES ASSUME T # {} PROVE FALSE
    OBVIOUS
  <2>1. T \subseteq Nat
    BY <1>2, <1>5
  <2>2. PICK k \in T : \A j \in T : k <= j
    BY <2>1, LeastNatural
  <2>3. k \in 0..n /\ ~Grown(h, c, v, ys, k, f[k])
    BY <1>5
  <2>4. CASE k = 0
    <3>1. Longer(c, v, ys, 0, c[v])
      BY <1>1, <1>2 DEF Longer
    <3>2. Becomes(c, v, c[v], c) /\ Only(h, h, v)
      BY DEF Becomes, Only, Stored
    <3>3. Stored(h, c)
      OBVIOUS
    <3>4. Grown(h, c, v, ys, 0, h)
      BY ONLY <3>1, <3>2, <3>3, Zenon DEF Grown
    <3> QED BY <1>4, <2>3, <2>4, <3>4
  <2>5. CASE k # 0
    <3>1. k - 1 \in 0..n /\ ~(k <= k - 1) /\ k \in 1..n /\ k - 1 \in Nat /\ (k - 1) + 1 = k
      BY <1>2, <2>3, <2>5
    <3>2. PICK e, j, x : e = f[k - 1] /\ j = k - 1 /\ x = ys[k]
      BY Zenon
    <3>3. Grown(h, c, v, ys, j, e)
      BY <1>5, <2>2, <3>1, <3>2
    <3>4. PICK q, d : Longer(c, v, ys, j, q) /\ Becomes(c, v, q, d) /\ Stored(e, d)
      BY <3>3 DEF Grown
    <3>5. x \in Elements /\ x = ys[j + 1] /\ j \in Nat /\ k = j + 1
      BY <1>2, <3>1, <3>2
    <3>6. Longer(c, v, ys, j + 1, Append(q, x))
      <4>1. Longer(c, v, ys, j, q) /\ c[v] \in Seq(Elements) /\ m = Len(c[v])
        BY <1>1, <1>2, <3>4
      <4> QED BY ONLY <3>5, <4>1, LongerByOne
    <3>7. e.size[v] < MaxSize
      <4>1. d[v] = q /\ Len(q) = m + j
        BY <1>1, <3>4 DEF Becomes, Longer
      <4>2. e.size[v] = m + j
        BY <3>4, <4>1, StoredTypes
      <4> QED BY <1>2, <3>1, <3>5, <4>2
    <3>8. PICK p : p = [d EXCEPT ![v] = Append(d[v], x)]
      BY Zenon
    <3>9. Stored(f[k], p) /\ Only(e, f[k], v)
      <4>1. f[k] = emplace_back_internal(e, v, x)
        BY <1>4, <3>1, <3>2 DEF After
      <4>2. Stored(e, d) /\ v \in AllVectors
        BY <3>4
      <4> QED BY ONLY <3>5, <3>7, <3>8, <4>1, <4>2, EmplaceBack
    <3>10. Becomes(c, v, Append(q, x), p)
      <4>1. p \in [AllVectors -> Seq(Elements)]
        BY <3>9 DEF Stored
      <4>2. d \in [AllVectors -> Seq(Elements)] /\ d[v] = q /\ \A w \in AllVectors \ {v} : d[w] = c[w]
        BY <3>4 DEF Becomes
      <4> QED BY <3>8, <4>1, <4>2 DEF Becomes
    <3>11. Only(h, f[k], v)
      BY <3>3, <3>9 DEF Grown, Only
    <3> QED BY <2>3, <3>5, <3>6, <3>9, <3>10, <3>11, Zenon DEF Grown
  <2> QED BY <2>4, <2>5
<1>7. Grown(h, c, v, ys, n, g)
  BY <1>2, <1>3, <1>5, <1>6
<1>8. PICK q, d : Longer(c, v, ys, n, q) /\ Becomes(c, v, q, d) /\ Stored(g, d)
  BY <1>7 DEF Grown
<1>9. q = c[v] \o xs
  <2>1. q \in Seq(Elements) /\ Len(q) = m + n /\ \A i \in 1..(m + n) : q[i] = IF i <= m THEN c[v][i] ELSE xs[i - m]
    BY <1>1, <1>8 DEF Longer
  <2>2. PICK r : r = c[v] \o xs
    BY Zenon
  <2>3. r \in Seq(Elements) /\ Len(r) = m + n /\ \A i \in 1..(m + n) : r[i] = IF i <= m THEN c[v][i] ELSE xs[i - m]
    <3>1. PICK p : p = c[v]
      BY Zenon
    <3>2. p \in Seq(Elements) /\ r = p \o xs /\ Len(p) = m /\ Len(xs) = n
      BY <1>1, <1>2, <2>2, <3>1
    <3>3. /\ p \o xs \in Seq(Elements) /\ Len(p \o xs) = Len(p) + Len(xs)
          /\ \A i \in 1..(Len(p) + Len(xs)) : (p \o xs)[i] = IF i <= Len(p) THEN p[i] ELSE xs[i - Len(p)]
      BY <3>2, ConcatProperties
    <3> QED BY <3>1, <3>2, <3>3
  <2>4. q = r
    BY <2>1, <2>3, SeqEqual
  <2> QED BY <2>2, <2>4
<1> QED BY <1>7, <1>8, <1>9 DEF Grown

\* A vector in its own storage gets another allocator.
LEMMA Reassigned ==
  ASSUME NEW h, NEW c, Stored(h, c), NEW v \in AllVectors, h.data[v] = v, NEW al, NEW g, g = Reassign(h, v, al)
  PROVE  Stored(g, c) /\ g.data = h.data /\ g.size = h.size /\ g.capacity = h.capacity /\ g.allocator[v] = al
         /\ \A w \in AllVectors \ {v} : g.allocator[w] = h.allocator[w]
<1>1. Shape(h) /\ ~h.bad /\ c \in [AllVectors -> Seq(Elements)] /\ Apart(h) /\ OwnersOK(h) /\ RestRaw(h)
  BY DEF Stored
<1>2. /\ Shape(g) /\ g.data = h.data /\ g.size = h.size /\ g.capacity = h.capacity /\ g.allocator = [h.allocator EXCEPT ![v] = al]
      /\ g.cells = h.cells /\ g.owner = h.owner /\ g.bad = h.bad
  BY ONLY <1>1, v \in AllVectors, g = Reassign(h, v, al), ReassignFields
<1>3. ~g.bad
  BY <1>1, <1>2, Zenon
<1>4. g.allocator[v] = al /\ \A w \in AllVectors \ {v} : g.allocator[w] = h.allocator[w]
  <2>1. DOMAIN h.allocator = AllVectors
    BY <1>1 DEF Shape
  <2> QED BY <1>2, <2>1
<1>5. ASSUME NEW w \in AllVectors PROVE VectorOK(g, c, w)
  <2>1. VectorOK(h, c, w)
    BY DEF Stored
  <2>2. CASE w = v
    <3>1. h.data[v] = v /\ h.capacity[v] = SmallCapacity
      BY WhereData
    <3> QED BY <1>2, <2>1, <2>2, <3>1 DEF VectorOK
  <2>3. CASE w # v
    BY <1>2, <1>4, <2>1, <2>3 DEF VectorOK
  <2> QED BY <2>2, <2>3
<1>6. Apart(g) /\ OwnersOK(g) /\ RestRaw(g)
  BY <1>1, <1>2 DEF Apart, OwnersOK, RestRaw
<1> QED BY <1>1, <1>2, <1>3, <1>4, <1>5, <1>6 DEF Stored

\* Two heaps with equal fields are equal.
LEMMA SameHeap ==
  ASSUME NEW h, NEW g, Shape(h), Shape(g), SameVectors(h, g), g.cells = h.cells, g.owner = h.owner, g.bad = h.bad
  PROVE  g = h
<1>1. h = [data |-> h.data, size |-> h.size, capacity |-> h.capacity, allocator |-> h.allocator,
           cells |-> h.cells, owner |-> h.owner, bad |-> h.bad]
  BY DEF Shape
<1>2. g = [data |-> g.data, size |-> g.size, capacity |-> g.capacity, allocator |-> g.allocator,
           cells |-> g.cells, owner |-> g.owner, bad |-> g.bad]
  BY DEF Shape
<1>3. g = [data |-> h.data, size |-> h.size, capacity |-> h.capacity, allocator |-> h.allocator,
           cells |-> h.cells, owner |-> h.owner, bad |-> h.bad]
  BY <1>2, Zenon DEF SameVectors
<1> QED BY ONLY <1>1, <1>3, Zenon

\* A function that already has the value.
LEMMA NoChange ==
  ASSUME NEW S, NEW f, f = [x \in S |-> f[x]], NEW v \in S, NEW y, f[v] = y
  PROVE  [f EXCEPT ![v] = y] = f
OBVIOUS

SizeIs(h, v, n, g) ==
  /\ Shape(g) /\ g.data = h.data /\ g.size = [h.size EXCEPT ![v] = n] /\ g.capacity = h.capacity /\ g.allocator = h.allocator
  /\ g.cells = h.cells /\ g.owner = h.owner /\ g.bad = h.bad

\* Another size, and nothing else.
LEMMA ResizedTo ==
  ASSUME NEW h, Shape(h), NEW v, v \in AllVectors, NEW n, n \in Nat, NEW g, g = Resize(h, v, n)
  PROVE  SizeIs(h, v, n, g)
BY ResizeFields DEF SizeIs

\* SoulVector::release_storage.
LEMMA Released ==
  ASSUME NEW h, NEW c, Stored(h, c), NEW v \in AllVectors, NEW g, g = release_storage(h, v)
  PROVE  Only(h, g, v) /\ g.data[v] = v /\ \E d : Becomes(c, v, <<>>, d) /\ Stored(g, d)
<1>1. PICK old, e, k : old = h.data[v] /\ e = destroy_range(h, h.data[v], 1, h.size[v]) /\ k = Resize(e, v, 0)
  BY Zenon
<1>2. Shape(e) /\ Only(h, k, v) /\ k.data = h.data /\ k.capacity = h.capacity /\ k.owner = h.owner
      /\ \E d : Becomes(c, v, <<>>, d) /\ Stored(k, d)
  BY <1>1, Cleared
<1>3. PICK d : Becomes(c, v, <<>>, d) /\ Stored(k, d)
  BY <1>2
<1>4. /\ Shape(k) /\ k.data = e.data /\ k.size = [e.size EXCEPT ![v] = 0] /\ k.capacity = e.capacity /\ k.allocator = e.allocator
      /\ k.cells = e.cells /\ k.owner = e.owner /\ k.bad = e.bad
  <2>1. PICK z : z = 0
    BY Zenon
  <2>2. z \in Nat /\ k = Resize(e, v, z) /\ Shape(e)
    BY <1>1, <1>2, <2>1
  <2>3. SizeIs(e, v, z, k)
    BY <2>2, ResizedTo, Zenon
  <2> QED BY <2>1, <2>3 DEF SizeIs
<1>5. SmallCapacity \in Nat \ {0} /\ MaxSize \in Nat /\ v \in Areas /\ 0 \in Nat
  BY VectorAssumption DEF Areas
<1>6. k.size[v] = 0 /\ d[v] = <<>> /\ k.allocator = h.allocator
  <2>1. d[v] = <<>> /\ k.allocator = h.allocator
    BY <1>2, <1>3 DEF Becomes, Only
  <2>2. k.size[v] = Len(d[v])
    BY <1>3, StoredTypes
  <2> QED BY <2>1, <2>2
<1>7. CASE h.data[v] = v
  <2>1. g = PlaceAndResize(e, v, v, SmallCapacity, 0)
    BY <1>1, <1>7, Zenon DEF release_storage, using_small_storage, PlaceAndResize
  <2>2. /\ Shape(g) /\ g.data = [e.data EXCEPT ![v] = v] /\ g.size = [e.size EXCEPT ![v] = 0]
        /\ g.capacity = [e.capacity EXCEPT ![v] = SmallCapacity] /\ g.allocator = e.allocator
        /\ g.cells = e.cells /\ g.owner = e.owner /\ g.bad = e.bad
    <3>1. SmallCapacity \in Nat /\ 0 \in Nat /\ v \in Areas /\ Shape(e)
      BY <1>2, <1>5
    <3> QED BY ONLY v \in AllVectors, <2>1, <3>1, PlaceAndResizeFields, SMTT(60)
  <2>3. [e.data EXCEPT ![v] = v] = e.data /\ [e.capacity EXCEPT ![v] = SmallCapacity] = e.capacity
    <3>1. e.data[v] = v /\ e.capacity[v] = SmallCapacity
      BY <1>2, <1>3, <1>4, <1>7, WhereData
    <3>2. e.data = [w \in AllVectors |-> e.data[w]] /\ e.capacity = [w \in AllVectors |-> e.capacity[w]]
      BY <1>2 DEF Shape
    <3> QED BY <3>1, <3>2
  <2>4. SameVectors(k, g)
    BY <1>4, <2>2, <2>3, Zenon DEF SameVectors
  <2>5. g.cells = k.cells /\ g.owner = k.owner
    BY <1>4, <2>2
  <2>6. g.bad = k.bad
    BY <1>4, <2>2, Zenon
  <2>7. g = k
    BY ONLY <1>4, <2>2, <2>4, <2>5, <2>6, SameHeap
  <2> QED BY <1>2, <1>7, <2>7
<1>8. CASE h.data[v] # v
  <2>1. PICK freed : freed = DeallocateBlock(e, v, old, h.capacity[v])
    BY Zenon
  <2>2. g = PlaceAndResize(freed, v, v, SmallCapacity, 0)
    BY <1>1, <1>8, <2>1, Zenon DEF release_storage, using_small_storage, PlaceAndResize
  <2>3. /\ old # v /\ old \in DOMAIN k.owner /\ old \in HeapBlocks /\ k.owner[old] = Grant(k.allocator[v], h.capacity[v]) /\ k.data[v] = old
        /\ v \notin HeapBlocks /\ \A w \in AllVectors : k.data[w] # v
    BY <1>1, <1>2, <1>3, <1>8, WhereData
  <2>4. \A i \in Positions : k.cells[old][i] = Raw
    <3>1. RestRaw(k) /\ Apart(k)
      BY <1>3 DEF Stored
    <3>2. \A i \in Positions : 0 < i
      BY <1>5 DEF Positions
    <3>3. \A w \in AllVectors : k.data[w] = old => w = v
      BY <2>3, <3>1 DEF Apart
    <3>4. \A i \in Positions : \A w \in AllVectors : k.data[w] = old => k.size[w] < i
      BY <1>6, <3>2, <3>3
    <3>5. old \in Areas
      BY <2>3 DEF Areas
    <3> QED BY <3>1, <3>4, <3>5 DEF RestRaw
  <2>5. /\ Shape(freed) /\ SameVectors(e, freed) /\ (freed.bad <=> e.bad) /\ freed.cells = e.cells
        /\ DOMAIN freed.owner = DOMAIN e.owner \ {old}
        /\ \A x \in DOMAIN e.owner \ {old} : freed.owner[x] = e.owner[x]
    <3>1. old \in DOMAIN e.owner /\ e.owner[old] = Grant(e.allocator[v], h.capacity[v]) /\ old \in Areas /\ \A i \in Positions : e.cells[old][i] = Raw
      BY <1>4, <2>3, <2>4 DEF Areas
    <3>2. Shape(e) /\ v \in AllVectors
      BY <1>2
    <3> QED BY ONLY <2>1, <3>1, <3>2, DeallocateFields
  <2>6. /\ Shape(g) /\ g.data = [freed.data EXCEPT ![v] = v] /\ g.size = [freed.size EXCEPT ![v] = 0]
        /\ g.capacity = [freed.capacity EXCEPT ![v] = SmallCapacity] /\ g.allocator = freed.allocator
        /\ g.cells = freed.cells /\ g.owner = freed.owner /\ g.bad = freed.bad
    <3>1. SmallCapacity \in Nat /\ 0 \in Nat /\ v \in Areas /\ Shape(freed)
      BY <1>5, <2>5
    <3> QED BY ONLY v \in AllVectors, <2>2, <3>1, PlaceAndResizeFields, SMTT(60)
  <2>7. ~g.bad
    <3>1. ~k.bad
      BY <1>3 DEF Stored
    <3> QED BY <1>4, <2>5, <2>6, <3>1, Zenon
  <2>8. freed.data = e.data /\ freed.size = e.size /\ freed.capacity = e.capacity /\ freed.allocator = e.allocator
    BY <2>5 DEF SameVectors
  <2>9. /\ g.data = [k.data EXCEPT ![v] = v] /\ g.size = k.size /\ g.allocator = k.allocator
        /\ g.capacity = [k.capacity EXCEPT ![v] = SmallCapacity] /\ g.cells = k.cells
    BY ONLY <1>4, <2>5, <2>6, <2>8
  <2>10. /\ k.size[v] <= g.capacity[v] /\ 0 < g.capacity[v] /\ g.capacity[v] = SmallCapacity
         /\ \A w \in AllVectors \ {v} : g.capacity[w] = k.capacity[w]
    <3>1. k.capacity \in [AllVectors -> Nat]
      BY <1>4 DEF Shape
    <3>2. g.capacity[v] = SmallCapacity /\ \A w \in AllVectors \ {v} : g.capacity[w] = k.capacity[w]
      BY <2>9, <3>1
    <3> QED BY <1>5, <1>6, <3>2
  <2>11. /\ DOMAIN g.owner = (DOMAIN k.owner \cup ({v} \cap HeapBlocks)) \ {k.data[v]}
         /\ \A b \in DOMAIN g.owner \ {v} : g.owner[b] = k.owner[b]
    <3>1. DOMAIN g.owner = DOMAIN k.owner \ {old} /\ \A b \in DOMAIN k.owner \ {old} : g.owner[b] = k.owner[b]
      BY <1>4, <2>5, <2>6
    <3> QED BY <2>3, <3>1
  <2>12. /\ \A i \in Positions : g.cells[v][i] = IF i <= k.size[v] THEN d[v][i] ELSE Raw
         /\ \A i \in Positions : g.cells[k.data[v]][i] = Raw
         /\ \A b \in Areas \ {v, k.data[v]} : g.cells[b] = k.cells[b]
    <3>1. \A i \in Positions : k.cells[v][i] = Raw
      BY <1>3, <1>5, <2>3, UnusedRaw
    <3>2. \A i \in Positions : ~(i <= 0)
      BY <1>5 DEF Positions
    <3> QED BY <1>6, <2>3, <2>4, <2>9, <3>1, <3>2
  <2>13. Stored(g, d)
    <3>1. Stored(k, d) /\ v \in AllVectors /\ v \in Areas /\ (\A w \in AllVectors : k.data[w] # v) /\ Shape(g)
      BY <1>3, <1>5, <2>3, <2>6
    <3>2. g.data = [k.data EXCEPT ![v] = v] /\ g.size = k.size /\ g.allocator = k.allocator
      BY <2>9
    <3>3. v = v /\ g.capacity[v] = SmallCapacity
      BY <2>10
    <3> QED BY ONLY <2>7, <2>10, <2>11, <2>12, <3>1, <3>2, <3>3, Relocated
  <2>14. Only(h, g, v) /\ g.data[v] = v
    <3>1. k.data \in [AllVectors -> Areas]
      BY <1>4 DEF Shape
    <3> QED BY <1>2, <2>9, <3>1 DEF Only
  <2> QED BY <1>3, <2>13, <2>14
<1> QED BY <1>7, <1>8

\* The sequence of other is now that of v, and other is empty in its own storage.
Moved(h, c, v, other, g) ==
  /\ g.data[other] = other /\ \A w \in AllVectors \ {v, other} : g.data[w] = h.data[w]
  /\ \E d : /\ Stored(g, d) /\ d[v] = c[other] /\ d[other] = <<>>
            /\ \A w \in AllVectors \ {v, other} : d[w] = c[w]

\* An empty vector in its own storage is as after release_storage.
LEMMA EmptyStays ==
  ASSUME NEW h, NEW c, Stored(h, c), NEW v \in AllVectors, h.data[v] = v, c[v] = <<>>
  PROVE  PlaceAndResize(h, v, v, SmallCapacity, 0) = h /\ h.size[v] = 0
<1>1. PICK g : g = PlaceAndResize(h, v, v, SmallCapacity, 0)
  BY Zenon
<1>2. h.data[v] = v /\ h.capacity[v] = SmallCapacity /\ h.size[v] = 0 /\ v \in Areas
  <2>1. h.size[v] = Len(c[v])
    BY StoredTypes
  <2>2. Len(c[v]) = 0
    OBVIOUS
  <2> QED BY <2>1, <2>2, WhereData
<1>3. Shape(h)
  BY DEF Stored
<1>4. /\ Shape(g) /\ g.data = [h.data EXCEPT ![v] = v] /\ g.size = [h.size EXCEPT ![v] = 0]
      /\ g.capacity = [h.capacity EXCEPT ![v] = SmallCapacity] /\ g.allocator = h.allocator
      /\ g.cells = h.cells /\ g.owner = h.owner /\ g.bad = h.bad
  <2>1. SmallCapacity \in Nat /\ 0 \in Nat
    BY VectorAssumption
  <2> QED BY ONLY v \in AllVectors, <1>1, <1>2, <1>3, <2>1, PlaceAndResizeFields
<1>5. SameVectors(h, g)
  <2>1. /\ h.data = [w \in AllVectors |-> h.data[w]] /\ h.capacity = [w \in AllVectors |-> h.capacity[w]]
        /\ h.size = [w \in AllVectors |-> h.size[w]]
    BY <1>3 DEF Shape
  <2>2. [h.data EXCEPT ![v] = v] = h.data /\ [h.capacity EXCEPT ![v] = SmallCapacity] = h.capacity /\ [h.size EXCEPT ![v] = 0] = h.size
    BY <1>2, <2>1
  <2> QED BY <1>4, <2>2, Zenon DEF SameVectors
<1>6. g = h
  BY ONLY <1>3, <1>4, <1>5, SameHeap
<1> QED BY <1>1, <1>2, <1>6

\* Nothing before a sequence.
LEMMA NothingBefore ==
  ASSUME NEW q \in Seq(Elements)
  PROVE  <<>> \o q = q
BY ConcatEmptySeq

\* SoulVector::adopt_from, when the other vector uses its own storage.
LEMMA AdoptedSmall ==
  ASSUME NEW h, NEW c, Stored(h, c), NEW v \in AllVectors, NEW other \in AllVectors, v # other,
         h.data[v] = v, c[v] = <<>>, h.data[other] = other, NEW g, g = adopt_from(h, v, other)
  PROVE  Moved(h, c, v, other, g)
<1>1. PICK e, xs : e = AppendAll(h, v, xs) /\ xs = c[other]
  BY Zenon
<1>2. g = Resize(destroy_range(e, other, 1, h.size[other]), other, 0)
  <2>1. Items(h, other) = xs /\ PlaceAndResize(h, v, v, SmallCapacity, 0) = h
    BY <1>1, ItemsAre, EmptyStays
  <2> QED BY <1>1, <2>1, Zenon DEF adopt_from, using_small_storage, PlaceAndResize, Resize
<1>3. xs \in Seq(Elements) /\ h.size[v] + Len(xs) <= MaxSize
  <2>1. xs \in Seq(Elements) /\ Len(xs) = h.size[other] /\ h.size[other] <= MaxSize /\ h.size[other] \in Nat
    BY <1>1, StoredTypes
  <2>2. h.size[v] = 0
    BY EmptyStays
  <2> QED BY <2>1, <2>2
<1>4. Only(h, e, v) /\ \E d : Becomes(c, v, c[v] \o xs, d) /\ Stored(e, d)
  BY <1>1, <1>3, AppendedAll
<1>5. PICK d : Becomes(c, v, c[v] \o xs, d) /\ Stored(e, d)
  BY <1>4
<1>6. d[v] = xs /\ \A w \in AllVectors \ {v} : d[w] = c[w]
  <2>1. c[v] \o xs = xs
    BY <1>3, NothingBefore
  <2> QED BY <1>5, <2>1 DEF Becomes
<1>7. e.data[other] = other /\ e.size[other] = h.size[other] /\ \A w \in AllVectors \ {v} : e.data[w] = h.data[w]
  BY <1>4 DEF Only
<1>8. g = Resize(destroy_range(e, e.data[other], 1, e.size[other]), other, 0)
  BY <1>2, <1>7, Zenon
<1>9. g.data = e.data /\ \E p : Becomes(d, other, <<>>, p) /\ Stored(g, p)
  <2>1. Stored(e, d) /\ other \in AllVectors
    BY <1>5
  <2> QED BY ONLY <1>8, <2>1, Cleared
<1>10. PICK p : Becomes(d, other, <<>>, p) /\ Stored(g, p)
  BY <1>9
<1>11. p[other] = <<>> /\ p[v] = xs /\ \A w \in AllVectors \ {v, other} : p[w] = c[w]
  BY <1>6, <1>10 DEF Becomes
<1> QED BY <1>1, <1>7, <1>9, <1>10, <1>11 DEF Moved

\* SoulVector::adopt_from, when a block changes hands.
LEMMA AdoptedBlock ==
  ASSUME NEW h, NEW c, Stored(h, c), NEW v \in AllVectors, NEW other \in AllVectors, v # other,
         h.data[v] = v, c[v] = <<>>, h.data[other] # other, h.allocator[v] = h.allocator[other],
         NEW g, g = adopt_from(h, v, other)
  PROVE  Moved(h, c, v, other, g)
<1>1. PICK b, k, n : b = h.data[other] /\ k = h.capacity[other] /\ n = h.size[other]
  BY Zenon
<1>2. PICK e : e = PlaceAndResize(h, v, b, k, n)
  BY Zenon
<1>3. g = PlaceAndResize(e, other, other, SmallCapacity, 0)
  BY <1>1, <1>2, Zenon DEF adopt_from, using_small_storage, PlaceAndResize
<1>4. /\ b \in Areas /\ k \in Nat /\ n \in Nat /\ n <= k /\ n <= MaxSize /\ 0 < k
      /\ b \in DOMAIN h.owner /\ b \in HeapBlocks /\ h.owner[b] = Grant(h.allocator[v], k)
      /\ v \in Areas /\ other \in Areas /\ v \notin HeapBlocks /\ other \notin HeapBlocks
      /\ \A w \in AllVectors : h.data[w] # other
  BY <1>1, StoredTypes, WhereData
<1>5. Shape(h) /\ ~h.bad /\ c \in [AllVectors -> Seq(Elements)] /\ Apart(h) /\ OwnersOK(h) /\ RestRaw(h)
  BY DEF Stored
<1>6. /\ Shape(e) /\ e.data = [h.data EXCEPT ![v] = b] /\ e.size = [h.size EXCEPT ![v] = n]
      /\ e.capacity = [h.capacity EXCEPT ![v] = k] /\ e.allocator = h.allocator
      /\ e.cells = h.cells /\ e.owner = h.owner /\ e.bad = h.bad
  <2>1. b \in Areas /\ k \in Nat /\ n \in Nat /\ Shape(h)
    BY <1>4, <1>5
  <2> QED BY ONLY v \in AllVectors, <1>2, <2>1, PlaceAndResizeFields
<1>7. SmallCapacity \in Nat /\ 0 < SmallCapacity /\ 0 \in Nat /\ MaxSize \in Nat
  BY VectorAssumption
<1>8. /\ Shape(g) /\ g.data = [e.data EXCEPT ![other] = other] /\ g.size = [e.size EXCEPT ![other] = 0]
      /\ g.capacity = [e.capacity EXCEPT ![other] = SmallCapacity] /\ g.allocator = e.allocator
      /\ g.cells = e.cells /\ g.owner = e.owner /\ g.bad = e.bad
  <2>1. other \in Areas /\ SmallCapacity \in Nat /\ 0 \in Nat /\ Shape(e)
    BY <1>4, <1>6, <1>7
  <2> QED BY ONLY other \in AllVectors, <1>3, <2>1, PlaceAndResizeFields
<1>9. ~g.bad
  BY <1>5, <1>6, <1>8, Zenon
<1>10. g.cells = h.cells /\ g.owner = h.owner /\ g.allocator = h.allocator
  BY <1>6, <1>8
<1>11. /\ g.data[v] = b /\ g.data[other] = other /\ \A w \in AllVectors \ {v, other} : g.data[w] = h.data[w]
       /\ g.size[v] = n /\ g.size[other] = 0 /\ \A w \in AllVectors \ {v, other} : g.size[w] = h.size[w]
       /\ g.capacity[v] = k /\ g.capacity[other] = SmallCapacity
       /\ \A w \in AllVectors \ {v, other} : g.capacity[w] = h.capacity[w]
  <2>1. h.data \in [AllVectors -> Areas] /\ h.size \in [AllVectors -> Nat] /\ h.capacity \in [AllVectors -> Nat]
    BY <1>5 DEF Shape
  <2>2. g.data[v] = b /\ g.data[other] = other /\ \A w \in AllVectors \ {v, other} : g.data[w] = h.data[w]
    BY <1>6, <1>8, <2>1
  <2>3. g.size[v] = n /\ g.size[other] = 0 /\ \A w \in AllVectors \ {v, other} : g.size[w] = h.size[w]
    BY <1>6, <1>8, <2>1
  <2>4. g.capacity[v] = k /\ g.capacity[other] = SmallCapacity /\ \A w \in AllVectors \ {v, other} : g.capacity[w] = h.capacity[w]
    BY <1>6, <1>8, <2>1
  <2> QED BY <2>2, <2>3, <2>4
<1>12. PICK d : d = [w \in AllVectors |-> IF w = v THEN c[other] ELSE IF w = other THEN <<>> ELSE c[w]]
  BY Zenon
<1>13. d[v] = c[other] /\ d[other] = <<>> /\ \A w \in AllVectors \ {v, other} : d[w] = c[w]
  BY <1>12
<1>14. d \in [AllVectors -> Seq(Elements)]
  <2>1. <<>> \in Seq(Elements)
    OBVIOUS
  <2> QED BY <1>5, <1>12, <2>1
<1>15. ASSUME NEW w \in AllVectors PROVE VectorOK(g, d, w)
  <2>1. CASE w = v
    <3>1. n = Len(c[other]) /\ \A i \in 1..n : h.cells[b][i] = c[other][i]
      BY <1>1, StoredTypes
    <3> QED BY <1>4, <1>10, <1>11, <1>13, <2>1, <3>1 DEF VectorOK
  <2>2. CASE w = other
    <3>1. Len(<<>>) = 0 /\ 1..0 = {}
      OBVIOUS
    <3>2. 0 <= SmallCapacity /\ 0 <= MaxSize
      BY <1>7
    <3> QED BY <1>7, <1>11, <1>13, <2>2, <3>1, <3>2 DEF VectorOK
  <2>3. CASE w # v /\ w # other
    <3>1. VectorOK(h, c, w)
      BY DEF Stored
    <3> QED BY <1>10, <1>11, <1>13, <2>3, <3>1 DEF VectorOK
  <2> QED BY <2>1, <2>2, <2>3
<1>16. Apart(g)
  <2>1. \A w \in AllVectors \ {v, other} : h.data[w] # b /\ h.data[w] # other
    BY <1>1, <1>4, <1>5 DEF Apart
  <2>2. b # other
    BY <1>4
  <2>3. \A x, y \in AllVectors \ {v, other} : g.data[x] = g.data[y] => x = y
    BY <1>5, <1>11 DEF Apart
  <2> QED BY <1>11, <2>1, <2>2, <2>3 DEF Apart
<1>17. OwnersOK(g)
  <2>1. DOMAIN h.owner \subseteq HeapBlocks /\ \A x \in DOMAIN h.owner : \E w \in AllVectors : h.data[w] = x
    BY <1>5 DEF OwnersOK
  <2>2. ASSUME NEW x \in DOMAIN h.owner PROVE \E w \in AllVectors : g.data[w] = x
    <3>1. PICK w \in AllVectors : h.data[w] = x
      BY <2>1
    <3>2. w # v
      BY <1>4, <2>1, <3>1
    <3>3. CASE w = other
      BY <1>1, <1>11, <3>1, <3>3
    <3>4. CASE w # other
      BY <1>11, <3>1, <3>2, <3>4
    <3> QED BY <3>3, <3>4
  <2> QED BY <1>10, <2>1, <2>2 DEF OwnersOK
<1>18. RestRaw(g)
  <2> SUFFICES ASSUME NEW a \in Areas, NEW i \in Positions, \A w \in AllVectors : g.data[w] = a => g.size[w] < i
               PROVE  h.cells[a][i] = Raw
    BY <1>10 DEF RestRaw
  <2>1. i \in Nat /\ 0 < i
    BY <1>7 DEF Positions
  <2>2. h.size[v] = 0
    BY EmptyStays
  <2>3. \A w \in AllVectors : h.data[w] = a => h.size[w] < i
    <3> SUFFICES ASSUME NEW w \in AllVectors, h.data[w] = a PROVE h.size[w] < i
      OBVIOUS
    <3>1. CASE w = v
      BY <2>1, <2>2, <3>1
    <3>2. CASE w = other
      <4>1. g.data[v] = a
        BY <1>1, <1>11, <3>2
      <4> QED BY <1>1, <1>11, <3>2, <4>1
    <3>3. CASE w # v /\ w # other
      BY <1>11, <3>3
    <3> QED BY <3>1, <3>2, <3>3
  <2> QED BY <1>5, <2>3 DEF RestRaw
<1>19. Stored(g, d)
  BY <1>8, <1>9, <1>14, <1>15, <1>16, <1>17, <1>18 DEF Stored
<1> QED BY <1>11, <1>13, <1>19 DEF Moved

\* SoulVector::adopt_from.
LEMMA Adopted ==
  ASSUME NEW h, NEW c, Stored(h, c), NEW v \in AllVectors, NEW other \in AllVectors, v # other,
         h.data[v] = v, c[v] = <<>>, h.allocator[v] = h.allocator[other], NEW g, g = adopt_from(h, v, other)
  PROVE  Moved(h, c, v, other, g)
BY AdoptedSmall, AdoptedBlock

\* The move constructor.
LEMMA MoveConstructed ==
  ASSUME NEW h, NEW c, Stored(h, c), NEW v \in AllVectors, NEW other \in AllVectors, v # other,
         h.data[v] = v, c[v] = <<>>, NEW g, g = MoveConstruct(h, v, other)
  PROVE  Moved(h, c, v, other, g)
<1>1. PICK al, e : al = h.allocator[other] /\ e = Reassign(h, v, al)
  BY Zenon
<1>2. g = adopt_from(e, v, other)
  BY <1>1, Zenon DEF MoveConstruct, Reassign
<1>3. Stored(e, c) /\ e.data = h.data /\ e.allocator[v] = al /\ e.allocator[other] = h.allocator[other]
  BY <1>1, Reassigned
<1>4. e.data[v] = v /\ e.allocator[v] = e.allocator[other]
  BY <1>1, <1>3
<1>5. Moved(e, c, v, other, g)
  BY <1>2, <1>3, <1>4, Adopted
<1> QED BY <1>3, <1>5, Zenon DEF Moved

\* The move assignment.
LEMMA MoveAssigned ==
  ASSUME NEW h, NEW c, Stored(h, c), NEW v \in AllVectors, NEW other \in AllVectors, v # other,
         NEW g, g = MoveAssign(h, v, other)
  PROVE  Moved(h, c, v, other, g)
<1>1. PICK al, e, f : al = h.allocator[other] /\ e = release_storage(h, v) /\ f = Reassign(e, v, al)
  BY Zenon
<1>2. g = adopt_from(f, v, other)
  BY <1>1, Zenon DEF MoveAssign, Reassign
<1>3. Only(h, e, v) /\ e.data[v] = v /\ \E d : Becomes(c, v, <<>>, d) /\ Stored(e, d)
  BY <1>1, Released
<1>4. PICK d : Becomes(c, v, <<>>, d) /\ Stored(e, d)
  BY <1>3
<1>5. Stored(f, d) /\ f.data = e.data /\ f.allocator[v] = al /\ f.allocator[other] = e.allocator[other]
  BY <1>1, <1>3, <1>4, Reassigned
<1>6. f.data[v] = v /\ f.allocator[v] = f.allocator[other] /\ d[v] = <<>> /\ \A w \in AllVectors \ {v} : d[w] = c[w] /\ f.data[w] = h.data[w]
  BY <1>1, <1>3, <1>4, <1>5 DEF Only, Becomes
<1>7. Moved(f, d, v, other, g)
  BY <1>2, <1>5, <1>6, Adopted
<1>8. PICK p : Stored(g, p) /\ p[v] = d[other] /\ p[other] = <<>> /\ \A w \in AllVectors \ {v, other} : p[w] = d[w]
  BY <1>7 DEF Moved
<1>9. p[v] = c[other] /\ \A w \in AllVectors \ {v, other} : p[w] = c[w]
  BY <1>6, <1>8
<1>10. g.data[other] = other /\ \A w \in AllVectors \ {v, other} : g.data[w] = h.data[w]
  BY <1>6, <1>7 DEF Moved
<1> QED BY <1>8, <1>9, <1>10 DEF Moved

\* The copy constructor.
LEMMA CopyConstructed ==
  ASSUME NEW h, NEW c, Stored(h, c), NEW v \in AllVectors, NEW other \in AllVectors, v # other,
         h.data[v] = v, c[v] = <<>>, NEW g, g = CopyConstruct(h, v, other)
  PROVE  /\ \A w \in AllVectors \ {v} : g.data[w] = h.data[w]
         /\ \E d : Becomes(c, v, c[other], d) /\ Stored(g, d)
<1>1. PICK n, e, room, xs : /\ n = h.size[other] /\ e = Reassign(h, v, h.allocator[other])
                           /\ room = reserve(e, v, n) /\ xs = c[other]
  BY Zenon
<1>2. g = AppendAll(room, v, xs)
  <2>1. Items(h, other) = xs
    BY <1>1, ItemsAre
  <2> QED BY <1>1, <2>1, Zenon DEF CopyConstruct, Reassign
<1>3. Stored(e, c) /\ e.data = h.data /\ e.size = h.size
  BY <1>1, Reassigned
<1>4. n \in Nat /\ n <= MaxSize /\ xs \in Seq(Elements) /\ Len(xs) = n /\ h.size[v] = 0
  BY <1>1, StoredTypes, EmptyStays
<1>5. Stored(room, c) /\ Only(e, room, v) /\ room.size = e.size
  BY <1>1, <1>3, <1>4, Reserving
<1>6. room.size[v] + Len(xs) <= MaxSize
  BY <1>3, <1>4, <1>5
<1>7. Only(room, g, v) /\ \E d : Becomes(c, v, c[v] \o xs, d) /\ Stored(g, d)
  BY <1>2, <1>4, <1>5, <1>6, AppendedAll
<1>8. c[v] \o xs = c[other]
  BY <1>1, <1>4, NothingBefore
<1> QED BY <1>3, <1>5, <1>7, <1>8 DEF Only

\* The vectors other than v, w and the local variable of swap stay where they are.
StayThere(h, g, v, w) == \A x \in AllVectors \ {v, w, Temp2} : g.data[x] = h.data[x]

\* SoulVector::swap, with its local variable.
LEMMA Swapped ==
  ASSUME NEW h, NEW c, Stored(h, c), NEW v \in AllVectors, NEW other \in AllVectors, v # other,
         v # Temp2, other # Temp2, h.data[Temp2] = Temp2, c[Temp2] = <<>>, NEW g, g = swap(h, v, other)
  PROVE  /\ g.data[Temp2] = Temp2 /\ StayThere(h, g, v, other)
         /\ \E d : /\ Stored(g, d) /\ d[v] = c[other] /\ d[other] = c[v] /\ d[Temp2] = <<>>
                   /\ \A w \in AllVectors \ {v, other, Temp2} : d[w] = c[w]
<1>1. PICK e1, e2, e3 : /\ e1 = MoveConstruct(h, Temp2, other) /\ e2 = MoveAssign(e1, other, v)
                        /\ e3 = MoveAssign(e2, v, Temp2)
  BY Zenon
<1>2. g = release_storage(e3, Temp2)
  BY <1>1, Zenon DEF swap
<1>3. Temp2 \in AllVectors
  BY DEF AllVectors
<1>4. Moved(h, c, Temp2, other, e1)
  BY <1>1, <1>3, MoveConstructed
<1>5. PICK c1 : /\ Stored(e1, c1) /\ c1[Temp2] = c[other] /\ c1[other] = <<>>
                /\ \A w \in AllVectors \ {Temp2, other} : c1[w] = c[w]
  BY <1>4 DEF Moved
<1>6. Moved(e1, c1, other, v, e2)
  BY <1>1, <1>5, MoveAssigned
<1>7. PICK c2 : /\ Stored(e2, c2) /\ c2[other] = c1[v] /\ c2[v] = <<>>
                /\ \A w \in AllVectors \ {other, v} : c2[w] = c1[w]
  BY <1>6 DEF Moved
<1>8. Moved(e2, c2, v, Temp2, e3)
  BY <1>1, <1>3, <1>7, MoveAssigned
<1>9. PICK c3 : /\ Stored(e3, c3) /\ c3[v] = c2[Temp2] /\ c3[Temp2] = <<>>
                /\ \A w \in AllVectors \ {v, Temp2} : c3[w] = c2[w]
  BY <1>8 DEF Moved
<1>10. Only(e3, g, Temp2) /\ g.data[Temp2] = Temp2 /\ \E d : Becomes(c3, Temp2, <<>>, d) /\ Stored(g, d)
  BY <1>2, <1>3, <1>9, Released
<1>11. PICK d : Becomes(c3, Temp2, <<>>, d) /\ Stored(g, d)
  BY <1>10
<1>12. d[v] = c[other] /\ d[other] = c[v] /\ d[Temp2] = <<>> /\ \A w \in AllVectors \ {v, other, Temp2} : d[w] = c[w]
  BY <1>3, <1>5, <1>7, <1>9, <1>11 DEF Becomes
<1>13. StayThere(h, g, v, other)
  BY <1>4, <1>6, <1>8, <1>10 DEF Moved, Only, StayThere
<1> QED BY <1>10, <1>11, <1>12, <1>13

\* The local variables of operator= and swap do not exist: empty, in their own
\* storage.
Parked(h, c) == h.data[Temp] = Temp /\ h.data[Temp2] = Temp2 /\ c[Temp] = <<>> /\ c[Temp2] = <<>>

\* The copy assignment: copy and swap.
LEMMA CopyAssigned ==
  ASSUME NEW h, NEW c, Stored(h, c), Parked(h, c), NEW v \in Vectors, NEW other \in Vectors, v # other,
         NEW g, g = CopyAssign(h, v, other)
  PROVE  \E d : Stored(g, d) /\ Parked(g, d) /\ d[v] = c[other] /\ \A w \in Vectors \ {v} : d[w] = c[w]
<1>1. PICK e1, e2 : e1 = CopyConstruct(h, Temp, other) /\ e2 = swap(e1, v, Temp)
  BY Zenon
<1>2. g = release_storage(e2, Temp)
  BY <1>1, Zenon DEF CopyAssign
<1>3. /\ Temp \in AllVectors /\ Temp2 \in AllVectors /\ v \in AllVectors /\ other \in AllVectors /\ Vectors \subseteq AllVectors
      /\ Temp # Temp2 /\ Temp \notin Vectors /\ Temp2 \notin Vectors
  BY VectorAssumption DEF AllVectors
<1>4. h.data[Temp] = Temp /\ h.data[Temp2] = Temp2 /\ c[Temp] = <<>> /\ c[Temp2] = <<>>
  BY DEF Parked
<1>5. (\A w \in AllVectors \ {Temp} : e1.data[w] = h.data[w]) /\ \E d : Becomes(c, Temp, c[other], d) /\ Stored(e1, d)
  BY <1>1, <1>3, <1>4, CopyConstructed
<1>6. PICK c1 : Becomes(c, Temp, c[other], c1) /\ Stored(e1, c1)
  BY <1>5
<1>7. /\ e1.data[Temp2] = Temp2 /\ c1[Temp2] = <<>> /\ c1[Temp] = c[other]
      /\ \A w \in AllVectors \ {Temp} : c1[w] = c[w]
  BY <1>3, <1>4, <1>5, <1>6 DEF Becomes
<1>8. /\ e2.data[Temp2] = Temp2
      /\ \E d : /\ Stored(e2, d) /\ d[v] = c1[Temp] /\ d[Temp] = c1[v] /\ d[Temp2] = <<>>
                /\ \A w \in AllVectors \ {v, Temp, Temp2} : d[w] = c1[w]
  <2>1. v # Temp /\ v # Temp2 /\ Temp # Temp2 /\ v \in AllVectors /\ Temp \in AllVectors
    BY <1>3
  <2> QED BY <1>1, <1>6, <1>7, <2>1, Swapped
<1>9. PICK c2 : /\ Stored(e2, c2) /\ c2[v] = c1[Temp] /\ c2[Temp] = c1[v] /\ c2[Temp2] = <<>>
                /\ \A w \in AllVectors \ {v, Temp, Temp2} : c2[w] = c1[w]
  BY <1>8
<1>10. Only(e2, g, Temp) /\ g.data[Temp] = Temp /\ \E d : Becomes(c2, Temp, <<>>, d) /\ Stored(g, d)
  BY <1>2, <1>3, <1>9, Released
<1>11. PICK d : Becomes(c2, Temp, <<>>, d) /\ Stored(g, d)
  BY <1>10
<1>12. d[Temp] = <<>> /\ d[Temp2] = <<>> /\ g.data[Temp] = Temp /\ g.data[Temp2] = Temp2
  BY <1>3, <1>8, <1>9, <1>10, <1>11 DEF Becomes, Only
<1>13. d[v] = c[other] /\ \A w \in Vectors \ {v} : d[w] = c[w]
  BY <1>3, <1>7, <1>9, <1>11 DEF Becomes
<1> QED BY <1>11, <1>12, <1>13 DEF Parked

\* SoulVector::shrink_to_fit.
LEMMA Shrunk ==
  ASSUME NEW h, NEW c, Stored(h, c), NEW v \in AllVectors, NEW g, g = shrink_to_fit(h, v)
  PROVE  Stored(g, c) /\ Only(h, g, v)
<1>1. h.size[v] \in Nat /\ h.size[v] <= h.size[v] /\ Only(h, h, v)
  BY StoredTypes DEF Only
<1>2. g = h \/ (h.size[v] <= SmallCapacity /\ g = move_to_small(h, v)) \/ g = reallocate(h, v, h.size[v])
  BY DEF shrink_to_fit
<1> QED BY <1>1, <1>2, MoveToSmall, Reallocate

\* SoulVector::append_range.
LEMMA AppendedRange ==
  ASSUME NEW h, NEW c, Stored(h, c), NEW v \in AllVectors, NEW xs \in Seq(Elements), h.size[v] + Len(xs) <= MaxSize,
         NEW g, g = append_range(h, v, xs)
  PROVE  Only(h, g, v) /\ \E d : Becomes(c, v, c[v] \o xs, d) /\ Stored(g, d)
<1>1. PICK room : room = reserve(h, v, h.size[v] + Len(xs))
  BY Zenon
<1>2. h.size[v] + Len(xs) \in Nat
  BY StoredTypes
<1>3. Stored(room, c) /\ Only(h, room, v) /\ room.size = h.size
  BY <1>1, <1>2, Reserving
<1>4. g = AppendAll(room, v, xs)
  BY <1>1 DEF append_range
<1>5. Only(room, g, v) /\ \E d : Becomes(c, v, c[v] \o xs, d) /\ Stored(g, d)
  BY <1>3, <1>4, AppendedAll
<1> QED BY <1>3, <1>5 DEF Only

-----------------------------------------------------------------------------
(* The program's calls.                                                    *)

\* The heap holds what the operations stand for.
Represents(c) == Stored(s, c) /\ Parked(s, c) /\ \A v \in Vectors : c[v] = contents[v]
VectorInv == contents \in [Vectors -> Seq(Elements)] /\ \E c : Represents(c)
VectorsUntilTorn == torn \/ VectorInv

\* The program's vectors are not the local variables.
LEMMA VectorNames ==
  /\ Vectors \subseteq AllVectors /\ Temp \in AllVectors /\ Temp2 \in AllVectors
  /\ Temp \notin Vectors /\ Temp2 \notin Vectors /\ \A w \in AllVectors : w \in Vectors \/ w = Temp \/ w = Temp2
BY VectorAssumption DEF AllVectors

\* A function with one value changed.
LEMMA BecomesExcept ==
  ASSUME NEW c \in [AllVectors -> Seq(Elements)], NEW v \in AllVectors, NEW q \in Seq(Elements)
  PROVE  Becomes(c, v, q, [c EXCEPT ![v] = q])
BY DEF Becomes

\* A call that changes one vector.
LEMMA OneCall ==
  ASSUME contents \in [Vectors -> Seq(Elements)], NEW c, Represents(c), NEW v \in Vectors, NEW g, NEW q,
         Does(g, v, q), Only(s, g, v), NEW d, Becomes(c, v, q, d), Stored(g, d)
  PROVE  VectorInv'
<1>1. s' = g /\ contents' = [contents EXCEPT ![v] = q]
  BY DEF Does
<1>2. Parked(s, c) /\ \A w \in Vectors : c[w] = contents[w]
  BY DEF Represents
<1>3. d \in [AllVectors -> Seq(Elements)] /\ d[v] = q /\ \A w \in AllVectors \ {v} : d[w] = c[w]
  BY DEF Becomes
<1>4. contents' \in [Vectors -> Seq(Elements)] /\ \A w \in Vectors : d[w] = contents'[w]
  <2>1. q \in Seq(Elements)
    BY <1>3, VectorNames
  <2> QED BY <1>1, <1>2, <1>3, <2>1, VectorNames
<1>5. Parked(g, d)
  BY <1>2, <1>3, VectorNames DEF Parked, Only
<1>6. Represents(d)'
  BY <1>1, <1>4, <1>5 DEF Represents
<1> QED BY <1>4, <1>6 DEF VectorInv

\* A call that changes storage only.
LEMMA SameContents ==
  ASSUME contents \in [Vectors -> Seq(Elements)], NEW c, Represents(c), NEW v \in Vectors, NEW g,
         Does(g, v, contents[v]), Only(s, g, v), Stored(g, c)
  PROVE  VectorInv'
<1>1. Becomes(c, v, contents[v], c)
  BY DEF Becomes, Represents, Stored
<1> QED BY <1>1, OneCall

\* Insertions.
LEMMA InsertKeeps ==
  ASSUME VectorInv, NEW v \in Vectors, Insert(v) \/ AppendRange(v)
  PROVE  VectorInv'
<1>1. PICK c : Represents(c)
  BY DEF VectorInv
<1>2. contents \in [Vectors -> Seq(Elements)] /\ Stored(s, c) /\ c[v] = contents[v] /\ v \in AllVectors
  BY <1>1, VectorNames DEF VectorInv, Represents
<1>3. c \in [AllVectors -> Seq(Elements)] /\ c[v] \in Seq(Elements) /\ s.size[v] \in Nat /\ MaxSize \in Nat
  BY <1>2, StoredTypes, VectorAssumption DEF Stored
<1>4. CASE Insert(v)
  <2>1. PICK x \in Elements : Fits(v, 1) /\ Does(emplace_back_internal(s, v, x), v, Append(contents[v], x))
    BY <1>4 DEF Insert
  <2>2. PICK g, q : g = emplace_back_internal(s, v, x) /\ q = Append(c[v], x)
    BY Zenon
  <2>3. s.size[v] < MaxSize
    BY <1>3, <2>1 DEF Fits
  <2>4. Stored(g, [c EXCEPT ![v] = q]) /\ Only(s, g, v)
    BY <1>2, <2>2, <2>3, EmplaceBack
  <2>5. q \in Seq(Elements)
    BY <1>3, <2>2
  <2>6. Becomes(c, v, q, [c EXCEPT ![v] = q])
    BY <1>2, <1>3, <2>5, BecomesExcept
  <2>7. Does(g, v, q)
    BY <1>2, <2>1, <2>2
  <2> QED BY <1>1, <1>2, <2>4, <2>6, <2>7, OneCall
<1>5. CASE AppendRange(v)
  <2>1. PICK x \in Elements, y \in Elements : Fits(v, 2) /\ Does(append_range(s, v, <<x, y>>), v, contents[v] \o <<x, y>>)
    BY <1>5 DEF AppendRange
  <2>2. PICK g, xs : g = append_range(s, v, xs) /\ xs = <<x, y>>
    BY Zenon
  <2>3. xs \in Seq(Elements) /\ Len(xs) = 2
    BY <2>2
  <2>4. s.size[v] + Len(xs) <= MaxSize
    BY <1>3, <2>1, <2>3 DEF Fits
  <2>5. Only(s, g, v) /\ \E d : Becomes(c, v, c[v] \o xs, d) /\ Stored(g, d)
    BY <1>2, <2>2, <2>3, <2>4, AppendedRange
  <2>6. Does(g, v, c[v] \o xs)
    BY <1>2, <2>1, <2>2
  <2> QED BY <1>1, <1>2, <2>5, <2>6, OneCall
<1> QED BY <1>4, <1>5

\* Removals.
LEMMA RemoveKeeps ==
  ASSUME VectorInv, NEW v \in Vectors, RemoveValue(v) \/ EraseAt(v) \/ Clear(v)
  PROVE  VectorInv'
<1>1. PICK c : Represents(c)
  BY DEF VectorInv
<1>2. contents \in [Vectors -> Seq(Elements)] /\ Stored(s, c) /\ c[v] = contents[v] /\ v \in AllVectors
  BY <1>1, VectorNames DEF VectorInv, Represents
<1>3. Len(c[v]) = s.size[v] /\ s.size[v] \in Nat
  BY <1>2, StoredTypes
<1>4. CASE RemoveValue(v)
  <2>1. PICK x \in Elements : Does(removeAll(s, v, x), v, Remaining(contents[v], x))
    BY <1>4 DEF RemoveValue
  <2>2. PICK g : g = removeAll(s, v, x)
    BY Zenon
  <2>3. Only(s, g, v) /\ \E d : Becomes(c, v, Remaining(c[v], x), d) /\ Stored(g, d)
    BY <1>2, <2>2, Removed
  <2>4. Does(g, v, Remaining(c[v], x))
    BY <1>2, <2>1, <2>2
  <2> QED BY <1>1, <1>2, <2>3, <2>4, OneCall
<1>5. CASE EraseAt(v)
  <2>1. PICK pos \in 1..(s.size[v] + 1) :
          Does(erase(s, v, pos), v, IF pos <= Len(contents[v]) THEN RemoveAt(contents[v], pos) ELSE contents[v])
    BY <1>5 DEF EraseAt
  <2>2. PICK g : g = erase(s, v, pos)
    BY Zenon
  <2>3. CASE pos \in 1..s.size[v]
    <3>1. Only(s, g, v) /\ \E d : Becomes(c, v, RemoveAt(c[v], pos), d) /\ Stored(g, d)
      BY <1>2, <2>2, <2>3, Erased
    <3>2. Does(g, v, RemoveAt(c[v], pos))
      BY <1>2, <1>3, <2>1, <2>2, <2>3
    <3> QED BY <1>1, <1>2, <3>1, <3>2, OneCall
  <2>4. CASE pos \notin 1..s.size[v]
    <3>1. g = s
      BY <2>2, <2>4 DEF erase
    <3>2. ~(pos <= Len(contents[v]))
      BY <1>2, <1>3, <2>1, <2>4
    <3>3. Does(g, v, contents[v])
      BY <2>1, <2>2, <3>2
    <3>4. Only(s, g, v) /\ Stored(g, c)
      BY <1>2, <3>1 DEF Only
    <3> QED BY <1>1, <1>2, <3>3, <3>4, SameContents
  <2> QED BY <2>3, <2>4
<1>6. CASE Clear(v)
  <2>1. PICK g : g = clearVector(s, v)
    BY Zenon
  <2>2. g = Resize(destroy_range(s, s.data[v], 1, s.size[v]), v, 0)
    BY <2>1, Zenon DEF clearVector, Resize
  <2>3. Only(s, g, v) /\ \E d : Becomes(c, v, <<>>, d) /\ Stored(g, d)
    BY <1>2, <2>2, Cleared
  <2>4. Does(g, v, <<>>)
    BY <1>6, <2>1 DEF Clear
  <2> QED BY <1>1, <1>2, <2>3, <2>4, OneCall
<1> QED BY <1>4, <1>5, <1>6

\* Calls that change the storage only.
LEMMA StorageKeeps ==
  ASSUME VectorInv, NEW v \in Vectors, Throws(v) \/ Reserve(v) \/ Shrink(v)
  PROVE  VectorInv'
<1>1. PICK c : Represents(c)
  BY DEF VectorInv
<1>2. contents \in [Vectors -> Seq(Elements)] /\ Stored(s, c) /\ c[v] = contents[v] /\ v \in AllVectors
  BY <1>1, VectorNames DEF VectorInv, Represents
<1>3. PICK g : Does(g, v, contents[v]) /\ Stored(g, c) /\ Only(s, g, v)
  <2>1. CASE Throws(v)
    <3>1. PICK requested \in Requests(v), done \in 0..(s.size[v] - 1) :
            Does(reallocateThrows(s, v, requested, done), v, contents[v])
      BY <2>1 DEF Throws
    <3>2. done \in 0..s.size[v]
      BY <1>2, StoredTypes
    <3> QED BY <1>2, <3>1, <3>2, ReallocateThrows
  <2>2. CASE Reserve(v)
    <3>1. PICK n \in 1..(MaxSize + 1) : Does(reserve(s, v, n), v, contents[v])
      BY <2>2 DEF Reserve
    <3>2. n \in Nat
      BY VectorAssumption
    <3> QED BY <1>2, <3>1, <3>2, Reserving
  <2>3. CASE Shrink(v)
    BY <1>2, <2>3, Shrunk DEF Shrink
  <2> QED BY <2>1, <2>2, <2>3
<1> QED BY <1>1, <1>2, <1>3, SameContents

\* Assignments between vectors and swap.
LEMMA AssignKeeps ==
  ASSUME VectorInv, NEW v \in Vectors, Assign(v) \/ Swap(v) \/ Steal(v)
  PROVE  VectorInv'
<1>1. PICK c : Represents(c)
  BY DEF VectorInv
<1>2. /\ contents \in [Vectors -> Seq(Elements)] /\ Stored(s, c) /\ Parked(s, c) /\ v \in AllVectors
      /\ (\A w \in Vectors : c[w] = contents[w] /\ w \in AllVectors /\ w # Temp2) /\ c[v] = contents[v]
  BY <1>1, VectorNames DEF VectorInv, Represents
<1>3. CASE Assign(v)
  <2>1. PICK w \in Vectors : Does(CopyAssign(s, v, w), v, contents[w])
    BY <1>3 DEF Assign
  <2>2. PICK g : g = CopyAssign(s, v, w)
    BY Zenon
  <2>3. CASE w = v
    <3>1. g = s
      BY <2>2, <2>3 DEF CopyAssign
    <3>2. Does(g, v, contents[v]) /\ Only(s, g, v) /\ Stored(g, c)
      BY <1>2, <2>1, <2>2, <2>3, <3>1 DEF Only
    <3> QED BY <1>1, <1>2, <3>2, SameContents
  <2>4. CASE w # v
    <3>1. PICK d : Stored(g, d) /\ Parked(g, d) /\ d[v] = c[w] /\ \A x \in Vectors \ {v} : d[x] = c[x]
      BY <1>2, <2>2, <2>4, CopyAssigned
    <3>2. s' = g /\ contents' = [contents EXCEPT ![v] = contents[w]]
      BY <2>1, <2>2 DEF Does
    <3>3. contents' \in [Vectors -> Seq(Elements)] /\ \A x \in Vectors : d[x] = contents'[x]
      BY <1>2, <3>1, <3>2
    <3>4. Represents(d)'
      BY <3>1, <3>2, <3>3 DEF Represents
    <3> QED BY <3>3, <3>4 DEF VectorInv
  <2> QED BY <2>3, <2>4
<1>4. CASE Swap(v)
  <2>1. PICK w \in Vectors : s' = swap(s, v, w) /\ contents' = [contents EXCEPT ![v] = contents[w], ![w] = contents[v]]
    BY <1>4 DEF Swap
  <2>2. PICK g : g = swap(s, v, w)
    BY Zenon
  <2>3. contents' \in [Vectors -> Seq(Elements)] /\ contents'[w] = contents[v] /\ contents'[v] = contents[w]
        /\ \A x \in Vectors \ {v, w} : contents'[x] = contents[x]
    BY <1>2, <2>1
  <2>4. CASE w = v
    <3>1. g = s
      BY <2>2, <2>4 DEF swap
    <3>2. Represents(c)'
      BY <1>2, <2>1, <2>2, <2>3, <2>4, <3>1 DEF Represents
    <3> QED BY <2>3, <3>2 DEF VectorInv
  <2>5. CASE w # v
    <3>1. s.data[Temp2] = Temp2 /\ c[Temp2] = <<>> /\ s.data[Temp] = Temp /\ c[Temp] = <<>>
      BY <1>2 DEF Parked
    <3>2. /\ g.data[Temp2] = Temp2 /\ StayThere(s, g, v, w)
          /\ \E d : /\ Stored(g, d) /\ d[v] = c[w] /\ d[w] = c[v] /\ d[Temp2] = <<>>
                    /\ \A x \in AllVectors \ {v, w, Temp2} : d[x] = c[x]
      <4>1. v \in AllVectors /\ w \in AllVectors /\ v # w /\ v # Temp2 /\ w # Temp2 /\ Stored(s, c)
        BY <1>2, <2>5
      <4> QED BY ONLY <2>2, <3>1, <4>1, Swapped
    <3>3. PICK d : /\ Stored(g, d) /\ d[v] = c[w] /\ d[w] = c[v] /\ d[Temp2] = <<>>
                   /\ \A x \in AllVectors \ {v, w, Temp2} : d[x] = c[x]
      BY <3>2
    <3>4. Temp \in AllVectors \ {v, w, Temp2}
      BY VectorAssumption, VectorNames
    <3>5. Parked(g, d)
      BY <3>1, <3>2, <3>3, <3>4 DEF Parked, StayThere
    <3>6. \A x \in Vectors : d[x] = contents'[x]
      BY <1>2, <2>3, <3>3
    <3>7. Represents(d)'
      BY <2>1, <2>2, <3>3, <3>5, <3>6 DEF Represents
    <3> QED BY <2>3, <3>7 DEF VectorInv
  <2> QED BY <2>4, <2>5
<1>5. CASE Steal(v)
  <2>1. PICK w \in Vectors \ {v} : s' = MoveAssign(s, v, w) /\ contents' = [contents EXCEPT ![v] = contents[w], ![w] = <<>>]
    BY <1>5 DEF Steal
  <2>2. PICK g : g = MoveAssign(s, v, w)
    BY Zenon
  <2>3. contents' \in [Vectors -> Seq(Elements)] /\ contents'[w] = <<>> /\ contents'[v] = contents[w]
        /\ \A x \in Vectors \ {v, w} : contents'[x] = contents[x]
    <3>1. <<>> \in Seq(Elements)
      OBVIOUS
    <3> QED BY <1>2, <2>1, <3>1
  <2>4. Moved(s, c, v, w, g)
    BY <1>2, <2>2, MoveAssigned
  <2>5. PICK d : Stored(g, d) /\ d[v] = c[w] /\ d[w] = <<>> /\ \A x \in AllVectors \ {v, w} : d[x] = c[x]
    BY <2>4 DEF Moved
  <2>6. Parked(g, d)
    BY <1>2, <2>4, <2>5, VectorNames DEF Parked, Moved
  <2>7. \A x \in Vectors : d[x] = contents'[x]
    BY <1>2, <2>3, <2>5
  <2>8. Represents(d)'
    BY <2>1, <2>2, <2>5, <2>6, <2>7 DEF Represents
  <2> QED BY <2>3, <2>8 DEF VectorInv
<1> QED BY <1>3, <1>4, <1>5

\* Initially every vector is empty in its own storage.
LEMMA VectorStarts == VectorInit => VectorInv
<1> SUFFICES ASSUME VectorInit PROVE VectorInv
  OBVIOUS
<1>1. PICK c, own, no : c = [v \in AllVectors |-> <<>>] /\ own = [b \in {} |-> b] /\ no = FALSE
  BY Zenon
<1>2. s = [data |-> [v \in AllVectors |-> v], size |-> [v \in AllVectors |-> 0],
           capacity |-> [v \in AllVectors |-> SmallCapacity], allocator |-> [v \in AllVectors |-> AllocatorOf[v]],
           cells |-> [a \in Areas |-> RawCells], owner |-> own, bad |-> no]
  BY <1>1, Zenon DEF VectorInit
<1>3. /\ s.data = [v \in AllVectors |-> v] /\ s.size = [v \in AllVectors |-> 0]
      /\ s.capacity = [v \in AllVectors |-> SmallCapacity] /\ s.allocator = [v \in AllVectors |-> AllocatorOf[v]]
      /\ s.cells = [a \in Areas |-> RawCells] /\ s.owner = own
  BY <1>2
<1>4. s.bad = no
  BY <1>2, SMT
<1>5. ~s.bad
  BY <1>1, <1>4, Zenon
<1>6. SmallCapacity \in Nat \ {0} /\ MaxSize \in Nat /\ AllVectors \subseteq Areas
  BY VectorAssumption DEF Areas
<1>7. RawCells \in [Positions -> Cell] /\ \A i \in Positions : RawCells[i] = Raw
  BY DEF RawCells, Positions, Cell
<1>8. DOMAIN own = {} /\ own = [b \in DOMAIN own |-> own[b]]
  BY <1>1
<1>9. Shape(s)
  <2>1. s = [data |-> s.data, size |-> s.size, capacity |-> s.capacity, allocator |-> s.allocator,
             cells |-> s.cells, owner |-> s.owner, bad |-> s.bad]
    BY <1>2, <1>3, <1>4, Zenon
  <2>2. s.data \in [AllVectors -> Areas] /\ s.size \in [AllVectors -> Nat] /\ s.capacity \in [AllVectors -> Nat]
    BY <1>3, <1>6
  <2>3. DOMAIN s.allocator = AllVectors /\ s.allocator = [v \in AllVectors |-> s.allocator[v]]
    BY <1>3
  <2>4. s.cells \in [Areas -> [Positions -> Cell]]
    BY <1>3, <1>7
  <2>5. s.owner = [b \in DOMAIN s.owner |-> s.owner[b]]
    BY <1>3, <1>8
  <2> QED BY ONLY <2>1, <2>2, <2>3, <2>4, <2>5, Zenon DEF Shape
<1>10. c \in [AllVectors -> Seq(Elements)] /\ \A v \in AllVectors : c[v] = <<>> /\ Len(c[v]) = 0
  <2>1. <<>> \in Seq(Elements) /\ Len(<<>>) = 0
    OBVIOUS
  <2> QED BY <1>1, <2>1
<1>11. ASSUME NEW v \in AllVectors PROVE VectorOK(s, c, v)
  <2>1. s.size[v] = 0 /\ s.capacity[v] = SmallCapacity /\ s.data[v] = v
    BY <1>3
  <2>2. 0 <= SmallCapacity /\ 0 <= MaxSize /\ 0 < SmallCapacity /\ 1..0 = {}
    BY <1>6
  <2> QED BY <1>10, <2>1, <2>2 DEF VectorOK
<1>12. Apart(s) /\ OwnersOK(s)
  BY <1>3, <1>8 DEF Apart, OwnersOK
<1>13. RestRaw(s)
  BY <1>3, <1>7 DEF RestRaw
<1>14. Stored(s, c)
  BY <1>5, <1>9, <1>10, <1>11, <1>12, <1>13 DEF Stored
<1>15. Parked(s, c)
  BY <1>3, <1>10, VectorNames DEF Parked
<1>16. contents \in [Vectors -> Seq(Elements)] /\ \A v \in Vectors : c[v] = contents[v]
  <2>1. contents = [v \in Vectors |-> <<>>] /\ <<>> \in Seq(Elements)
    BY DEF VectorInit
  <2> QED BY <1>10, <2>1, VectorNames
<1> QED BY <1>14, <1>15, <1>16 DEF VectorInv, Represents

\* A heap that represents the contents is sound.
LEMMA StorageMeaning == VectorInv => StorageSound
<1> SUFFICES ASSUME VectorInv PROVE StorageSound
  OBVIOUS
<1>1. PICK c : Stored(s, c) /\ \A v \in Vectors : c[v] = contents[v]
  BY DEF VectorInv, Represents
<1>2. ~s.bad /\ Apart(s) /\ OwnersOK(s) /\ RestRaw(s)
  BY <1>1 DEF Stored
<1>3. ASSUME NEW v \in AllVectors
      PROVE  /\ s.size[v] <= s.capacity[v]
             /\ using_small_storage(s, v) => s.capacity[v] = SmallCapacity
             /\ ~using_small_storage(s, v) => s.data[v] \in DOMAIN s.owner /\ s.owner[s.data[v]] = Grant(s.allocator[v], s.capacity[v])
  BY <1>1, StoredTypes, WhereData DEF using_small_storage
<1>4. ASSUME NEW a \in Areas, NEW i \in 1..(2 * MaxSize)
      PROVE  s.cells[a][i] # Raw <=> \E v \in AllVectors : s.data[v] = a /\ i <= s.size[v]
  <2>1. i \in Positions /\ i \in Nat /\ 0 < i
    BY VectorAssumption DEF Positions
  <2>2. ASSUME NEW v \in AllVectors, s.data[v] = a, i <= s.size[v] PROVE s.cells[a][i] # Raw
    <3>1. s.size[v] \in Nat /\ \A j \in 1..s.size[v] : s.cells[s.data[v]][j] # Raw
      BY <1>1, StoredTypes
    <3>2. i \in 1..s.size[v]
      BY <2>1, <2>2, <3>1
    <3> QED BY <2>2, <3>1, <3>2
  <2>3. ASSUME ~ \E v \in AllVectors : s.data[v] = a /\ i <= s.size[v] PROVE s.cells[a][i] = Raw
    <3>1. \A v \in AllVectors : s.size[v] \in Nat
      BY <1>1, StoredTypes
    <3>2. \A v \in AllVectors : s.data[v] = a => s.size[v] < i
      BY <2>1, <2>3, <3>1
    <3> QED BY <1>2, <2>1, <3>2 DEF RestRaw
  <2> QED BY <2>2, <2>3
<1>5. ASSUME NEW b \in DOMAIN s.owner PROVE Cardinality({v \in AllVectors : s.data[v] = b}) = 1
  <2>1. PICK v \in AllVectors : s.data[v] = b
    BY <1>2 DEF OwnersOK
  <2>2. {w \in AllVectors : s.data[w] = b} = {v}
    BY <1>2, <2>1 DEF Apart
  <2> QED BY <2>2, FS_Singleton
<1>6. \A v \in Vectors : Items(s, v) = contents[v]
  BY <1>1, ItemsAre, VectorNames
<1> QED BY <1>2, <1>3, <1>4, <1>5, <1>6 DEF StorageSound

\* SoulVector.h: for every set of vectors, every small capacity and every sequence
\* of calls up to the bound on sizes, whatever is moved, copied, swapped, grown or
\* shrunk and whichever constructor throws in reallocate(): elements lie where
\* their vector says, blocks have one owner, come from its allocator and are
\* given back with the number of elements they were taken for, nothing is
\* constructed, destroyed or freed twice, and vectors hold what their operations
\* stand for - as long as no exception leaves move_to_small() halfway.
THEOREM StorageAlways == VectorSpec => []StorageSound
<1>1. VectorsUntilTorn /\ [VectorNext]_vectorVars => VectorsUntilTorn'
  <2> SUFFICES ASSUME VectorsUntilTorn, [VectorNext]_vectorVars PROVE VectorsUntilTorn'
    OBVIOUS
  <2>1. CASE UNCHANGED vectorVars
    BY <2>1 DEF vectorVars, VectorsUntilTorn, VectorInv, Represents
  <2>2. CASE VectorNext
    <3>1. VectorInv
      BY <2>2 DEF VectorNext, VectorsUntilTorn
    <3>2. PICK v \in Vectors : VectorCalls(v) \/ ShrinkThrows(v)
      BY <2>2 DEF VectorNext
    <3>3. CASE VectorCalls(v)
      BY <3>1, <3>3, InsertKeeps, RemoveKeeps, StorageKeeps, AssignKeeps DEF VectorCalls, VectorsUntilTorn
    <3>4. CASE ShrinkThrows(v)
      BY <3>4 DEF ShrinkThrows, VectorsUntilTorn
    <3> QED BY <3>2, <3>3, <3>4
  <2> QED BY <2>1, <2>2
<1>2. VectorInit => VectorsUntilTorn
  BY VectorStarts DEF VectorsUntilTorn
<1>3. VectorsUntilTorn => StorageSound
  BY StorageMeaning DEF VectorsUntilTorn, StorageSound
<1> QED BY <1>1, <1>2, <1>3, PTL DEF VectorSpec

-----------------------------------------------------------------------------
(* Maps.                                                                   *)

\* Induction over the members of a set.
LEMMA SetInduction ==
  ASSUME NEW S, NEW n \in Nat, 0 \in S, \A k \in 1..n : k - 1 \in S => k \in S
  PROVE  n \in S
<1> SUFFICES ASSUME n \notin S PROVE FALSE
  OBVIOUS
<1>1. PICK T : T = (0..n) \ S
  BY Zenon
<1>2. T \subseteq Nat /\ T # {}
  BY <1>1
<1>3. PICK k \in T : \A j \in T : k <= j
  BY <1>2, LeastNatural
<1>4. k \in 0..n /\ k \notin S /\ k # 0
  BY <1>1
<1>5. k \in 1..n /\ k - 1 \in 0..n /\ ~(k <= k - 1)
  BY <1>4
<1>6. k - 1 \in S
  BY <1>1, <1>3, <1>5
<1> QED BY <1>4, <1>5, <1>6

-----------------------------------------------------------------------------
(* Sequences.                                                              *)

\* InsertAt puts e at place i.
OneMore(S, q, i, e, r) ==
  /\ r \in Seq(S) /\ Len(r) = Len(q) + 1
  /\ \A j \in 1..(Len(q) + 1) : r[j] = IF j < i THEN q[j] ELSE IF j = i THEN e ELSE q[j - 1]

\* What InsertAt of SequencesExt returns.
LEMMA Inserted ==
  ASSUME NEW S, NEW q \in Seq(S), NEW i \in 1..(Len(q) + 1), NEW e \in S, NEW r, r = InsertAt(q, i, e)
  PROVE  OneMore(S, q, i, e, r)
<1>1. PICK a, b, c, n : a = SubSeq(q, 1, i - 1) /\ b = <<e>> /\ c = SubSeq(q, i, Len(q)) /\ n = Len(q)
  BY Zenon
<1>2. n \in Nat /\ i \in Nat /\ i >= 1 /\ i <= n + 1 /\ \A j \in 1..n : q[j] \in S
  BY <1>1
<1>3. a \in Seq(S) /\ Len(a) = i - 1 /\ \A j \in 1..(i - 1) : a[j] = q[j]
  <2>1. \A j \in 1..(i - 1) : q[j] \in S
    BY <1>2
  <2>2. 1 \in Int /\ i - 1 \in Int
    BY <1>2
  <2>3. a \in Seq(S) /\ Len(a) = (IF 1 <= i - 1 THEN (i - 1) - 1 + 1 ELSE 0) /\ \A j \in 1..((i - 1) - 1 + 1) : a[j] = q[1 + j - 1]
    BY <1>1, <2>1, <2>2, SubSeqProperties
  <2> QED BY <1>2, <2>3
<1>4. c \in Seq(S) /\ Len(c) = n - i + 1 /\ \A j \in 1..(n - i + 1) : c[j] = q[i + j - 1]
  <2>1. \A j \in i..n : q[j] \in S
    BY <1>2
  <2>2. c \in Seq(S) /\ Len(c) = (IF i <= n THEN n - i + 1 ELSE 0) /\ \A j \in 1..(n - i + 1) : c[j] = q[i + j - 1]
    BY <1>1, <1>2, <2>1, SubSeqProperties
  <2> QED BY <1>2, <2>2
<1>5. b \in Seq(S) /\ Len(b) = 1 /\ b[1] = e
  BY <1>1
<1>6. PICK ab : ab = a \o b
  BY Zenon
<1>7. ab \in Seq(S) /\ Len(ab) = i /\ \A j \in 1..i : ab[j] = IF j < i THEN q[j] ELSE e
  <2>1. ab \in Seq(S) /\ Len(ab) = Len(a) + Len(b) /\ \A j \in 1..(Len(a) + Len(b)) : ab[j] = IF j <= Len(a) THEN a[j] ELSE b[j - Len(a)]
    BY <1>3, <1>5, <1>6, ConcatProperties
  <2>2. Len(a) + Len(b) = i
    BY <1>2, <1>3, <1>5
  <2>3. ASSUME NEW j \in 1..i PROVE ab[j] = IF j < i THEN q[j] ELSE e
    <3>1. CASE j < i
      <4>1. j <= Len(a) /\ j \in 1..(i - 1)
        BY <1>2, <1>3, <3>1
      <4> QED BY <1>3, <2>1, <2>2, <3>1, <4>1
    <3>2. CASE ~(j < i)
      <4>1. ~(j <= Len(a)) /\ j - Len(a) = 1
        BY <1>2, <1>3, <3>2
      <4> QED BY <1>5, <2>1, <2>2, <3>2, <4>1
    <3> QED BY <3>1, <3>2
  <2> QED BY <2>1, <2>2, <2>3
<1>8. r = ab \o c
  BY <1>1, <1>6, Zenon DEF InsertAt
<1>9. r \in Seq(S) /\ Len(r) = Len(ab) + Len(c) /\ \A j \in 1..(Len(ab) + Len(c)) : r[j] = IF j <= Len(ab) THEN ab[j] ELSE c[j - Len(ab)]
  <2>1. ab \in Seq(S) /\ c \in Seq(S)
    BY <1>4, <1>7
  <2> QED BY ONLY <1>8, <2>1, ConcatProperties
<1>10. Len(ab) + Len(c) = n + 1
  BY <1>2, <1>4, <1>7
<1>11. ASSUME NEW j \in 1..(n + 1) PROVE r[j] = IF j < i THEN q[j] ELSE IF j = i THEN e ELSE q[j - 1]
  <2>1. CASE j <= i
    <3>1. j \in 1..i /\ r[j] = ab[j] /\ (j < i \/ j = i)
      BY <1>2, <1>7, <1>9, <1>10, <2>1
    <3> QED BY <1>2, <1>7, <3>1
  <2>2. CASE ~(j <= i)
    <3>1. r[j] = c[j - i] /\ j - i \in 1..(n - i + 1) /\ i + (j - i) - 1 = j - 1 /\ ~(j < i) /\ j # i
      BY <1>2, <1>7, <1>9, <1>10, <2>2
    <3> QED BY <1>4, <3>1
  <2> QED BY <2>1, <2>2
<1> QED BY <1>1, <1>9, <1>10, <1>11 DEF OneMore

\* RemoveAt takes out what is at place i.
LEMMA TakenOut ==
  ASSUME NEW S, NEW q \in Seq(S), NEW i \in 1..Len(q), NEW r, r = RemoveAt(q, i)
  PROVE  /\ r \in Seq(S) /\ Len(r) = Len(q) - 1
         /\ \A j \in 1..(Len(q) - 1) : r[j] = IF j < i THEN q[j] ELSE q[j + 1]
<1>1. PICK a, c, n : a = SubSeq(q, 1, i - 1) /\ c = SubSeq(q, i + 1, Len(q)) /\ n = Len(q)
  BY Zenon
<1>2. n \in Nat /\ i \in Nat /\ i >= 1 /\ i <= n /\ \A j \in 1..n : q[j] \in S
  BY <1>1
<1>3. a \in Seq(S) /\ Len(a) = i - 1 /\ \A j \in 1..(i - 1) : a[j] = q[j]
  <2>1. \A j \in 1..(i - 1) : q[j] \in S
    BY <1>2
  <2>2. 1 \in Int /\ i - 1 \in Int
    BY <1>2
  <2>3. a \in Seq(S) /\ Len(a) = (IF 1 <= i - 1 THEN (i - 1) - 1 + 1 ELSE 0) /\ \A j \in 1..((i - 1) - 1 + 1) : a[j] = q[1 + j - 1]
    BY <1>1, <2>1, <2>2, SubSeqProperties
  <2> QED BY <1>2, <2>3
<1>4. c \in Seq(S) /\ Len(c) = n - i /\ \A j \in 1..(n - i) : c[j] = q[i + j]
  <2>1. \A j \in (i + 1)..n : q[j] \in S
    BY <1>2
  <2>2. i + 1 \in Int /\ n \in Int
    BY <1>2
  <2>3. c \in Seq(S) /\ Len(c) = (IF i + 1 <= n THEN n - (i + 1) + 1 ELSE 0) /\ \A j \in 1..(n - (i + 1) + 1) : c[j] = q[(i + 1) + j - 1]
    BY <1>1, <2>1, <2>2, SubSeqProperties
  <2> QED BY <1>2, <2>3
<1>5. r = a \o c
  BY <1>1, Zenon DEF RemoveAt
<1>6. r \in Seq(S) /\ Len(r) = Len(a) + Len(c) /\ \A j \in 1..(Len(a) + Len(c)) : r[j] = IF j <= Len(a) THEN a[j] ELSE c[j - Len(a)]
  BY <1>3, <1>4, <1>5, ConcatProperties
<1>7. Len(a) + Len(c) = n - 1
  BY <1>2, <1>3, <1>4
<1>8. ASSUME NEW j \in 1..(n - 1) PROVE r[j] = IF j < i THEN q[j] ELSE q[j + 1]
  <2>1. CASE j < i
    <3>1. j \in 1..(i - 1) /\ r[j] = a[j]
      BY <1>2, <1>3, <1>6, <1>7, <2>1
    <3> QED BY <1>3, <2>1, <3>1
  <2>2. CASE ~(j < i)
    <3>1. r[j] = c[j - (i - 1)] /\ j - (i - 1) \in 1..(n - i) /\ i + (j - (i - 1)) = j + 1
      BY <1>2, <1>3, <1>6, <1>7, <2>2, SMTT(30)
    <3> QED BY <1>4, <2>2, <3>1
  <2> QED BY <2>1, <2>2
<1> QED BY <1>1, <1>6, <1>7, <1>8

-----------------------------------------------------------------------------
(* Bisection.                                                              *)

\* The keys in a flat map.
LEMMA EntryTypes ==
  ASSUME NEW d \in Seq(Pairs), NEW i \in 1..Len(d)
  PROVE  d[i] \in Pairs /\ d[i] = <<d[i][1], d[i][2]>> /\ d[i][1] \in MapKeys /\ d[i][1] \in Int /\ d[i][2] \in MapValues
<1>1. d[i] \in MapKeys \X MapValues
  BY DEF Pairs
<1> QED BY <1>1, MapAssumption DEF Pairs

\* Neighbours in order are enough for all in order.
LEMMA AscendingFar ==
  ASSUME NEW d \in Seq(Pairs), Ascending(d), NEW i \in 1..Len(d), NEW j \in 1..Len(d), i < j
  PROVE  d[i][1] < d[j][1]
<1>1. PICK n : n = Len(d) /\ n \in Nat
  BY Zenon, LenProperties
<1>2. \A k \in 1..n : d[k][1] \in Int
  BY <1>1, EntryTypes
<1>3. \A k \in 1..(n - 1) : d[k][1] < d[k + 1][1]
  BY <1>1 DEF Ascending
<1>4. PICK S : S = {k \in 0..n : k > i => d[i][1] < d[k][1]}
  BY Zenon
<1>5. 0 \in S
  BY <1>1, <1>4
<1>6. ASSUME NEW k \in 1..n, k - 1 \in S PROVE k \in S
  <2> SUFFICES ASSUME k > i PROVE d[i][1] < d[k][1]
    BY <1>1, <1>4
  <2>1. k - 1 \in 1..(n - 1) /\ (k - 1) + 1 = k /\ i \in 1..n /\ k - 1 \in 1..n /\ (k - 1 > i \/ k - 1 = i)
    BY <1>1
  <2>2. d[k - 1][1] < d[k][1] /\ d[k - 1][1] \in Int /\ d[k][1] \in Int /\ d[i][1] \in Int
    BY <1>2, <1>3, <2>1
  <2>3. CASE k - 1 = i BY <2>2, <2>3
  <2>4. CASE k - 1 > i
    <3>1. d[i][1] < d[k - 1][1] BY <1>4, <1>6, <2>4
    <3> QED BY <2>2, <3>1
  <2> QED BY <2>1, <2>3, <2>4
<1>7. j \in S
  <2>1. j \in Nat /\ \A k \in 1..j : k \in 1..n
    BY <1>1
  <2> QED BY <1>5, <1>6, <2>1, SetInduction
<1> QED BY <1>4, <1>7

\* What lies before a is smaller than the key; what lies from a + b on is not.
Between(d, key, a, b) ==
  /\ a \in Nat \ {0} /\ b \in Nat /\ a + b <= Len(d) + 1
  /\ \A j \in 1..Len(d) : (j < a => d[j][1] < key) /\ (a + b <= j => ~(d[j][1] < key))

\* Keys in order, some of them equal.
Climbs(d) ==
  /\ Len(d) \in Nat /\ \A j \in 1..Len(d) : d[j][1] \in Int
  /\ \A i, j \in 1..Len(d) : i < j => d[i][1] <= d[j][1]

\* One round keeps that and comes closer.
LEMMA HalveKeeps ==
  ASSUME NEW d, Climbs(d), NEW key, key \in Int, NEW a, NEW b, Between(d, key, a, b), b # 0
  PROVE  \E a2, b2 : /\ Halve(d, key, [first |-> a, len |-> b]) = [first |-> a2, len |-> b2]
                     /\ Between(d, key, a2, b2) /\ b2 < b
<1>1. PICK n, half : n = Len(d) /\ half = b \div 2
  BY Zenon
<1>2. /\ n \in Nat /\ a \in Nat /\ a >= 1 /\ b \in Nat /\ b > 0 /\ a + b <= n + 1
      /\ \A j \in 1..n : (j < a => d[j][1] < key) /\ (a + b <= j => ~(d[j][1] < key))
  BY <1>1 DEF Between, Climbs
<1>3. half \in Nat /\ half < b
  BY <1>1, <1>2
<1>4. PICK m : m = a + half
  BY Zenon
<1>5. m \in 1..n /\ m \in Nat
  BY <1>2, <1>3, <1>4
<1>6. key \in Int /\ \A j \in 1..n : d[j][1] \in Int
  BY <1>1 DEF Climbs
<1>7. \A j \in 1..n : (j < m => d[j][1] <= d[m][1]) /\ (m < j => d[m][1] <= d[j][1])
  BY <1>1, <1>5 DEF Climbs
<1>8. PICK p : p = [first |-> a, len |-> b]
  BY Zenon
<1>9. p.first = a /\ p.len = b
  BY <1>8
<1>10. Halve(d, key, p) = IF d[m][1] < key THEN [first |-> m + 1, len |-> b - half - 1] ELSE [first |-> a, len |-> half]
  BY <1>1, <1>4, <1>9, Zenon DEF Halve
<1>11. CASE d[m][1] < key
  <2>1. m + 1 \in Nat \ {0} /\ b - half - 1 \in Nat /\ (m + 1) + (b - half - 1) = a + b /\ b - half - 1 < b
    BY <1>2, <1>3, <1>4, <1>5
  <2>2. ASSUME NEW j \in 1..n, j < m + 1 PROVE d[j][1] < key
    <3>1. j < m \/ j = m BY <1>5, <2>2
    <3>2. CASE j < m
      <4>1. d[j][1] <= d[m][1] /\ d[j][1] \in Int /\ d[m][1] \in Int
        BY <1>5, <1>6, <1>7, <3>2
      <4> QED BY <1>6, <1>11, <4>1
    <3> QED BY <1>11, <3>1, <3>2
  <2>3. Between(d, key, m + 1, b - half - 1)
    BY <1>1, <1>2, <2>1, <2>2 DEF Between
  <2> QED BY <1>8, <1>10, <1>11, <2>1, <2>3
<1>12. CASE ~(d[m][1] < key)
  <2>1. ASSUME NEW j \in 1..n, a + half <= j PROVE ~(d[j][1] < key)
    <3>1. m < j \/ j = m BY <1>4, <1>5, <2>1
    <3>2. CASE m < j
      <4>1. d[m][1] <= d[j][1] /\ d[j][1] \in Int /\ d[m][1] \in Int
        BY <1>5, <1>6, <1>7, <3>2
      <4> QED BY <1>6, <1>12, <4>1
    <3> QED BY <1>12, <3>1, <3>2
  <2>2. a + half <= n + 1 BY <1>2, <1>3
  <2>3. Between(d, key, a, half)
    BY <1>1, <1>2, <1>3, <2>1, <2>2 DEF Between
  <2> QED BY <1>3, <1>8, <1>10, <1>12, <2>3
<1> QED BY <1>11, <1>12

\* SoulFlatMap::lower_bound, for every length: the first place whose key is not
\* smaller.
LEMMA LowerBound ==
  ASSUME NEW d, Climbs(d), NEW key, key \in Int
  PROVE  Between(d, key, lower_bound(d, key), 0)
<1>1. PICK n, y, start : n = Len(d) /\ n \in Nat /\ y = <<d, key>> /\ start = [first |-> 1, len |-> n]
  <2>1. Len(d) \in Nat BY DEF Climbs
  <2> QED BY <2>1, Zenon
<1>2. y[1] = d /\ y[2] = key
  BY <1>1
<1>3. PICK f : Loop("halve", y, start, d, n, f) /\ lower_bound(d, key) = f[n].first
  <2>1. \E f : Loop("halve", y, start, d, n, f)
    BY ONLY <1>1, LoopRuns
  <2>2. \A f : Loop("halve", y, start, d, n, f) <=>
          f = [k \in 0..Len(d) |-> IF k = 0 THEN [first |-> 1, len |-> Len(d)] ELSE Halve(d, key, f[k - 1])]
    <3>1. "halve" # "append" OBVIOUS
    <3> QED BY <1>1, <1>2, <3>1, Zenon DEF Loop, After
  <2> QED BY <1>1, <2>1, <2>2, Zenon DEF lower_bound
<1>4. f[0] = start /\ \A k \in 1..n : f[k] = Halve(d, key, f[k - 1])
  <2>1. f[0] = start /\ \A k \in 1..n : f[k] = After("halve", y, f[k - 1], d[k])
    BY <1>1, <1>3, LoopTurns
  <2>2. "halve" # "append" OBVIOUS
  <2> QED BY <1>2, <2>1, <2>2, Zenon DEF After
<1>5. PICK S : S = {k \in 0..n : \E a, b : f[k] = [first |-> a, len |-> b] /\ Between(d, key, a, b) /\ b <= n - k}
  BY Zenon
<1>6. 0 \in S
  <2>1. Between(d, key, 1, n)
    BY <1>1 DEF Between
  <2>2. 0 \in 0..n /\ n <= n - 0
    BY <1>1
  <2> QED BY <1>1, <1>4, <1>5, <2>1, <2>2
<1>7. ASSUME NEW k \in 1..n, k - 1 \in S PROVE k \in S
  <2>1. PICK a, b : f[k - 1] = [first |-> a, len |-> b] /\ Between(d, key, a, b) /\ b <= n - (k - 1)
    BY <1>5, <1>7
  <2>2. f[k] = Halve(d, key, [first |-> a, len |-> b]) /\ b \in Nat /\ k \in 0..n
    BY <1>1, <1>4, <2>1 DEF Between
  <2>3. CASE b = 0
    <3>1. Halve(d, key, [first |-> a, len |-> b]) = [first |-> a, len |-> b]
      BY <2>3 DEF Halve
    <3>2. b <= n - k
      BY <1>1, <2>3
    <3> QED BY <1>5, <2>1, <2>2, <3>1, <3>2
  <2>4. CASE b # 0
    <3>1. PICK a2, b2 : f[k] = [first |-> a2, len |-> b2] /\ Between(d, key, a2, b2) /\ b2 < b
      BY <2>1, <2>2, <2>4, HalveKeeps
    <3>2. b2 <= n - k
      <4>1. b2 \in Nat BY <3>1 DEF Between
      <4> QED BY <1>1, <2>1, <2>2, <3>1, <4>1
    <3> QED BY <1>5, <2>2, <3>1, <3>2
  <2> QED BY <2>3, <2>4
<1>8. n \in S
  BY <1>1, <1>6, <1>7, SetInduction
<1>9. PICK a, b : f[n] = [first |-> a, len |-> b] /\ Between(d, key, a, b) /\ b <= n - n
  BY <1>5, <1>8
<1>10. b = 0 /\ f[n].first = a
  <2>1. b \in Nat BY <1>9 DEF Between
  <2> QED BY <1>1, <1>9, <2>1
<1> QED BY <1>3, <1>9, <1>10

\* SoulFlatMap::find_iterator.
SearchEnds(d, key, i) ==
  /\ i \in 1..(Len(d) + 1)
  /\ Found(d, key) => i \in 1..Len(d) /\ d[i][1] = key
  /\ ~Found(d, key) => \A j \in 1..Len(d) : (j < i => d[j][1] < key) /\ (i <= j => key < d[j][1])

\* The bisection of a vector in order finds the entry of a key, or its place.
LEMMA Search ==
  ASSUME NEW d \in Seq(Pairs), Ascending(d), NEW key \in MapKeys, NEW i, i = lower_bound(d, key)
  PROVE  SearchEnds(d, key, i)
<1>1. PICK n : n = Len(d) /\ n \in Nat
  BY Zenon, LenProperties
<1>2. /\ i \in Nat \ {0} /\ i + 0 <= n + 1
      /\ \A j \in 1..n : (j < i => d[j][1] < key) /\ (i + 0 <= j => ~(d[j][1] < key))
  <2>1. \A j \in 1..n : d[j][1] \in Int BY <1>1, EntryTypes
  <2>2. \A j, k \in 1..n : j < k => d[j][1] <= d[k][1]
    <3> SUFFICES ASSUME NEW j \in 1..n, NEW k \in 1..n, j < k PROVE d[j][1] <= d[k][1]
      OBVIOUS
    <3>1. d[j][1] < d[k][1] BY <1>1, AscendingFar
    <3> QED BY <2>1, <3>1
  <2>3. Climbs(d) BY <1>1, <2>1, <2>2 DEF Climbs
  <2>4. key \in Int BY MapAssumption
  <2>5. Between(d, key, i, 0) BY <2>3, <2>4, LowerBound, Zenon
  <2> QED BY <1>1, <2>5 DEF Between
<1>3. key \in Int /\ \A j \in 1..n : d[j][1] \in Int
  BY <1>1, EntryTypes, MapAssumption
<1>4. Found(d, key) <=> i <= n /\ ~(d[i][1] < key) /\ ~(key < d[i][1])
  BY <1>1, Zenon DEF Found, keys_equal
<1>5. ASSUME Found(d, key) PROVE i \in 1..n /\ d[i][1] = key
  <2>1. i \in 1..n BY <1>1, <1>2, <1>4, <1>5
  <2> QED BY <1>3, <1>4, <1>5, <2>1
<1>6. ASSUME ~Found(d, key), NEW j \in 1..n PROVE (j < i => d[j][1] < key) /\ (i <= j => key < d[j][1])
  <2>1. CASE j < i BY <1>1, <1>2, <2>1
  <2>2. CASE i <= j
    <3>1. i \in 1..n /\ ~(j < i) BY <1>1, <1>2, <2>2
    <3>2. key < d[i][1]
      <4>1. ~(d[i][1] < key) BY <1>2, <3>1
      <4> QED BY <1>1, <1>4, <1>6, <3>1, <4>1
    <3>3. CASE i = j BY <3>1, <3>2, <3>3
    <3>4. CASE i # j
      <4>1. i < j BY <1>1, <2>2, <3>1, <3>4
      <4>2. d[i][1] < d[j][1] BY <1>1, <3>1, <4>1, AscendingFar
      <4> QED BY <1>3, <3>1, <3>2, <4>2
    <3> QED BY <3>3, <3>4
  <2> QED BY <1>2, <2>1, <2>2
<1> QED BY <1>1, <1>2, <1>5, <1>6 DEF SearchEnds

\* A new entry where the search ended keeps the order.
LEMMA InsertedInOrder ==
  ASSUME NEW d \in Seq(Pairs), Ascending(d), NEW i \in 1..(Len(d) + 1), NEW e \in Pairs, NEW r, r = InsertAt(d, i, e),
         \A j \in 1..Len(d) : (j < i => d[j][1] < e[1]) /\ (i <= j => e[1] < d[j][1])
  PROVE  Ascending(r)
<1>1. PICK n : n = Len(d) /\ n \in Nat
  BY Zenon, LenProperties
<1>2. Len(r) = n + 1 /\ \A j \in 1..(n + 1) : r[j] = IF j < i THEN d[j] ELSE IF j = i THEN e ELSE d[j - 1]
  <2>1. OneMore(Pairs, d, i, e, r)
    BY Inserted, Zenon
  <2> QED BY <1>1, <2>1 DEF OneMore
<1>3. i \in Nat /\ i \in 1..(n + 1)
  BY <1>1
<1>4. \A j \in 1..(n - 1) : d[j][1] < d[j + 1][1]
  BY <1>1 DEF Ascending
<1>5. ASSUME NEW j \in 1..n PROVE r[j][1] < r[j + 1][1]
  <2>1. j \in 1..(n + 1) /\ j + 1 \in 1..(n + 1) BY <1>1
  <2>2. CASE j + 1 < i
    <3>1. j < i /\ j \in 1..(n - 1) BY <1>1, <1>3, <2>2
    <3> QED BY <1>2, <1>4, <2>1, <2>2, <3>1
  <2>3. CASE j + 1 = i
    <3>1. j < i /\ j \in 1..n BY <1>1, <1>3, <2>3
    <3> QED BY <1>1, <1>2, <2>1, <2>3, <3>1
  <2>4. CASE j = i
    <3>1. ~(j + 1 < i) /\ j + 1 # i /\ (j + 1) - 1 = j /\ i <= j /\ ~(j < i) BY <1>1, <1>3, <2>4
    <3>2. r[j] = e /\ r[j + 1] = d[j] BY <1>2, <2>1, <2>4, <3>1
    <3> QED BY <1>1, <3>1, <3>2
  <2>5. CASE j > i
    <3>1. /\ ~(j < i) /\ j # i /\ ~(j + 1 < i) /\ j + 1 # i /\ (j + 1) - 1 = j
          /\ j - 1 \in 1..(n - 1) /\ (j - 1) + 1 = j
      BY <1>1, <1>3, <2>5
    <3>2. r[j] = d[j - 1] /\ r[j + 1] = d[j] BY <1>2, <2>1, <3>1
    <3> QED BY <1>4, <3>1, <3>2
  <2> QED BY <1>3, <2>2, <2>3, <2>4, <2>5
<1> QED BY <1>1, <1>2, <1>5 DEF Ascending

-----------------------------------------------------------------------------
(* A flat map and the function it stands for.                              *)

MapType(f) == f = [k \in DOMAIN f |-> f[k]] /\ DOMAIN f \subseteq MapKeys /\ IsFiniteSet(DOMAIN f) /\ \A k \in DOMAIN f : f[k] \in MapValues
Holds(d, f) ==
  /\ d \in Seq(Pairs) /\ MapType(f) /\ Len(d) = Cardinality(DOMAIN f)
  /\ \A i \in 1..Len(d) : d[i][1] \in DOMAIN f /\ d[i][2] = f[d[i][1]]
  /\ \A k \in DOMAIN f : \E i \in 1..Len(d) : d[i][1] = k

\* Put on a function.
OnePut(f, kv, g) ==
  /\ MapType(g) /\ DOMAIN g = DOMAIN f \cup {kv[1]} /\ g[kv[1]] = kv[2]
  /\ \A k \in DOMAIN f : k # kv[1] => g[k] = f[k]
  /\ Cardinality(DOMAIN g) = IF kv[1] \in DOMAIN f THEN Cardinality(DOMAIN f) ELSE Cardinality(DOMAIN f) + 1

\* Put gives a map with one entry more, or another value for the key.
LEMMA PutType ==
  ASSUME NEW f, MapType(f), NEW kv \in Pairs, NEW g, g = Put(f, kv)
  PROVE  OnePut(f, kv, g)
<1>1. kv[1] \in MapKeys /\ kv[2] \in MapValues
  BY DEF Pairs
<1>2. DOMAIN f \subseteq MapKeys /\ IsFiniteSet(DOMAIN f) /\ \A k \in DOMAIN f : f[k] \in MapValues
  BY DEF MapType
<1>3. /\ g = [k \in DOMAIN g |-> g[k]] /\ DOMAIN g = DOMAIN f \cup {kv[1]}
      /\ \A k \in DOMAIN f \cup {kv[1]} : g[k] = IF k = kv[1] THEN kv[2] ELSE f[k]
  BY DEF Put
<1>4. /\ IsFiniteSet(DOMAIN f \cup {kv[1]})
      /\ Cardinality(DOMAIN f \cup {kv[1]}) = IF kv[1] \in DOMAIN f THEN Cardinality(DOMAIN f) ELSE Cardinality(DOMAIN f) + 1
  BY <1>2, FS_AddElement
<1>5. DOMAIN g \subseteq MapKeys /\ \A k \in DOMAIN g : g[k] \in MapValues
  BY <1>1, <1>2, <1>3
<1>6. MapType(g)
  BY <1>3, <1>4, <1>5 DEF MapType
<1> QED BY <1>3, <1>4, <1>6 DEF OnePut

\* SoulFlatMap::insert.
LEMMA InsertHolds ==
  ASSUME NEW d, NEW f, Holds(d, f), Ascending(d), NEW kv \in Pairs, NEW r, r = FlatInsert(d, kv), NEW g, g = Put(f, kv)
  PROVE  Holds(r, g) /\ Ascending(r)
<1>1. PICK n, key, i : n = Len(d) /\ key = kv[1] /\ i = lower_bound(d, key)
  BY Zenon
<1>2. /\ d \in Seq(Pairs) /\ n \in Nat /\ MapType(f) /\ n = Cardinality(DOMAIN f)
      /\ \A j \in 1..n : d[j][1] \in DOMAIN f /\ d[j][2] = f[d[j][1]]
      /\ \A k \in DOMAIN f : \E j \in 1..n : d[j][1] = k
  BY <1>1 DEF Holds
<1>3. key \in MapKeys /\ key \in Int /\ kv[2] \in MapValues /\ kv = <<key, kv[2]>>
  BY <1>1, MapAssumption DEF Pairs
<1>4. /\ MapType(g) /\ DOMAIN g = DOMAIN f \cup {key} /\ g[key] = kv[2]
      /\ \A k \in DOMAIN f : k # key => g[k] = f[k]
      /\ Cardinality(DOMAIN g) = IF key \in DOMAIN f THEN n ELSE n + 1
  <2>1. MapType(f) BY <1>2
  <2>2. OnePut(f, kv, g) BY <2>1, PutType, Zenon
  <2> QED BY <1>1, <1>2, <2>2 DEF OnePut
<1>5. /\ i \in 1..(n + 1)
      /\ Found(d, key) => i \in 1..n /\ d[i][1] = key
      /\ ~Found(d, key) => \A j \in 1..n : (j < i => d[j][1] < key) /\ (i <= j => key < d[j][1])
  <2>1. d \in Seq(Pairs) /\ key \in MapKeys BY <1>2, <1>3
  <2>2. SearchEnds(d, key, i)
    BY <1>1, <2>1, Search, Zenon
  <2> QED BY <1>1, <2>2, Zenon DEF SearchEnds
<1>6. CASE Found(d, key)
  <2>1. r = [d EXCEPT ![i] = <<d[i][1], kv[2]>>]
    BY <1>1, <1>6, Zenon DEF FlatInsert, ReplaceAt
  <2>2. i \in 1..n /\ d[i][1] = key /\ key \in DOMAIN f
    BY <1>2, <1>5, <1>6
  <2>3. r = [d EXCEPT ![i] = kv]
    BY <1>3, <2>1, <2>2
  <2>4. r \in Seq(Pairs) /\ Len(r) = n /\ \A j \in 1..n : r[j] = IF j = i THEN kv ELSE d[j]
    <3>1. d \in Seq(Pairs) /\ i \in 1..Len(d) BY <1>1, <1>2, <2>2
    <3>2. r \in Seq(Pairs) /\ Len(r) = Len(d) /\ \A j \in 1..Len(d) : r[j] = IF j = i THEN kv ELSE d[j]
      BY ONLY <2>3, <3>1, kv \in Pairs, ExceptSeq
    <3> QED BY <1>1, <3>2
  <2>5. \A j \in 1..n : r[j][1] = d[j][1] /\ (j # i => d[j][1] # key)
    <3>1. ASSUME NEW j \in 1..n, j # i PROVE d[j][1] # key
      <4>1. j < i \/ i < j BY <1>2, <2>2, <3>1
      <4>2. d[j][1] < d[i][1] \/ d[i][1] < d[j][1]
        BY <1>1, <1>2, <2>2, <4>1, AscendingFar
      <4> QED BY <1>3, <2>2, <4>2
    <3> QED BY <1>1, <2>2, <2>4, <3>1
  <2>6. Ascending(r)
    <3>1. \A j \in 1..(n - 1) : j \in 1..n /\ j + 1 \in 1..n BY <1>2
    <3> QED BY <1>1, <2>4, <2>5, <3>1 DEF Ascending
  <2>7. ASSUME NEW j \in 1..n PROVE r[j][1] \in DOMAIN g /\ r[j][2] = g[r[j][1]]
    <3>1. CASE j = i BY <1>1, <1>4, <2>4, <3>1
    <3>2. CASE j # i
      <4>1. r[j] = d[j] /\ d[j][1] # key /\ d[j][1] \in DOMAIN f /\ d[j][2] = f[d[j][1]]
        BY <1>2, <2>4, <2>5, <3>2
      <4> QED BY <1>4, <4>1
    <3> QED BY <3>1, <3>2
  <2>8. \A k \in DOMAIN g : \E j \in 1..n : r[j][1] = k
    <3>1. DOMAIN g = DOMAIN f BY <1>4, <2>2
    <3>2. ASSUME NEW k \in DOMAIN f PROVE \E j \in 1..n : r[j][1] = k
      <4>1. PICK j \in 1..n : d[j][1] = k BY <1>2
      <4> QED BY <2>5, <4>1
    <3> QED BY <3>1, <3>2
  <2> QED BY <1>4, <2>2, <2>4, <2>6, <2>7, <2>8 DEF Holds
<1>7. CASE ~Found(d, key)
  <2>1. r = InsertAt(d, i, kv)
    BY <1>1, <1>7, Zenon DEF FlatInsert
  <2>2. \A j \in 1..n : (j < i => d[j][1] < kv[1]) /\ (i <= j => kv[1] < d[j][1])
    BY <1>1, <1>5, <1>7
  <2>3. Ascending(r)
    BY <1>1, <1>2, <1>5, <2>1, <2>2, InsertedInOrder
  <2>4. r \in Seq(Pairs) /\ Len(r) = n + 1 /\ \A j \in 1..(n + 1) : r[j] = IF j < i THEN d[j] ELSE IF j = i THEN kv ELSE d[j - 1]
    <3>1. d \in Seq(Pairs) /\ i \in 1..(Len(d) + 1) BY <1>1, <1>2, <1>5
    <3>2. OneMore(Pairs, d, i, kv, r)
      BY <2>1, <3>1, Inserted, Zenon
    <3> QED BY <1>1, <3>2 DEF OneMore
  <2>5. \A j \in 1..n : d[j][1] # key
    <3>1. ASSUME NEW j \in 1..n PROVE d[j][1] # key
      <4>1. j < i \/ i <= j BY <1>2, <1>5
      <4>2. d[j][1] \in Int BY <1>1, <1>2, EntryTypes
      <4> QED BY <1>1, <1>3, <2>2, <4>1, <4>2
    <3> QED BY <3>1
  <2>6. key \notin DOMAIN f
    BY <1>2, <2>5
  <2>7. ASSUME NEW j \in 1..(n + 1) PROVE r[j][1] \in DOMAIN g /\ r[j][2] = g[r[j][1]]
    <3>1. CASE j = i BY <1>1, <1>4, <2>4, <3>1
    <3>2. CASE j # i
      <4>1. PICK m \in 1..n : r[j] = d[m]
        <5>1. j < i => j \in 1..n BY <1>2, <1>5
        <5>2. ~(j < i) => j - 1 \in 1..n BY <1>2, <1>5, <3>2
        <5> QED BY <2>4, <3>2, <5>1, <5>2
      <4> QED BY <1>2, <1>4, <2>5, <4>1, SMTT(30)
    <3> QED BY <3>1, <3>2
  <2>8. ASSUME NEW k \in DOMAIN g PROVE \E j \in 1..(n + 1) : r[j][1] = k
    <3>1. CASE k = key BY <1>1, <1>5, <2>4, <3>1
    <3>2. CASE k # key
      <4>1. PICK m \in 1..n : d[m][1] = k BY <1>2, <1>4, <3>2
      <4>2. CASE m < i
        <5>1. m \in 1..(n + 1) BY <1>2
        <5> QED BY <2>4, <4>1, <4>2, <5>1
      <4>3. CASE ~(m < i)
        <5>1. m + 1 \in 1..(n + 1) /\ ~(m + 1 < i) /\ m + 1 # i /\ (m + 1) - 1 = m BY <1>2, <1>5, <4>3
        <5> QED BY <2>4, <4>1, <5>1
      <4> QED BY <4>2, <4>3
    <3> QED BY <3>1, <3>2
  <2> QED BY <1>4, <2>3, <2>4, <2>6, <2>7, <2>8 DEF Holds
<1> QED BY <1>6, <1>7

\* PutAll is a loop.
LEMMA PutAllIs ==
  ASSUME NEW f, NEW range, NEW n, n = Len(range), n \in Nat, NEW y
  PROVE  \E b : Loop("put", y, f, range, n, b) /\ PutAll(f, range) = b[n]
<1>1. \E b : Loop("put", y, f, range, n, b)
  BY LoopRuns
<1>2. \A b : Loop("put", y, f, range, n, b) <=>
        b = [k \in 0..Len(range) |-> IF k = 0 THEN f ELSE Put(b[k - 1], range[k])]
  <2>1. "put" # "append" /\ "put" # "halve" /\ "put" # "insert"
    OBVIOUS
  <2> QED BY <2>1, Zenon DEF Loop, After
<1> QED BY <1>1, <1>2, Zenon DEF PutAll

\* Its rounds.
PutTurns(f, range, n, b) == b[0] = f /\ \A k \in 1..n : b[k] = Put(b[k - 1], range[k])

\* Each round of PutAll is one Put.
LEMMA PutAllTurns ==
  ASSUME NEW f, NEW range, NEW n, n \in Nat, NEW y, NEW b, Loop("put", y, f, range, n, b)
  PROVE  PutTurns(f, range, n, b)
<1>1. b[0] = f /\ \A k \in 1..n : b[k] = After("put", y, b[k - 1], range[k])
  BY LoopTurns
<1>2. "put" # "append" /\ "put" # "halve" /\ "put" # "insert"
  OBVIOUS
<1> QED BY <1>1, <1>2, Zenon DEF After, PutTurns

\* The same for a range.
LEMMA InsertAllHolds ==
  ASSUME NEW d, NEW f, Holds(d, f), Ascending(d), NEW range, range \in Seq(Pairs)
  PROVE  Holds(FlatInsertAll(d, range), PutAll(f, range)) /\ Ascending(FlatInsertAll(d, range))
<1>1. PICK n, y : n = Len(range) /\ n \in Nat /\ y = 0
  <2>1. Len(range) \in Nat BY LenProperties
  <2> QED BY <2>1, Zenon
<1>2. PICK a : Loop("insert", y, d, range, n, a) /\ FlatInsertAll(d, range) = a[n]
  <2>1. \E a : Loop("insert", y, d, range, n, a)
    BY ONLY <1>1, LoopRuns
  <2>2. \A a : Loop("insert", y, d, range, n, a) <=>
          a = [k \in 0..Len(range) |-> IF k = 0 THEN d ELSE FlatInsert(a[k - 1], range[k])]
    <3>1. "insert" # "append" /\ "insert" # "halve" OBVIOUS
    <3> QED BY <1>1, <3>1, Zenon DEF Loop, After
  <2> QED BY <1>1, <2>1, <2>2, Zenon DEF FlatInsertAll
<1>3. PICK b : Loop("put", y, f, range, n, b) /\ PutAll(f, range) = b[n]
  BY <1>1, PutAllIs
<1>4. a[0] = d /\ \A k \in 1..n : a[k] = FlatInsert(a[k - 1], range[k])
  <2>1. a[0] = d /\ \A k \in 1..n : a[k] = After("insert", y, a[k - 1], range[k])
    <3>1. n \in Nat /\ Loop("insert", y, d, range, n, a) BY <1>1, <1>2
    <3> QED BY ONLY <3>1, LoopTurns
  <2>2. "insert" # "append" /\ "insert" # "halve" OBVIOUS
  <2> QED BY <2>1, <2>2, Zenon DEF After
<1>5. b[0] = f /\ \A k \in 1..n : b[k] = Put(b[k - 1], range[k])
  <2>1. n \in Nat /\ Loop("put", y, f, range, n, b) BY <1>1, <1>3
  <2>2. PutTurns(f, range, n, b) BY <2>1, PutAllTurns, Zenon
  <2> QED BY <2>2 DEF PutTurns
<1>6. PICK S : S = {k \in 0..n : Holds(a[k], b[k]) /\ Ascending(a[k])}
  BY Zenon
<1>7. 0 \in S
  BY <1>1, <1>4, <1>5, <1>6
<1>8. ASSUME NEW k \in 1..n, k - 1 \in S PROVE k \in S
  <2>1. PICK d1, f1, kv : d1 = a[k - 1] /\ f1 = b[k - 1] /\ kv = range[k]
    BY Zenon
  <2>2. kv \in Pairs /\ k \in 0..n
    BY <1>1, <2>1
  <2>3. Holds(d1, f1) /\ Ascending(d1)
    BY <1>6, <1>8, <2>1
  <2>4. a[k] = FlatInsert(d1, kv) /\ b[k] = Put(f1, kv)
    BY <1>4, <1>5, <2>1
  <2>5. Holds(a[k], b[k]) /\ Ascending(a[k])
    BY ONLY <2>2, <2>3, <2>4, InsertHolds
  <2> QED BY <1>6, <2>2, <2>5
<1>9. n \in S
  BY ONLY <1>1, <1>7, <1>8, SetInduction
<1> QED BY <1>2, <1>3, <1>6, <1>9

\* data.erase(key) of the maps.
OneLess(f, key, g) ==
  /\ MapType(g) /\ DOMAIN g = DOMAIN f \ {key} /\ \A k \in DOMAIN g : g[k] = f[k]
  /\ Cardinality(DOMAIN g) = IF key \in DOMAIN f THEN Cardinality(DOMAIN f) - 1 ELSE Cardinality(DOMAIN f)

\* Drop gives a map without the entry of the key.
LEMMA DropType ==
  ASSUME NEW f, MapType(f), NEW key, NEW g, g = Drop(f, key)
  PROVE  OneLess(f, key, g)
<1>1. g = [k \in DOMAIN g |-> g[k]] /\ DOMAIN g = DOMAIN f \ {key} /\ \A k \in DOMAIN f \ {key} : g[k] = f[k]
  BY DEF Drop
<1>2. DOMAIN f \subseteq MapKeys /\ IsFiniteSet(DOMAIN f) /\ \A k \in DOMAIN f : f[k] \in MapValues
  BY DEF MapType
<1>3. /\ IsFiniteSet(DOMAIN f \ {key})
      /\ Cardinality(DOMAIN f \ {key}) = IF key \in DOMAIN f THEN Cardinality(DOMAIN f) - 1 ELSE Cardinality(DOMAIN f)
  BY <1>2, FS_RemoveElement
<1>4. MapType(g)
  BY <1>1, <1>2, <1>3 DEF MapType
<1> QED BY <1>1, <1>3, <1>4 DEF OneLess

\* SoulFlatMap::remove.
LEMMA RemoveHolds ==
  ASSUME NEW d, NEW f, Holds(d, f), Ascending(d), NEW key, key \in MapKeys, NEW r, r = FlatRemove(d, key), NEW g, g = Drop(f, key)
  PROVE  Holds(r, g) /\ Ascending(r)
<1>1. PICK n, i : n = Len(d) /\ i = lower_bound(d, key)
  BY Zenon
<1>2. /\ d \in Seq(Pairs) /\ n \in Nat /\ MapType(f) /\ n = Cardinality(DOMAIN f)
      /\ \A j \in 1..n : d[j][1] \in DOMAIN f /\ d[j][2] = f[d[j][1]]
      /\ \A k \in DOMAIN f : \E j \in 1..n : d[j][1] = k
  BY <1>1 DEF Holds
<1>3. key \in Int /\ \A j \in 1..n : d[j][1] \in Int
  BY <1>1, <1>2, EntryTypes, MapAssumption
<1>4. /\ MapType(g) /\ DOMAIN g = DOMAIN f \ {key} /\ \A k \in DOMAIN g : g[k] = f[k]
      /\ Cardinality(DOMAIN g) = IF key \in DOMAIN f THEN n - 1 ELSE n
  <2>1. MapType(f) BY <1>2
  <2>2. OneLess(f, key, g)
    BY <2>1, DropType, Zenon
  <2> QED BY <1>2, <2>2 DEF OneLess
<1>5. /\ i \in 1..(n + 1)
      /\ Found(d, key) => i \in 1..n /\ d[i][1] = key
      /\ ~Found(d, key) => \A j \in 1..n : (j < i => d[j][1] < key) /\ (i <= j => key < d[j][1])
  <2>1. d \in Seq(Pairs) /\ key \in MapKeys BY <1>2
  <2>2. SearchEnds(d, key, i)
    BY <1>1, <2>1, Search, Zenon
  <2> QED BY <1>1, <2>2, Zenon DEF SearchEnds
<1>6. CASE ~Found(d, key)
  <2>1. r = d
    BY <1>6 DEF FlatRemove
  <2>2. \A j \in 1..n : d[j][1] # key
    <3>1. ASSUME NEW j \in 1..n PROVE d[j][1] # key
      <4>1. j < i \/ i <= j BY <1>2, <1>5
      <4>2. d[j][1] < key \/ key < d[j][1] BY <1>5, <1>6, <4>1
      <4>3. d[j][1] \in Int /\ key \in Int BY <1>3
      <4> QED BY ONLY <4>2, <4>3
    <3> QED BY <3>1
  <2>3. key \notin DOMAIN f
    BY <1>2, <2>2
  <2>4. DOMAIN g = DOMAIN f /\ Cardinality(DOMAIN g) = n
    BY <1>4, <2>3
  <2>5. \A j \in 1..n : d[j][1] \in DOMAIN g /\ d[j][2] = g[d[j][1]]
    BY <1>2, <1>4, <2>4
  <2>6. \A k \in DOMAIN g : \E j \in 1..n : d[j][1] = k
    BY <1>2, <2>4
  <2>7. d \in Seq(Pairs) /\ MapType(g) /\ n = Cardinality(DOMAIN g)
    BY <1>2, <1>4, <2>4
  <2>8. Holds(d, g)
    BY <1>1, <2>5, <2>6, <2>7, Zenon DEF Holds
  <2> QED BY <2>1, <2>8
<1>7. CASE Found(d, key)
  <2>1. r = RemoveAt(d, i) /\ i \in 1..n /\ d[i][1] = key /\ key \in DOMAIN f
    BY <1>1, <1>2, <1>5, <1>7 DEF FlatRemove
  <2>2. r \in Seq(Pairs) /\ Len(r) = n - 1 /\ \A j \in 1..(n - 1) : r[j] = IF j < i THEN d[j] ELSE d[j + 1]
    <3>1. d \in Seq(Pairs) /\ i \in 1..Len(d) /\ r = RemoveAt(d, i) BY <1>1, <1>2, <2>1
    <3>2. r \in Seq(Pairs) /\ Len(r) = Len(d) - 1 /\ \A j \in 1..(Len(d) - 1) : r[j] = IF j < i THEN d[j] ELSE d[j + 1]
      BY ONLY <3>1, TakenOut
    <3> QED BY <1>1, <3>2
  <2>3. \A j \in 1..n : j # i => d[j][1] # key
    <3>1. ASSUME NEW j \in 1..n, j # i PROVE d[j][1] # key
      <4>1. j < i \/ i < j BY <1>2, <2>1, <3>1
      <4>2. d[j][1] < d[i][1] \/ d[i][1] < d[j][1]
        BY <1>1, <1>2, <2>1, <4>1, AscendingFar
      <4> QED BY <1>3, <2>1, <4>2
    <3> QED BY <3>1
  <2>4. ASSUME NEW j \in 1..(n - 1) PROVE \E m \in 1..n : m # i /\ r[j] = d[m]
    <3>1. CASE j < i
      <4>1. j \in 1..n /\ j # i BY <1>2, <2>1, <3>1
      <4> QED BY <2>2, <3>1, <4>1
    <3>2. CASE ~(j < i)
      <4>1. j + 1 \in 1..n /\ j + 1 # i BY <1>2, <2>1, <3>2
      <4> QED BY <2>2, <3>2, <4>1
    <3> QED BY <3>1, <3>2
  <2>5. ASSUME NEW j \in 1..(n - 1) PROVE r[j][1] \in DOMAIN g /\ r[j][2] = g[r[j][1]]
    <3>1. PICK m \in 1..n : m # i /\ r[j] = d[m] BY <2>4
    <3>2. d[m][1] \in DOMAIN g /\ d[m][2] = f[d[m][1]] BY <1>2, <1>4, <2>3, <3>1
    <3> QED BY <1>4, <3>1, <3>2
  <2>6. ASSUME NEW k \in DOMAIN g PROVE \E j \in 1..(n - 1) : r[j][1] = k
    <3>1. PICK m \in 1..n : d[m][1] = k /\ k # key BY <1>2, <1>4
    <3>2. m # i BY <2>1, <3>1
    <3>3. CASE m < i
      <4>1. m \in 1..(n - 1) BY <1>2, <2>1, <3>3
      <4> QED BY <2>2, <3>1, <3>3, <4>1
    <3>4. CASE ~(m < i)
      <4>1. m - 1 \in 1..(n - 1) /\ ~(m - 1 < i) /\ (m - 1) + 1 = m
        <5>1. n \in Nat /\ i \in 1..n /\ m \in 1..n /\ m # i /\ ~(m < i) BY <1>2, <2>1, <3>2, <3>4
        <5> QED BY ONLY <5>1
      <4>2. r[m - 1] = d[m] BY <2>2, <4>1
      <4> QED BY <3>1, <4>1, <4>2
    <3> QED BY <3>3, <3>4
  <2>7. Ascending(r)
    <3>1. ASSUME NEW j \in 1..((n - 1) - 1) PROVE r[j][1] < r[j + 1][1]
      <4>0. n \in Nat /\ j \in Nat /\ j >= 1 /\ j <= (n - 1) - 1 /\ i \in Nat /\ i >= 1 /\ i <= n BY <1>2, <2>1
      <4>1. j \in 1..(n - 1) /\ j + 1 \in 1..(n - 1) BY ONLY <4>0
      <4>2. PICK a \in 1..n, b \in 1..n : a < b /\ r[j] = d[a] /\ r[j + 1] = d[b]
        <5>1. CASE j + 1 < i
          <6>1. j \in 1..n /\ j + 1 \in 1..n /\ j < j + 1 /\ j < i BY ONLY <4>0, <5>1
          <6> QED BY <2>2, <4>1, <5>1, <6>1
        <5>2. CASE j + 1 = i
          <6>1. j \in 1..n /\ (j + 1) + 1 \in 1..n /\ j < (j + 1) + 1 /\ j < i /\ ~(j + 1 < i)
            BY ONLY <4>0, <5>2
          <6>2. r[j] = d[j] /\ r[j + 1] = d[(j + 1) + 1] BY <2>2, <4>1, <6>1
          <6> QED BY <6>1, <6>2
        <5>3. CASE j + 1 > i
          <6>1. j + 1 \in 1..n /\ (j + 1) + 1 \in 1..n /\ j + 1 < (j + 1) + 1 /\ ~(j < i) /\ ~(j + 1 < i) BY ONLY <4>0, <5>3
          <6>2. r[j] = d[j + 1] /\ r[j + 1] = d[(j + 1) + 1] BY <2>2, <4>1, <6>1
          <6> QED BY <6>1, <6>2
        <5> QED BY <2>1, <5>1, <5>2, <5>3
      <4>3. d[a][1] < d[b][1] BY <1>1, <1>2, <4>2, AscendingFar
      <4> QED BY <4>2, <4>3
    <3> QED BY <2>2, <3>1 DEF Ascending
  <2>8. Cardinality(DOMAIN g) = n - 1
    BY <1>4, <2>1
  <2> QED BY <1>4, <2>2, <2>5, <2>6, <2>7, <2>8 DEF Holds
<1> QED BY <1>6, <1>7

-----------------------------------------------------------------------------
(* Sorting.                                                                *)

\* The entries of d up to k, in some order.
Shuffled(d, k, q) ==
  /\ q \in Seq(Pairs) /\ Len(q) = k
  /\ \A j \in 1..k : \E i \in 1..k : q[j] = d[i]
  /\ \A i \in 1..k : \E j \in 1..k : q[j] = d[i]

\* SortIn finds a place for the entry.
LEMMA SortInPlace ==
  ASSUME NEW S, NEW q, q \in Seq(S), NEW e, e \in S, NEW by
  PROVE  \E i : i \in 1..(Len(q) + 1) /\ OneMore(S, q, i, e, SortIn(q, e, by))
<1>1. PICK T, n, i : T = {j \in DOMAIN q : ~Less(by, e, q[j])} /\ n = Len(q) /\ i = 1 + Cardinality(T)
  BY Zenon
<1>2. n \in Nat /\ T \in SUBSET (1..n)
  BY <1>1
<1>3. IsFiniteSet(1..n) /\ Cardinality(1..n) = n
  <2>1. 1 \in Int /\ n \in Int BY <1>2
  <2>2. IsFiniteSet(1..n) /\ Cardinality(1..n) = IF 1 > n THEN 0 ELSE n - 1 + 1
    BY <2>1, FS_Interval
  <2> QED BY <1>2, <2>2
<1>4. IsFiniteSet(T) /\ Cardinality(T) <= Cardinality(1..n)
  BY <1>2, <1>3, FS_Subset
<1>5. Cardinality(T) \in Nat
  BY <1>4, FS_CardinalityType
<1>6. i \in 1..(Len(q) + 1)
  BY <1>1, <1>2, <1>3, <1>4, <1>5
<1>7. SortIn(q, e, by) = InsertAt(q, i, e)
  BY <1>1, Zenon DEF SortIn
<1>8. OneMore(S, q, i, e, SortIn(q, e, by))
  BY <1>6, <1>7, Inserted, Zenon
<1> QED BY <1>6, <1>8

\* A further entry of d.
LEMMA ShuffledByOne ==
  ASSUME NEW d, NEW k, k \in Nat, NEW q, Shuffled(d, k, q), NEW i, i \in 1..(Len(q) + 1), NEW r, OneMore(Pairs, q, i, d[k + 1], r)
  PROVE  Shuffled(d, k + 1, r)
<1>1. /\ q \in Seq(Pairs) /\ Len(q) = k
      /\ \A j \in 1..k : \E m \in 1..k : q[j] = d[m]
      /\ \A m \in 1..k : \E j \in 1..k : q[j] = d[m]
  BY DEF Shuffled
<1>2. /\ r \in Seq(Pairs) /\ Len(r) = k + 1 /\ i \in 1..(k + 1)
      /\ \A j \in 1..(k + 1) : r[j] = IF j < i THEN q[j] ELSE IF j = i THEN d[k + 1] ELSE q[j - 1]
  BY <1>1 DEF OneMore
<1>3. k + 1 \in 1..(k + 1) /\ \A m \in 1..k : m \in 1..(k + 1)
  OBVIOUS
<1>4. ASSUME NEW j \in 1..(k + 1) PROVE \E m \in 1..(k + 1) : r[j] = d[m]
  <2>1. CASE j < i
    <3>1. j \in 1..k /\ r[j] = q[j] BY <1>2, <2>1
    <3>2. PICK m \in 1..k : q[j] = d[m] BY <1>1, <3>1
    <3> QED BY <1>3, <3>1, <3>2
  <2>2. CASE j = i BY <1>2, <1>3, <2>2
  <2>3. CASE j > i
    <3>1. j - 1 \in 1..k /\ r[j] = q[j - 1] BY <1>2, <2>3
    <3>2. PICK m \in 1..k : q[j - 1] = d[m] BY <1>1, <3>1
    <3> QED BY <1>3, <3>1, <3>2
  <2> QED BY <1>2, <2>1, <2>2, <2>3
<1>5. ASSUME NEW m \in 1..(k + 1) PROVE \E j \in 1..(k + 1) : r[j] = d[m]
  <2>1. CASE m = k + 1 BY <1>2, <2>1
  <2>2. CASE m # k + 1
    <3>1. m \in 1..k BY <2>2
    <3>2. PICK j \in 1..k : q[j] = d[m] BY <1>1, <3>1
    <3>3. CASE j < i BY <1>2, <1>3, <3>2, <3>3
    <3>4. CASE ~(j < i)
      <4>1. j + 1 \in 1..(k + 1) /\ ~(j + 1 < i) /\ j + 1 # i /\ (j + 1) - 1 = j BY <1>2, <3>4
      <4>2. r[j + 1] = q[j] BY <1>2, <4>1
      <4> QED BY <3>2, <4>1, <4>2
    <3> QED BY <3>3, <3>4
  <2> QED BY <2>1, <2>2
<1> QED BY <1>2, <1>4, <1>5 DEF Shuffled

\* std::stable_sort loses and invents nothing, whatever the comparator.
LEMMA SortShuffles ==
  ASSUME NEW d, d \in Seq(Pairs), NEW by
  PROVE  Shuffled(d, Len(d), StableSort(d, by))
<1>1. PICK n, start : n = Len(d) /\ n \in Nat /\ start = <<>>
  <2>1. Len(d) \in Nat BY LenProperties
  <2> QED BY <2>1, Zenon
<1>2. "sort" # "append" /\ "sort" # "halve" /\ "sort" # "insert" /\ "sort" # "put"
  OBVIOUS
<1>3. PICK a : Loop("sort", by, start, d, n, a) /\ StableSort(d, by) = a[n]
  <2>1. \E a : Loop("sort", by, start, d, n, a)
    BY ONLY <1>1, LoopRuns
  <2>2. \A a : Loop("sort", by, start, d, n, a) <=>
          a = [k \in 0..Len(d) |-> IF k = 0 THEN <<>> ELSE SortIn(a[k - 1], d[k], by)]
    BY <1>1, <1>2, Zenon DEF Loop, After
  <2> QED BY <1>1, <2>1, <2>2, Zenon DEF StableSort
<1>4. a[0] = start /\ \A k \in 1..n : a[k] = SortIn(a[k - 1], d[k], by)
  <2>1. n \in Nat /\ Loop("sort", by, start, d, n, a) BY <1>1, <1>3
  <2>2. a[0] = start /\ \A k \in 1..n : a[k] = After("sort", by, a[k - 1], d[k])
    BY ONLY <2>1, LoopTurns
  <2> QED BY <1>2, <2>2, Zenon DEF After
<1>5. PICK S : S = {k \in 0..n : Shuffled(d, k, a[k])}
  BY Zenon
<1>6. 0 \in S
  <2>1. Shuffled(d, 0, <<>>)
    BY DEF Shuffled
  <2> QED BY <1>1, <1>4, <1>5, <2>1
<1>7. ASSUME NEW k \in 1..n, k - 1 \in S PROVE k \in S
  <2>1. PICK m, q, e, r : m = k - 1 /\ q = a[k - 1] /\ e = d[k] /\ r = a[k]
    BY Zenon
  <2>2. m \in Nat /\ m + 1 = k /\ k \in 0..n /\ e \in Pairs
    BY <1>1, <2>1
  <2>3. Shuffled(d, m, q) /\ r = SortIn(q, e, by) /\ e = d[m + 1]
    BY <1>4, <1>5, <1>7, <2>1, <2>2
  <2>4. q \in Seq(Pairs)
    BY <2>3 DEF Shuffled
  <2>5. PICK i : i \in 1..(Len(q) + 1) /\ OneMore(Pairs, q, i, e, r)
    BY <2>2, <2>3, <2>4, SortInPlace, Zenon
  <2>6. OneMore(Pairs, q, i, d[m + 1], r)
    BY <2>3, <2>5, Zenon
  <2>7. Shuffled(d, m + 1, r)
    BY <2>2, <2>3, <2>5, <2>6, ShuffledByOne, Zenon
  <2> QED BY <1>5, <2>1, <2>2, <2>7
<1>8. n \in S
  BY ONLY <1>1, <1>6, <1>7, SetInduction
<1> QED BY <1>1, <1>3, <1>5, <1>8

\* SoulFlatMap::sort.
LEMMA SortHolds ==
  ASSUME NEW d, NEW f, Holds(d, f), NEW by
  PROVE  Holds(StableSort(d, by), f)
<1>1. PICK n, q : n = Len(d) /\ q = StableSort(d, by)
  BY Zenon
<1>2. /\ d \in Seq(Pairs) /\ MapType(f) /\ n = Cardinality(DOMAIN f)
      /\ \A j \in 1..n : d[j][1] \in DOMAIN f /\ d[j][2] = f[d[j][1]]
      /\ \A k \in DOMAIN f : \E j \in 1..n : d[j][1] = k
  BY <1>1 DEF Holds
<1>3. Shuffled(d, n, q)
  BY <1>1, <1>2, SortShuffles, Zenon
<1>4. /\ q \in Seq(Pairs) /\ Len(q) = n
      /\ \A j \in 1..n : \E m \in 1..n : q[j] = d[m]
      /\ \A m \in 1..n : \E j \in 1..n : q[j] = d[m]
  BY <1>3 DEF Shuffled
<1>5. ASSUME NEW j \in 1..n PROVE q[j][1] \in DOMAIN f /\ q[j][2] = f[q[j][1]]
  <2>1. PICK m \in 1..n : q[j] = d[m] BY <1>4
  <2> QED BY <1>2, <2>1
<1>6. ASSUME NEW k \in DOMAIN f PROVE \E j \in 1..n : q[j][1] = k
  <2>1. PICK m \in 1..n : d[m][1] = k BY <1>2
  <2>2. PICK j \in 1..n : q[j] = d[m] BY <1>4
  <2> QED BY <2>1, <2>2
<1>7. Holds(q, f)
  BY <1>2, <1>4, <1>5, <1>6 DEF Holds
<1> QED BY <1>1, <1>7

\* The entries of a map, listed.
Lists(q, G) ==
  q \in Seq(Pairs) /\ (\A i \in 1..Len(q) : q[i] \in G) /\ (\A e \in G : \E i \in 1..Len(q) : q[i] = e)

\* SetToSeq lists the entries of a map, all of them and nothing else.
LEMMA Listing ==
  ASSUME NEW f, MapType(f), NEW G, G = {<<k, f[k]>> : k \in DOMAIN f}
  PROVE  Lists(SetToSeq(G), G)
<1>1. DOMAIN f \subseteq MapKeys /\ IsFiniteSet(DOMAIN f) /\ \A k \in DOMAIN f : f[k] \in MapValues
  BY DEF MapType
<1>2. \A e \in G : e \in Pairs
  BY <1>1 DEF Pairs
<1>3. IsFiniteSet(G)
  <2>1. PICK h, D : h = [k \in DOMAIN f |-> <<k, f[k]>>] /\ D = DOMAIN f
    BY Zenon
  <2>2. h \in [D -> G] /\ \A e \in G : \E k \in D : h[k] = e
    BY <2>1
  <2>3. h \in Surjection(D, G)
    BY <2>2 DEF Surjection
  <2>4. IsFiniteSet(D) BY <1>1, <2>1
  <2> QED BY <2>3, <2>4, FS_Surjection
<1>4. PICK c : c = Cardinality(G)
  BY Zenon
<1>5. c \in Nat /\ ExistsBijection(1..c, G)
  BY <1>3, <1>4, FS_CardinalityType
<1>6. PICK b : b \in Bijection(1..c, G)
  BY <1>5 DEF ExistsBijection
<1>7. b \in [1..c -> G] /\ IsInjective(b)
  BY <1>6 DEF Bijection, Injection, Surjection, IsInjective
<1>8. PICK q : q = SetToSeq(G)
  BY Zenon
<1>9. q \in [1..c -> G] /\ IsInjective(q)
  BY <1>4, <1>7, <1>8, Zenon DEF SetToSeq
<1>10. q \in Injection(1..c, G)
  BY <1>9 DEF Injection, IsInjective
<1>11. Cardinality(1..c) = c
  <2>1. 1 \in Int /\ c \in Int BY <1>5
  <2>2. Cardinality(1..c) = IF 1 > c THEN 0 ELSE c - 1 + 1
    BY <2>1, FS_Interval
  <2> QED BY <1>5, <2>2
<1>12. q \in Surjection(1..c, G)
  <2>1. Cardinality(1..c) = Cardinality(G) BY <1>4, <1>11
  <2> QED BY <1>3, <1>10, <2>1, FS_Injection
<1>13. \A e \in G : \E i \in 1..c : q[i] = e
  BY <1>12 DEF Surjection
<1>14. q \in Seq(Pairs) /\ Len(q) = c
  <2>1. q \in [1..c -> Pairs] BY <1>2, <1>9
  <2> QED BY <1>5, <2>1
<1>15. Lists(q, G)
  BY <1>9, <1>13, <1>14 DEF Lists
<1> QED BY <1>8, <1>15

\* The beginning of a refill.
Part(f, p, k, b) ==
  /\ b = [x \in DOMAIN b |-> b[x]] /\ \A x \in DOMAIN b : x \in DOMAIN f /\ b[x] = f[x]
  /\ \A j \in 1..k : p[j][1] \in DOMAIN b

\* SoulUnorderedMap::sort leaves the map as it was.
LEMMA RefilledIs ==
  ASSUME NEW f, MapType(f), NEW by
  PROVE  Refilled(f, by) = f
<1>1. PICK G, q, p, start : G = {<<k, f[k]>> : k \in DOMAIN f} /\ q = SetToSeq(G) /\ p = StableSort(q, by) /\ start = <<>>
  BY Zenon
<1>2. Refilled(f, by) = PutAll(start, p)
  BY <1>1, Zenon DEF Refilled
<1>3. /\ q \in Seq(Pairs)
      /\ \A i \in 1..Len(q) : q[i] \in G
      /\ \A e \in G : \E i \in 1..Len(q) : q[i] = e
  <2>1. Lists(q, G) BY <1>1, Listing, Zenon
  <2> QED BY <2>1 DEF Lists
<1>4. PICK n : n = Len(q) /\ n \in Nat
  BY <1>3, Zenon, LenProperties
<1>5. Shuffled(q, n, p)
  BY <1>1, <1>3, <1>4, SortShuffles, Zenon
<1>6. /\ p \in Seq(Pairs) /\ Len(p) = n
      /\ \A j \in 1..n : \E m \in 1..n : p[j] = q[m]
      /\ \A m \in 1..n : \E j \in 1..n : p[j] = q[m]
  BY <1>5 DEF Shuffled
<1>7. \A j \in 1..n : p[j][1] \in DOMAIN f /\ p[j][2] = f[p[j][1]]
  <2>1. ASSUME NEW j \in 1..n PROVE p[j][1] \in DOMAIN f /\ p[j][2] = f[p[j][1]]
    <3>1. PICK m \in 1..n : p[j] = q[m] BY <1>6
    <3>2. PICK k \in DOMAIN f : q[m] = <<k, f[k]>> BY <1>1, <1>3, <1>4
    <3> QED BY <3>1, <3>2
  <2> QED BY <2>1
<1>8. \A k \in DOMAIN f : \E j \in 1..n : p[j][1] = k
  <2>1. ASSUME NEW k \in DOMAIN f PROVE \E j \in 1..n : p[j][1] = k
    <3>1. <<k, f[k]>> \in G BY <1>1
    <3>2. PICK m \in 1..n : q[m] = <<k, f[k]>> BY <1>3, <1>4, <3>1
    <3>3. PICK j \in 1..n : p[j] = q[m] BY <1>6
    <3> QED BY <3>2, <3>3
  <2> QED BY <2>1
<1>9. PICK y, b : Loop("put", y, start, p, n, b) /\ PutAll(start, p) = b[n]
  <2>1. n = Len(p) BY <1>6
  <2> QED BY <1>4, <2>1, PutAllIs, ZenonT(60)
<1>10. b[0] = start /\ \A k \in 1..n : b[k] = Put(b[k - 1], p[k])
  <2>1. PutTurns(start, p, n, b) BY <1>4, <1>9, PutAllTurns, Zenon
  <2> QED BY <2>1 DEF PutTurns
<1>11. PICK S : S = {k \in 0..n : Part(f, p, k, b[k])}
  BY Zenon
<1>12. 0 \in S
  <2>1. DOMAIN start = {} /\ start = [x \in DOMAIN start |-> start[x]]
    BY <1>1
  <2>2. Part(f, p, 0, start)
    BY <2>1 DEF Part
  <2> QED BY <1>4, <1>10, <1>11, <2>2
<1>13. ASSUME NEW k \in 1..n, k - 1 \in S PROVE k \in S
  <2>1. PICK old, new, e : old = b[k - 1] /\ new = b[k] /\ e = p[k]
    BY Zenon
  <2>2. new = Put(old, e) /\ e[1] \in DOMAIN f /\ e[2] = f[e[1]] /\ k \in 0..n
    BY <1>4, <1>7, <1>10, <2>1
  <2>3. /\ \A x \in DOMAIN old : x \in DOMAIN f /\ old[x] = f[x]
        /\ \A j \in 1..(k - 1) : p[j][1] \in DOMAIN old
    BY <1>11, <1>13, <2>1 DEF Part
  <2>4. /\ new = [x \in DOMAIN new |-> new[x]] /\ DOMAIN new = DOMAIN old \cup {e[1]}
        /\ \A x \in DOMAIN old \cup {e[1]} : new[x] = IF x = e[1] THEN e[2] ELSE old[x]
    BY <2>2 DEF Put
  <2>5. ASSUME NEW j \in 1..k PROVE p[j][1] \in DOMAIN new
    <3>1. CASE j = k BY <2>1, <2>4, <3>1
    <3>2. CASE j # k
      <4>1. j \in 1..(k - 1) BY <1>4, <3>2
      <4> QED BY <2>3, <2>4, <4>1
    <3> QED BY <3>1, <3>2
  <2>6. \A x \in DOMAIN new : x \in DOMAIN f /\ new[x] = f[x]
    BY <2>2, <2>3, <2>4
  <2>7. Part(f, p, k, new)
    BY <2>4, <2>5, <2>6 DEF Part
  <2> QED BY <1>11, <2>1, <2>2, <2>7
<1>14. n \in S
  BY ONLY <1>4, <1>12, <1>13, SetInduction
<1>15. PICK g : g = b[n] /\ Part(f, p, n, g)
  BY <1>11, <1>14
<1>16. g = [x \in DOMAIN g |-> g[x]] /\ DOMAIN g = DOMAIN f /\ \A x \in DOMAIN g : g[x] = f[x]
  BY <1>8, <1>15 DEF Part
<1>17. f = [x \in DOMAIN f |-> f[x]]
  BY DEF MapType
<1>18. g = f
  BY <1>16, <1>17
<1> QED BY <1>2, <1>9, <1>15, <1>18

\* Empty maps.
LEMMA EmptyHolds == Holds(<<>>, <<>>) /\ Ascending(<<>>)
<1>1. DOMAIN <<>> = {} /\ <<>> \in Seq(Pairs) /\ Len(<<>>) = 0
  OBVIOUS
<1>2. PICK z : z = <<>>
  BY Zenon
<1>3. DOMAIN z = {} /\ z = [k \in DOMAIN z |-> z[k]]
  BY <1>2
<1>4. IsFiniteSet({}) /\ Cardinality({}) = 0
  BY FS_EmptySet
<1>5. MapType(z)
  BY <1>3, <1>4 DEF MapType
<1>6. Len(z) = 0 /\ z \in Seq(Pairs)
  BY <1>1, <1>2
<1>7. Holds(z, z) /\ Ascending(z)
  BY <1>3, <1>4, <1>5, <1>6 DEF Holds, Ascending
<1> QED BY <1>2, <1>7

-----------------------------------------------------------------------------
(* The maps together.                                                      *)

MapInv == order # "lost" => Holds(data_, treeMap) /\ hashMap = treeMap /\ (order = "key" => Ascending(data_))

\* operator[] with an assignment is an insert.
LEMMA SubscriptInserts ==
  ASSUME NEW d, d \in Seq(Pairs), Ascending(d), NEW key, key \in MapKeys, NEW v, v \in MapValues, NEW i, i = lower_bound(d, key),
         NEW e, e = IF Found(d, key) THEN d ELSE InsertAt(d, i, <<key, DefaultValue>>)
  PROVE  ReplaceAt(e, i, <<e[i][1], v>>) = FlatInsert(d, <<key, v>>)
<1>1. CASE Found(d, key)
  <2>1. e = d
    BY <1>1
  <2>2. PICK kv : kv = <<key, v>>
    BY Zenon
  <2>3. kv[1] = key /\ kv[2] = v
    BY <2>2
  <2>4. FlatInsert(d, kv) = ReplaceAt(d, i, <<d[i][1], v>>)
    BY <1>1, <2>3, Zenon DEF FlatInsert
  <2> QED BY <2>1, <2>2, <2>4
<1>2. CASE ~Found(d, key)
  <2>1. PICK n, kv, kw, x : n = Len(d) /\ n \in Nat /\ kv = <<key, v>> /\ kw = <<key, DefaultValue>> /\ x = InsertAt(d, i, kv)
    <3>1. Len(d) \in Nat BY LenProperties
    <3> QED BY <3>1, Zenon
  <2>2. kv[1] = key /\ kv[2] = v /\ kw[1] = key /\ kv \in Pairs /\ kw \in Pairs
    BY <2>1, MapAssumption DEF Pairs
  <2>3. i \in 1..(n + 1)
    <3>1. SearchEnds(d, key, i) BY Search, Zenon
    <3> QED BY <2>1, <3>1 DEF SearchEnds
  <2>4. e = InsertAt(d, i, kw)
    BY <1>2, <2>1
  <2>5. OneMore(Pairs, d, i, kw, e) /\ OneMore(Pairs, d, i, kv, x)
    <3>1. i \in 1..(Len(d) + 1) BY <2>1, <2>3
    <3> QED BY <2>1, <2>2, <2>4, <3>1, Inserted, Zenon
  <2>6. /\ e \in Seq(Pairs) /\ Len(e) = n + 1 /\ \A j \in 1..(n + 1) : e[j] = IF j < i THEN d[j] ELSE IF j = i THEN kw ELSE d[j - 1]
        /\ x \in Seq(Pairs) /\ Len(x) = n + 1 /\ \A j \in 1..(n + 1) : x[j] = IF j < i THEN d[j] ELSE IF j = i THEN kv ELSE d[j - 1]
    BY <2>1, <2>5 DEF OneMore
  <2>7. <<e[i][1], v>> = kv
    <3>1. i \in 1..(n + 1) /\ ~(i < i) BY <2>1, <2>3
    <3>2. e[i] = kw BY <2>6, <3>1
    <3> QED BY <2>1, <2>2, <3>2
  <2>8. PICK r : r = [e EXCEPT ![i] = kv]
    BY Zenon
  <2>9. r \in Seq(Pairs) /\ Len(r) = n + 1 /\ \A j \in 1..(n + 1) : r[j] = IF j = i THEN kv ELSE e[j]
    <3>1. e \in Seq(Pairs) /\ i \in 1..Len(e) /\ kv \in Pairs BY <2>2, <2>3, <2>6
    <3>2. r \in Seq(Pairs) /\ Len(r) = Len(e) /\ \A j \in 1..Len(e) : r[j] = IF j = i THEN kv ELSE e[j]
      BY ONLY <2>8, <3>1, ExceptSeq
    <3> QED BY <2>6, <3>2
  <2>10. \A j \in 1..(n + 1) : r[j] = x[j]
    <3>1. ASSUME NEW j \in 1..(n + 1) PROVE r[j] = x[j]
      <4>1. CASE j = i
        <5>1. ~(j < i) BY <2>3, <4>1
        <5> QED BY <2>6, <2>9, <4>1, <5>1
      <4>2. CASE j # i
        <5>1. r[j] = e[j] BY <2>9, <4>2
        <5>2. e[j] = IF j < i THEN d[j] ELSE d[j - 1] BY <2>6, <4>2
        <5>3. x[j] = IF j < i THEN d[j] ELSE d[j - 1] BY <2>6, <4>2
        <5> QED BY <5>1, <5>2, <5>3
      <4> QED BY <4>1, <4>2
    <3> QED BY <3>1
  <2>11. r = x
    BY <2>6, <2>9, <2>10, SeqEqual
  <2>12. FlatInsert(d, kv) = x
    BY <1>2, <2>1, <2>2, Zenon DEF FlatInsert
  <2>13. ReplaceAt(e, i, <<e[i][1], v>>) = r
    BY <2>7, <2>8, Zenon DEF ReplaceAt
  <2> QED BY <2>1, <2>11, <2>12, <2>13
<1> QED BY <1>1, <1>2

\* A call that searches leaves a flat map in the order of the keys, or none.
LEMMA SearchedOnce ==
  ASSUME Searched, MapInv, order' # "lost"
  PROVE  order' = "key" /\ Holds(data_, treeMap) /\ hashMap = treeMap /\ Ascending(data_)
<1>1. order = "key"
  BY DEF Searched
<1>2. "key" # "lost"
  OBVIOUS
<1> QED BY <1>1, <1>2 DEF Searched, MapInv

\* Every call keeps the maps together.
LEMMA MapStep ==
  ASSUME MapInv, MapsNext
  PROVE  MapInv'
<1> SUFFICES ASSUME order' # "lost" PROVE Holds(data_', treeMap') /\ hashMap' = treeMap' /\ (order' = "key" => Ascending(data_'))
  BY DEF MapInv
<1>1. ASSUME NEW kv \in Pairs, insert(kv) PROVE Holds(data_', treeMap') /\ hashMap' = treeMap' /\ Ascending(data_')
  <2>1. Holds(data_, treeMap) /\ hashMap = treeMap /\ Ascending(data_)
    BY <1>1, SearchedOnce DEF insert
  <2>2. data_' = FlatInsert(data_, kv) /\ treeMap' = Put(treeMap, kv) /\ hashMap' = treeMap'
    BY <1>1, <2>1, Zenon DEF insert
  <2>3. Holds(data_', treeMap') /\ Ascending(data_')
    BY ONLY <2>1, <2>2, kv \in Pairs, InsertHolds
  <2> QED BY <2>2, <2>3
<1>2. ASSUME NEW kv \in Pairs, remove(kv) PROVE Holds(data_', treeMap') /\ hashMap' = treeMap' /\ Ascending(data_')
  <2>1. Holds(data_, treeMap) /\ hashMap = treeMap /\ Ascending(data_)
    BY <1>2, SearchedOnce DEF remove
  <2>2. PICK key : key = kv[1]
    BY Zenon
  <2>3. key \in MapKeys
    BY <2>2 DEF Pairs
  <2>4. data_' = FlatRemove(data_, key) /\ treeMap' = Drop(treeMap, key) /\ hashMap' = treeMap'
    BY <1>2, <2>1, <2>2, Zenon DEF remove
  <2>5. Holds(data_', treeMap') /\ Ascending(data_')
    BY ONLY <2>1, <2>3, <2>4, RemoveHolds
  <2> QED BY <2>4, <2>5
<1>3. ASSUME NEW kv \in Pairs, subscript(kv[1], kv[2]) PROVE Holds(data_', treeMap') /\ hashMap' = treeMap' /\ Ascending(data_')
  <2>1. Holds(data_, treeMap) /\ hashMap = treeMap /\ Ascending(data_)
    BY <1>3, SearchedOnce DEF subscript
  <2>2. PICK key, v, i : key = kv[1] /\ v = kv[2] /\ i = lower_bound(data_, key)
    BY Zenon
  <2>3. key \in MapKeys /\ v \in MapValues /\ kv = <<key, v>>
    BY <2>2 DEF Pairs
  <2>4. PICK e : e = IF Found(data_, key) THEN data_ ELSE InsertAt(data_, i, <<key, DefaultValue>>)
    BY Zenon
  <2>5. data_' = ReplaceAt(e, i, <<e[i][1], v>>) /\ treeMap' = Put(treeMap, <<key, v>>) /\ hashMap' = treeMap'
    BY <1>3, <2>1, <2>2, <2>4, Zenon DEF subscript
  <2>6. data_' = FlatInsert(data_, <<key, v>>)
    <3>1. data_ \in Seq(Pairs) BY <2>1 DEF Holds
    <3>2. ReplaceAt(e, i, <<e[i][1], v>>) = FlatInsert(data_, <<key, v>>)
      BY <2>1, <2>2, <2>3, <2>4, <3>1, SubscriptInserts, Zenon
    <3> QED BY <2>5, <3>2, Zenon
  <2>7. data_' = FlatInsert(data_, kv) /\ treeMap' = Put(treeMap, kv)
    BY <2>3, <2>5, <2>6, Zenon
  <2>8. Holds(data_', treeMap') /\ Ascending(data_')
    BY ONLY <2>1, <2>7, kv \in Pairs, InsertHolds
  <2> QED BY <2>5, <2>8
<1>4. ASSUME NEW kv \in Pairs, NEW kw \in Pairs, insert_range(<<kv, kw>>)
      PROVE  Holds(data_', treeMap') /\ hashMap' = treeMap' /\ Ascending(data_')
  <2>1. Holds(data_, treeMap) /\ hashMap = treeMap /\ Ascending(data_)
    BY <1>4, SearchedOnce DEF insert_range
  <2>2. PICK range : range = <<kv, kw>>
    BY Zenon
  <2>3. range \in Seq(Pairs)
    BY <2>2
  <2>4. data_' = FlatInsertAll(data_, range) /\ treeMap' = PutAll(treeMap, range) /\ hashMap' = treeMap'
    BY <1>4, <2>1, <2>2, Zenon DEF insert_range
  <2>5. Holds(FlatInsertAll(data_, range), PutAll(treeMap, range)) /\ Ascending(FlatInsertAll(data_, range))
    BY ONLY <2>1, <2>3, InsertAllHolds
  <2> QED BY <2>4, <2>5, Zenon
<1>5. ASSUME NEW by, sort(by) PROVE Holds(data_', treeMap') /\ hashMap' = treeMap' /\ (order' = "key" => Ascending(data_'))
  <2>1. order # "lost"
    BY <1>5 DEF sort
  <2>2. Holds(data_, treeMap) /\ hashMap = treeMap
    BY <2>1 DEF MapInv
  <2>3. data_' = StableSort(data_, by) /\ hashMap' = Refilled(hashMap, by) /\ treeMap' = treeMap
    BY <1>5, Zenon DEF sort
  <2>4. Holds(data_', treeMap')
    BY <2>2, <2>3, SortHolds, Zenon
  <2>5. hashMap' = treeMap'
    <3>1. MapType(treeMap) BY <2>2 DEF Holds
    <3>2. Refilled(treeMap, by) = treeMap BY <3>1, RefilledIs, Zenon
    <3> QED BY <2>2, <2>3, <3>2
  <2>6. order' = "key" => Ascending(data_')
    <3>1. "other" # "key" OBVIOUS
    <3> QED BY <1>5, <2>1, <3>1, Zenon DEF sort
  <2> QED BY <2>4, <2>5, <2>6
<1>6. CASE clearMaps
  BY <1>6, EmptyHolds DEF clearMaps
<1> QED BY <1>1, <1>2, <1>3, <1>4, <1>5, <1>6, Zenon DEF MapsNext

\* What MapInv says of results.
LEMMA MapsMeet ==
  ASSUME MapInv
  PROVE  MapsAgree
<1> SUFFICES ASSUME order # "lost" PROVE
      /\ hashMap = treeMap
      /\ Len(data_) = Cardinality(DOMAIN treeMap)
      /\ {data_[i] : i \in DOMAIN data_} = {<<k, treeMap[k]>> : k \in DOMAIN treeMap}
      /\ order = "key" =>
           /\ Ascending(data_)
           /\ \A k \in MapKeys : lookup(k) = IF k \in DOMAIN treeMap THEN {treeMap[k]} ELSE {}
  BY Zenon DEF MapsAgree
<1>1. PICK d, f, n : d = data_ /\ f = treeMap /\ n = Len(d)
  BY Zenon
<1>2. Holds(d, f) /\ hashMap = f /\ (order = "key" => Ascending(d))
  BY <1>1 DEF MapInv
<1>3. /\ d \in Seq(Pairs) /\ n \in Nat /\ n = Cardinality(DOMAIN f)
      /\ \A j \in 1..n : d[j][1] \in DOMAIN f /\ d[j][2] = f[d[j][1]]
      /\ \A k \in DOMAIN f : \E j \in 1..n : d[j][1] = k
  BY <1>1, <1>2 DEF Holds
<1>4. DOMAIN d = 1..n
  <2>1. d \in Seq(Pairs) /\ n = Len(d) BY <1>1, <1>3
  <2>2. DOMAIN d = 1..Len(d) BY ONLY <2>1, LenProperties
  <2> QED BY <2>1, <2>2
<1>5. \A j \in 1..n : d[j] = <<d[j][1], d[j][2]>> /\ d[j][1] \in Int
  <2>1. d \in Seq(Pairs) /\ n = Len(d) BY <1>1, <1>3
  <2> QED BY ONLY <2>1, EntryTypes
<1>6. {d[j] : j \in DOMAIN d} = {<<k, f[k]>> : k \in DOMAIN f}
  <2>1. ASSUME NEW j \in 1..n PROVE d[j] = <<d[j][1], f[d[j][1]]>> /\ d[j][1] \in DOMAIN f
    BY <1>3, <1>5
  <2>2. ASSUME NEW k \in DOMAIN f PROVE \E j \in 1..n : d[j] = <<k, f[k]>>
    <3>1. PICK j \in 1..n : d[j][1] = k BY <1>3
    <3> QED BY <2>1, <3>1
  <2>3. \A x : x \in {d[j] : j \in DOMAIN d} <=> \E j \in 1..n : x = d[j]
    BY <1>4
  <2>4. \A x : x \in {<<k, f[k]>> : k \in DOMAIN f} <=> \E k \in DOMAIN f : x = <<k, f[k]>>
    BY Zenon
  <2>5. ASSUME NEW x PROVE (\E j \in 1..n : x = d[j]) <=> (\E k \in DOMAIN f : x = <<k, f[k]>>)
    <3>1. ASSUME NEW j \in 1..n, x = d[j] PROVE \E k \in DOMAIN f : x = <<k, f[k]>>
      BY <2>1, <3>1
    <3>2. ASSUME NEW k \in DOMAIN f, x = <<k, f[k]>> PROVE \E j \in 1..n : x = d[j]
      BY <2>2, <3>2
    <3> QED BY <3>1, <3>2
  <2> QED BY <2>3, <2>4, <2>5, Zenon
<1>7. ASSUME order = "key", NEW k \in MapKeys PROVE lookup(k) = IF k \in DOMAIN f THEN {f[k]} ELSE {}
  <2>1. PICK i : i = lower_bound(d, k)
    BY Zenon
  <2>2. lookup(k) = IF Found(d, k) THEN {d[i][2]} ELSE {}
    BY <1>1, <2>1, Zenon DEF lookup
  <2>3. /\ i \in 1..(n + 1)
        /\ Found(d, k) => i \in 1..n /\ d[i][1] = k
        /\ ~Found(d, k) => \A j \in 1..n : (j < i => d[j][1] < k) /\ (i <= j => k < d[j][1])
    <3>1. d \in Seq(Pairs) /\ Ascending(d) BY <1>2, <1>3, <1>7
    <3>2. SearchEnds(d, k, i)
      BY <2>1, <3>1, Search, Zenon
    <3> QED BY <1>1, <3>2, Zenon DEF SearchEnds
  <2>4. CASE Found(d, k)
    <3>1. i \in 1..n /\ d[i][1] = k BY <2>3, <2>4
    <3>2. k \in DOMAIN f /\ d[i][2] = f[k] BY <1>3, <3>1
    <3> QED BY <2>2, <2>4, <3>2
  <2>5. CASE ~Found(d, k)
    <3>1. k \in Int BY MapAssumption
    <3>2. ASSUME NEW j \in 1..n PROVE d[j][1] # k
      <4>1. j < i \/ i <= j BY <1>3, <2>3
      <4> QED BY <1>5, <2>3, <2>5, <3>1, <4>1
    <3>3. k \notin DOMAIN f BY <1>3, <3>2
    <3> QED BY <2>2, <2>5, <3>3
  <2> QED BY <2>4, <2>5
<1>8. order = "key" => \A k \in MapKeys : lookup(k) = IF k \in DOMAIN treeMap THEN {treeMap[k]} ELSE {}
  BY <1>1, <1>7, Zenon
<1>9. {data_[i] : i \in DOMAIN data_} = {<<k, treeMap[k]>> : k \in DOMAIN treeMap}
  BY <1>1, <1>6, Zenon
<1>10. Len(data_) = Cardinality(DOMAIN treeMap) /\ hashMap = treeMap
  BY <1>1, <1>2, <1>3
<1>11. order = "key" => Ascending(data_)
  BY <1>1, <1>2, Zenon
<1> QED BY <1>8, <1>9, <1>10, <1>11, Zenon

\* SoulFlatMap.h, SoulMap.h, SoulUnorderedMap.h: for any keys and values and maps
\* of every size, whatever was inserted, overwritten, removed, subscripted and
\* sorted, the three maps hold the same entries until a flat map that was sorted by
\* something else is searched, and in the order of the keys the bisection finds
\* exactly the keys present.
THEOREM MapsAlways == MapsSpec => []MapsAgree
<1>1. MapsInit => MapInv
  <2> SUFFICES ASSUME MapsInit PROVE MapInv
    OBVIOUS
  <2>1. data_ = <<>> /\ treeMap = <<>> /\ hashMap = <<>>
    BY DEF MapsInit
  <2> QED BY <2>1, EmptyHolds DEF MapInv
<1>2. MapInv /\ [MapsNext]_mapVars => MapInv'
  <2> SUFFICES ASSUME MapInv, [MapsNext]_mapVars PROVE MapInv'
    OBVIOUS
  <2>1. CASE MapsNext BY <2>1, MapStep
  <2>2. CASE UNCHANGED mapVars
    BY <2>2 DEF mapVars, MapInv
  <2> QED BY <2>1, <2>2
<1>3. MapInv => MapsAgree
  BY MapsMeet
<1> QED BY <1>1, <1>2, <1>3, PTL DEF MapsSpec
=============================================================================
