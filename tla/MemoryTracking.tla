--------------------------- MODULE MemoryTracking ---------------------------
(***************************************************************************)
(* MemoryRegistry, MemoryManager and what registers with them: the         *)
(* allocators MemoryAllocator and TaggedMemoryAllocator and the smart      *)
(* pointers, used by several threads. A manager's operations hold its      *)
(* mutex, and in debug mode they log (DebugLog) while they hold it.        *)
(* operator new may hand out any address that is free, also one that       *)
(* another thread has just deleted.                                        *)
(***************************************************************************)
EXTENDS DebugLog

CONSTANTS
  Default, Custom,    \* defaultManager() and a manager given to Set
  NoManager, Addresses,
  DefaultTag,         \* kDefaultAllocatorTag
  MemTags,            \* Tag::value() of the tagged allocators
  RuntimeTag,         \* MakeRuntimeTag(...) of a smart pointer
  MaxCalls,           \* bound on allocations and log calls
  MaxAdmin            \* bound on the calls of an administrator other than Set and Reset

Managers == {Default, Custom}

VARIABLES
  g_registry,
  wanted,        \* history: what the last Set or Reset asked for
  mutex_,        \* manager -> holder
  debugMode,     \* manager -> debugMode_
  allocations,   \* manager -> [address -> tag], partial
  memory,        \* address -> [manager, tag, listed] of a living object, or Free
  step,          \* thread -> where it is and its locals
  calls, admin   \* counters for the bounds

memVars == <<g_registry, wanted, mutex_, debugMode, allocations, memory, step, calls, admin, logVars>>

CONSTANT Free

AllTags == MemTags \cup {DefaultTag, RuntimeTag}

ASSUME MemAssumption ==
  /\ NoManager \notin Managers /\ Nobody \notin Addresses
  /\ Free \notin [manager : Managers, tag : AllTags, listed : BOOLEAN]

Idle == [at |-> "idle", manager |-> NoManager, address |-> Nobody, tag |-> DefaultTag, leaks |-> {}]

Empty == [x \in {} |-> x]

MemInit ==
  /\ LogInit
  /\ g_registry = NoManager /\ wanted = NoManager
  /\ mutex_ = [m \in Managers |-> Nobody] /\ debugMode = [m \in Managers |-> FALSE]
  /\ allocations = [m \in Managers |-> Empty]
  /\ memory = [a \in Addresses |-> Free]
  /\ step = [th \in LogThreads |-> Idle]
  /\ calls = 0 /\ admin = 0

Goto(th, to) == step' = [step EXCEPT ![th].at = to]
Unlock(m) == mutex_' = [mutex_ EXCEPT ![m] = Nobody]
Lock(th, m) == mutex_[m] = Nobody /\ mutex_' = [mutex_ EXCEPT ![m] = th]

-----------------------------------------------------------------------------
(* MemoryRegistry::Get, called by the constructor of an allocator or by    *)
(* createWithArgs                                                          *)

GetExchange(th) ==
  /\ step[th].at = "exchange"
  /\ g_registry' = IF g_registry = NoManager THEN Default ELSE g_registry
  /\ step' = [step EXCEPT ![th].at = "new", ![th].manager = g_registry']
  /\ UNCHANGED <<wanted, mutex_, debugMode, allocations, memory, calls, admin, logVars>>

\* The load, by whoever wants memory under `tag'.
Get(th, tag) ==
  /\ step[th].at = "idle" /\ ~Logs(th) /\ calls < MaxCalls
  /\ calls' = calls + 1
  /\ step' = [step EXCEPT ![th] = [Idle EXCEPT !.at = IF g_registry = NoManager THEN "exchange" ELSE "new",
                                               !.manager = g_registry, !.tag = tag]]
  /\ UNCHANGED <<g_registry, wanted, mutex_, debugMode, allocations, memory, admin, logVars>>

MemoryAllocator(th) == Get(th, DefaultTag)
TaggedMemoryAllocator(th) == \E tag \in MemTags : Get(th, tag)
UniquePtr(th) == Get(th, RuntimeTag)
SharedPtr(th) == Get(th, RuntimeTag)

-----------------------------------------------------------------------------
(* Allocation: operator new, then registerAllocation                       *)

\* Without a free address operator new throws.
allocate(th) ==
  /\ step[th].at = "new"
  /\ \/ /\ \A a \in Addresses : memory[a] # Free
        /\ step' = [step EXCEPT ![th] = Idle] /\ UNCHANGED memory
     \/ \E a \in Addresses :
          /\ memory[a] = Free
          /\ memory' = [memory EXCEPT ![a] = [manager |-> step[th].manager, tag |-> step[th].tag,
                                              listed |-> FALSE]]
          /\ step' = [step EXCEPT ![th].at = "register", ![th].address = a]
  /\ UNCHANGED <<g_registry, wanted, mutex_, debugMode, allocations, calls, admin, logVars>>

\* An operation that logs keeps the mutex until Log has returned.
LogOrUnlock(th, m, logged, done) ==
  IF debugMode[m]
    THEN /\ EnterLog(th, 1) /\ Goto(th, logged)
         /\ mutex_' = [mutex_ EXCEPT ![m] = th]
         /\ UNCHANGED <<logMutex, logChannels, minLogLevel, entries, written>>
    ELSE Goto(th, done) /\ UNCHANGED <<mutex_, logVars>>

registerAllocation(th) ==
  LET m == step[th].manager  a == step[th].address IN
  /\ step[th].at = "register" /\ mutex_[m] = Nobody
  /\ allocations' = [allocations EXCEPT ![m] = [x \in DOMAIN @ \cup {a} |->
                                                  IF x = a THEN step[th].tag ELSE @[x]]]
  /\ memory' = [memory EXCEPT ![a].listed = TRUE]
  /\ LogOrUnlock(th, m, "registered", "idle")
  /\ UNCHANGED <<g_registry, wanted, debugMode, calls, admin>>

\* Mutant of RegisterReturn: the mutex is not given back.
RegisterKeep(th) ==
  /\ step[th].at = "registered" /\ ~Logs(th)
  /\ Goto(th, "idle")
  /\ UNCHANGED <<g_registry, wanted, mutex_, debugMode, allocations, memory, calls, admin, logVars>>

RegisterReturn(th) ==
  /\ step[th].at = "registered" /\ ~Logs(th)
  /\ Unlock(step[th].manager) /\ Goto(th, "idle")
  /\ UNCHANGED <<g_registry, wanted, debugMode, allocations, memory, calls, admin, logVars>>

-----------------------------------------------------------------------------
(* Deallocation: unregisterAllocation, then operator delete. Any thread    *)
(* may destroy what another one has created.                               *)

Owned(a) == \E th \in LogThreads : step[th].at # "idle" /\ step[th].address = a

\* Mutant of deallocate: delete comes before unregisterAllocation.
DeleteFirst(th) ==
  /\ step[th].at = "idle" /\ ~Logs(th)
  /\ \E a \in Addresses :
       /\ memory[a] # Free /\ ~Owned(a)
       /\ step' = [step EXCEPT ![th] = [Idle EXCEPT !.at = "unregister", !.address = a,
                                                    !.manager = memory[a].manager]]
       /\ memory' = [memory EXCEPT ![a] = Free]
  /\ UNCHANGED <<g_registry, wanted, mutex_, debugMode, allocations, calls, admin, logVars>>

\* The manager is the one the allocator or deleter was created with.
deallocate(th) ==
  /\ step[th].at = "idle" /\ ~Logs(th)
  /\ \E a \in Addresses :
       /\ memory[a] # Free /\ ~Owned(a)
       /\ step' = [step EXCEPT ![th] = [Idle EXCEPT !.at = "unregister", !.address = a,
                                                    !.manager = memory[a].manager]]
  /\ UNCHANGED <<g_registry, wanted, mutex_, debugMode, allocations, memory, calls, admin, logVars>>

\* Drops a's entry; `listed' follows.
EraseEntry(m, a) ==
  /\ allocations' = [allocations EXCEPT ![m] = [x \in DOMAIN @ \ {a} |-> @[x]]]
  /\ memory' = [memory EXCEPT ![a] = IF @ = Free THEN @ ELSE [@ EXCEPT !.listed = FALSE]]

\* In debug mode the entry is erased after the entry has been logged.
unregisterAllocation(th) ==
  LET m == step[th].manager  a == step[th].address IN
  /\ step[th].at = "unregister" /\ mutex_[m] = Nobody
  /\ IF a \in DOMAIN allocations[m]
       THEN /\ LogOrUnlock(th, m, "erase", "delete")
            /\ IF debugMode[m] THEN UNCHANGED <<allocations, memory>> ELSE EraseEntry(m, a)
       ELSE Goto(th, "delete") /\ UNCHANGED <<mutex_, allocations, memory, logVars>>
  /\ UNCHANGED <<g_registry, wanted, debugMode, calls, admin>>

Erase(th) ==
  /\ step[th].at = "erase" /\ ~Logs(th)
  /\ EraseEntry(step[th].manager, step[th].address)
  /\ Unlock(step[th].manager) /\ Goto(th, "delete")
  /\ UNCHANGED <<g_registry, wanted, debugMode, calls, admin, logVars>>

Delete(th) ==
  /\ step[th].at = "delete"
  /\ memory' = [memory EXCEPT ![step[th].address] = Free]
  /\ step' = [step EXCEPT ![th] = Idle]
  /\ UNCHANGED <<g_registry, wanted, mutex_, debugMode, allocations, calls, admin, logVars>>

-----------------------------------------------------------------------------
\* reportLeaks logs every entry, in debug mode or not.
reportLeaks(th) ==
  /\ step[th].at = "idle" /\ ~Logs(th) /\ calls < MaxCalls
  /\ calls' = calls + 1
  /\ \E m \in Managers :
       /\ Lock(th, m)
       /\ step' = [step EXCEPT ![th] = [Idle EXCEPT !.at = "report", !.manager = m,
                                                    !.leaks = DOMAIN allocations[m]]]
  /\ UNCHANGED <<g_registry, wanted, debugMode, allocations, memory, admin, logVars>>

ReportOne(th) ==
  /\ step[th].at = "report" /\ ~Logs(th)
  /\ \E a \in step[th].leaks : step' = [step EXCEPT ![th].leaks = @ \ {a}]
  /\ EnterLog(th, 1)
  /\ UNCHANGED <<g_registry, wanted, mutex_, debugMode, allocations, memory, calls, admin,
                 logMutex, logChannels, minLogLevel, entries, written>>

ReportReturn(th) ==
  /\ step[th].at = "report" /\ ~Logs(th) /\ step[th].leaks = {}
  /\ Unlock(step[th].manager) /\ step' = [step EXCEPT ![th] = Idle]
  /\ UNCHANGED <<g_registry, wanted, debugMode, allocations, memory, calls, admin, logVars>>

\* Debug::Error by any thread; Warning differs in its level only.
Complain(th) ==
  /\ step[th].at = "idle" /\ ~Logs(th) /\ calls < MaxCalls
  /\ calls' = calls + 1
  /\ EnterLog(th, 3)
  /\ UNCHANGED <<g_registry, wanted, mutex_, debugMode, allocations, memory, step, admin,
                 logMutex, logChannels, minLogLevel, entries, written>>

-----------------------------------------------------------------------------
(* An administrator                                                        *)

Administer == admin < MaxAdmin /\ admin' = admin + 1 /\ UNCHANGED <<mutex_, step, calls>>

\* MemoryRegistry::Set with a manager of the program's own.
SetManager ==
  /\ g_registry' = Custom /\ wanted' = Custom
  /\ UNCHANGED <<mutex_, step, calls, admin, debugMode, allocations, memory, logVars>>

Reset ==
  /\ g_registry' = NoManager /\ wanted' = NoManager
  /\ UNCHANGED <<mutex_, step, calls, admin, debugMode, allocations, memory, logVars>>

setDebugMode(m) ==
  /\ Administer /\ debugMode' = [debugMode EXCEPT ![m] = ~@]
  /\ UNCHANGED <<g_registry, wanted, allocations, memory, logVars>>

clear(m) ==
  /\ Administer /\ mutex_[m] = Nobody
  /\ allocations' = [allocations EXCEPT ![m] = Empty]
  /\ memory' = [a \in Addresses |-> IF memory[a] # Free /\ memory[a].manager = m
                                      THEN [memory[a] EXCEPT !.listed = FALSE] ELSE memory[a]]
  /\ UNCHANGED <<g_registry, wanted, debugMode, logVars>>

ConfigureLog ==
  /\ Administer
  /\ \/ \E c \in Channels : RegisterChannel(c)
     \/ \E level \in {0, 2} : SetConfig(level) \/ InitLog(level)
     \/ Shutdown
  /\ UNCHANGED <<g_registry, wanted, debugMode, allocations, memory>>

\* What a thread does inside a call.
MemStep(th) ==
  \/ GetExchange(th) \/ allocate(th) \/ registerAllocation(th) \/ RegisterReturn(th)
  \/ unregisterAllocation(th) \/ Erase(th) \/ Delete(th) \/ ReportOne(th) \/ ReportReturn(th)
  \/ LogStep(th) /\ UNCHANGED <<g_registry, wanted, mutex_, debugMode, allocations, memory, step, calls, admin>>

MemNext ==
  \/ \E th \in LogThreads :
       \/ MemStep(th) \/ MemoryAllocator(th) \/ TaggedMemoryAllocator(th)
       \/ UniquePtr(th) \/ SharedPtr(th) \/ deallocate(th) \/ reportLeaks(th) \/ Complain(th)
  \/ SetManager \/ Reset \/ ConfigureLog
  \/ \E m \in Managers : setDebugMode(m) \/ clear(m)

-----------------------------------------------------------------------------
(* Properties                                                              *)

\* A manager lists an address exactly while a living object was registered there
\* with that manager, under that object's tag: an address that is deleted and
\* handed out again is never unregistered by the thread that deleted it, and an
\* object stays with the manager it was created under when the registry changes.
\* (clear() unlists everything.) And Get() never replaces a manager that Set()
\* has installed, however its load and its exchange interleave with Set() and
\* Reset().
LedgerExact ==
  /\ \A m \in Managers, a \in Addresses :
       IF a \in DOMAIN allocations[m]
         THEN memory[a] # Free /\ memory[a].manager = m /\ memory[a].tag = allocations[m][a]
         ELSE memory[a] # Free /\ memory[a].manager = m => ~memory[a].listed
  /\ wanted # NoManager => g_registry = wanted

\* Every call returns: the managers' mutexes are always taken before logMutex.
TrackedCallsReturn ==
  \A th \in LogThreads : step[th].at # "idle" \/ Logs(th) ~> step[th].at = "idle" /\ ~Logs(th)
=============================================================================
