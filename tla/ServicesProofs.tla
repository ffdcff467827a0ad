--------------------------- MODULE ServicesProofs ---------------------------
(***************************************************************************)
(* The services next to the task core, for every use of them: the legacy   *)
(* event queue, the transports' descriptors, the time client's Winsock     *)
(* calls and the timer loop.                                               *)
(***************************************************************************)
EXTENDS EventScheduler, TransportSockets, TimeClient, TimedLoop, FiniteSetTheorems, TLAPS

-----------------------------------------------------------------------------
(* EventScheduler                                                          *)

EventType == [id : EventIds, priority : Int, triggerTime : Nat, repeat : Intervals, key : Nat]

\* The front of a heap of the events q.
FrontOf(f, q) == IF q = {} THEN f = {} ELSE \E e \in Tops(q) : f = {e}

\* Keys are given out once, and the front is one of the heap's best events.
EventInv ==
  /\ events \in Nat /\ pass \in Nat /\ eventQueue \subseteq EventType
  /\ current.key \in Nat /\ current.due \in Nat
  /\ phase = "callback" => current.key < events
  /\ \A e \in eventQueue : e.key < events
  /\ \A e, f \in eventQueue : e.key = f.key => e = f
  /\ \A k \in returned \cup cancelled : k \in Nat /\ k < events
  /\ FrontOf(front, eventQueue)
  /\ settled => phase = "idle"

\* What the scheduler does to an event that it reschedules.
LEMMA Rescheduled ==
  ASSUME NEW e \in EventType, NEW t \in Nat
  PROVE  /\ [e EXCEPT !.triggerTime = t] \in EventType
         /\ [e EXCEPT !.triggerTime = t].key = e.key /\ [e EXCEPT !.triggerTime = t].repeat = e.repeat
BY DEF EventType

\* A rebuilt heap has a front.
LEMMA FrontsAreFronts ==
  ASSUME NEW q, NEW f \in Fronts(q)
  PROVE  FrontOf(f, q)
BY DEF Fronts, FrontOf

\* The front is an event of the queue, the only one of its key.
LEMMA FrontFacts ==
  ASSUME EventInv, NEW e \in front
  PROVE  /\ e \in eventQueue /\ front = {e} /\ e \in EventType
         /\ \A d \in eventQueue : ~Compare(e, d)
BY DEF EventInv, FrontOf, Tops

\* Compare is transitive.
LEMMA CompareTransitive ==
  ASSUME NEW a \in EventType, NEW b \in EventType, NEW c \in EventType, Compare(a, b), Compare(b, c)
  PROVE  Compare(a, c)
<1>1. a.priority \in Int /\ b.priority \in Int /\ c.priority \in Int
  BY DEF EventType
<1> QED BY <1>1 DEF Compare

LEMMA CompareIrreflexive ==
  ASSUME NEW a \in EventType PROVE ~Compare(a, a)
BY DEF Compare, EventType

\* push() leaves a front.
LEMMA PushFacts ==
  ASSUME EventInv, NEW new \in EventType, NEW q, NEW f,
         q = eventQueue \cup {new},
         f = IF \A e \in front : Compare(e, new) THEN {new} ELSE front
  PROVE  FrontOf(f, q)
<1>1. CASE eventQueue = {}
  <2>1. front = {} BY <1>1 DEF EventInv, FrontOf
  <2>2. q = {new} /\ f = {new} BY <1>1, <2>1
  <2> QED BY <2>2, CompareIrreflexive DEF FrontOf, Tops
<1>2. CASE eventQueue # {}
  <2>1. PICK e \in Tops(eventQueue) : front = {e} BY <1>2 DEF EventInv, FrontOf
  <2>2. e \in eventQueue /\ \A d \in eventQueue : ~Compare(e, d) BY <2>1 DEF Tops
  <2>3. eventQueue \subseteq EventType BY DEF EventInv
  <2>4. CASE Compare(e, new)
    <3>1. f = {new} BY <2>1, <2>4
    <3>2. \A d \in eventQueue : ~Compare(new, d) BY <2>2, <2>3, <2>4, CompareTransitive
    <3>3. new \in Tops(q) BY <3>2, CompareIrreflexive DEF Tops
    <3> QED BY <3>1, <3>3 DEF FrontOf
  <2>5. CASE ~Compare(e, new)
    <3>1. f = {e} BY <2>1, <2>5
    <3>2. e \in Tops(q) BY <2>2, <2>5 DEF Tops
    <3> QED BY <3>1, <3>2 DEF FrontOf
  <2> QED BY <2>4, <2>5
<1> QED BY <1>1, <1>2

\* The invariant and the property are kept together.
LEMMA EventsStep ==
  ASSUME EventInv, EventsAccounted, [EventsNext]_eventVars
  PROVE  EventInv' /\ EventsAccounted'
<1> USE EventAssumption
<1>1. ASSUME NEW id \in EventIds, NEW p \in Priorities, NEW t \in Instants, NEW r \in Intervals,
             scheduleEvent(id, p, t, r)
      PROVE  EventInv' /\ EventsAccounted'
  <2> DEFINE new == [id |-> id, priority |-> p, triggerTime |-> t, repeat |-> r, key |-> events]
  <2>1. new \in EventType /\ new.key = events BY DEF EventInv, EventType
  <2>2. /\ eventQueue' = eventQueue \cup {new} /\ events' = events + 1 /\ settled' = FALSE
        /\ front' = IF \A e \in front : Compare(e, new) THEN {new} ELSE front
        /\ UNCHANGED <<phase, pass, current, returned, cancelled, displaced>>
    BY <1>1 DEF scheduleEvent, Called
  <2> HIDE DEF new
  <2>3. \A e \in eventQueue : e.key \in Nat BY DEF EventInv, EventType
  <2>4. FrontOf(front', eventQueue') BY <2>1, <2>2, PushFacts
  <2>5. EventInv' BY <2>1, <2>2, <2>3, <2>4 DEF EventInv
  <2>6. EventsAccounted'
    <3>1. displaced' \/ \A k \in 0..events' - 1 :
            k \in returned' \/ k \in cancelled' \/ \E e \in eventQueue' : e.key = k
      <4> SUFFICES ASSUME ~displaced, NEW k \in 0..events
                   PROVE  k \in returned \/ k \in cancelled \/ \E e \in eventQueue' : e.key = k
        BY <2>2 DEF EventInv
      <4>1. CASE k = events BY <4>1, <2>1, <2>2
      <4>2. CASE k # events
        <5>1. k \in 0..events - 1 BY <4>2 DEF EventInv
        <5> QED BY <5>1, <2>2 DEF EventsAccounted
      <4> QED BY <4>1, <4>2
    <3>2. events \notin returned /\ events \notin cancelled BY DEF EventInv
    <3> QED BY <2>1, <2>2, <3>1, <3>2 DEF EventsAccounted
  <2> QED BY <2>5, <2>6
<1>2. ASSUME NEW now_ \in Instants, update(now_) PROVE EventInv' /\ EventsAccounted'
  BY <1>2 DEF update, EventInv, EventsAccounted
<1>3. CASE execute
  <2>1. PICK e \in front :
          /\ shouldTrigger(e, pass) /\ phase = "loop"
          /\ current' = [key |-> e.key, due |-> e.triggerTime]
          /\ phase' = "callback"
          /\ UNCHANGED <<eventQueue, front, pass, settled, events, returned, cancelled, displaced>>
    BY <1>3 DEF execute
  <2>2. e \in EventType BY FrontFacts
  <2>3. /\ current'.key \in Nat /\ current'.due \in Nat /\ current'.due <= pass
        /\ current'.key < events
    BY <2>1, <2>2, FrontFacts DEF EventInv, EventType, shouldTrigger
  <2>4. ~settled BY <2>1 DEF EventInv
  <2>5. EventInv' BY <2>1, <2>3, <2>4 DEF EventInv
  <2>6. EventsAccounted' BY <2>1, <2>3, <2>4 DEF EventsAccounted
  <2> QED BY <2>5, <2>6
<1>4. CASE CallbackThrows
  BY <1>4 DEF CallbackThrows, EventInv, EventsAccounted
<1>5. CASE Pop
  <2>1. PICK e \in front : front = {e} /\ e \in eventQueue /\ e \in EventType
    BY <1>5, FrontFacts DEF Pop
  <2>2. /\ eventQueue' = eventQueue \ {e} /\ front' \in Fronts(eventQueue')
        /\ returned' = returned \cup {current.key} /\ phase = "callback"
        /\ displaced' = (displaced \/ e.key # current.key)
        /\ phase' = "loop" /\ UNCHANGED <<pass, current, settled, events, cancelled>>
    BY <1>5, <2>1 DEF Pop
  <2>3. ~settled BY <2>2 DEF EventInv
  <2>4. FrontOf(front', eventQueue') BY <2>2, FrontsAreFronts
  <2>5. CASE ~displaced'
    <3>1. ~displaced /\ current.key = e.key BY <2>2, <2>5
    <3>3. EventInv' BY <2>2, <2>3, <2>4 DEF EventInv
    <3>4. \A f \in eventQueue' : f.key # e.key BY <2>1, <2>2 DEF EventInv
    <3>5. EventsAccounted' BY <2>2, <2>3, <3>1, <3>4 DEF EventsAccounted
    <3> QED BY <3>3, <3>5
  <2>6. CASE displaced'
    <3>1. EventsAccounted' BY <2>2, <2>3, <2>6 DEF EventsAccounted
    <3>2. EventInv' BY <2>2, <2>3, <2>4 DEF EventInv
    <3> QED BY <3>1, <3>2
  <2> QED BY <2>5, <2>6
<1>6. CASE PopOfNothing
  BY <1>6 DEF PopOfNothing, EventInv, EventsAccounted
<1>7. CASE UpdateEnd
  <2>1. EventInv' BY <1>7 DEF UpdateEnd, EventInv
  <2>2. \A d \in eventQueue : pass >= d.triggerTime =>
          \E f \in eventQueue : /\ pass < f.triggerTime
                                /\ \A g \in eventQueue : pass >= g.triggerTime => g.priority <= f.priority
    <3> SUFFICES ASSUME NEW d \in eventQueue
                 PROVE  \E f \in eventQueue : /\ pass < f.triggerTime
                                              /\ \A g \in eventQueue : g.priority <= f.priority
      OBVIOUS
    <3>1. PICK f \in front : TRUE BY DEF EventInv, FrontOf
    <3>2. /\ f \in eventQueue /\ f \in EventType
          /\ \A g \in eventQueue : ~Compare(f, g)
      BY <3>1, FrontFacts
    <3>3. ~shouldTrigger(f, pass) BY <1>7, <3>1 DEF UpdateEnd
    <3>4. pass < f.triggerTime BY <3>2, <3>3 DEF EventInv, EventType, shouldTrigger
    <3>5. ASSUME NEW g \in eventQueue PROVE g.priority <= f.priority
      <4>1. g.priority \in Int /\ f.priority \in Int BY <3>2 DEF EventInv, EventType
      <4>2. ~(f.priority < g.priority) BY <3>2, <4>1 DEF Compare
      <4> QED BY <4>1, <4>2
    <3> QED BY <3>2, <3>4, <3>5
  <2>3. EventsAccounted' BY <1>7, <2>2 DEF UpdateEnd, EventsAccounted
  <2> QED BY <2>1, <2>3
<1>8. ASSUME NEW id \in EventIds, cancelEvent(id) PROVE EventInv' /\ EventsAccounted'
  <2>1. /\ eventQueue' = {e \in eventQueue : e.id # id} /\ front' \in Fronts(eventQueue')
        /\ cancelled' = cancelled \cup {e.key : e \in eventQueue \ eventQueue'} /\ ~settled'
        /\ UNCHANGED <<phase, pass, current, events, returned, displaced>>
    BY <1>8 DEF cancelEvent, Called
  <2>2. FrontOf(front', eventQueue') BY <2>1, FrontsAreFronts
  <2>3. \A e \in eventQueue : e.key \in Nat BY DEF EventInv, EventType
  <2>4. EventInv' BY <2>1, <2>2, <2>3 DEF EventInv
  <2>5. EventsAccounted' BY <2>1 DEF EventsAccounted, EventInv
  <2> QED BY <2>4, <2>5
<1>9. ASSUME NEW id \in EventIds, NEW t \in Instants, rescheduleEvent(id, t)
      PROVE  EventInv' /\ EventsAccounted'
  <2> DEFINE moved(e) == IF e.id = id THEN [e EXCEPT !.triggerTime = t] ELSE e
  <2>1. \A e \in eventQueue : moved(e) \in EventType /\ moved(e).key = e.key /\ moved(e).repeat = e.repeat
    BY Rescheduled DEF EventInv
  <2>2. eventQueue' = {moved(e) : e \in eventQueue} /\ ~settled' /\ front' \in Fronts(eventQueue')
    BY <1>9 DEF rescheduleEvent, Called
  <2> HIDE DEF moved
  <2>3. UNCHANGED <<phase, pass, current, events, returned, cancelled, displaced>> BY <1>9 DEF rescheduleEvent
  <2>4. FrontOf(front', eventQueue') BY <2>2, FrontsAreFronts
  <2>5. EventInv' BY <2>1, <2>2, <2>3, <2>4 DEF EventInv
  <2>6. EventsAccounted' BY <2>1, <2>2, <2>3 DEF EventsAccounted
  <2> QED BY <2>5, <2>6
<1>10. CASE UNCHANGED eventVars BY <1>10 DEF eventVars, EventInv, EventsAccounted
<1> QED BY <1>1, <1>2, <1>3, <1>4, <1>5, <1>6, <1>7, <1>8, <1>9, <1>10 DEF EventsNext

\* The legacy EventScheduler starts no callback early, and until a callback makes
\* pop() remove another event it loses no event before it ran and runs none without
\* repeatInterval again; update() stops at no event that is below one that is due:
\* for every set of priorities and times, every sequence of calls, from callbacks
\* too, and callbacks that throw.
THEOREM EventsAlways == EventsInit /\ [][EventsNext]_eventVars => []EventsAccounted
<1>1. EventsInit => EventInv /\ EventsAccounted
  BY DEF EventsInit, EventInv, EventsAccounted, FrontOf
<1>2. EventInv /\ EventsAccounted /\ [EventsNext]_eventVars => (EventInv /\ EventsAccounted)'
  BY EventsStep
<1> QED BY <1>1, <1>2, PTL

-----------------------------------------------------------------------------
(* TransportSockets                                                        *)

\* A set of numbers that is not empty has a least one.
LEMMA LeastNumber ==
  ASSUME NEW T, T \subseteq Nat, T # {} PROVE Min(T) \in T
<1> DEFINE R == OpToRel(<, Nat)
<1>1. IsWellFoundedOn(R, Nat) BY NatLessThanWellFounded
<1>2. \A x, y \in Nat : <<y, x>> \in R <=> y < x BY DEF OpToRel
<1> HIDE DEF R
<1>3. PICK x \in T : \A y \in T : ~(<<y, x>> \in R) BY <1>1, WFMin
<1>4. ASSUME NEW y \in T PROVE x <= y
  <2>1. x \in Nat /\ y \in Nat OBVIOUS
  <2>2. ~(y < x) BY <1>2, <1>3, <1>4, <2>1
  <2> QED BY <2>1, <2>2
<1> QED BY <1>4 DEF Min

Places == {"idle", "create", "assign", "capture", "listen", "job", "invalidate", "connected"}

CallType == [at : Places, on : Transports, fd : Descriptors \cup {invalid_socket},
             for : {"none", "bind", "send", "receive", "close"}]

SocketTypes ==
  /\ open \subseteq Descriptors /\ overlapped \in BOOLEAN
  /\ m_socket \in [Transports -> Descriptors \cup {invalid_socket}]
  /\ call \in [SocketThreads -> CallType]
  /\ serving \in [Transports -> BOOLEAN]

\* Thread th is creating, binding or closing transport t.
Changes(th, t) ==
  call[th].on = t /\ (call[th].at \in {"create", "assign", "invalidate"} \/ call[th].for = "bind")

Closing(t) == \E th \in SocketThreads : call[th].at = "invalidate" /\ call[th].on = t

\* Descriptor d is the one transport t keeps.
Keeps(t, d) == m_socket[t] = d /\ d # invalid_socket /\ ~Closing(t)

Holds(th, d) == Held(th) /\ call[th].fd = d

\* Every open descriptor has one owner, or none if it leaked.
Owners ==
  /\ \A d \in open : \/ d \in leaked \/ (\E t \in Transports : Keeps(t, d))
                     \/ (\E th \in SocketThreads : Holds(th, d))
  /\ \A d \in leaked : /\ d \in open /\ (\A t \in Transports : ~Keeps(t, d))
                       /\ (\A th \in SocketThreads : ~Holds(th, d))
  /\ \A t \in Transports : \A d \in Descriptors : Keeps(t, d) => d \in open
  /\ \A th \in SocketThreads : Held(th) => call[th].fd \in open
  /\ \A t, u \in Transports : \A d \in Descriptors : Keeps(t, d) /\ Keeps(u, d) => t = u
  /\ \A th, u \in SocketThreads : Held(th) /\ Held(u) /\ call[th].fd = call[u].fd => th = u
  /\ \A t \in Transports, th \in SocketThreads : Held(th) => ~Keeps(t, call[th].fd)

\* What threads that change a transport know of it.
Turns ==
  /\ \A t \in Transports : \A th, u \in SocketThreads : Changes(th, t) /\ Changes(u, t) => th = u
  /\ \A th \in SocketThreads :
       call[th].at \in {"create", "assign"} => m_socket[call[th].on] = invalid_socket
  /\ \A th \in SocketThreads : call[th].at = "idle" => call[th] = Idle

Bindings ==
  /\ \A d \in bound : \E t \in Transports : Keeps(t, d)
  /\ \A t \in Transports : serving[t] => Keeps(t, m_socket[t]) /\ m_socket[t] \in bound

SocketInv == SocketTypes /\ (~overlapped => Owners /\ Turns /\ Bindings)

\* A step of thread th that opens and closes nothing and lets the transports keep
\* what they have.
LEMMA OwnersSame ==
  ASSUME Owners, UNCHANGED <<open, m_socket, leaked>>,
         \A u \in SocketThreads : (Held(u)' <=> Held(u)) /\ (Held(u) => call'[u].fd = call[u].fd),
         \A t \in Transports : Closing(t)' <=> Closing(t)
  PROVE  Owners' /\ \A t \in Transports, d \in Descriptors : Keeps(t, d)' <=> Keeps(t, d)
<1>1. \A t \in Transports : \A d : Keeps(t, d)' <=> Keeps(t, d) BY DEF Keeps
<1>2. \A u \in SocketThreads : \A d : Holds(u, d)' <=> Holds(u, d) BY DEF Holds
<1>3. \A t \in Transports, u \in SocketThreads :
        Held(u) => (Keeps(t, call[u].fd)' <=> Keeps(t, call[u].fd))
  BY DEF Keeps
<1> QED BY <1>1, <1>2, <1>3 DEF Owners

\* The threads other than th are where they were.
LEMMA OtherThreads ==
  ASSUME SocketTypes, NEW th \in SocketThreads, NEW c, call' = [call EXCEPT ![th] = c]
  PROVE  /\ call'[th] = c
         /\ \A u \in SocketThreads \ {th} :
              /\ call'[u] = call[u] /\ (Held(u)' <=> Held(u))
              /\ \A t : Changes(u, t)' <=> Changes(u, t)
BY DEF SocketTypes, Held, Changes

\* bind, send and receive begin, or find the socket there.
LEMMA EnsureInv ==
  ASSUME SocketInv, ~overlapped, NEW th \in SocketThreads, NEW t \in Transports,
         NEW for \in {"bind", "send", "receive"}, ensure_socket_created(th, t, for)
  PROVE  SocketInv'
<1> DEFINE c == [Idle EXCEPT !.at = IF m_socket[t] = invalid_socket THEN "create" ELSE "capture",
                             !.on = t, !.for = for]
<1>0. SocketTypes /\ Owners /\ Turns /\ Bindings BY DEF SocketInv
<1>1. call[th].at = "idle" /\ call' = [call EXCEPT ![th] = c] /\ UNCHANGED <<open, bound, m_socket, leaked, serving>>
  BY DEF ensure_socket_created
<1>2. /\ c \in CallType /\ c.on = t /\ c.for = for /\ c.at \in {"create", "capture"}
      /\ c.at = "create" => m_socket[t] = invalid_socket
  BY DEF Idle, CallType, Places
<1>3. overlapped' \in BOOLEAN BY <1>0 DEF ensure_socket_created, SocketTypes
<1> HIDE DEF c
<1>4. SocketTypes' BY <1>0, <1>1, <1>2, <1>3 DEF SocketTypes
<1>5. ~Held(th) /\ ~Held(th)' BY <1>0, <1>1, <1>2, OtherThreads DEF Held
<1>6. \A v \in Transports : Closing(v)' <=> Closing(v)
  BY <1>0, <1>1, <1>2, OtherThreads DEF Closing
<1>7. Owners' /\ \A v \in Transports, d \in Descriptors : Keeps(v, d)' <=> Keeps(v, d)
  BY <1>0, <1>1, <1>5, <1>6, OtherThreads, OwnersSame
<1>8. ASSUME ~overlapped' PROVE Turns'
  <2>1. c.at = "create" \/ for = "bind" => ~Meets(th, t)
    BY <1>8, <1>2 DEF ensure_socket_created, c, Idle
  <2>2. Changes(th, t)' => \A u \in SocketThreads \ {th} : ~Changes(u, t)
    BY <1>0, <1>1, <1>2, <2>1, OtherThreads DEF Changes, Meets
  <2>3. \A v \in Transports \ {t} : ~Changes(th, v)' BY <1>0, <1>1, <1>2, OtherThreads DEF Changes
  <2>4. ASSUME NEW v \in Transports, NEW u \in SocketThreads, NEW w \in SocketThreads,
               Changes(u, v)', Changes(w, v)'
        PROVE  u = w
    <3>1. CASE u # th /\ w # th
      <4>1. Changes(u, v) /\ Changes(w, v) BY <1>0, <1>1, <2>4, <3>1, OtherThreads
      <4> QED BY <1>0, <4>1 DEF Turns
    <3>2. CASE u = th /\ w # th
      <4>1. Changes(w, v) BY <1>0, <1>1, <2>4, <3>2, OtherThreads
      <4> QED BY <2>2, <2>3, <2>4, <3>2, <4>1
    <3>3. CASE u # th /\ w = th
      <4>1. Changes(u, v) BY <1>0, <1>1, <2>4, <3>3, OtherThreads
      <4> QED BY <2>2, <2>3, <2>4, <3>3, <4>1
    <3> QED BY <3>1, <3>2, <3>3
  <2>5. \A u \in SocketThreads :
          call'[u].at \in {"create", "assign"} => m_socket'[call'[u].on] = invalid_socket
    BY <1>0, <1>1, <1>2, OtherThreads DEF Turns
  <2>6. \A u \in SocketThreads : call'[u].at = "idle" => call'[u] = Idle
    BY <1>0, <1>1, <1>2, OtherThreads DEF Turns
  <2>7. Idle' = Idle BY DEF Idle
  <2> QED BY <2>4, <2>5, <2>6, <2>7 DEF Turns
<1>9. Bindings' BY <1>0, <1>1, <1>6 DEF Bindings, Keeps
<1> QED BY <1>4, <1>7, <1>8, <1>9 DEF SocketInv

\* The threads that change a transport, after a step that begins no change.
LEMMA TurnsSame ==
  ASSUME SocketTypes, Turns, NEW th \in SocketThreads, NEW c, call' = [call EXCEPT ![th] = c],
         \A t \in Transports : Changes(th, t)' => Changes(th, t),
         c.at = "create" => FALSE,
         c.at = "assign" => call[th].at = "create" /\ c.on = call[th].on,
         c.at = "idle" => c = Idle,
         \A u \in SocketThreads : call'[u].at \in {"create", "assign"} =>
            m_socket'[call'[u].on] = m_socket[call'[u].on]
  PROVE  Turns'
<1>1. ASSUME NEW v \in Transports, NEW u \in SocketThreads, NEW w \in SocketThreads,
             Changes(u, v)', Changes(w, v)'
      PROVE  u = w
  <2>1. Changes(u, v) BY <1>1, OtherThreads
  <2>2. Changes(w, v) BY <1>1, OtherThreads
  <2> QED BY <2>1, <2>2 DEF Turns
<1>2. ASSUME NEW u \in SocketThreads, call'[u].at \in {"create", "assign"}
      PROVE  m_socket'[call'[u].on] = invalid_socket
  <2>1. CASE u = th BY <1>2, <2>1, OtherThreads DEF Turns
  <2>2. CASE u # th BY <1>2, <2>2, OtherThreads DEF Turns
  <2> QED BY <2>1, <2>2
<1>3. \A u \in SocketThreads : call'[u].at = "idle" => call'[u] = Idle
  BY OtherThreads DEF Turns
<1>4. Idle' = Idle BY DEF Idle
<1> QED BY <1>1, <1>2, <1>3, <1>4 DEF Turns

\* The idle thread changes nothing.
LEMMA IdleFacts == /\ Idle \in CallType /\ Idle.at = "idle" /\ Idle.for = "none"
                   /\ Idle.fd = invalid_socket
BY DEF Idle, CallType, Places, Transports

\* ::bind and ::listen work on a socket that the transport keeps: the thread that
\* binds is the only one that changes it.
LEMMA BindInv ==
  ASSUME SocketInv, ~overlapped, NEW th \in SocketThreads, UdpBind(th) \/ TcpBind(th)
  PROVE  SocketInv'
<1>0. SocketTypes /\ Owners /\ Turns /\ Bindings BY DEF SocketInv
<1>t. PICK t \in Transports : t = call[th].on BY <1>0 DEF SocketTypes, CallType
<1> USE <1>t
<1>1. /\ call[th].at \in {"capture", "listen"} /\ call[th].for = "bind"
      /\ UNCHANGED <<open, m_socket, leaked, overlapped>>
      /\ \/ UNCHANGED <<bound, serving>>
         \/ /\ m_socket[t] \in open /\ bound' = bound \cup {m_socket[t]}
            /\ serving' = [serving EXCEPT ![t] = TRUE]
  BY DEF UdpBind, TcpBind, Transports
<1>2. PICK c \in {Idle, [call[th] EXCEPT !.at = "listen"]} : call' = [call EXCEPT ![th] = c]
  BY DEF UdpBind, TcpBind, Return, Goto
<1>3. call[th] \in CallType BY <1>0 DEF SocketTypes
<1>4. /\ c \in CallType /\ c.at \in {"idle", "listen"} /\ (c.at = "idle" => c = Idle)
      /\ (c.for = "bind" => c.on = t)
  BY <1>2, <1>3, IdleFacts DEF CallType, Places
<1>5. SocketTypes' BY <1>0, <1>1, <1>2, <1>4 DEF SocketTypes
<1>6. ~Held(th) /\ ~Held(th)' BY <1>0, <1>1, <1>2, <1>4, OtherThreads DEF Held
<1>7. \A v \in Transports : Closing(v)' <=> Closing(v)
  BY <1>0, <1>1, <1>2, <1>4, OtherThreads DEF Closing
<1>8. Owners' /\ \A v \in Transports, d \in Descriptors : Keeps(v, d)' <=> Keeps(v, d)
  BY <1>0, <1>1, <1>2, <1>6, <1>7, OtherThreads, OwnersSame
<1>9. Changes(th, t) /\ \A v \in Transports : Changes(th, v)' => Changes(th, v)
  BY <1>0, <1>1, <1>2, <1>4, OtherThreads DEF Changes
<1>10. Turns'
  <2>1. \A u \in SocketThreads : call'[u].at \in {"create", "assign"} =>
            m_socket'[call'[u].on] = m_socket[call'[u].on]
    BY <1>1
  <2> QED BY <1>0, <1>2, <1>4, <1>9, <2>1, TurnsSame
<1>11. ~Closing(t) BY <1>0, <1>1, <1>9 DEF Turns, Closing, Changes
<1>12. Bindings'
  <2>1. CASE UNCHANGED <<bound, serving>> BY <1>0, <1>1, <1>7, <2>1 DEF Bindings, Keeps
  <2>2. CASE /\ m_socket[t] \in open /\ bound' = bound \cup {m_socket[t]}
             /\ serving' = [serving EXCEPT ![t] = TRUE]
    <3>1. m_socket[t] # invalid_socket BY <1>0, <2>2, SocketAssumption DEF SocketTypes
    <3>2. Keeps(t, m_socket[t])' BY <1>1, <1>7, <1>11, <3>1 DEF Keeps
    <3>3. \A v \in Transports : \A d : Keeps(v, d)' <=> Keeps(v, d) BY <1>1, <1>7 DEF Keeps
    <3>4. \A v \in Transports \ {t} : serving'[v] = serving[v] BY <1>0, <2>2 DEF SocketTypes
    <3>5. \A v \in Transports : Keeps(v, m_socket[v])' <=> Keeps(v, m_socket[v])
      BY <1>1, <1>7 DEF Keeps
    <3>6. Keeps(t, m_socket[t]) BY <1>1, <1>11, <3>1 DEF Keeps
    <3> QED BY <1>0, <1>1, <2>2, <3>2, <3>3, <3>4, <3>5, <3>6 DEF Bindings
  <2> QED BY <1>1, <2>1, <2>2
<1> QED BY <1>5, <1>8, <1>10, <1>12 DEF SocketInv

\* The jobs begin and end.
LEMMA JobInv ==
  ASSUME SocketInv, ~overlapped, NEW th \in SocketThreads, Capture(th) \/ JobEnds(th)
  PROVE  SocketInv'
<1>0. SocketTypes /\ Owners /\ Turns /\ Bindings BY DEF SocketInv
<1>1. /\ call[th].at \in {"capture", "job"} /\ UNCHANGED <<open, bound, m_socket, leaked, serving, overlapped>>
      /\ call[th] \in CallType
  BY <1>0 DEF Capture, JobEnds, SocketTypes
<1>2. PICK c \in {Idle, [call[th] EXCEPT !.at = "job", !.fd = m_socket[call[th].on]]} :
        /\ call' = [call EXCEPT ![th] = c]
  BY DEF Capture, JobEnds, Return
<1>3. m_socket[call[th].on] \in Descriptors \cup {invalid_socket} BY <1>0, <1>1 DEF SocketTypes, CallType
<1>4. /\ c \in CallType /\ c.at \in {"idle", "job"} /\ (c.at = "idle" => c = Idle)
      /\ (c.for = "bind" => call[th].for = "bind" /\ c.on = call[th].on)
  BY <1>1, <1>2, <1>3, IdleFacts DEF CallType, Places
<1>5. SocketTypes' BY <1>0, <1>1, <1>2, <1>4 DEF SocketTypes
<1>6. ~Held(th) /\ ~Held(th)' BY <1>0, <1>1, <1>2, <1>4, OtherThreads DEF Held
<1>7. \A v \in Transports : Closing(v)' <=> Closing(v)
  BY <1>0, <1>1, <1>2, <1>4, OtherThreads DEF Closing
<1>8. Owners' BY <1>0, <1>1, <1>2, <1>6, <1>7, OtherThreads, OwnersSame
<1>9. \A v \in Transports : Changes(th, v)' => Changes(th, v)
  BY <1>0, <1>1, <1>2, <1>4, OtherThreads DEF Changes
<1>10. Turns'
  <2>1. \A u \in SocketThreads : call'[u].at \in {"create", "assign"} =>
            m_socket'[call'[u].on] = m_socket[call'[u].on]
    BY <1>1
  <2> QED BY <1>0, <1>2, <1>4, <1>9, <2>1, TurnsSame
<1>11. Bindings' BY <1>0, <1>1, <1>7 DEF Bindings, Keeps
<1> QED BY <1>5, <1>8, <1>10, <1>11 DEF SocketInv

\* ::socket and ::accept: the new descriptor was not in use, and its thread holds it.
LEMMA OpenInv ==
  ASSUME SocketInv, ~overlapped, NEW th \in SocketThreads,
         create_socket(th) \/ Accept(th) \/ TcpSend(th)
  PROVE  SocketInv'
<1>0. SocketTypes /\ Owners /\ Turns /\ Bindings BY DEF SocketInv
<1>1. /\ call[th].at \in {"create", "job", "idle"} /\ CanOpen /\ open' = open \cup {Lowest}
      /\ UNCHANGED <<bound, m_socket, leaked, serving, overlapped>> /\ call[th] \in CallType
  BY <1>0 DEF create_socket, Accept, TcpSend, SocketTypes
<1>2. PICK new \in Descriptors : new = Lowest /\ new \notin open /\ new # invalid_socket
  BY <1>1, LeastNumber, SocketAssumption DEF CanOpen, Lowest
<1>3. PICK c \in CallType :
        /\ call' = [call EXCEPT ![th] = c] /\ c.fd = new /\ c.at \in {"assign", "connected"}
        /\ c.at = "assign" => call[th].at = "create" /\ c.on = call[th].on
        /\ c.for = "bind" => call[th].for = "bind" /\ c.on = call[th].on
  <2>1. CASE create_socket(th)
    <3> DEFINE c == [call[th] EXCEPT !.at = "assign", !.fd = new]
    <3>1. /\ c \in CallType /\ c.fd = new /\ c.at = "assign" /\ c.on = call[th].on
          /\ c.for = call[th].for /\ call[th].at = "create"
      BY <1>1, <2>1 DEF CallType, Places, create_socket
    <3>2. call' = [call EXCEPT ![th] = c] BY <1>2, <2>1 DEF create_socket
    <3> QED BY <3>1, <3>2
  <2>2. CASE Accept(th)
    <3> DEFINE c == [call[th] EXCEPT !.at = "connected", !.fd = new]
    <3>1. /\ c \in CallType /\ c.fd = new /\ c.at = "connected" /\ c.on = call[th].on
          /\ c.for = call[th].for
      BY <1>1 DEF CallType, Places
    <3>2. call' = [call EXCEPT ![th] = c] BY <1>2, <2>2 DEF Accept
    <3> QED BY <3>1, <3>2
  <2>3. CASE TcpSend(th)
    <3> DEFINE c == [at |-> "connected", on |-> "tcp", fd |-> new, for |-> "send"]
    <3>1. c \in CallType /\ c.fd = new /\ c.at = "connected" /\ c.for = "send"
      BY DEF CallType, Places, Transports
    <3>2. call' = [call EXCEPT ![th] = c] BY <1>2, <2>3 DEF TcpSend
    <3> QED BY <3>1, <3>2
  <2> QED BY <2>1, <2>2, <2>3
<1>4. SocketTypes' BY <1>0, <1>1, <1>2, <1>3 DEF SocketTypes
<1>5. ~Held(th) /\ Held(th)' /\ call'[th] = c BY <1>0, <1>1, <1>3, OtherThreads DEF Held
<1>6. \A u \in SocketThreads \ {th} : call'[u] = call[u] /\ (Held(u)' <=> Held(u))
  BY <1>0, <1>3, OtherThreads
<1>7. \A v \in Transports : Closing(v)' <=> Closing(v)
  BY <1>1, <1>3, <1>5, <1>6 DEF Closing
<1>8. \A v \in Transports : \A d : Keeps(v, d)' <=> Keeps(v, d) BY <1>1, <1>7 DEF Keeps
<1>9. \A v \in Transports : ~Keeps(v, new) BY <1>0, <1>2 DEF Owners
<1>10. Owners'
  <2>1. \A d \in open' : d \in leaked' \/ (\E v \in Transports : Keeps(v, d)') \/ (\E u \in SocketThreads : Holds(u, d)')
    <3> SUFFICES ASSUME NEW d \in open'
                 PROVE  d \in leaked' \/ (\E v \in Transports : Keeps(v, d)') \/ (\E u \in SocketThreads : Holds(u, d)')
      OBVIOUS
    <3>1. CASE d = new BY <1>3, <1>5, <3>1 DEF Holds
    <3>2. CASE \E v \in Transports : Keeps(v, d) BY <1>8, <3>2
    <3>3. CASE \E u \in SocketThreads : Holds(u, d)
      BY <1>5, <1>6, <3>3 DEF Holds
    <3>4. leaked' = leaked BY <1>1
    <3> QED BY <1>0, <1>1, <1>2, <3>1, <3>2, <3>3, <3>4 DEF Owners
  <2>2. \A v \in Transports : \A d \in Descriptors : Keeps(v, d)' => d \in open'
    BY <1>0, <1>1, <1>8 DEF Owners
  <2>3. \A u \in SocketThreads : Held(u)' => call'[u].fd \in open'
    BY <1>0, <1>1, <1>2, <1>3, <1>5, <1>6 DEF Owners
  <2>4. \A v, w \in Transports : \A d \in Descriptors : Keeps(v, d)' /\ Keeps(w, d)' => v = w
    BY <1>0, <1>8 DEF Owners
  <2>5. \A u, w \in SocketThreads : Held(u)' /\ Held(w)' /\ call'[u].fd = call'[w].fd => u = w
    BY <1>0, <1>2, <1>3, <1>5, <1>6 DEF Owners
  <2>6. ASSUME NEW v \in Transports, NEW u \in SocketThreads, Held(u)'
        PROVE  ~Keeps(v, call[u].fd)'
    <3>1. CASE u = th BY <1>1, <1>3, <1>5, <1>7, <1>9, <3>1 DEF Keeps
    <3>2. CASE u # th BY <1>0, <1>1, <1>6, <1>7, <2>6, <3>2 DEF Owners, Keeps
    <3> QED BY <3>1, <3>2
  <2>8. ASSUME NEW d \in leaked'
        PROVE  /\ d \in open' /\ \A v \in Transports : ~Keeps(v, d)'
               /\ \A u \in SocketThreads : ~Holds(u, d)'
    BY <1>0, <1>1, <1>2, <1>3, <1>5, <1>6, <1>8, <2>8 DEF Owners, Holds
  <2> QED BY <2>1, <2>2, <2>3, <2>4, <2>5, <2>6, <2>8 DEF Owners
<1>11. Turns'
  <2>1. \A v \in Transports : Changes(th, v)' => Changes(th, v) BY <1>3, <1>5 DEF Changes
  <2>2. \A u \in SocketThreads : call'[u].at \in {"create", "assign"} =>
            m_socket'[call'[u].on] = m_socket[call'[u].on]
    BY <1>1
  <2> QED BY <1>0, <1>3, <2>1, <2>2, TurnsSame
<1>12. Bindings' BY <1>0, <1>1, <1>7, <1>8 DEF Bindings, Keeps
<1> QED BY <1>4, <1>10, <1>11, <1>12 DEF SocketInv

\* ::socket failed: the transport had none, and has none.
LEMMA FailInv ==
  ASSUME SocketInv, ~overlapped, NEW th \in SocketThreads, CreateFails(th)
  PROVE  SocketInv'
<1>0. SocketTypes /\ Owners /\ Turns /\ Bindings BY DEF SocketInv
<1>1. /\ call[th].at = "create" /\ UNCHANGED <<open, bound, leaked, serving, overlapped>>
      /\ call' = [call EXCEPT ![th] = Idle]
  BY DEF CreateFails, Return
<1>2. m_socket' = m_socket
  <2>1. m_socket[call[th].on] = invalid_socket BY <1>0, <1>1 DEF Turns
  <2> QED BY <1>0, <2>1 DEF CreateFails, SocketTypes
<1>3. SocketTypes' BY <1>0, <1>1, <1>2, IdleFacts DEF SocketTypes
<1>4. ~Held(th) /\ ~Held(th)' BY <1>0, <1>1, IdleFacts, OtherThreads DEF Held
<1>5. \A v \in Transports : Closing(v)' <=> Closing(v)
  BY <1>0, <1>1, IdleFacts, OtherThreads DEF Closing
<1>6. Owners' BY <1>0, <1>1, <1>2, <1>4, <1>5, OtherThreads, OwnersSame
<1>7. \A v \in Transports : Changes(th, v)' => Changes(th, v)
  BY <1>0, <1>1, IdleFacts, OtherThreads DEF Changes
<1>8. Turns' BY <1>0, <1>1, <1>2, <1>7, IdleFacts, TurnsSame
<1>9. Bindings' BY <1>0, <1>1, <1>2, <1>5 DEF Bindings, Keeps
<1> QED BY <1>3, <1>6, <1>8, <1>9 DEF SocketInv

\* Assign hands the descriptor to the transport, which had none.
LEMMA AssignInv ==
  ASSUME SocketInv, ~overlapped, NEW th \in SocketThreads, Assign(th)
  PROVE  SocketInv'
<1>0. SocketTypes /\ Owners /\ Turns /\ Bindings BY DEF SocketInv
<1>1. call[th] \in CallType /\ call[th].at = "assign" BY <1>0 DEF SocketTypes, Assign
<1>2. PICK t \in Transports : t = call[th].on BY <1>1 DEF CallType
<1>3. PICK new \in Descriptors : new = call[th].fd /\ new \in open /\ new # invalid_socket
  BY <1>0, <1>1, SocketAssumption DEF Owners, Held, SocketTypes
<1> DEFINE c == [call[th] EXCEPT !.at = "capture", !.fd = invalid_socket]
<1>4. c \in CallType /\ c.at = "capture" /\ c.on = t /\ c.for = call[th].for
  BY <1>1, <1>2 DEF CallType, Places
<1>5. /\ call' = [call EXCEPT ![th] = c] /\ m_socket' = [m_socket EXCEPT ![t] = new]
      /\ UNCHANGED <<open, bound, leaked, serving, overlapped>>
  BY <1>2, <1>3 DEF Assign
<1> HIDE DEF c
<1>6. SocketTypes' BY <1>0, <1>4, <1>5 DEF SocketTypes
<1>7. call'[th] = c /\ Held(th) /\ ~Held(th)' BY <1>0, <1>1, <1>4, <1>5, OtherThreads DEF Held
<1>8. \A u \in SocketThreads \ {th} : call'[u] = call[u] /\ (Held(u)' <=> Held(u))
  BY <1>0, <1>5, OtherThreads
<1>9. \A v \in Transports : Closing(v)' <=> Closing(v) BY <1>1, <1>4, <1>7, <1>8 DEF Closing
<1>10. Changes(th, t) /\ m_socket[t] = invalid_socket BY <1>0, <1>1, <1>2 DEF Changes, Turns
<1>11. ~Closing(t) BY <1>0, <1>1, <1>10 DEF Turns, Closing, Changes
<1>12. m_socket'[t] = new /\ \A v \in Transports \ {t} : m_socket'[v] = m_socket[v]
  BY <1>0, <1>5 DEF SocketTypes
<1>13. /\ \A d : Keeps(t, d)' <=> d = new
       /\ \A d : ~Keeps(t, d)
       /\ \A v \in Transports \ {t} : \A d : Keeps(v, d)' <=> Keeps(v, d)
  BY <1>3, <1>9, <1>10, <1>11, <1>12 DEF Keeps
<1>14. Owners'
  <2>1. \A d \in open' : d \in leaked' \/ (\E v \in Transports : Keeps(v, d)') \/ (\E u \in SocketThreads : Holds(u, d)')
    <3> SUFFICES ASSUME NEW d \in open
                 PROVE  d \in leaked' \/ (\E v \in Transports : Keeps(v, d)') \/ (\E u \in SocketThreads : Holds(u, d)')
      BY <1>5
    <3>1. CASE d = new BY <1>13, <3>1
    <3>2. CASE \E v \in Transports : Keeps(v, d) BY <1>13, <3>2
    <3>3. CASE d # new /\ \E u \in SocketThreads : Holds(u, d)
      BY <1>3, <1>8, <3>3 DEF Holds
    <3>4. leaked' = leaked BY <1>5
    <3> QED BY <1>0, <3>1, <3>2, <3>3, <3>4 DEF Owners
  <2>2. \A v \in Transports : \A d \in Descriptors : Keeps(v, d)' => d \in open'
    BY <1>0, <1>3, <1>5, <1>13 DEF Owners
  <2>3. \A u \in SocketThreads : Held(u)' => call'[u].fd \in open'
    BY <1>0, <1>5, <1>7, <1>8 DEF Owners
  <2>4. \A v \in Transports : ~Keeps(v, new) BY <1>0, <1>3, <1>7 DEF Owners
  <2>5. \A v, w \in Transports : \A d \in Descriptors : Keeps(v, d)' /\ Keeps(w, d)' => v = w
    BY <1>0, <1>13, <2>4 DEF Owners
  <2>6. \A u, w \in SocketThreads : Held(u)' /\ Held(w)' /\ call'[u].fd = call'[w].fd => u = w
    BY <1>0, <1>7, <1>8 DEF Owners
  <2>7. ASSUME NEW v \in Transports, NEW u \in SocketThreads, Held(u)'
        PROVE  ~Keeps(v, call[u].fd)'
    <3>1. u # th /\ call'[u] = call[u] /\ Held(u) BY <1>7, <1>8, <2>7
    <3>2. CASE v = t
      <4>1. call[u].fd # new BY <1>0, <1>3, <1>7, <3>1 DEF Owners
      <4> QED BY <1>12, <3>1, <3>2, <4>1 DEF Keeps
    <3>3. CASE v # t BY <1>0, <1>9, <1>12, <3>1, <3>3 DEF Owners, Keeps
    <3> QED BY <3>2, <3>3
  <2>8. ASSUME NEW d \in leaked'
        PROVE  /\ d \in open' /\ \A v \in Transports : ~Keeps(v, d)'
               /\ \A u \in SocketThreads : ~Holds(u, d)'
    BY <1>0, <1>3, <1>5, <1>7, <1>8, <1>13, <2>8 DEF Owners, Holds
  <2> QED BY <2>1, <2>2, <2>3, <2>5, <2>6, <2>7, <2>8 DEF Owners
<1>15. Turns'
  <2>1. \A v \in Transports : Changes(th, v)' => Changes(th, v)
    BY <1>1, <1>2, <1>4, <1>7 DEF Changes
  <2>2. ASSUME NEW u \in SocketThreads, call'[u].at \in {"create", "assign"}
        PROVE  m_socket'[call'[u].on] = m_socket[call'[u].on]
    <3>1. u # th /\ call'[u] = call[u] BY <1>4, <1>7, <1>8, <2>2
    <3>2. call[u].on \in Transports BY <1>0 DEF SocketTypes, CallType
    <3>3. call[u].on # t
      <4>1. call[u].on = t => Changes(u, t) BY <2>2, <3>1 DEF Changes
      <4> QED BY <1>0, <1>10, <3>1, <4>1 DEF Turns
    <3> QED BY <1>12, <3>1, <3>2, <3>3
  <2> QED BY <1>0, <1>4, <1>5, <2>1, <2>2, TurnsSame
<1>16. Bindings'
  <2>1. \A v \in Transports : serving[v] => v # t BY <1>0, <1>10 DEF Bindings, Keeps
  <2>2. \A v \in Transports \ {t} : Keeps(v, m_socket[v])' <=> Keeps(v, m_socket[v])
    BY <1>9, <1>12 DEF Keeps
  <2> QED BY <1>0, <1>5, <1>12, <1>13, <2>1, <2>2 DEF Bindings
<1> QED BY <1>6, <1>14, <1>15, <1>16 DEF SocketInv

\* close() takes the transport's descriptor and no other.
LEMMA CloseInv ==
  ASSUME SocketInv, ~overlapped, NEW th \in SocketThreads, NEW t \in Transports, CloseSocket(th, t)
  PROVE  SocketInv'
<1> DEFINE c == [Idle EXCEPT !.at = "invalidate", !.on = t, !.for = "close"]
<1>0. SocketTypes /\ Owners /\ Turns /\ Bindings BY DEF SocketInv
<1>1. PICK old \in Descriptors : old = m_socket[t] /\ old # invalid_socket
  BY <1>0 DEF CloseSocket, SocketTypes
<1>2. /\ call[th].at = "idle" /\ open' = open \ {old} /\ bound' = bound \ {old}
      /\ call' = [call EXCEPT ![th] = c] /\ UNCHANGED <<m_socket, leaked>>
      /\ serving' = [serving EXCEPT ![t] = FALSE] /\ overlapped' = (overlapped \/ Meets(th, t))
  BY <1>1 DEF CloseSocket
<1>3. c \in CallType /\ c.at = "invalidate" /\ c.on = t /\ c.for = "close"
  BY DEF Idle, CallType, Places, Transports
<1> HIDE DEF c
<1>4. SocketTypes' BY <1>0, <1>2, <1>3 DEF SocketTypes
<1> SUFFICES ASSUME ~overlapped' PROVE Owners' /\ Turns' /\ Bindings' BY <1>4 DEF SocketInv
<1>5. call'[th] = c /\ ~Held(th) /\ ~Held(th)' BY <1>0, <1>2, <1>3, OtherThreads DEF Held
<1>6. \A u \in SocketThreads \ {th} : call'[u] = call[u] /\ (Held(u)' <=> Held(u))
  BY <1>0, <1>2, OtherThreads
<1>7. \A u \in SocketThreads \ {th} : ~Changes(u, t) BY <1>2 DEF Meets, Changes
<1>8. ~Closing(t) /\ Closing(t)' /\ \A v \in Transports \ {t} : Closing(v)' <=> Closing(v)
  BY <1>2, <1>3, <1>5, <1>6, <1>7 DEF Closing, Changes
<1>9. /\ \A d : ~Keeps(t, d)'
      /\ \A d : Keeps(t, d) <=> d = old
      /\ \A v \in Transports \ {t} : \A d : Keeps(v, d)' <=> Keeps(v, d)
  BY <1>1, <1>2, <1>8 DEF Keeps
<1>10. Owners'
  <2>1. \A d \in open' : d \in leaked' \/ (\E v \in Transports : Keeps(v, d)') \/ (\E u \in SocketThreads : Holds(u, d)')
    <3> SUFFICES ASSUME NEW d \in open, d # old
                 PROVE  d \in leaked' \/ (\E v \in Transports : Keeps(v, d)') \/ (\E u \in SocketThreads : Holds(u, d)')
      BY <1>2
    <3>1. CASE \E v \in Transports : Keeps(v, d) BY <1>9, <3>1
    <3>2. CASE \E u \in SocketThreads : Holds(u, d) BY <1>5, <1>6, <3>2 DEF Holds
    <3>3. leaked' = leaked BY <1>2
    <3> QED BY <1>0, <3>1, <3>2, <3>3 DEF Owners
  <2>2. \A v \in Transports : \A d \in Descriptors : Keeps(v, d)' => d \in open'
    BY <1>0, <1>2, <1>9 DEF Owners
  <2>3. \A u \in SocketThreads : Held(u)' => call'[u].fd \in open'
    BY <1>0, <1>1, <1>2, <1>5, <1>6, <1>9 DEF Owners
  <2>4. \A v, w \in Transports : \A d \in Descriptors : Keeps(v, d)' /\ Keeps(w, d)' => v = w
    BY <1>0, <1>9 DEF Owners
  <2>5. \A u, w \in SocketThreads : Held(u)' /\ Held(w)' /\ call'[u].fd = call'[w].fd => u = w
    BY <1>0, <1>5, <1>6 DEF Owners
  <2>6. ASSUME NEW v \in Transports, NEW u \in SocketThreads, Held(u)'
        PROVE  ~Keeps(v, call[u].fd)'
    <3>1. u # th /\ call'[u] = call[u] /\ Held(u) BY <1>5, <1>6, <2>6
    <3>2. CASE v = t BY <1>8, <3>2 DEF Keeps
    <3>3. CASE v # t BY <1>0, <1>2, <1>8, <3>1, <3>3 DEF Owners, Keeps
    <3> QED BY <3>2, <3>3
  <2>8. ASSUME NEW d \in leaked'
        PROVE  /\ d \in open' /\ \A v \in Transports : ~Keeps(v, d)'
               /\ \A u \in SocketThreads : ~Holds(u, d)'
    BY <1>0, <1>2, <1>5, <1>6, <1>9, <2>8 DEF Owners, Holds
  <2> QED BY <2>1, <2>2, <2>3, <2>4, <2>5, <2>6, <2>8 DEF Owners
<1>11. Turns'
  <2>1. ASSUME NEW v \in Transports, NEW u \in SocketThreads, NEW w \in SocketThreads,
               Changes(u, v)', Changes(w, v)'
        PROVE  u = w
    <3>1. Changes(th, v)' => v = t BY <1>3, <1>5 DEF Changes
    <3>2. \A x \in SocketThreads \ {th} : Changes(x, v)' <=> Changes(x, v)
      BY <1>6 DEF Changes
    <3>3. CASE u # th /\ w # th BY <1>0, <2>1, <3>2, <3>3 DEF Turns
    <3>4. CASE u = th \/ w = th BY <1>7, <2>1, <3>1, <3>2, <3>4
    <3> QED BY <3>3, <3>4
  <2>2. \A u \in SocketThreads :
          call'[u].at \in {"create", "assign"} => m_socket'[call'[u].on] = invalid_socket
    BY <1>0, <1>2, <1>3, <1>5, <1>6 DEF Turns
  <2>3. \A u \in SocketThreads : call'[u].at = "idle" => call'[u] = Idle
    BY <1>0, <1>3, <1>5, <1>6 DEF Turns
  <2>4. Idle' = Idle BY DEF Idle
  <2> QED BY <2>1, <2>2, <2>3, <2>4 DEF Turns
<1>12. Bindings'
  <2>1. \A d \in bound' : \E v \in Transports : Keeps(v, d)' BY <1>0, <1>2, <1>9 DEF Bindings
  <2>2. ~serving'[t] /\ \A v \in Transports \ {t} : serving'[v] = serving[v]
    BY <1>0, <1>2 DEF SocketTypes
  <2>3. ASSUME NEW v \in Transports, serving'[v]
        PROVE  Keeps(v, m_socket[v])' /\ m_socket'[v] \in bound'
    <3>1. v # t /\ serving[v] BY <2>2, <2>3
    <3>2. Keeps(v, m_socket[v]) /\ m_socket[v] \in bound BY <1>0, <3>1 DEF Bindings
    <3>3. m_socket[v] \in Descriptors BY <1>0, <3>2 DEF SocketTypes, Keeps
    <3>4. m_socket[v] # old BY <1>0, <1>1, <1>9, <3>1, <3>2, <3>3 DEF Owners
    <3>5. Keeps(v, m_socket[v])' BY <1>2, <1>8, <3>1, <3>2 DEF Keeps
    <3> QED BY <1>2, <3>2, <3>4, <3>5
  <2> QED BY <2>1, <2>3 DEF Bindings
<1> QED BY <1>10, <1>11, <1>12

\* close() forgets the number, which may stand for another socket by now.
LEMMA InvalidateInv ==
  ASSUME SocketInv, ~overlapped, NEW th \in SocketThreads, Invalidate(th)
  PROVE  SocketInv'
<1>0. SocketTypes /\ Owners /\ Turns /\ Bindings BY DEF SocketInv
<1>1. PICK t \in Transports : t = call[th].on BY <1>0 DEF SocketTypes, CallType
<1>2. /\ call[th].at = "invalidate" /\ call' = [call EXCEPT ![th] = Idle]
      /\ m_socket' = [m_socket EXCEPT ![t] = invalid_socket]
      /\ UNCHANGED <<open, bound, leaked, serving, overlapped>>
  BY <1>1 DEF Invalidate, Return
<1>3. SocketTypes' BY <1>0, <1>2, IdleFacts DEF SocketTypes
<1>4. call'[th] = Idle /\ ~Held(th) /\ ~Held(th)' BY <1>0, <1>2, IdleFacts, OtherThreads DEF Held
<1>5. \A u \in SocketThreads \ {th} : call'[u] = call[u] /\ (Held(u)' <=> Held(u))
  BY <1>0, <1>2, OtherThreads
<1>6. Closing(t) /\ \A v \in Transports \ {t} : Closing(v)' <=> Closing(v)
  BY <1>1, <1>2, <1>4, <1>5, IdleFacts DEF Closing
<1>7. m_socket'[t] = invalid_socket /\ \A v \in Transports \ {t} : m_socket'[v] = m_socket[v]
  BY <1>0, <1>2 DEF SocketTypes
<1>8. \A v \in Transports : \A d : Keeps(v, d)' <=> Keeps(v, d) BY <1>6, <1>7 DEF Keeps
<1>9. Owners'
  <2>1. \A d \in open' : d \in leaked' \/ (\E v \in Transports : Keeps(v, d)') \/ (\E u \in SocketThreads : Holds(u, d)')
    BY <1>0, <1>2, <1>4, <1>5, <1>8 DEF Owners, Holds
  <2>2. \A v \in Transports : \A d \in Descriptors : Keeps(v, d)' => d \in open'
    BY <1>0, <1>2, <1>8 DEF Owners
  <2>3. \A u \in SocketThreads : Held(u)' => call'[u].fd \in open'
    BY <1>0, <1>2, <1>4, <1>5 DEF Owners
  <2>4. \A v, w \in Transports : \A d \in Descriptors : Keeps(v, d)' /\ Keeps(w, d)' => v = w
    BY <1>0, <1>8 DEF Owners
  <2>5. \A u, w \in SocketThreads : Held(u)' /\ Held(w)' /\ call'[u].fd = call'[w].fd => u = w
    BY <1>0, <1>4, <1>5 DEF Owners
  <2>6. ASSUME NEW v \in Transports, NEW u \in SocketThreads, Held(u)'
        PROVE  ~Keeps(v, call[u].fd)'
    <3>1. u # th /\ call'[u] = call[u] /\ Held(u) BY <1>4, <1>5, <2>6
    <3>2. CASE v = t BY <1>7, <3>2 DEF Keeps
    <3>3. CASE v # t BY <1>0, <1>6, <1>7, <3>1, <3>3 DEF Owners, Keeps
    <3> QED BY <3>2, <3>3
  <2>8. ASSUME NEW d \in leaked'
        PROVE  /\ d \in open' /\ \A v \in Transports : ~Keeps(v, d)'
               /\ \A u \in SocketThreads : ~Holds(u, d)'
    BY <1>0, <1>2, <1>4, <1>5, <1>8, <2>8 DEF Owners, Holds
  <2> QED BY <2>1, <2>2, <2>3, <2>4, <2>5, <2>6, <2>8 DEF Owners
<1>10. Turns'
  <2>1. \A v \in Transports : Changes(th, v)' => Changes(th, v) BY <1>4, IdleFacts DEF Changes
  <2>2. ASSUME NEW u \in SocketThreads, call'[u].at \in {"create", "assign"}
        PROVE  m_socket'[call'[u].on] = m_socket[call'[u].on]
    <3>1. u # th /\ call'[u] = call[u] BY <1>4, <1>5, <2>2, IdleFacts
    <3>2. call[u].on \in Transports BY <1>0 DEF SocketTypes, CallType
    <3>3. call[u].on # t
      <4>1. (call[u].on = t => Changes(u, t)) /\ Changes(th, t) BY <1>1, <1>2, <2>2, <3>1 DEF Changes
      <4> QED BY <1>0, <3>1, <4>1 DEF Turns
    <3> QED BY <1>7, <3>1, <3>2, <3>3
  <2> QED BY <1>0, <1>2, <2>1, <2>2, IdleFacts, TurnsSame
<1>11. Bindings'
  <2>1. \A v \in Transports : serving[v] => v # t BY <1>0, <1>6 DEF Bindings, Keeps
  <2>2. \A v \in Transports \ {t} : Keeps(v, m_socket[v])' <=> Keeps(v, m_socket[v])
    BY <1>6, <1>7 DEF Keeps
  <2> QED BY <1>0, <1>2, <1>7, <1>8, <2>1, <2>2 DEF Bindings
<1> QED BY <1>3, <1>9, <1>10, <1>11 DEF SocketInv

\* A connection ends: its descriptor is closed, and it was nobody else's.
LEMMA DisconnectInv ==
  ASSUME SocketInv, ~overlapped, NEW th \in SocketThreads, Disconnect(th)
  PROVE  SocketInv'
<1>0. SocketTypes /\ Owners /\ Turns /\ Bindings BY DEF SocketInv
<1>1. PICK old : old = call[th].fd OBVIOUS
<1>2. /\ call[th].at = "connected" /\ call' = [call EXCEPT ![th] = Idle] /\ open' = open \ {old}
      /\ UNCHANGED <<bound, m_socket, leaked, serving, overlapped>>
  BY <1>1 DEF Disconnect, Return
<1>3. SocketTypes' BY <1>0, <1>2, IdleFacts DEF SocketTypes
<1>4. call'[th] = Idle /\ Held(th) /\ ~Held(th)' BY <1>0, <1>2, IdleFacts, OtherThreads DEF Held
<1>5. \A u \in SocketThreads \ {th} : call'[u] = call[u] /\ (Held(u)' <=> Held(u))
  BY <1>0, <1>2, OtherThreads
<1>6. \A v \in Transports : Closing(v)' <=> Closing(v)
  BY <1>2, <1>4, <1>5, IdleFacts DEF Closing
<1>7. \A v \in Transports : \A d : Keeps(v, d)' <=> Keeps(v, d) BY <1>2, <1>6 DEF Keeps
<1>8. \A v \in Transports : ~Keeps(v, old) BY <1>0, <1>1, <1>4 DEF Owners
<1>9. Owners'
  <2>1. \A d \in open' : d \in leaked' \/ (\E v \in Transports : Keeps(v, d)') \/ (\E u \in SocketThreads : Holds(u, d)')
    <3> SUFFICES ASSUME NEW d \in open, d # old
                 PROVE  d \in leaked' \/ (\E v \in Transports : Keeps(v, d)') \/ (\E u \in SocketThreads : Holds(u, d)')
      BY <1>2
    <3>1. CASE \E v \in Transports : Keeps(v, d) BY <1>7, <3>1
    <3>2. CASE \E u \in SocketThreads : Holds(u, d) BY <1>1, <1>5, <3>2 DEF Holds
    <3>3. leaked' = leaked BY <1>2
    <3> QED BY <1>0, <3>1, <3>2, <3>3 DEF Owners
  <2>2. \A v \in Transports : \A d \in Descriptors : Keeps(v, d)' => d \in open'
    BY <1>0, <1>2, <1>7, <1>8 DEF Owners
  <2>3. \A u \in SocketThreads : Held(u)' => call'[u].fd \in open'
    BY <1>0, <1>1, <1>2, <1>4, <1>5 DEF Owners
  <2>4. \A v, w \in Transports : \A d \in Descriptors : Keeps(v, d)' /\ Keeps(w, d)' => v = w
    BY <1>0, <1>7 DEF Owners
  <2>5. \A u, w \in SocketThreads : Held(u)' /\ Held(w)' /\ call'[u].fd = call'[w].fd => u = w
    BY <1>0, <1>4, <1>5 DEF Owners
  <2>6. ASSUME NEW v \in Transports, NEW u \in SocketThreads, Held(u)'
        PROVE  ~Keeps(v, call[u].fd)'
    <3>1. u # th /\ call'[u] = call[u] /\ Held(u) BY <1>4, <1>5, <2>6
    <3> QED BY <1>0, <1>2, <1>6, <3>1 DEF Owners, Keeps
  <2>8. ASSUME NEW d \in leaked'
        PROVE  /\ d \in open' /\ \A v \in Transports : ~Keeps(v, d)'
               /\ \A u \in SocketThreads : ~Holds(u, d)'
    BY <1>0, <1>1, <1>2, <1>4, <1>5, <1>7, <2>8 DEF Owners, Holds
  <2> QED BY <2>1, <2>2, <2>3, <2>4, <2>5, <2>6, <2>8 DEF Owners
<1>10. Turns'
  <2>1. \A v \in Transports : Changes(th, v)' => Changes(th, v) BY <1>4, IdleFacts DEF Changes
  <2> QED BY <1>0, <1>2, <2>1, IdleFacts, TurnsSame
<1>11. Bindings' BY <1>0, <1>2, <1>6, <1>7 DEF Bindings, Keeps
<1> QED BY <1>3, <1>9, <1>10, <1>11 DEF SocketInv

\* receive() throws: its connection stays open and nobody has it.
LEMMA ThrowsInv ==
  ASSUME SocketInv, ~overlapped, NEW th \in SocketThreads, ResizeThrows(th)
  PROVE  SocketInv'
<1>0. SocketTypes /\ Owners /\ Turns /\ Bindings BY DEF SocketInv
<1>1. PICK old : old = call[th].fd OBVIOUS
<1>2. /\ call[th].at = "connected" /\ call' = [call EXCEPT ![th] = Idle] /\ leaked' = leaked \cup {old}
      /\ UNCHANGED <<open, bound, m_socket, serving, overlapped>>
  BY <1>1 DEF ResizeThrows, Return
<1>3. SocketTypes' BY <1>0, <1>2, IdleFacts DEF SocketTypes
<1>4. call'[th] = Idle /\ Held(th) /\ ~Held(th)' BY <1>0, <1>2, IdleFacts, OtherThreads DEF Held
<1>5. \A u \in SocketThreads \ {th} : call'[u] = call[u] /\ (Held(u)' <=> Held(u))
  BY <1>0, <1>2, OtherThreads
<1>6. \A v \in Transports : Closing(v)' <=> Closing(v)
  BY <1>2, <1>4, <1>5, IdleFacts DEF Closing
<1>7. \A v \in Transports : \A d : Keeps(v, d)' <=> Keeps(v, d) BY <1>2, <1>6 DEF Keeps
<1>8. /\ old \in open /\ (\A v \in Transports : ~Keeps(v, old))
      /\ \A u \in SocketThreads \ {th} : ~Holds(u, old)
  BY <1>0, <1>1, <1>4 DEF Owners, Holds
<1>9. Owners'
  <2>1. ASSUME NEW d \in open'
        PROVE  d \in leaked' \/ (\E v \in Transports : Keeps(v, d)') \/ (\E u \in SocketThreads : Holds(u, d)')
    <3>1. CASE d = old BY <1>2, <3>1
    <3>2. CASE d \in leaked BY <1>2, <3>2
    <3>3. CASE \E v \in Transports : Keeps(v, d) BY <1>7, <3>3
    <3>4. CASE d # old /\ \E u \in SocketThreads : Holds(u, d) BY <1>1, <1>5, <3>4 DEF Holds
    <3> QED BY <1>0, <1>2, <3>1, <3>2, <3>3, <3>4 DEF Owners
  <2>2. ASSUME NEW d \in leaked'
        PROVE  /\ d \in open' /\ \A v \in Transports : ~Keeps(v, d)'
               /\ \A u \in SocketThreads : ~Holds(u, d)'
    <3>1. d = old \/ d \in leaked BY <1>2
    <3>2. d \in open /\ (\A v \in Transports : ~Keeps(v, d)) /\ \A u \in SocketThreads \ {th} : ~Holds(u, d)
      BY <1>0, <1>8, <3>1 DEF Owners
    <3> QED BY <1>2, <1>4, <1>5, <1>7, <3>2 DEF Holds
  <2>3. \A v \in Transports : \A d \in Descriptors : Keeps(v, d)' => d \in open'
    BY <1>0, <1>2, <1>7 DEF Owners
  <2>4. \A u \in SocketThreads : Held(u)' => call'[u].fd \in open'
    BY <1>0, <1>2, <1>4, <1>5 DEF Owners
  <2>5. \A v, w \in Transports : \A d \in Descriptors : Keeps(v, d)' /\ Keeps(w, d)' => v = w
    BY <1>0, <1>7 DEF Owners
  <2>6. \A u, w \in SocketThreads : Held(u)' /\ Held(w)' /\ call'[u].fd = call'[w].fd => u = w
    BY <1>0, <1>4, <1>5 DEF Owners
  <2>7. ASSUME NEW v \in Transports, NEW u \in SocketThreads, Held(u)'
        PROVE  ~Keeps(v, call[u].fd)'
    <3>1. u # th /\ call'[u] = call[u] /\ Held(u) BY <1>4, <1>5, <2>7
    <3> QED BY <1>0, <1>2, <1>6, <3>1 DEF Owners, Keeps
  <2> QED BY <2>1, <2>2, <2>3, <2>4, <2>5, <2>6, <2>7 DEF Owners
<1>10. Turns'
  <2>1. \A v \in Transports : Changes(th, v)' => Changes(th, v) BY <1>4, IdleFacts DEF Changes
  <2> QED BY <1>0, <1>2, <2>1, IdleFacts, TurnsSame
<1>11. Bindings' BY <1>0, <1>2, <1>6, <1>7 DEF Bindings, Keeps
<1> QED BY <1>3, <1>9, <1>10, <1>11 DEF SocketInv

\* Every step of the transports keeps the ownership of descriptors.
LEMMA SocketsStep == SocketInv /\ [SocketsNext]_socketVars => SocketInv'
<1> SUFFICES ASSUME SocketInv, [SocketsNext]_socketVars PROVE SocketInv' OBVIOUS
<1>1. CASE SocketsNext
  BY <1>1, EnsureInv, OpenInv, FailInv, AssignInv, BindInv, CloseInv, InvalidateInv, JobInv,
     DisconnectInv, ThrowsInv
  DEF SocketsNext, UdpClose, TcpClose, Transports
<1>2. CASE UNCHANGED socketVars
  <2>1. \A t \in Transports : \A d : Keeps(t, d)' <=> Keeps(t, d)
    BY <1>2 DEF socketVars, Keeps, Closing
  <2>2. SocketTypes' <=> SocketTypes BY <1>2 DEF socketVars, SocketTypes
  <2>3. Owners' <=> Owners BY <1>2 DEF socketVars, Owners, Keeps, Closing, Holds, Held
  <2>4. Turns' <=> Turns BY <1>2 DEF socketVars, Turns, Changes, Idle
  <2>5. Bindings' <=> Bindings BY <1>2 DEF socketVars, Bindings, Keeps, Closing
  <2> QED BY <1>2, <2>2, <2>3, <2>4, <2>5 DEF SocketInv, socketVars
<1> QED BY <1>1, <1>2

\* No thread is in a call and no descriptor is open at the start.
LEMMA SocketsStart == SocketsInit => SocketInv
<1> SUFFICES ASSUME SocketsInit PROVE SocketInv OBVIOUS
<1>1. SocketTypes BY IdleFacts DEF SocketsInit, SocketTypes
<1>2. \A th \in SocketThreads : call[th] = Idle /\ ~Held(th)
  BY IdleFacts DEF SocketsInit, Held
<1>3. \A t \in Transports : \A d : ~Keeps(t, d) BY DEF SocketsInit, Keeps
<1>4. Owners BY <1>2, <1>3 DEF SocketsInit, Owners
<1>5. Turns BY <1>2, IdleFacts DEF Turns, Changes
<1>6. Bindings BY DEF SocketsInit, Bindings
<1> QED BY <1>1, <1>4, <1>5, <1>6 DEF SocketInv

\* No descriptor of UdpTransport and TcpTransport is closed under its owner, and none
\* leaks but where a receive() cannot allocate its payload, for any number of threads
\* and descriptors, as long as no two threads create, bind or close one
\* transport at the same time.
THEOREM SocketsAlways == SocketsInit /\ [][SocketsNext]_socketVars => []SocketsAccounted
<1>1. SocketInv => SocketsAccounted
  <2> SUFFICES ASSUME SocketInv, ~overlapped PROVE SocketsAccounted BY DEF SocketsAccounted
  <2> DEFINE closing == {call[th].on : th \in {u \in SocketThreads : call[u].at = "invalidate"}}
             kept == {m_socket[t] : t \in Transports \ closing} \ {invalid_socket}
             held == {call[th].fd : th \in {u \in SocketThreads : Held(u)}}
  <2>1. SocketTypes /\ Owners /\ Bindings BY DEF SocketInv
  <2>2. \A t \in Transports : t \in closing <=> Closing(t) BY DEF Closing
  <2> HIDE DEF closing
  <2>3. \A d : d \in kept <=> \E t \in Transports : Keeps(t, d) BY <2>2 DEF Keeps
  <2>4. \A d : d \in held <=> \E th \in SocketThreads : Holds(th, d) BY DEF Holds
  <2>5. \A d \in kept : d \in Descriptors BY <2>1 DEF SocketTypes
  <2> HIDE DEF kept, held
  <2>6. open = kept \cup held \cup leaked /\ leaked \cap (kept \cup held) = {}
    <3>1. \A d \in open : d \in kept \cup held \cup leaked BY <2>1, <2>3, <2>4 DEF Owners
    <3>2. \A d \in kept : d \in open BY <2>1, <2>3, <2>5 DEF Owners
    <3>3. \A d \in held : d \in open BY <2>1, <2>4 DEF Owners, Holds
    <3>4. \A d \in leaked : d \in open /\ d \notin kept \cup held BY <2>1, <2>3, <2>4 DEF Owners
    <3> QED BY <3>1, <3>2, <3>3, <3>4
  <2>7. \A t \in Transports : serving[t] => m_socket[t] \in open \cap bound
    <3> SUFFICES ASSUME NEW t \in Transports, serving[t] PROVE m_socket[t] \in open \cap bound
      OBVIOUS
    <3>1. Keeps(t, m_socket[t]) /\ m_socket[t] \in bound BY <2>1 DEF Bindings
    <3>2. m_socket[t] \in Descriptors BY <2>1, <3>1 DEF SocketTypes, Keeps
    <3> QED BY <2>1, <3>1, <3>2 DEF Owners
  <2> QED BY <2>6, <2>7 DEF SocketsAccounted, closing, kept, held
<1> QED BY <1>1, SocketsStep, SocketsStart, PTL

-----------------------------------------------------------------------------
(* TimeClient                                                              *)

ConnType == [client : {"open", "closed"}, server : {"backlog", "accepted", "sent", "closed"},
             up : BOOLEAN, down : Seq(Nat)]

AnswerType == [socket : Nat, bytes : Seq(Nat)]

ClientTypes ==
  /\ conn \in Seq(ConnType) /\ clientSocket \in 0..Len(conn)
  /\ connected \in BOOLEAN /\ reconnected \in BOOLEAN /\ startups \in Nat
  /\ received \in Seq(Nat)
  /\ answers \in Seq(AnswerType)

\* Every socket the client has made but the one it uses is closed.
Balance ==
  /\ connected => startups > 0
  /\ ~reconnected =>
       IF connected
         THEN /\ startups = 1 /\ clientSocket # 0
              /\ \A c \in DOMAIN conn : conn[c].client = "open" <=> c = clientSocket
         ELSE startups = 0 /\ \A c \in DOMAIN conn : conn[c].client # "open"

\* What waits in a socket is the end of one timestamp, and what the client has
\* got of it in this call comes right before.
Waiting(s) ==
  /\ Len(s.down) <= TimestampBytes
  /\ s.server \in {"backlog", "accepted"} => s.down = <<>>
  /\ \A i \in 1..Len(s.down) : s.down[i] = TimestampBytes - Len(s.down) + i

Got(s) ==
  /\ Len(received) + Len(s.down) <= TimestampBytes
  /\ received # <<>> => s.server \in {"sent", "closed"}
  /\ \A i \in 1..Len(received) :
       received[i] = TimestampBytes - Len(s.down) - Len(received) + i

Streams ==
  /\ \A c \in DOMAIN conn : Waiting(conn[c])
  /\ clientPc = "send" => received = <<>>
  /\ Receiving => clientSocket # 0
  /\ clientPc = "recv" => Got(conn[clientSocket])

\* A connection that has given an answer has nothing left to give.
Spent(c) ==
  /\ conn[c].server \in {"sent", "closed"} /\ conn[c].down = <<>>
  /\ clientPc = "recv" /\ clientSocket = c => received = <<>>

Exhausted == \A i \in DOMAIN answers : answers[i].socket \in DOMAIN conn /\ Spent(answers[i].socket)

ClientInv == ClientTypes /\ Balance /\ Streams /\ Exhausted /\ AnswersAreWhole

\* One end of a connection changes and the rest of conn stays.
LEMMA OneEnd ==
  ASSUME NEW cs \in Seq(ConnType), NEW c \in DOMAIN cs, NEW to \in ConnType, NEW ds,
         ds = [cs EXCEPT ![c] = to]
  PROVE  /\ ds \in Seq(ConnType) /\ Len(ds) = Len(cs) /\ DOMAIN ds = DOMAIN cs
         /\ ds[c] = to /\ \A e \in DOMAIN cs : e # c => ds[e] = cs[e]
OBVIOUS

\* A socket is added to conn, or an answer to answers.
LEMMA OneMore ==
  ASSUME NEW T, NEW cs \in Seq(T), NEW new \in T, NEW ds, ds = Append(cs, new)
  PROVE  /\ ds \in Seq(T) /\ Len(ds) = Len(cs) + 1 /\ DOMAIN ds = 1..(Len(cs) + 1)
         /\ DOMAIN cs = 1..Len(cs)
         /\ ds[Len(ds)] = new /\ \A e \in DOMAIN cs : ds[e] = cs[e]
OBVIOUS

\* The two parts of a sequence that is cut after n elements.
LEMMA Cut ==
  ASSUME NEW s \in Seq(Nat), NEW n \in 1..Len(s)
  PROVE  /\ SubSeq(s, 1, n) \in Seq(Nat) /\ Len(SubSeq(s, 1, n)) = n
         /\ \A i \in 1..n : SubSeq(s, 1, n)[i] = s[i]
         /\ SubSeq(s, n + 1, Len(s)) \in Seq(Nat) /\ Len(SubSeq(s, n + 1, Len(s))) = Len(s) - n
         /\ \A i \in 1..(Len(s) - n) : SubSeq(s, n + 1, Len(s))[i] = s[n + i]
OBVIOUS

\* A half of a sequence.
LEMMA Half ==
  ASSUME NEW s \in Seq(Nat), NEW h \in Nat, NEW k \in Nat, k + h <= Len(s),
         \A i \in 1..Len(s) : s[i] = i
  PROVE  /\ SubSeq(s, k + 1, k + h) \in Seq(Nat) /\ Len(SubSeq(s, k + 1, k + h)) = h
         /\ \A i \in 1..h : SubSeq(s, k + 1, k + h)[i] = k + i
OBVIOUS

\* The conversion turns both halves of a timestamp round.
LEMMA Whole ==
  ASSUME NEW s \in Seq(Nat), Len(s) = TimestampBytes, \A i \in 1..Len(s) : s[i] = i
  PROVE  /\ FromNetwork(s) \in Seq(Nat) /\ Len(FromNetwork(s)) = TimestampBytes
         /\ HalvesReversed(FromNetwork(s))
<1> DEFINE h == TimestampBytes \div 2
           a == SubSeq(s, 1, h)
           b == SubSeq(s, h + 1, TimestampBytes)
           w == FromNetwork(s)
<1>1. h \in Nat /\ TimestampBytes = h + h BY ClientAssumption
<1>2. a \in Seq(Nat) /\ Len(a) = h /\ \A i \in 1..h : a[i] = i
  <2>1. a = SubSeq(s, 0 + 1, 0 + h)
    <3>1. 0 + 1 = 1 /\ 0 + h = h BY <1>1
    <3> QED BY <3>1
  <2> HIDE DEF h, a
  <2> QED BY <1>1, <2>1, Half
<1>3. b \in Seq(Nat) /\ Len(b) = h /\ \A i \in 1..h : b[i] = h + i
  <2>1. b = SubSeq(s, h + 1, h + h) BY <1>1
  <2> HIDE DEF h, b
  <2> QED BY <1>1, <2>1, Half
<1>4. w = Reverse(a) \o Reverse(b) BY DEF FromNetwork
<1> HIDE DEF h, a, b, w
<1>5. Reverse(a) \in Seq(Nat) /\ Len(Reverse(a)) = h /\ \A i \in 1..h : Reverse(a)[i] = h + 1 - i
  BY <1>1, <1>2 DEF Reverse
<1>6. Reverse(b) \in Seq(Nat) /\ Len(Reverse(b)) = h /\ \A i \in 1..h : Reverse(b)[i] = h + (h + 1 - i)
  BY <1>1, <1>3 DEF Reverse
<1>7. /\ w \in Seq(Nat) /\ Len(w) = h + h
      /\ \A i \in 1..(h + h) : w[i] = IF i <= h THEN h + 1 - i ELSE h + (h + 1 - (i - h))
  BY <1>1, <1>4, <1>5, <1>6
<1>8. ASSUME NEW k \in 1..h PROVE w[k] = h + 1 - k /\ w[h + k] = h + h + 1 - k
  <2>1. k \in 1..(h + h) /\ k <= h /\ h + k \in 1..(h + h) /\ ~(h + k <= h) BY <1>1
  <2>2. w[k] = h + 1 - k BY <1>7, <2>1
  <2>3. w[h + k] = h + (h + 1 - ((h + k) - h)) BY <1>7, <2>1
  <2> QED BY <1>1, <2>2, <2>3
<1>9. HalvesReversed(w) BY <1>1, <1>7, <1>8 DEF HalvesReversed, h
<1> QED BY <1>1, <1>7, <1>9 DEF w

\* The server's thread moves its end of connection c on.
LEMMA ServerSteps ==
  ASSUME ClientInv, NEW c \in DOMAIN conn, accept(c) \/ sendTime(c) \/ handleClientDisconnection(c)
  PROVE  ClientInv'
<1>1. conn \in Seq(ConnType) /\ conn[c] \in ConnType BY DEF ClientInv, ClientTypes
<1>2. PICK to \in ConnType :
        /\ conn' = [conn EXCEPT ![c] = to] /\ to.client = conn[c].client
        /\ Waiting(to)
        /\ to.server = "accepted" => conn[c].server = "backlog"
        /\ conn[c].server \in {"sent", "closed"} => to.server \in {"sent", "closed"}
        /\ to.down = conn[c].down \/ conn[c].server = "accepted"
  <2>1. Waiting(conn[c]) BY DEF ClientInv, Streams
  <2>2. ASSUME accept(c) PROVE \E x \in {"accepted", "closed"} :
          conn' = [conn EXCEPT ![c] = [conn[c] EXCEPT !.server = x]] /\ conn[c].server = "backlog"
    BY <2>2 DEF accept, ServerEnd
  <2>3. CASE accept(c)
    <3>1. PICK x \in {"accepted", "closed"} :
            conn' = [conn EXCEPT ![c] = [conn[c] EXCEPT !.server = x]] /\ conn[c].server = "backlog"
      BY <2>2, <2>3
    <3> DEFINE to == [conn[c] EXCEPT !.server = x]
    <3>2. to \in ConnType /\ to.server = x /\ to.client = conn[c].client /\ to.down = conn[c].down
      BY <1>1 DEF ConnType
    <3> HIDE DEF to
    <3>3. Waiting(to) BY <2>1, <3>1, <3>2 DEF Waiting
    <3> QED BY <3>1, <3>2, <3>3 DEF to
  <2>4. CASE handleClientDisconnection(c)
    <3> DEFINE to == [conn[c] EXCEPT !.server = "closed"]
    <3>1. conn' = [conn EXCEPT ![c] = to] /\ conn[c].server = "sent"
      BY <2>4 DEF handleClientDisconnection, ServerEnd
    <3>2. to \in ConnType /\ to.server = "closed" /\ to.client = conn[c].client /\ to.down = conn[c].down
      BY <1>1 DEF ConnType
    <3> HIDE DEF to
    <3>3. Waiting(to) BY <2>1, <3>1, <3>2 DEF Waiting
    <3> QED BY <3>1, <3>2, <3>3
  <2>5. CASE sendTime(c)
    <3> DEFINE stamp == [i \in 1..TimestampBytes |-> i]
               to == [conn[c] EXCEPT !.server = "sent", !.down = conn[c].down \o stamp]
    <3>1. conn' = [conn EXCEPT ![c] = to] /\ conn[c].server = "accepted"
      BY <2>5 DEF sendTime, ServerEnd
    <3>2. conn[c].down = <<>> BY <2>1, <3>1 DEF Waiting
    <3>3. stamp \in Seq(Nat) /\ Len(stamp) = TimestampBytes BY ClientAssumption
    <3>4. conn[c].down \o stamp = stamp BY <3>2, <3>3
    <3>5. \A i \in 1..Len(stamp) : stamp[i] = TimestampBytes - Len(stamp) + i BY <3>3, ClientAssumption
    <3> HIDE DEF stamp
    <3>6. to \in ConnType /\ to.server = "sent" /\ to.client = conn[c].client /\ to.down = stamp
      BY <1>1, <3>3, <3>4 DEF ConnType
    <3> HIDE DEF to
    <3>7. Waiting(to) BY <3>3, <3>5, <3>6, ClientAssumption DEF Waiting
    <3> QED BY <3>1, <3>6, <3>7
  <2> QED BY <2>3, <2>4, <2>5
<1>3. UNCHANGED <<connected, clientSocket, startups, hostUp, clientPc, received, answers, reconnected>>
  BY DEF accept, sendTime, handleClientDisconnection, ServerEnd
<1>4. /\ conn' \in Seq(ConnType) /\ Len(conn') = Len(conn) /\ DOMAIN conn' = DOMAIN conn
      /\ conn'[c] = to /\ \A e \in DOMAIN conn : e # c => conn'[e] = conn[e]
  BY <1>1, <1>2, OneEnd
<1>5. ClientTypes' BY <1>3, <1>4 DEF ClientInv, ClientTypes
<1>6. Balance'
  <2>1. \A e \in DOMAIN conn : conn'[e].client = conn[e].client BY <1>2, <1>4
  <2> QED BY <1>3, <1>4, <2>1 DEF ClientInv, Balance
<1>7. Streams'
  <2>1. \A e \in DOMAIN conn' : Waiting(conn'[e]) BY <1>2, <1>4 DEF ClientInv, Streams
  <2>2. ASSUME clientPc = "recv" PROVE Got(conn[clientSocket])'
    <3>1. Got(conn[clientSocket]) /\ clientSocket \in DOMAIN conn
      BY <2>2 DEF ClientInv, ClientTypes, Streams, Receiving
    <3>2. CASE clientSocket # c BY <1>3, <1>4, <3>1, <3>2 DEF Got
    <3>3. CASE clientSocket = c /\ to.down = conn[c].down BY <1>2, <1>3, <1>4, <3>1, <3>3 DEF Got
    <3>4. CASE clientSocket = c /\ conn[c].server = "accepted"
      <4>1. received = <<>> BY <3>1, <3>4 DEF Got
      <4>2. Len(to.down) \in Nat /\ Len(to.down) <= TimestampBytes
        BY <1>2 DEF Waiting, ConnType
      <4> QED BY <1>3, <1>4, <3>4, <4>1, <4>2 DEF Got
    <3> QED BY <1>2, <3>2, <3>3, <3>4
  <2> QED BY <1>3, <2>1, <2>2 DEF ClientInv, Streams, Receiving, Waiting
<1>8. Exhausted' 
  <2>1. ASSUME NEW e \in DOMAIN conn, Spent(e) PROVE Spent(e)'
    BY <1>2, <1>3, <1>4, <2>1 DEF Spent
  <2> QED BY <1>3, <1>4, <2>1 DEF ClientInv, Exhausted, Spent
<1>9. AnswersAreWhole' BY <1>3 DEF ClientInv, AnswersAreWhole
<1> QED BY <1>5, <1>6, <1>7, <1>8, <1>9 DEF ClientInv

\* connectToServer(), also when requestServerTime() calls it.
LEMMA Connecting ==
  ASSUME ClientInv, clientPc = "idle", ConnectFails \/ ConnectSucceeds,
         clientPc' \in {"idle", "send"}, received' \in {received, <<>>},
         clientPc' = "send" => received' = <<>>,
         reconnected' = (reconnected \/ connected)
  PROVE  ClientInv'
<1>0. conn \in Seq(ConnType) /\ clientSocket \in 0..Len(conn) BY DEF ClientInv, ClientTypes
<1>1. UNCHANGED answers BY DEF ConnectFails, ConnectSucceeds
<1>2. AnswersAreWhole' BY <1>1 DEF ClientInv, AnswersAreWhole
<1>3. ~Receiving' /\ clientPc' # "recv" BY DEF Receiving
<1>4. received' \in Seq(Nat) /\ reconnected' \in BOOLEAN
  <2>1. received \in Seq(Nat) /\ reconnected \in BOOLEAN /\ connected \in BOOLEAN
    BY DEF ClientInv, ClientTypes
  <2>2. <<>> \in Seq(Nat) OBVIOUS
  <2>3. received' \in Seq(Nat) BY <2>1, <2>2
  <2>4. reconnected' \in BOOLEAN BY <2>1
  <2> QED BY <2>3, <2>4
<1>5. CASE UNCHANGED conn
  <2>1. ConnectFails /\ clientSocket' \in {0, clientSocket} /\ UNCHANGED <<connected, startups>>
    <3>1. ConnectFails
      <4>1. ASSUME NEW new \in ConnType PROVE Append(conn, new) # conn
        <5>1. Len(Append(conn, new)) = Len(conn) + 1 /\ Len(conn) \in Nat BY <1>0
        <5> QED BY <5>1
      <4>2. [client |-> "open", server |-> "backlog", up |-> FALSE, down |-> <<>>] \in ConnType
        BY DEF ConnType
      <4> QED BY <1>5, <4>1, <4>2 DEF ConnectSucceeds
    <3>2. [client |-> "closed", server |-> "closed", up |-> FALSE, down |-> <<>>] \in ConnType
      BY DEF ConnType
    <3>3. \A new \in ConnType : conn' # Append(conn, new)
      <4>1. ASSUME NEW new \in ConnType PROVE Append(conn, new) # conn
        <5>1. Len(Append(conn, new)) = Len(conn) + 1 /\ Len(conn) \in Nat BY <1>0
        <5> QED BY <5>1
      <4> QED BY <1>5, <4>1
    <3> QED BY <3>1, <3>2, <3>3 DEF ConnectFails
  <2>2. ClientTypes' BY <1>0, <1>1, <1>4, <1>5, <2>1 DEF ClientInv, ClientTypes
  <2>3. Balance' BY <1>5, <2>1 DEF ClientInv, ClientTypes, Balance
  <2>4. Streams' BY <1>3, <1>5 DEF ClientInv, Streams, Waiting
  <2>5. Exhausted' BY <1>1, <1>3, <1>5 DEF ClientInv, Exhausted, Spent
  <2> QED BY <1>2, <2>2, <2>3, <2>4, <2>5 DEF ClientInv
<1>6. ASSUME NEW new \in ConnType, conn' = Append(conn, new), clientSocket' = Len(conn'),
             new.down = <<>>,
             \/ new.client = "closed" /\ UNCHANGED <<connected, startups>>
             \/ new.client = "open" /\ connected' = TRUE /\ startups' = startups + 1
      PROVE  ClientInv'
  <2>1. /\ conn' \in Seq(ConnType) /\ Len(conn') = Len(conn) + 1 /\ DOMAIN conn' = 1..(Len(conn) + 1)
        /\ DOMAIN conn = 1..Len(conn) /\ Len(conn) \in Nat
        /\ conn'[Len(conn')] = new /\ \A e \in DOMAIN conn : conn'[e] = conn[e]
    BY <1>0, <1>6, OneMore
  <2>2. ClientTypes'
    <3>1. /\ connected \in BOOLEAN /\ startups \in Nat
          /\ answers \in Seq(AnswerType)
      BY DEF ClientInv, ClientTypes
    <3>2. startups' \in Nat BY <1>6, <3>1
    <3>3. connected' \in BOOLEAN BY <1>6, <3>1
    <3>4. clientSocket' \in 0..Len(conn') BY <1>6, <2>1
    <3> QED BY <1>1, <1>4, <2>1, <3>1, <3>2, <3>3, <3>4 DEF ClientTypes
  <2>3. Balance'
    <3>1. connected' => startups' > 0
      <4>1. startups \in Nat /\ (connected => startups > 0) BY DEF ClientInv, ClientTypes, Balance
      <4>2. startups' = startups + 1 \/ (connected' = connected /\ startups' = startups) BY <1>6
      <4>3. CASE startups' = startups + 1 BY <4>1, <4>3
      <4>4. CASE connected' = connected /\ startups' = startups BY <4>1, <4>4
      <4> QED BY <4>2, <4>3, <4>4
    <3>2. ASSUME ~reconnected' 
          PROVE /\ ~reconnected /\ ~connected /\ startups = 0
                /\ \A e \in DOMAIN conn : conn'[e].client # "open"
      BY <2>1, <3>2 DEF ClientInv, ClientTypes, Balance
    <3>3. ASSUME NEW e \in DOMAIN conn' PROVE e = Len(conn') \/ (e \in DOMAIN conn /\ e # Len(conn'))
      BY <2>1
    <3>4. Len(conn') # 0 BY <2>1
    <3> QED BY <1>6, <2>1, <3>1, <3>2, <3>3, <3>4 DEF Balance
  <2>4. Streams'
    <3>1. Waiting(new)
      <4>1. Len(new.down) = 0 BY <1>6
      <4> QED BY <1>6, <4>1, ClientAssumption DEF Waiting
    <3>2. ASSUME NEW e \in DOMAIN conn' PROVE Waiting(conn'[e])
      <4>1. e = Len(conn') \/ (e \in DOMAIN conn /\ e # Len(conn')) BY <2>1
      <4> QED BY <2>1, <3>1, <4>1 DEF ClientInv, Streams
    <3> QED BY <1>3, <3>2 DEF Streams, Waiting
  <2>5. Exhausted' BY <1>1, <1>3, <2>1 DEF ClientInv, Exhausted, Spent
  <2> QED BY <1>2, <2>2, <2>3, <2>4, <2>5 DEF ClientInv
<1>7. [client |-> "closed", server |-> "closed", up |-> FALSE, down |-> <<>>] \in ConnType
  BY DEF ConnType
<1>8. [client |-> "open", server |-> "backlog", up |-> FALSE, down |-> <<>>] \in ConnType
  BY DEF ConnType
<1>9. CASE ConnectFails BY <1>5, <1>6, <1>7, <1>9 DEF ConnectFails
<1>10. CASE ConnectSucceeds BY <1>6, <1>8, <1>10 DEF ConnectSucceeds
<1> QED BY <1>9, <1>10

\* A call that begins, or ends without having changed the connection.
LEMMA OffTheLine ==
  ASSUME ClientInv, clientPc' \in {"idle", "send", "sendUpdate"}, received' \in {received, <<>>},
         clientPc' = "send" => received' = <<>>,
         UNCHANGED <<connected, clientSocket, startups, conn, answers, reconnected>>
  PROVE  ClientInv'
<1>0. <<>> \in Seq(Nat) OBVIOUS
<1>1. ClientTypes' BY <1>0 DEF ClientInv, ClientTypes
<1>2. Balance' BY DEF ClientInv, Balance
<1>3. Streams' BY DEF ClientInv, Streams, Receiving, Waiting
<1>4. Exhausted' BY DEF ClientInv, Exhausted, Spent
<1>5. AnswersAreWhole' BY DEF ClientInv, AnswersAreWhole
<1> QED BY <1>1, <1>2, <1>3, <1>4, <1>5 DEF ClientInv

\* The client's end of the socket in use changes: what stays true whatever is
\* returned to the caller.
LEMMA OwnEnd ==
  ASSUME ClientInv, clientSocket # 0, NEW to \in ConnType,
         conn' = [conn EXCEPT ![clientSocket] = to],
         to.client = conn[clientSocket].client, to.server = conn[clientSocket].server, Waiting(to),
         conn[clientSocket].down = <<>> => to.down = <<>>,
         UNCHANGED <<connected, clientSocket, startups, reconnected>>,
         clientPc' # "send", received' \in Seq(Nat),
         clientPc' = "recv" => Got(to)' /\ (conn[clientSocket].down = <<>> => received' = <<>>)
  PROVE  /\ answers' \in Seq(AnswerType) => ClientTypes'
         /\ Balance' /\ Streams'
         /\ DOMAIN conn' = DOMAIN conn
         /\ conn'[clientSocket] = to /\ clientSocket \in DOMAIN conn
         /\ \A e \in DOMAIN conn : Spent(e) => Spent(e)'
<1>1. conn \in Seq(ConnType) /\ clientSocket \in DOMAIN conn BY DEF ClientInv, ClientTypes
<1>2. /\ conn' \in Seq(ConnType) /\ Len(conn') = Len(conn) /\ DOMAIN conn' = DOMAIN conn
      /\ conn'[clientSocket] = to /\ \A e \in DOMAIN conn : e # clientSocket => conn'[e] = conn[e]
  BY <1>1, OneEnd
<1>3. answers' \in Seq(AnswerType) => ClientTypes'
  BY <1>2 DEF ClientInv, ClientTypes
<1>4. Balance'
  <2>1. \A e \in DOMAIN conn : conn'[e].client = conn[e].client BY <1>2
  <2> QED BY <1>2, <2>1 DEF ClientInv, Balance
<1>5. Streams'
  <2>1. \A e \in DOMAIN conn' : Waiting(conn'[e]) BY <1>2 DEF ClientInv, Streams
  <2>2. clientPc' = "recv" => Got(conn[clientSocket])' BY <1>2 DEF Got
  <2> QED BY <2>1, <2>2 DEF Streams, Waiting
<1>6. ASSUME NEW e \in DOMAIN conn, Spent(e) PROVE Spent(e)' BY <1>2, <1>6 DEF Spent
<1> QED BY <1>1, <1>2, <1>3, <1>4, <1>5, <1>6

\* The same, when no answer is returned.
LEMMA NoAnswer ==
  ASSUME ClientInv, clientSocket # 0, NEW to \in ConnType,
         conn' = [conn EXCEPT ![clientSocket] = to],
         to.client = conn[clientSocket].client, to.server = conn[clientSocket].server, Waiting(to),
         conn[clientSocket].down = <<>> => to.down = <<>>,
         UNCHANGED <<connected, clientSocket, startups, reconnected, answers>>,
         clientPc' # "send", received' \in Seq(Nat),
         clientPc' = "recv" => Got(to)' /\ (conn[clientSocket].down = <<>> => received' = <<>>)
  PROVE  ClientInv'
<1>1. answers' \in Seq(AnswerType) BY DEF ClientInv, ClientTypes
<1>2. /\ ClientTypes' /\ Balance' /\ Streams' /\ DOMAIN conn' = DOMAIN conn
      /\ \A e \in DOMAIN conn : Spent(e) => Spent(e)'
  BY <1>1, OwnEnd
<1>3. Exhausted' BY <1>2 DEF ClientInv, Exhausted, Spent
<1>4. AnswersAreWhole' BY DEF ClientInv, AnswersAreWhole
<1> QED BY <1>2, <1>3, <1>4 DEF ClientInv

\* A message to the server goes out, or cannot be sent.
LEMMA Sending ==
  ASSUME ClientInv, Send("send", "recv") \/ Send("sendUpdate", "recvUpdate")
  PROVE  ClientInv'
<1>1. UNCHANGED <<connected, clientSocket, startups, received, answers, reconnected>> BY DEF Send
<1>2. CASE clientPc' = "idle" /\ UNCHANGED conn BY <1>1, <1>2, OffTheLine
<1>3. CASE Usable /\ conn' = [conn EXCEPT ![clientSocket].up = TRUE]
  <2> DEFINE to == [conn[clientSocket] EXCEPT !.up = TRUE]
  <2>1. clientSocket # 0 /\ conn' = [conn EXCEPT ![clientSocket] = to] BY <1>3 DEF Usable
  <2>2. conn[clientSocket] \in ConnType /\ clientSocket \in DOMAIN conn /\ received \in Seq(Nat)
    BY <2>1 DEF ClientInv, ClientTypes
  <2>3. /\ to \in ConnType /\ to.client = conn[clientSocket].client
        /\ to.server = conn[clientSocket].server /\ to.down = conn[clientSocket].down
    BY <2>2 DEF ConnType
  <2> HIDE DEF to
  <2>4. PICK t \in ConnType : t = to BY <2>3
  <2>5. Waiting(t) BY <2>2, <2>3, <2>4 DEF ClientInv, Streams, Waiting
  <2>6. ASSUME clientPc' = "recv" PROVE received = <<>> /\ Got(t)'
    <3>1. clientPc = "send" BY <2>6 DEF Send
    <3>2. received = <<>> /\ received' = <<>> BY <1>1, <3>1 DEF ClientInv, Streams
    <3>3. Len(t.down) \in Nat /\ Len(t.down) <= TimestampBytes BY <2>5 DEF Waiting, ConnType
    <3> QED BY <3>2, <3>3 DEF Got
  <2>7. clientPc' # "send" BY DEF Send
  <2> QED BY <1>1, <2>1, <2>2, <2>3, <2>4, <2>5, <2>6, <2>7, NoAnswer
<1> QED BY <1>2, <1>3 DEF Send

\* n bytes are taken out of the socket.
LEMMA Taken ==
  ASSUME ClientInv, Receiving, NEW n \in Nat, Take(n)
  PROVE  \E to \in ConnType :
           /\ clientSocket # 0 /\ conn[clientSocket] \in ConnType
           /\ n \in 1..Len(conn[clientSocket].down)
           /\ conn' = [conn EXCEPT ![clientSocket] = to]
           /\ to.client = conn[clientSocket].client /\ to.server = conn[clientSocket].server
           /\ Len(to.down) = Len(conn[clientSocket].down) - n /\ Waiting(to)
<1>1. clientSocket # 0 BY DEF ClientInv, Streams
<1>2. conn[clientSocket] \in ConnType /\ clientSocket \in DOMAIN conn
  BY <1>1 DEF ClientInv, ClientTypes
<1>3. PICK d \in Seq(Nat) : d = conn[clientSocket].down BY <1>2 DEF ConnType
<1> DEFINE rest == SubSeq(d, n + 1, Len(d))
           to == [conn[clientSocket] EXCEPT !.down = rest]
<1>4. n \in 1..Len(d) /\ conn' = [conn EXCEPT ![clientSocket] = to] BY <1>3 DEF Take, Socket
<1>5. rest \in Seq(Nat) /\ Len(rest) = Len(d) - n /\ \A i \in 1..(Len(d) - n) : rest[i] = d[n + i]
  BY <1>4, Cut
<1> HIDE DEF rest
<1>6. /\ to \in ConnType /\ to.client = conn[clientSocket].client
      /\ to.server = conn[clientSocket].server /\ to.down = rest
  BY <1>2, <1>5 DEF ConnType
<1>7. Len(d) <= TimestampBytes /\ \A i \in 1..Len(d) : d[i] = TimestampBytes - Len(d) + i
  BY <1>2, <1>3 DEF ClientInv, Streams, Waiting
<1>8. Len(d) \in Nat /\ d # <<>> BY <1>4
<1>9. to.server \notin {"backlog", "accepted"}
  BY <1>2, <1>3, <1>6, <1>8 DEF ClientInv, Streams, Waiting
<1>10. \A i \in 1..Len(rest) : rest[i] = TimestampBytes - Len(rest) + i
  <2> SUFFICES ASSUME NEW i \in 1..(Len(d) - n) PROVE rest[i] = TimestampBytes - (Len(d) - n) + i
    BY <1>5
  <2>1. n + i \in 1..Len(d) BY <1>4, <1>8
  <2>2. rest[i] = TimestampBytes - Len(d) + (n + i) BY <1>5, <1>7, <2>1
  <2> QED BY <1>8, <2>2, ClientAssumption
<1> HIDE DEF to
<1>11. Waiting(to)
  <2>1. Len(rest) <= TimestampBytes BY <1>4, <1>5, <1>7, <1>8, ClientAssumption
  <2> QED BY <1>6, <1>9, <1>10, <2>1 DEF Waiting
<1> QED BY <1>1, <1>2, <1>3, <1>4, <1>5, <1>6, <1>11

\* requestServerTime() gets some of the bytes, perhaps the last of them.
LEMMA Getting == ASSUME ClientInv, RecvTime PROVE ClientInv'
<1>1. clientPc = "recv" /\ Receiving BY DEF RecvTime, Receiving
<1>2. /\ TimestampBytes \in Nat /\ received \in Seq(Nat) /\ Got(conn[clientSocket])
      /\ answers \in Seq(AnswerType)
  BY <1>1, ClientAssumption DEF ClientInv, ClientTypes, Streams
<1>3. PICK n \in 1..(TimestampBytes - Len(received)) :
        Take(n) /\ received' = received \o SubSeq(Socket.down, 1, n)
  BY DEF RecvTime
<1>4. n \in Nat /\ Len(received) \in Nat BY <1>2, <1>3
<1>5. PICK to \in ConnType :
        /\ clientSocket # 0 /\ conn[clientSocket] \in ConnType
        /\ n \in 1..Len(conn[clientSocket].down)
        /\ conn' = [conn EXCEPT ![clientSocket] = to]
        /\ to.client = conn[clientSocket].client /\ to.server = conn[clientSocket].server
        /\ Len(to.down) = Len(conn[clientSocket].down) - n /\ Waiting(to)
  BY <1>1, <1>3, <1>4, Taken
<1>6. PICK d \in Seq(Nat) : d = conn[clientSocket].down BY <1>5 DEF ConnType
<1> DEFINE new == SubSeq(d, 1, n)
<1>7. new \in Seq(Nat) /\ Len(new) = n /\ \A i \in 1..n : new[i] = d[i] BY <1>5, <1>6, Cut
<1>8. received' = received \o new BY <1>3, <1>6 DEF Socket
<1> HIDE DEF new
<1>9. received' \in Seq(Nat) /\ Len(received') = Len(received) + n
  <2>1. \A s, t \in Seq(Nat) : s \o t \in Seq(Nat) /\ Len(s \o t) = Len(s) + Len(t) OBVIOUS
  <2>2. received \in Seq(Nat) BY <1>2
  <2>3. new \in Seq(Nat) /\ Len(new) = n BY <1>7
  <2> QED BY <1>8, <2>1, <2>2, <2>3
<1>10. Len(d) \in Nat /\ Len(to.down) \in Nat /\ Len(to.down) = Len(d) - n /\ d # <<>>
  BY <1>5, <1>6 DEF ConnType
<1>11. \A i \in 1..Len(d) : d[i] = TimestampBytes - Len(d) + i
  <2>1. clientSocket \in DOMAIN conn BY <1>5 DEF ClientInv, ClientTypes
  <2> QED BY <1>6, <2>1 DEF ClientInv, Streams, Waiting
<1>12. Len(received) + Len(d) <= TimestampBytes BY <1>2, <1>6 DEF Got
<1>13. ASSUME NEW i \in 1..Len(received')
       PROVE  received'[i] = TimestampBytes - Len(to.down) - Len(received') + i
  <2>1. CASE i <= Len(received)
    <3>1. received'[i] = received[i] BY <1>2, <1>7, <1>8, <1>9, <2>1
    <3>2. received[i] = TimestampBytes - Len(d) - Len(received) + i
      <4>1. i \in 1..Len(received) BY <1>4, <1>9, <2>1
      <4> QED BY <1>2, <1>6, <4>1 DEF Got
    <3> QED BY <1>2, <1>4, <1>9, <1>10, <3>1, <3>2
  <2>2. CASE i > Len(received)
    <3>1. i - Len(received) \in 1..n /\ i - Len(received) \in 1..Len(d)
      BY <1>4, <1>5, <1>6, <1>9, <1>10, <2>2
    <3>2. received'[i] = new[i - Len(received)] BY <1>2, <1>7, <1>8, <1>9, <2>2
    <3>3. received'[i] = TimestampBytes - Len(d) + (i - Len(received)) BY <1>7, <1>11, <3>1, <3>2
    <3> QED BY <1>2, <1>4, <1>9, <1>10, <3>3
  <2> QED BY <1>4, <1>9, <2>1, <2>2
<1>14. Got(to)'
  <2>1. Len(received') + Len(to.down) <= TimestampBytes BY <1>2, <1>4, <1>9, <1>10, <1>12
  <2>2. to.server \in {"sent", "closed"}
    <3>1. conn[clientSocket].server \notin {"backlog", "accepted"}
      <4>1. clientSocket \in DOMAIN conn BY <1>5 DEF ClientInv, ClientTypes
      <4> QED BY <1>6, <1>10, <4>1 DEF ClientInv, Streams, Waiting
    <3> QED BY <1>5, <3>1 DEF ConnType
  <2> QED BY <1>13, <2>1, <2>2 DEF Got
<1>15. UNCHANGED <<connected, clientSocket, startups, reconnected>> /\ clientPc' # "send"
  BY <1>1 DEF RecvTime
<1>16. CASE UNCHANGED answers
  BY <1>5, <1>6, <1>9, <1>10, <1>14, <1>15, <1>16, NoAnswer
<1>17. CASE /\ ~(Len(received') < TimestampBytes) /\ clientPc' = "idle"
            /\ answers' = Append(answers, [socket |-> clientSocket, bytes |-> FromNetwork(received')])
  <2>1. Len(received') = TimestampBytes /\ Len(to.down) = 0
    <3>1. ~(Len(received) + n < TimestampBytes) BY <1>9, <1>17
    <3>2. TimestampBytes \in Nat BY <1>2
    <3>3. Len(received') = Len(received) + n BY <1>9
    <3>4. Len(d) \in Nat /\ Len(to.down) \in Nat /\ Len(to.down) = Len(d) - n BY <1>10
    <3>5. \A a, b, k, N \in Nat : ~(a + n < N) /\ n \in Nat /\ a + b <= N /\ k = b - n => a + n = N /\ k = 0
      OBVIOUS
    <3> QED BY <1>4, <1>12, <3>1, <3>2, <3>3, <3>4, <3>5
  <2>2. \A i \in 1..Len(received') : received'[i] = i BY <1>2, <1>13, <2>1
  <2>3. PICK s \in Seq(Nat) : s = received' BY <1>9
  <2>4. /\ FromNetwork(s) \in Seq(Nat) /\ Len(FromNetwork(s)) = TimestampBytes
        /\ HalvesReversed(FromNetwork(s))
    BY <2>1, <2>2, <2>3, Whole
  <2>5. PICK new_ \in AnswerType :
          /\ answers' = Append(answers, new_) /\ new_.socket = clientSocket
          /\ HalvesReversed(new_.bytes)
    <3>1. clientSocket \in Nat BY DEF ClientInv, ClientTypes
    <3>2. [socket |-> clientSocket, bytes |-> FromNetwork(s)] \in AnswerType
      BY <2>4, <3>1 DEF AnswerType
    <3> QED BY <1>17, <2>3, <2>4, <3>2
  <2>6. /\ answers' \in Seq(AnswerType) /\ Len(answers) \in Nat
        /\ DOMAIN answers = 1..Len(answers) /\ DOMAIN answers' = 1..(Len(answers) + 1)
        /\ answers'[Len(answers) + 1] = new_
        /\ \A i \in DOMAIN answers : answers'[i] = answers[i]
    BY <1>2, <2>5, OneMore
  <2>7. /\ ClientTypes' /\ Balance' /\ Streams' /\ DOMAIN conn' = DOMAIN conn
        /\ conn'[clientSocket] = to /\ clientSocket \in DOMAIN conn
        /\ \A e \in DOMAIN conn : Spent(e) => Spent(e)'
    BY <1>5, <1>6, <1>9, <1>10, <1>14, <1>15, <2>6, OwnEnd
  <2>8. ASSUME NEW i \in DOMAIN answers
        PROVE  answers[i].socket \in DOMAIN conn /\ answers[i].socket # clientSocket
    BY <1>6, <1>10 DEF ClientInv, Exhausted, Spent
  <2>9. Spent(clientSocket)'
    <3>1. to.down = <<>> BY <2>1 DEF ConnType
    <3>2. to.server \in {"sent", "closed"}
      <4>1. conn[clientSocket].server \notin {"backlog", "accepted"}
        BY <1>6, <1>10, <2>7 DEF ClientInv, Streams, Waiting
      <4> QED BY <1>5, <4>1 DEF ConnType
    <3> QED BY <1>15, <1>17, <2>7, <3>1, <3>2 DEF Spent
  <2>10. \A i \in DOMAIN answers' : i = Len(answers) + 1 \/ (i \in DOMAIN answers /\ i # Len(answers) + 1)
    BY <2>6
  <2>11. Exhausted'
    <3>1. ASSUME NEW i \in DOMAIN answers' PROVE (answers[i].socket \in DOMAIN conn /\ Spent(answers[i].socket))'
      <4>1. CASE i = Len(answers) + 1
        BY <1>15, <2>5, <2>6, <2>7, <2>9, <4>1 DEF Spent
      <4>2. CASE i \in DOMAIN answers
        BY <1>15, <2>6, <2>7, <4>2 DEF ClientInv, Exhausted, Spent
      <4> QED BY <2>10, <4>1, <4>2
    <3> QED BY <3>1 DEF Exhausted
  <2>12. AnswersAreWhole'
    <3>1. \A i \in DOMAIN answers' : HalvesReversed(answers'[i].bytes)
      BY <2>5, <2>6, <2>10 DEF ClientInv, AnswersAreWhole
    <3>2. ASSUME NEW i \in DOMAIN answers', NEW j \in DOMAIN answers',
                 answers'[i].socket = answers'[j].socket
          PROVE  i = j
      BY <2>5, <2>6, <2>8, <2>10, <3>2 DEF ClientInv, AnswersAreWhole
    <3> QED BY <3>1, <3>2 DEF AnswersAreWhole
  <2> QED BY <2>7, <2>11, <2>12 DEF ClientInv
<1> QED BY <1>16, <1>17 DEF RecvTime

\* Whatever else ends a wait for the server.
LEMMA NotGetting ==
  ASSUME ClientInv, RecvUpdate \/ RecvEnds \/ RecvFails
  PROVE  ClientInv'
<1>1. received \in Seq(Nat) BY DEF ClientInv, ClientTypes
<1>2. CASE UNCHANGED conn
  BY <1>2, OffTheLine DEF RecvUpdate, RecvEnds, RecvFails
<1>3. CASE RecvUpdate
  <2>1. PICK n \in 1..TimestampBytes : Take(n) BY <1>3 DEF RecvUpdate
  <2>2. n \in Nat /\ Receiving BY <1>3, <2>1, ClientAssumption DEF RecvUpdate, Receiving
  <2>3. PICK to \in ConnType :
          /\ clientSocket # 0 /\ conn[clientSocket] \in ConnType
          /\ n \in 1..Len(conn[clientSocket].down)
          /\ conn' = [conn EXCEPT ![clientSocket] = to]
          /\ to.client = conn[clientSocket].client /\ to.server = conn[clientSocket].server
          /\ Len(to.down) = Len(conn[clientSocket].down) - n /\ Waiting(to)
    BY <2>1, <2>2, Taken
  <2>4. conn[clientSocket].down # <<>> BY <2>3
  <2> QED BY <1>1, <1>3, <2>3, <2>4, NoAnswer DEF RecvUpdate
<1>4. CASE RecvFails /\ conn' = [conn EXCEPT ![clientSocket].down = <<>>]
  <2>1. clientSocket # 0 BY <1>4 DEF RecvFails, ClientInv, Streams
  <2>2. conn[clientSocket] \in ConnType /\ clientSocket \in DOMAIN conn
    BY <2>1 DEF ClientInv, ClientTypes
  <2> DEFINE to == [conn[clientSocket] EXCEPT !.down = <<>>]
  <2>3. conn' = [conn EXCEPT ![clientSocket] = to] BY <1>4
  <2>4. <<>> \in Seq(Nat) /\ Len(<<>>) = 0 OBVIOUS
  <2>5. /\ to \in ConnType /\ to.client = conn[clientSocket].client
        /\ to.server = conn[clientSocket].server /\ to.down = <<>>
    BY <2>2, <2>4 DEF ConnType
  <2> HIDE DEF to
  <2>6. Waiting(to) BY <2>4, <2>5, ClientAssumption DEF Waiting
  <2> QED BY <1>1, <1>4, <2>1, <2>3, <2>5, <2>6, NoAnswer DEF RecvFails
<1> QED BY <1>2, <1>3, <1>4 DEF RecvEnds, RecvFails

\* disconnectFromServer() closes the socket in use and calls WSACleanup.
LEMMA Disconnecting == ASSUME ClientInv, disconnectFromServer PROVE ClientInv'
<1>1. /\ connected /\ connected' = FALSE /\ startups' = startups - 1 /\ clientPc = "idle"
      /\ UNCHANGED <<clientSocket, clientPc, received, answers, reconnected>>
  BY DEF disconnectFromServer
<1>2. conn \in Seq(ConnType) /\ startups \in Nat /\ startups > 0 /\ clientSocket \in 0..Len(conn)
  BY <1>1 DEF ClientInv, ClientTypes, Balance
<1>3. startups' \in Nat BY <1>1, <1>2
<1>4. /\ conn' \in Seq(ConnType) /\ Len(conn') = Len(conn) /\ DOMAIN conn' = DOMAIN conn
      /\ \A e \in DOMAIN conn :
           /\ e # clientSocket => conn'[e] = conn[e]
           /\ conn'[e].server = conn[e].server /\ conn'[e].down = conn[e].down
           /\ conn'[e].client = "open" => conn[e].client = "open"
      /\ clientSocket # 0 => conn'[clientSocket].client # "open"
  <2>1. CASE ~Usable BY <1>2, <2>1 DEF disconnectFromServer, Usable, Socket
  <2>2. CASE Usable
    <3>1. clientSocket \in DOMAIN conn /\ conn[clientSocket] \in ConnType BY <1>2, <2>2 DEF Usable
    <3> DEFINE to == [conn[clientSocket] EXCEPT !.up = TRUE, !.client = "closed"]
    <3>2. conn' = [conn EXCEPT ![clientSocket] = to]
      BY <1>2, <2>2, <3>1 DEF disconnectFromServer
    <3>3. /\ to \in ConnType /\ to.client = "closed"
          /\ to.server = conn[clientSocket].server /\ to.down = conn[clientSocket].down
      BY <3>1 DEF ConnType
    <3> HIDE DEF to
    <3>4. /\ conn' \in Seq(ConnType) /\ Len(conn') = Len(conn) /\ DOMAIN conn' = DOMAIN conn
          /\ conn'[clientSocket] = to /\ \A e \in DOMAIN conn : e # clientSocket => conn'[e] = conn[e]
      BY <1>2, <3>1, <3>2, <3>3, OneEnd
    <3> QED BY <3>1, <3>3, <3>4
  <2> QED BY <2>1, <2>2
<1>5. ClientTypes' BY <1>1, <1>3, <1>4 DEF ClientInv, ClientTypes
<1>6. Balance'
  <2>1. ASSUME ~reconnected
        PROVE  startups = 1 /\ clientSocket # 0 /\ \A c \in DOMAIN conn : conn[c].client = "open" <=> c = clientSocket
    BY <1>1, <2>1 DEF ClientInv, Balance
  <2>2. ASSUME ~reconnected PROVE startups' = 0 /\ \A c \in DOMAIN conn' : conn'[c].client # "open"
    BY <1>1, <1>4, <2>1, <2>2
  <2> QED BY <1>1, <2>2 DEF Balance
<1>7. Streams' BY <1>1, <1>4 DEF ClientInv, Streams, Waiting, Receiving
<1>8. Exhausted' BY <1>1, <1>4 DEF ClientInv, Exhausted, Spent
<1>9. AnswersAreWhole' BY <1>1 DEF ClientInv, AnswersAreWhole
<1> QED BY <1>5, <1>6, <1>7, <1>8, <1>9 DEF ClientInv

\* Every step of the client and of the server keeps the invariant.
LEMMA ClientSteps == ASSUME ClientInv, [ClientNext]_clientVars PROVE ClientInv'
<1>1. CASE start \/ UNCHANGED clientVars
  <2>1. UNCHANGED <<connected, clientSocket, startups, conn, clientPc, received, answers, reconnected>>
    BY <1>1 DEF start, clientVars
  <2>2. ClientTypes' BY <2>1 DEF ClientInv, ClientTypes
  <2>3. Balance' BY <2>1 DEF ClientInv, Balance
  <2>4. Streams' BY <2>1 DEF ClientInv, Streams, Waiting, Got, Receiving
  <2>5. Exhausted' BY <2>1 DEF ClientInv, Exhausted, Spent
  <2>6. AnswersAreWhole' BY <2>1 DEF ClientInv, AnswersAreWhole
  <2> QED BY <2>2, <2>3, <2>4, <2>5, <2>6 DEF ClientInv
<1>2. CASE ServerStep BY <1>2, ServerSteps DEF ServerStep
<1>3. CASE ClientStep BY <1>3, Sending, Getting, NotGetting DEF ClientStep
<1>4. CASE RecvFails BY <1>4, NotGetting
<1>5. CASE connectToServer
  <2>1. clientPc' = "idle" /\ received' = received BY <1>5 DEF connectToServer
  <2> QED BY <1>5, <2>1, Connecting DEF connectToServer
<1>6. CASE requestServerTime
  <2>1. CASE connected /\ clientPc' = "send" /\ UNCHANGED <<connected, clientSocket, startups, hostUp, conn, answers>>
    BY <1>6, <2>1, OffTheLine DEF requestServerTime
  <2>2. CASE ~connected
    <3>1. reconnected' = (reconnected \/ connected)
      <4>1. reconnected \in BOOLEAN /\ reconnected' = reconnected
        BY <1>6 DEF requestServerTime, ClientInv, ClientTypes
      <4> QED BY <2>2, <4>1
    <3> QED BY <1>6, <2>2, <3>1, Connecting DEF requestServerTime
  <2> QED BY <1>6, <2>1, <2>2 DEF requestServerTime
<1>7. CASE updateServerTime BY <1>7, OffTheLine DEF updateServerTime
<1>8. CASE disconnectFromServer BY <1>8, Disconnecting
<1> QED BY <1>1, <1>2, <1>3, <1>4, <1>5, <1>6, <1>7, <1>8 DEF ClientNext

\* Nothing has been connected yet.
LEMMA ClientStart == ASSUME ClientInit PROVE ClientInv
<1>1. <<>> \in Seq(ConnType) /\ <<>> \in Seq(AnswerType) /\ <<>> \in Seq(Nat)
  OBVIOUS
<1>2. conn = <<>> /\ answers = <<>> /\ DOMAIN conn = {} /\ DOMAIN answers = {} /\ Len(conn) = 0
  BY DEF ClientInit
<1>3. ClientTypes
  <2>1. clientSocket \in 0..Len(conn) BY <1>2 DEF ClientInit
  <2>2. conn \in Seq(ConnType) /\ answers \in Seq(AnswerType) BY <1>1, <1>2
  <2>3. received \in Seq(Nat) BY <1>1 DEF ClientInit
  <2> QED BY <2>1, <2>2, <2>3 DEF ClientInit, ClientTypes
<1>4. Balance BY <1>2 DEF ClientInit, Balance
<1>5. Streams BY <1>2 DEF ClientInit, Streams, Receiving
<1>6. Exhausted /\ AnswersAreWhole BY <1>2 DEF Exhausted, AnswersAreWhole
<1> QED BY <1>3, <1>4, <1>5, <1>6 DEF ClientInv

\* The invariant counts the open sockets.
LEMMA BalanceCounts == ASSUME ClientInv PROVE WinsockBalanced
<1>1. connected => startups > 0 BY DEF ClientInv, Balance
<1>2. ASSUME ~reconnected
      PROVE  startups = Cardinality({c \in DOMAIN conn : conn[c].client = "open"})
  <2> DEFINE O == {c \in DOMAIN conn : conn[c].client = "open"}
  <2>1. CASE connected
    <3>1. startups = 1 /\ clientSocket # 0 /\ \A c \in DOMAIN conn : conn[c].client = "open" <=> c = clientSocket
      BY <1>2, <2>1 DEF ClientInv, Balance
    <3>2. clientSocket \in DOMAIN conn BY <3>1 DEF ClientInv, ClientTypes
    <3>3. O = {clientSocket} BY <3>1, <3>2
    <3> QED BY <3>1, <3>3, FS_Singleton
  <2>2. CASE ~connected
    <3>1. startups = 0 /\ \A c \in DOMAIN conn : conn[c].client # "open"
      BY <1>2, <2>2 DEF ClientInv, Balance
    <3>2. O = {} BY <3>1
    <3> QED BY <3>1, <3>2, FS_EmptySet
  <2> QED BY <2>1, <2>2
<1> QED BY <1>1, <1>2 DEF WinsockBalanced

\* However calls fail, the client's WSAStartup and WSACleanup calls match its open
\* sockets unless it connects twice, and a client that counts as connected has
\* Winsock started; for every number of connections.
THEOREM WinsockAlways == ClientInit /\ [][ClientNext]_clientVars => []WinsockBalanced
<1>1. ClientInit => ClientInv BY ClientStart
<1>2. ClientInv /\ [ClientNext]_clientVars => ClientInv' BY ClientSteps
<1>3. ClientInv => WinsockBalanced BY BalanceCounts
<1> QED BY <1>1, <1>2, <1>3, PTL

\* Every result of requestServerTime that is not empty is a whole timestamp with the
\* bytes of each half reversed, the only one its connection ever gives, for timestamps of every even size and
\* however TCP cuts them up.
THEOREM AnswersAlways == ClientInit /\ [][ClientNext]_clientVars => []AnswersAreWhole
<1>1. ClientInit => ClientInv BY ClientStart
<1>2. ClientInv /\ [ClientNext]_clientVars => ClientInv' BY ClientSteps
<1>3. ClientInv => AnswersAreWhole BY DEF ClientInv
<1> QED BY <1>1, <1>2, <1>3, PTL

-----------------------------------------------------------------------------
(* TimedLoop                                                               *)

\* The time that has really passed at clock c, in milliseconds of the server.
Real(c) == origin.time + (c - origin.clock) \div TicksPerMs

\* Of the ticks until the last update all but less than a millisecond for each
\* update are in the service's time, unless it may have wrapped around.
ClockInv ==
  /\ clock \in Nat /\ lastSyncLocalTime \in Nat /\ updates \in Nat
  /\ origin \in [clock : Nat, time : Nat]
  /\ serverTimeAtSync \in 0..(TimeMod - 1)
  /\ origin.clock <= lastSyncLocalTime /\ lastSyncLocalTime <= clock
  /\ synced /\ Real(lastSyncLocalTime) < TimeMod =>
       LET whole == TicksPerMs * (serverTimeAtSync - origin.time)
           ticks == lastSyncLocalTime - origin.clock
       IN  whole <= ticks /\ ticks <= whole + updates * (TicksPerMs - 1)

Reports(t) == {r \in reported : r.task = t}

LoopTypes ==
  /\ now \in Int /\ startTime \in [TimedTasks -> Int] /\ endTime \in [TimedTasks -> Int]
  /\ spec \in TaskSpecs /\ activeTasks \subseteq TimedTasks
  /\ loop \in {"start", "add", "sleep", "read", "report", "remove", "poll", "end"}

\* Task t has not been reported yet: it is active, and not about to be removed.
ToCome(t) ==
  \/ loop \in {"start", "add"}
  \/ t \in activeTasks /\ ~(loop = "remove" /\ t \in Completed(now))

\* What is to come has no report and what is not has one.
ReportInv ==
  /\ loop \in {"start", "add"} => reported = {}
  /\ \A t \in TimedTasks :
       /\ ToCome(t) => Reports(t) = {}
       /\ ~ToCome(t) => \E r \in reported : Reports(t) = {r}

\* The announcement is about the times that are compared later.
NextInv == loop \in {"report", "remove"} => next = getNextToComplete(now)

LoopInv == ClockInv /\ LoopTypes /\ ReportInv /\ NextInv

\* Division rounds down.
LEMMA Quotient ==
  ASSUME NEW T \in Nat \ {0}, NEW x \in Nat
  PROVE  x \div T \in Nat /\ T * (x \div T) <= x /\ x < T * (x \div T) + T
OBVIOUS

\* Multiples keep the order.
LEMMA Multiples ==
  ASSUME NEW T \in Nat \ {0}, NEW a \in Int, NEW b \in Int, T * a < T * b PROVE a < b
<1>1. SUFFICES ASSUME b <= a PROVE FALSE OBVIOUS
<1>2. PICK d \in Nat : a = b + d
  <2>1. a - b \in Nat /\ a = b + (a - b) BY <1>1
  <2> QED BY <2>1
<1>3. T * d \in Nat OBVIOUS
<1>4. T * a = T * b + T * d BY <1>2
<1> QED BY <1>3, <1>4

\* What the service adds for the ticks from L to c, when it has counted k
\* milliseconds until then and has been updated u times.
LEMMA Elapsed ==
  ASSUME NEW T \in Nat \ {0}, NEW oc \in Nat, NEW L \in Nat, NEW c \in Nat, NEW k \in Int, NEW u \in Nat,
         oc <= L, L <= c, T * k <= L - oc, L - oc <= T * k + u * (T - 1)
  PROVE  LET e == (c - L) \div T
             r == (c - oc) \div T
         IN  /\ e \in Nat /\ r \in Nat /\ k + e <= r /\ r <= k + e + u
             /\ T * (k + e) <= c - oc /\ c - oc <= T * (k + e) + (u + 1) * (T - 1)
<1> DEFINE e == (c - L) \div T
           r == (c - oc) \div T
<1>1. c - L \in Nat /\ c - oc \in Nat /\ L - oc \in Nat OBVIOUS
<1>2. e \in Nat /\ T * e <= c - L /\ c - L < T * e + T BY <1>1, Quotient
<1>3. r \in Nat /\ T * r <= c - oc /\ c - oc < T * r + T BY <1>1, Quotient
<1> HIDE DEF e, r
<1>5. T * (k + e) = T * k + T * e BY <1>2
<1>6. T * (k + e) <= c - oc
  <2>1. T * k \in Int /\ T * e \in Int BY <1>2
  <2> QED BY <1>2, <1>5, <2>1
<1>7. (u + 1) * (T - 1) = u * (T - 1) + (T - 1) OBVIOUS
<1>8. c - oc <= T * (k + e) + (u + 1) * (T - 1)
  <2>1. T * k \in Int /\ T * e \in Int /\ u * (T - 1) \in Int BY <1>2
  <2> QED BY <1>2, <1>5, <1>7, <2>1
<1>9. k + e <= r
  <2>1. T * (r + 1) = T * r + T BY <1>3
  <2>2. T * (k + e) \in Int /\ T * r \in Int BY <1>2, <1>3
  <2>3. T * (k + e) < T * (r + 1) BY <1>3, <1>6, <2>1, <2>2
  <2>4. k + e < r + 1 BY <1>2, <1>3, <2>3, Multiples
  <2> QED BY <1>2, <1>3, <2>4
<1>10. r <= k + e + u
  <2>1. T * (k + e + u + 1) = T * (k + e) + T * (u + 1) BY <1>2
  <2>2. (u + 1) * (T - 1) = T * (u + 1) - (u + 1) OBVIOUS
  <2>3. T * (k + e) \in Int /\ T * (u + 1) \in Int /\ T * r \in Int BY <1>2, <1>3
  <2>4. T * r < T * (k + e + u + 1) BY <1>3, <1>8, <2>1, <2>2, <2>3
  <2>5. r < k + e + u + 1 BY <1>2, <1>3, <2>4, Multiples
  <2> QED BY <1>2, <1>3, <2>5
<1> QED BY <1>2, <1>3, <1>6, <1>8, <1>9, <1>10 DEF e, r

\* Time that has passed does not grow less.
LEMMA Passing ==
  ASSUME NEW T \in Nat \ {0}, NEW oc \in Nat, NEW L \in Nat, NEW c \in Nat, oc <= L, L <= c
  PROVE  (L - oc) \div T <= (c - oc) \div T
<1> DEFINE q == (L - oc) \div T
           r == (c - oc) \div T
<1>1. L - oc \in Nat /\ c - oc \in Nat /\ L - oc <= c - oc OBVIOUS
<1>2. q \in Nat /\ T * q <= L - oc BY <1>1, Quotient
<1>3. r \in Nat /\ c - oc < T * r + T BY <1>1, Quotient
<1> HIDE DEF q, r
<1>4. T * (r + 1) = T * r + T BY <1>3
<1>5. T * q \in Int /\ T * r \in Int BY <1>2, <1>3
<1>6. T * q < T * (r + 1) BY <1>1, <1>2, <1>3, <1>4, <1>5
<1>7. q < r + 1 BY <1>2, <1>3, <1>6, Multiples
<1>8. q <= r BY <1>2, <1>3, <1>7
<1> QED BY <1>8 DEF q, r

\* The times of the service while it cannot have wrapped around.
LEMMA Reading ==
  ASSUME ClockInv, synced, Real(clock) < TimeMod
  PROVE  /\ getCurrentTime = serverTimeAtSync + ElapsedMs
         /\ getCurrentTime <= Real(clock) /\ getCurrentTime >= Real(clock) - updates
         /\ getCurrentTime \in 0..(TimeMod - 1)
         /\ LET whole == TicksPerMs * (getCurrentTime - origin.time)
            IN  whole <= clock - origin.clock /\ clock - origin.clock <= whole + (updates + 1) * (TicksPerMs - 1)
<1>1. PICK T \in Nat \ {0} : T = TicksPerMs BY LoopAssumption
<1>2. PICK c \in Nat, L \in Nat, u \in Nat : c = clock /\ L = lastSyncLocalTime /\ u = updates
  BY DEF ClockInv
<1>3. PICK oc \in Nat, ot \in Nat : oc = origin.clock /\ ot = origin.time BY DEF ClockInv
<1>4. PICK s \in Nat : s = serverTimeAtSync /\ s < TimeMod BY LoopAssumption DEF ClockInv
<1>5. oc <= L /\ L <= c BY <1>2, <1>3 DEF ClockInv
<1> DEFINE e == (c - L) \div T
           r == (c - oc) \div T
           q == (L - oc) \div T
<1>6. Real(clock) = ot + r /\ Real(lastSyncLocalTime) = ot + q /\ ElapsedMs = e
  BY <1>1, <1>2, <1>3 DEF Real, ElapsedMs
<1>7. q <= r /\ q \in Nat /\ r \in Nat /\ e \in Nat
  <2>1. L - oc \in Nat /\ c - oc \in Nat /\ c - L \in Nat BY <1>5
  <2> QED BY <1>5, <2>1, Passing, Quotient
<1> HIDE DEF e, r, q
<1>8. ot + q < TimeMod BY <1>6, <1>7, LoopAssumption
<1>9. T * (s - ot) <= L - oc /\ L - oc <= T * (s - ot) + u * (T - 1)
  BY <1>1, <1>2, <1>3, <1>4, <1>6, <1>8 DEF ClockInv
<1>10. /\ (s - ot) + e <= r /\ r <= (s - ot) + e + u
       /\ T * ((s - ot) + e) <= c - oc /\ c - oc <= T * ((s - ot) + e) + (u + 1) * (T - 1)
  <2>1. s - ot \in Int OBVIOUS
  <2> QED BY <1>5, <1>9, <2>1, Elapsed DEF e, r
<1>11. s + e < TimeMod BY <1>6, <1>7, <1>10, LoopAssumption
<1>12. getCurrentTime = s + e
  <2>1. (s + e) % TimeMod = s + e
    <3>1. s + e \in Nat BY <1>7
    <3>2. PICK M \in Nat \ {0} : M = TimeMod BY LoopAssumption
    <3>3. \A x \in Nat : x < M => x % M = x OBVIOUS
    <3> QED BY <1>11, <3>1, <3>2, <3>3
  <2> QED BY <1>4, <1>6, <2>1 DEF getCurrentTime
<1>13. (s + e) - ot = (s - ot) + e BY <1>7
<1>14. s + e <= ot + r /\ s + e >= (ot + r) - u BY <1>7, <1>10
<1>15. s + e \in 0..(TimeMod - 1) BY <1>7, <1>11, LoopAssumption
<1>16. /\ getCurrentTime = serverTimeAtSync + ElapsedMs
       /\ getCurrentTime <= Real(clock) /\ getCurrentTime >= Real(clock) - updates
       /\ getCurrentTime \in 0..(TimeMod - 1)
  <2>1. getCurrentTime = serverTimeAtSync + ElapsedMs BY <1>4, <1>6, <1>12
  <2>2. getCurrentTime <= Real(clock) BY <1>6, <1>12, <1>14
  <2>3. getCurrentTime >= Real(clock) - updates BY <1>2, <1>6, <1>12, <1>14
  <2>4. getCurrentTime \in 0..(TimeMod - 1) BY <1>12, <1>15
  <2> QED BY <2>1, <2>2, <2>3, <2>4
<1>17. getCurrentTime - origin.time = (s - ot) + e BY <1>3, <1>12, <1>13
<1>18. TicksPerMs * (getCurrentTime - origin.time) = T * ((s - ot) + e) BY <1>1, <1>17
<1>19. /\ TicksPerMs * (getCurrentTime - origin.time) <= clock - origin.clock
       /\ clock - origin.clock
            <= TicksPerMs * (getCurrentTime - origin.time) + (updates + 1) * (TicksPerMs - 1)
  BY <1>1, <1>2, <1>3, <1>10, <1>18
<1> QED BY <1>16, <1>19

\* A synchronisation, by the demo or by others.
LEMMA Synchronised ==
  ASSUME ClockInv, NEW s \in ServerTimes, syncWithServerTime(s), UNCHANGED clock
  PROVE  ClockInv'
<1>1. s \in 0..(TimeMod - 1) /\ s \in Nat /\ clock \in Nat /\ TicksPerMs \in Nat \ {0}
  BY LoopAssumption DEF ClockInv
<1>2. /\ lastSyncLocalTime' = clock /\ serverTimeAtSync' = s /\ updates' = 0
      /\ origin' = [clock |-> clock, time |-> s]
  BY DEF syncWithServerTime
<1>3. origin' \in [clock : Nat, time : Nat] /\ origin'.clock = clock /\ origin'.time = s
  BY <1>1, <1>2
<1>4. TicksPerMs * (s - s) = 0 /\ 0 * (TicksPerMs - 1) = 0 /\ clock - clock = 0 BY <1>1
<1> QED BY <1>1, <1>2, <1>3, <1>4 DEF ClockInv

\* updateRealTime(), by the demo or by others.
LEMMA Updated == ASSUME ClockInv, updateRealTime, UNCHANGED clock PROVE ClockInv'
<1>1. /\ synced /\ serverTimeAtSync' = getCurrentTime /\ lastSyncLocalTime' = clock
      /\ updates' = updates + 1 /\ UNCHANGED <<synced, origin>>
  BY DEF updateRealTime, getCurrentTime
<1>2. /\ clock \in Nat /\ updates \in Nat /\ origin \in [clock : Nat, time : Nat]
      /\ origin.clock <= clock /\ serverTimeAtSync \in Nat /\ clock - lastSyncLocalTime \in Nat
  BY LoopAssumption DEF ClockInv
<1>3. getCurrentTime \in 0..(TimeMod - 1)
  <2>1. PICK T \in Nat \ {0}, M \in Nat \ {0} : T = TicksPerMs /\ M = TimeMod BY LoopAssumption
  <2>2. ElapsedMs \in Nat BY <1>2, <2>1, Quotient DEF ElapsedMs
  <2>3. \A x \in Nat : x % M \in 0..(M - 1) OBVIOUS
  <2> QED BY <1>1, <1>2, <2>1, <2>2, <2>3 DEF getCurrentTime
<1>4. ASSUME Real(clock) < TimeMod
      PROVE  LET whole == TicksPerMs * (getCurrentTime - origin.time)
             IN  whole <= clock - origin.clock /\ clock - origin.clock <= whole + (updates + 1) * (TicksPerMs - 1)
  BY <1>1, <1>4, Reading
<1>5. Real(lastSyncLocalTime)' = Real(clock) BY <1>1 DEF Real
<1> QED BY <1>1, <1>2, <1>3, <1>4, <1>5 DEF ClockInv

\* Every step keeps what is known of the clock.
LEMMA ClockSteps == ASSUME ClockInv, [LoopNext]_loopVars PROVE ClockInv'
<1>1. CASE Tick
  <2>1. clock' = clock + 1 /\ UNCHANGED clockVars BY <1>1 DEF Tick
  <2>2. clock' \in Nat /\ lastSyncLocalTime <= clock' BY <2>1 DEF ClockInv
  <2> QED BY <2>1, <2>2 DEF ClockInv, clockVars, Real
<1>2. CASE DemoSync BY <1>2, Synchronised DEF DemoSync
<1>3. CASE OtherSync BY <1>3, Synchronised DEF OtherSync
<1>4. CASE DemoUpdate BY <1>4, Updated DEF DemoUpdate
<1>5. CASE OtherUpdate BY <1>5, Updated DEF OtherUpdate
<1>6. CASE UNCHANGED <<clock, clockVars>> BY <1>6 DEF ClockInv, clockVars, Real
<1> QED BY <1>1, <1>2, <1>3, <1>4, <1>5, <1>6
     DEF LoopNext, DemoStep, loopVars, DemoAdd, DemoSleep, DemoRead, DemoReport, DemoRemove, DemoEnd,
         extend, restart, forceComplete, ChangeEnd

\* The clock has not been synchronised.
LEMMA ClockStart == ASSUME LoopInit PROVE ClockInv
<1>1. origin \in [clock : Nat, time : Nat] /\ origin.clock = 0 BY DEF LoopInit
<1>2. serverTimeAtSync \in 0..(TimeMod - 1) BY LoopAssumption DEF LoopInit
<1> QED BY <1>1, <1>2 DEF LoopInit, ClockInv

\* The TimeService is never ahead of the server, and behind it by less than one
\* millisecond for each updateRealTime since the last synchronisation, whatever
\* the resolution of the clock, the poll interval and the number of updates.
THEOREM LagAlways == LoopInit /\ [][LoopNext]_loopVars => []LagBelowOneMsPerUpdate
<1>1. LoopInit => ClockInv BY ClockStart
<1>2. ClockInv /\ [LoopNext]_loopVars => ClockInv' BY ClockSteps
<1>3. ClockInv => LagBelowOneMsPerUpdate BY Reading DEF LagBelowOneMsPerUpdate, Real
<1> QED BY <1>1, <1>2, <1>3, PTL

\* The time the service tells is an integer.
LEMMA TimeRead == ASSUME ClockInv PROVE getCurrentTime \in Int
<1>1. PICK T \in Nat \ {0}, M \in Nat \ {0} : T = TicksPerMs /\ M = TimeMod BY LoopAssumption
<1>2. serverTimeAtSync \in Nat /\ clock - lastSyncLocalTime \in Nat BY LoopAssumption DEF ClockInv
<1>3. ElapsedMs \in Nat BY <1>1, <1>2, Quotient DEF ElapsedMs
<1>4. \A x \in Nat : x % M \in Int OBVIOUS
<1> QED BY <1>1, <1>2, <1>3, <1>4 DEF getCurrentTime

\* Steps that leave the tasks, their ends and the reports alone and do not come
\* from, or lead to, a report or the end of the additions.
LEMMA SameReports ==
  ASSUME ReportInv, UNCHANGED <<activeTasks, reported, endTime, now>>,
         loop \in {"start", "add"} <=> loop' \in {"start", "add"},
         loop = "remove" <=> loop' = "remove"
  PROVE  ReportInv'
<1>1. \A t \in TimedTasks : (ToCome(t)' <=> ToCome(t)) /\ Reports(t)' = Reports(t)
  BY DEF ToCome, Completed, isComplete, Reports
<1> QED BY <1>1 DEF ReportInv

\* Every step of the demo, of the clock and of other threads keeps the invariant.
LEMMA LoopSteps == ASSUME LoopInv, [LoopNext]_loopVars PROVE LoopInv'
<1>0. ClockInv' BY ClockSteps DEF LoopInv
<1> USE DEF timerVars, clockVars
<1>1. CASE UNCHANGED <<loop, now, spec, timerVars>>
  <2>1. LoopTypes' BY <1>1 DEF LoopInv, LoopTypes
  <2>2. ReportInv' BY <1>1, SameReports DEF LoopInv
  <2>3. NextInv' BY <1>1 DEF LoopInv, NextInv, getNextToComplete, getRemainingTime
  <2> QED BY <1>0, <2>1, <2>2, <2>3 DEF LoopInv
<1>2. CASE DemoSync
  <2>1. loop = "start" /\ loop' = "add" /\ UNCHANGED <<now, spec, timerVars>> BY <1>2 DEF DemoSync
  <2>2. LoopTypes' BY <2>1 DEF LoopInv, LoopTypes
  <2>3. ReportInv' BY <2>1, SameReports DEF LoopInv
  <2>4. NextInv' BY <2>1 DEF NextInv
  <2> QED BY <1>0, <2>2, <2>3, <2>4 DEF LoopInv
<1>3. ASSUME NEW t \in TimedTasks, DemoAdd(t) PROVE LoopInv'
  <2>1. /\ loop = "add" /\ loop' = "add" /\ activeTasks' = activeTasks \cup {t}
        /\ UNCHANGED <<now, spec, next, reported>>
    BY <1>3 DEF DemoAdd
  <2>2. PICK M \in Nat \ {0} : M = TimeMod BY LoopAssumption
  <2>3. \A x \in Int : x % M \in Int OBVIOUS
  <2>4. spec[t].offset \in Int /\ spec[t].duration \in Int
    <3>1. spec \in [TimedTasks -> [offset : Nat, duration : Nat]] BY LoopAssumption DEF LoopInv, LoopTypes
    <3>2. spec[t] \in [offset : Nat, duration : Nat] BY <3>1
    <3> QED BY <3>2
  <2>5. getCurrentTime + spec[t].offset \in Int BY <2>4, TimeRead DEF LoopInv
  <2>6. PICK x \in Int : x = (getCurrentTime + spec[t].offset) % TimeMod BY <2>2, <2>3, <2>5
  <2>7. startTime' = [startTime EXCEPT ![t] = x] BY <1>3, <2>6 DEF DemoAdd
  <2>8. startTime' \in [TimedTasks -> Int] /\ startTime'[t] = x BY <2>7 DEF LoopInv, LoopTypes
  <2>9. PICK y \in Int : y = (startTime'[t] + spec[t].duration) % TimeMod
    <3>1. startTime'[t] + spec[t].duration \in Int BY <2>4, <2>8
    <3> QED BY <2>2, <2>3, <3>1
  <2>10. endTime' = [endTime EXCEPT ![t] = y] BY <1>3, <2>9 DEF DemoAdd
  <2>11. endTime' \in [TimedTasks -> Int] BY <2>10 DEF LoopInv, LoopTypes
  <2>12. LoopTypes' BY <2>1, <2>8, <2>11 DEF LoopInv, LoopTypes
  <2>13. ReportInv' BY <2>1 DEF LoopInv, ReportInv, ToCome, Reports
  <2>14. NextInv' BY <2>1 DEF NextInv
  <2> QED BY <1>0, <2>12, <2>13, <2>14 DEF LoopInv
<1>4. CASE DemoSleep
  <2>1. /\ (loop = "add" /\ activeTasks = TimedTasks) \/ loop = "poll"
        /\ loop' = "sleep" /\ UNCHANGED <<now, spec, timerVars>>
    BY <1>4 DEF DemoSleep
  <2>2. LoopTypes' BY <2>1 DEF LoopInv, LoopTypes
  <2>3. NextInv' BY <2>1 DEF NextInv
  <2>4. ReportInv'
    <3>1. CASE loop = "poll" BY <2>1, <3>1, SameReports DEF LoopInv
    <3>2. CASE loop = "add" /\ activeTasks = TimedTasks
      BY <2>1, <3>2 DEF LoopInv, ReportInv, ToCome, Reports
    <3> QED BY <2>1, <3>1, <3>2
  <2> QED BY <1>0, <2>2, <2>3, <2>4 DEF LoopInv
<1>5. CASE DemoUpdate
  <2>1. loop = "sleep" /\ loop' = "read" /\ UNCHANGED <<now, spec, timerVars>> BY <1>5 DEF DemoUpdate
  <2>2. LoopTypes' BY <2>1 DEF LoopInv, LoopTypes
  <2>3. ReportInv' BY <2>1, SameReports DEF LoopInv
  <2>4. NextInv' BY <2>1 DEF NextInv
  <2> QED BY <1>0, <2>2, <2>3, <2>4 DEF LoopInv
<1>6. CASE DemoRead
  <2>1. /\ loop = "read" /\ loop' = "report" /\ now' = getCurrentTime /\ next' = getNextToComplete(now')
        /\ UNCHANGED <<spec, activeTasks, startTime, endTime, reported>>
    BY <1>6 DEF DemoRead
  <2>2. now' \in Int BY <2>1, TimeRead DEF LoopInv
  <2>3. LoopTypes' BY <2>1, <2>2 DEF LoopInv, LoopTypes
  <2>4. ReportInv' BY <2>1 DEF LoopInv, ReportInv, ToCome, Reports
  <2>5. NextInv' BY <2>1 DEF NextInv, getNextToComplete, getRemainingTime
  <2> QED BY <1>0, <2>3, <2>4, <2>5 DEF LoopInv
<1>7. CASE DemoReport
  <2>1. /\ loop = "report" /\ loop' = "remove"
        /\ reported' = reported \cup {[task |-> t, at |-> now] : t \in Completed(now)}
        /\ UNCHANGED <<now, spec, activeTasks, startTime, endTime, next>>
    BY <1>7 DEF DemoReport
  <2>2. LoopTypes' BY <2>1 DEF LoopInv, LoopTypes
  <2>3. Completed(now)' = Completed(now) /\ Completed(now) \subseteq activeTasks
    BY <2>1 DEF Completed, isComplete
  <2>4. ASSUME NEW t \in TimedTasks
        PROVE  (ToCome(t)' => Reports(t)' = {}) /\ (~ToCome(t)' => \E r \in reported' : Reports(t)' = {r})
    <3>1. CASE t \in Completed(now)
      <4>1. ~ToCome(t)' BY <2>1, <2>3, <3>1 DEF ToCome
      <4>2. Reports(t) = {} BY <2>1, <2>3, <3>1 DEF LoopInv, ReportInv, ToCome
      <4> DEFINE r == [task |-> t, at |-> now]
      <4>3. r \in reported' /\ r.task = t BY <2>1, <3>1
      <4>4. \A x \in reported' : x.task = t => x = r BY <2>1, <4>2 DEF Reports
      <4> HIDE DEF r
      <4>5. Reports(t)' = {r} BY <4>3, <4>4 DEF Reports
      <4> QED BY <4>1, <4>3, <4>5
    <3>2. CASE t \notin Completed(now)
      <4>1. ToCome(t)' <=> ToCome(t) BY <2>1, <2>3, <3>2 DEF ToCome
      <4>2. Reports(t)' = Reports(t) BY <2>1, <3>2 DEF Reports
      <4> QED BY <2>1, <4>1, <4>2 DEF LoopInv, ReportInv
    <3> QED BY <3>1, <3>2
  <2>5. ReportInv' BY <2>1, <2>4 DEF ReportInv
  <2>6. NextInv' BY <2>1 DEF LoopInv, NextInv, getNextToComplete, getRemainingTime
  <2> QED BY <1>0, <2>2, <2>5, <2>6 DEF LoopInv
<1>8. CASE DemoRemove
  <2>1. /\ loop = "remove" /\ loop' = "poll" /\ activeTasks' = activeTasks \ Completed(now)
        /\ UNCHANGED <<now, spec, startTime, endTime, next, reported>>
    BY <1>8 DEF DemoRemove
  <2>2. LoopTypes' BY <2>1 DEF LoopInv, LoopTypes
  <2>3. \A t \in TimedTasks : (ToCome(t)' <=> ToCome(t)) /\ Reports(t)' = Reports(t)
    BY <2>1 DEF ToCome, Reports
  <2>4. ReportInv' BY <2>1, <2>3 DEF LoopInv, ReportInv
  <2>5. NextInv' BY <2>1 DEF NextInv
  <2> QED BY <1>0, <2>2, <2>4, <2>5 DEF LoopInv
<1>9. CASE DemoEnd
  <2>1. loop = "poll" /\ loop' = "end" /\ UNCHANGED <<now, spec, timerVars>> BY <1>9 DEF DemoEnd
  <2>2. LoopTypes' BY <2>1 DEF LoopInv, LoopTypes
  <2>3. ReportInv' BY <2>1, SameReports DEF LoopInv
  <2>4. NextInv' BY <2>1 DEF NextInv
  <2> QED BY <1>0, <2>2, <2>3, <2>4 DEF LoopInv
<1>10. ASSUME NEW t \in TimedTasks, NEW y \in Int, ChangeEnd(t, y) PROVE LoopInv'
  <2>1. /\ loop = "poll" /\ loop' = "poll" /\ endTime' = [endTime EXCEPT ![t] = y]
        /\ UNCHANGED <<now, spec, activeTasks, startTime, next, reported>>
    BY <1>10 DEF ChangeEnd
  <2>2. endTime' \in [TimedTasks -> Int] BY <2>1 DEF LoopInv, LoopTypes
  <2>3. LoopTypes' BY <2>1, <2>2 DEF LoopInv, LoopTypes
  <2>4. ReportInv' BY <2>1 DEF LoopInv, ReportInv, ToCome, Reports
  <2>5. NextInv' BY <2>1 DEF NextInv
  <2> QED BY <1>0, <2>3, <2>4, <2>5 DEF LoopInv
<1>11. ASSUME NEW t \in TimedTasks,
              (\E d \in Durations \cup {TimeMod - 1} : extend(t, d)) \/ (\E d \in Durations : restart(t, d)) \/ forceComplete(t)
       PROVE  \E y \in Int : ChangeEnd(t, y)
  <2>1. PICK M \in Nat \ {0} : M = TimeMod BY LoopAssumption
  <2>2. \A x \in Int : x % M \in Int OBVIOUS
  <2>3. endTime[t] \in Int /\ startTime[t] \in Int BY DEF LoopInv, LoopTypes
  <2>4. \A d \in Durations \cup {TimeMod - 1} : d \in Int BY LoopAssumption
  <2>5. ASSUME NEW d \in Durations \cup {TimeMod - 1}, extend(t, d) PROVE \E y \in Int : ChangeEnd(t, y)
    <3>1. d \in Int /\ endTime[t] \in Int BY <2>3, <2>4
    <3>2. endTime[t] + d \in Int BY <3>1
    <3> QED BY <2>1, <2>2, <2>5, <3>2 DEF extend
  <2>6. ASSUME NEW d \in Durations, restart(t, d) PROVE \E y \in Int : ChangeEnd(t, y)
    <3>1. startTime[t] + d \in Int BY <2>3, <2>4
    <3> QED BY <2>1, <2>2, <2>6, <3>1 DEF restart
  <2>7. CASE forceComplete(t) BY <2>7 DEF forceComplete
  <2> QED BY <1>11, <2>5, <2>6, <2>7
<1>12. CASE Tick \/ OtherSync \/ OtherUpdate \/ UNCHANGED loopVars
  BY <1>1, <1>12 DEF Tick, OtherSync, OtherUpdate, loopVars
<1>13. CASE DemoStep
  BY <1>2, <1>3, <1>4, <1>5, <1>6, <1>7, <1>8, <1>9, <1>13 DEF DemoStep
<1> QED BY <1>10, <1>11, <1>12, <1>13 DEF LoopNext

\* No task has been added.
LEMMA LoopStart == ASSUME LoopInit PROVE LoopInv
<1>1. ClockInv BY ClockStart
<1>2. LoopTypes BY DEF LoopInit, LoopTypes
<1>3. ReportInv BY DEF LoopInit, ReportInv, ToCome, Reports
<1>4. NextInv BY DEF LoopInit, NextInv
<1> QED BY <1>1, <1>2, <1>3, <1>4 DEF LoopInv

\* What is removed is reported, and what is announced goes first.
LEMMA RemovalsReported == ASSUME LoopInv PROVE RemovedMeansReported
<1>1. ASSUME loop \in {"poll", "end"}, NEW t \in TimedTasks \ activeTasks
      PROVE  Cardinality({r \in reported : r.task = t}) = 1
  <2>1. ~ToCome(t) BY <1>1 DEF ToCome
  <2>2. PICK r \in reported : Reports(t) = {r} BY <2>1 DEF LoopInv, ReportInv
  <2> QED BY <2>2, FS_Singleton DEF Reports
<1>2. ASSUME loop = "remove", NEW c \in Completed(now), NEW t \in next PROVE t \in Completed(now)
  <2>1. next = getNextToComplete(now) BY <1>2 DEF LoopInv, NextInv
  <2>2. t \in activeTasks /\ c \in activeTasks /\ now >= endTime[c]
    BY <1>2, <2>1 DEF getNextToComplete, Completed, isComplete
  <2>3. now \in Int /\ endTime[t] \in Int BY <2>2 DEF LoopInv, LoopTypes
  <2>4. getRemainingTime(t, now) <= getRemainingTime(c, now) BY <1>2, <2>1, <2>2 DEF getNextToComplete
  <2>5. getRemainingTime(c, now) = 0 BY <2>2 DEF getRemainingTime
  <2>6. now >= endTime[t] BY <2>3, <2>4, <2>5 DEF getRemainingTime
  <2> QED BY <2>2, <2>6 DEF Completed, isComplete
<1> QED BY <1>1, <1>2 DEF RemovedMeansReported

\* Every task that the demo's loop has removed was reported, once; and a round that
\* removes a task removes every task it could have announced; whatever other
\* threads do to the clock meanwhile, for all tasks and times.
THEOREM ReportsAlways == LoopInit /\ [][LoopNext]_loopVars => []RemovedMeansReported
<1>1. LoopInit => LoopInv BY LoopStart
<1>2. LoopInv /\ [LoopNext]_loopVars => LoopInv' BY LoopSteps
<1>3. LoopInv => RemovedMeansReported BY RemovalsReported
<1> QED BY <1>1, <1>2, <1>3, PTL
=============================================================================
