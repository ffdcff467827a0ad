--------------------------- MODULE EventScheduler ---------------------------
(***************************************************************************)
(* The legacy EventScheduler and TimedEvent: a std::priority_queue of      *)
(* events, one thread. The heap is the set of its events and the one at    *)
(* its front, any event that Compare ranks below no other. A callback may  *)
(* throw, and it may call scheduleEvent, cancelEvent and rescheduleEvent   *)
(* between execute() and pop(); then the running TimedEvent is moved or    *)
(* freed under its callback, and the model takes the outcome in which the  *)
(* program goes on. A callback that calls update() is left out.            *)
(***************************************************************************)
EXTENDS Integers, FiniteSets

CONSTANTS
  EventIds, Priorities, Instants,
  Intervals,   \* values of repeatInterval; 0 does not repeat
  MaxEvents    \* bound on scheduleEvent calls

\* int priorities and unsigned times.
ASSUME EventAssumption == Priorities \subseteq Int /\ Instants \subseteq Nat

VARIABLES
  eventQueue,  \* set of events; `key' tells apart copies of one event
  front,       \* the event of top(), in a set; {} when the queue is empty
  phase,       \* "idle", "loop": at the head of update's loop, "callback"
               \*   or "undefined": pop() of an empty queue
  pass,        \* the time of the update() in progress or of the last one
  current,     \* the event whose callback runs or ran last
  settled,     \* history: nothing changed the queue since the last update()
  events,      \* scheduleEvent calls so far
  returned,    \* history: keys whose callback has returned
  cancelled,   \* history: keys that cancelEvent took out
  displaced    \* history: pop() removed another event than the one that ran

eventVars == <<eventQueue, front, phase, pass, current, settled, events, returned, cancelled, displaced>>

shouldTrigger(e, now) == now >= e.triggerTime

\* Compare(a, b): b is served before a. Between equal priorities only the
\* trigger time 0 counts, and it goes last.
Compare(a, b) ==
  IF a.priority = b.priority
    THEN shouldTrigger(a, 0) /\ ~shouldTrigger(b, 0)
    ELSE a.priority < b.priority

\* What top() may be of the events q.
Tops(q) == {e \in q : ~\E f \in q : Compare(e, f)}
Fronts(q) == IF q = {} THEN {{}} ELSE {{e} : e \in Tops(q)}

EventsInit ==
  /\ eventQueue = {} /\ front = {} /\ phase = "idle" /\ pass = 0 /\ current = [key |-> 0, due |-> 0]
  /\ settled = FALSE /\ events = 0
  /\ returned = {} /\ cancelled = {} /\ displaced = FALSE

\* The program calls the scheduler, or a callback does.
Called == phase \in {"idle", "callback"} /\ settled' = FALSE

\* push(): only an event that Compare ranks above the front replaces it.
scheduleEvent(id, prio, trigger, repeat) ==
  LET new == [id |-> id, priority |-> prio, triggerTime |-> trigger, repeat |-> repeat, key |-> events]
  IN /\ Called /\ events < MaxEvents
     /\ eventQueue' = eventQueue \cup {new}
     /\ front' = IF \A e \in front : Compare(e, new) THEN {new} ELSE front
     /\ events' = events + 1
     /\ UNCHANGED <<phase, pass, current, returned, cancelled, displaced>>

update(now) ==
  /\ phase = "idle"
  /\ pass' = now /\ phase' = "loop" /\ settled' = FALSE
  /\ UNCHANGED <<eventQueue, front, current, events, returned, cancelled, displaced>>

\* The loop's condition holds and the callback of top() starts.
execute ==
  /\ phase = "loop"
  /\ \E e \in front :
       /\ shouldTrigger(e, pass)
       /\ current' = [key |-> e.key, due |-> e.triggerTime]
  /\ phase' = "callback"
  /\ UNCHANGED <<eventQueue, front, pass, settled, events, returned, cancelled, displaced>>

\* The callback throws: update() is left and its event stays in the queue.
CallbackThrows ==
  /\ phase = "callback" /\ phase' = "idle"
  /\ UNCHANGED <<eventQueue, front, pass, current, settled, events, returned, cancelled, displaced>>

\* The callback returns. execute() moves triggerTime on if the event repeats,
\* and pop() removes the front all the same, whichever event that is by now.
Pop ==
  /\ phase = "callback" /\ front # {}
  /\ eventQueue' = eventQueue \ front
  /\ front' \in Fronts(eventQueue \ front)
  /\ returned' = returned \cup {current.key}
  /\ displaced' = (displaced \/ \E e \in front : e.key # current.key)
  /\ phase' = "loop"
  /\ UNCHANGED <<pass, current, settled, events, cancelled>>

\* The callback has cancelled all there was: pop() of an empty queue.
PopOfNothing ==
  /\ phase = "callback" /\ front = {}
  /\ phase' = "undefined"
  /\ UNCHANGED <<eventQueue, front, pass, current, settled, events, returned, cancelled, displaced>>

UpdateEnd ==
  /\ phase = "loop"
  /\ \A e \in front : ~shouldTrigger(e, pass)
  /\ phase' = "idle" /\ settled' = TRUE
  /\ UNCHANGED <<eventQueue, front, pass, current, events, returned, cancelled, displaced>>

\* Both rebuild the heap.
cancelEvent(id) ==
  /\ Called
  /\ eventQueue' = {e \in eventQueue : e.id # id}
  /\ front' \in Fronts(eventQueue')
  /\ cancelled' = cancelled \cup {e.key : e \in eventQueue \ eventQueue'}
  /\ UNCHANGED <<phase, pass, current, events, returned, displaced>>

\* Mutant of rescheduleEvent: the events of other identifiers are not pushed back.
RescheduleDroppingOthers(id, newTime) ==
  /\ Called
  /\ eventQueue' = {[e EXCEPT !.triggerTime = newTime] : e \in {f \in eventQueue : f.id = id}}
  /\ front' \in Fronts(eventQueue')
  /\ UNCHANGED <<phase, pass, current, events, returned, cancelled, displaced>>

rescheduleEvent(id, newTime) ==
  /\ Called
  /\ eventQueue' = {IF e.id = id THEN [e EXCEPT !.triggerTime = newTime] ELSE e : e \in eventQueue}
  /\ front' \in Fronts(eventQueue')
  /\ UNCHANGED <<phase, pass, current, events, returned, cancelled, displaced>>

EventsNext ==
  \/ \E id \in EventIds, p \in Priorities, t \in Instants, r \in Intervals : scheduleEvent(id, p, t, r)
  \/ \E now \in Instants : update(now)
  \/ execute \/ CallbackThrows \/ Pop \/ PopOfNothing \/ UpdateEnd
  \/ \E id \in EventIds : cancelEvent(id) \/ \E t \in Instants : rescheduleEvent(id, t)

-----------------------------------------------------------------------------
(* Properties                                                              *)

\* No callback starts before the time its event had then. Until a callback that
\* calls the scheduler makes pop() remove another event than the one that ran
\* (`displaced'), no event is lost before it ran and none without repeatInterval
\* runs again after it returned: each one ever scheduled is pending, has returned
\* or was cancelled, however callbacks throw, schedule, cancel or reschedule. When
\* update(now) returns and leaves an event that is due, a pending event that is not
\* due stopped the loop, and no event of higher priority than that one is due.
\* (That one may have the same priority: Compare does not order by trigger time,
\* though its comment says so. Nothing is claimed of what a repeatInterval does: the
\* code drops such an event after its first run.)
EventsAccounted ==
  /\ phase = "callback" => current.due <= pass
  /\ displaced \/
       /\ \A k \in 0..events - 1 :
            k \in returned \/ k \in cancelled \/ \E e \in eventQueue : e.key = k
       /\ \A e \in eventQueue : e.key \notin cancelled
       /\ \A e \in eventQueue : e.repeat = 0 => e.key \notin returned
  /\ settled => \A e \in eventQueue : pass >= e.triggerTime =>
       \E f \in eventQueue : /\ pass < f.triggerTime
                             /\ \A d \in eventQueue : pass >= d.triggerTime => d.priority <= f.priority
=============================================================================
