----------------------------- MODULE MCServices -----------------------------
(***************************************************************************)
(* The components that serve a program next to the task core: files,       *)
(* events, timers, the time client, the transports' sockets. They share no *)
(* state, so an instance explores one of them, the one `focus' names.      *)
(***************************************************************************)
EXTENDS FileStore, EventScheduler, TimedLoop, TimeClient, TransportSockets

CONSTANT Focuses   \* the components an instance explores

VARIABLE focus

serviceVars == <<focus, fileVars, eventVars, loopVars, clientVars, socketVars>>

\* Bits of a byte are few, so that a wrong key byte shows in two of them.
B(x, y) == [i \in 0..1 |-> IF i = 0 THEN x ELSE y]
L == <<B(1, 0), B(0, 1), B(1, 1)>>   \* longer than the stream's buffer
S == <<B(0, 1), B(0, 0)>>
K == [key |-> <<B(1, 0), B(0, 1)>>, iv |-> <<B(1, 1)>>]

Reuse == <<B(1, 1)>>
Keys == {K, NoEncryption}

Op(kind, data) == [kind |-> kind, path |-> "p", data |-> data]

\* Every pair of a long and a short writer with a reader, and removals.
Plans ==
  {<<Op("write", L), Op("write", S), Op("read", <<>>)>>,
   <<Op("write", S), Op("save", L), Op("read", <<>>)>>,
   <<Op("save", S), Op("save", L), Op("load", <<>>)>>,
   <<Op("write", L), Op("remove", <<>>), Op("read", <<>>)>>,
   <<Op("save", S), Op("remove", <<>>), Op("load", <<>>)>>,
   <<Op("write", L), Op("read", <<>>), Op("load", <<>>)>>,
   <<Op("write", S), Op("write", S), Op("remove", <<>>)>>,
   <<Op("save", L), Op("read", <<>>), Op("remove", <<>>)>>}

Spec2(o, d) == [offset |-> o, duration |-> d]

Specs == {[t \in {"e", "f"} |-> IF t = "e" THEN Spec2(0, 1) ELSE Spec2(1, 1)],
          [t \in {"e", "f"} |-> IF t = "e" THEN Spec2(0, 2) ELSE Spec2(1, 3)]}

Init ==
  /\ focus \in Focuses
  /\ FilesInit /\ (focus # "files" => plan = CHOOSE p \in Plans : TRUE)
  /\ EventsInit
  /\ LoopInit /\ (focus # "timers" => spec = CHOOSE x \in Specs : TRUE)
  /\ ClientInit /\ SocketsInit

Next ==
  \/ focus = "files" /\ FilesNext /\ UNCHANGED <<focus, eventVars, loopVars, clientVars, socketVars>>
  \/ focus = "events" /\ EventsNext /\ UNCHANGED <<focus, fileVars, loopVars, clientVars, socketVars>>
  \/ focus = "timers" /\ LoopNext /\ UNCHANGED <<focus, fileVars, eventVars, clientVars, socketVars>>
  \/ focus = "client" /\ ClientNext /\ UNCHANGED <<focus, fileVars, eventVars, loopVars, socketVars>>
  \/ focus = "sockets" /\ SocketsNext /\ UNCHANGED <<focus, fileVars, eventVars, loopVars, clientVars>>

\* Threads inside a call go on; the clock, the demo and both ends of a
\* connection do.
Fairness ==
  /\ \A o \in FileOps : WF_fileVars(FileMustProgress(o))
  /\ WF_loopVars(focus = "timers" /\ Tick) /\ WF_loopVars(focus = "timers" /\ DemoStep)
  /\ WF_clientVars(focus = "client" /\ ServerStep) /\ WF_clientVars(focus = "client" /\ ClientStep)

Spec == Init /\ [][Next]_serviceVars /\ Fairness

-----------------------------------------------------------------------------
\* What begins ends. Every file operation that has been queued is done one day,
\* however few threads the pool has; the demo's loop terminates, because every
\* poll moves the service on; and a call of the time client that waits for the
\* server returns, even where SO_RCVTIMEO could not be set, because the server
\* sends before it receives and closes after one message.
WhatBeginsEnds == QueuedOperationsEnd /\ DemoTerminates /\ CallsReturn
=============================================================================
