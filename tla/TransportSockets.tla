-------------------------- MODULE TransportSockets --------------------------
(***************************************************************************)
(* The sockets behind UdpTransport and TcpTransport: the one descriptor    *)
(* each object keeps and creates on first use, the jobs that work on a     *)
(* copy of its number, and the connections TcpTransport opens and accepts  *)
(* for one packet each. Nothing guards m_socket and m_listenSocket, so     *)
(* every read and write of them is a step of its own. The kernel hands out *)
(* the lowest free number. What is sent is the matter of NetworkManager.   *)
(***************************************************************************)
EXTENDS Integers, FiniteSets, FiniteSetsExt

CONSTANTS
  SocketThreads,   \* threads that use the transports
  Descriptors,     \* numbers of the process's descriptor table
  invalid_socket

ASSUME SocketAssumption ==
  Descriptors \subseteq Nat /\ IsFiniteSet(Descriptors) /\ invalid_socket \notin Descriptors

Transports == {"udp", "tcp"}

VARIABLES
  open,            \* descriptors in use
  bound,           \* those bound to the caller's endpoint, and listening for TCP
  m_socket,        \* m_socket of the UDP, m_listenSocket of the TCP transport
  call,            \* [at, on, fd, for]: where a thread is, on which transport, with which
                   \* descriptor, for which member function
  leaked,          \* history: accepted connections whose receive() threw before closing them
  serving,         \* history: bind() returned true and close() was not called since
  overlapped       \* history: two threads were creating, binding or closing one transport

socketVars == <<open, bound, m_socket, call, leaked, serving, overlapped>>

Idle == [at |-> "idle", on |-> "udp", fd |-> invalid_socket, for |-> "none"]

SocketsInit ==
  /\ open = {} /\ bound = {} /\ leaked = {} /\ overlapped = FALSE
  /\ m_socket = [t \in Transports |-> invalid_socket]
  /\ call = [th \in SocketThreads |-> Idle]
  /\ serving = [t \in Transports |-> FALSE]

Lowest == Min(Descriptors \ open)
CanOpen == Descriptors \ open # {}

Goto(th, at) == call' = [call EXCEPT ![th].at = at]
Return(th) == call' = [call EXCEPT ![th] = Idle]

\* Thread th is about to change transport t while another one does.
Meets(th, t) ==
  \E u \in SocketThreads \ {th} :
    call[u].on = t /\ (call[u].at \in {"create", "assign", "invalidate"} \/ call[u].for = "bind")

-----------------------------------------------------------------------------
(* ensure_socket_created, the first thing bind, send and receive do        *)

\* TcpTransport::send does not use the transport's socket.
ensure_socket_created(th, t, for) ==
  /\ call[th].at = "idle" /\ <<t, for>> # <<"tcp", "send">>
  /\ call' = [call EXCEPT ![th] =
       [Idle EXCEPT !.at = IF m_socket[t] = invalid_socket THEN "create" ELSE "capture",
                    !.on = t, !.for = for]]
  /\ overlapped' = (overlapped \/ (Meets(th, t) /\ (for = "bind" \/ m_socket[t] = invalid_socket)))
  /\ UNCHANGED <<open, bound, m_socket, leaked, serving>>

create_socket(th) ==
  /\ call[th].at = "create" /\ CanOpen
  /\ open' = open \cup {Lowest}
  /\ call' = [call EXCEPT ![th].at = "assign", ![th].fd = Lowest]
  /\ UNCHANGED <<bound, m_socket, leaked, serving, overlapped>>

\* startup() or ::socket failed: false, or nullopt.
CreateFails(th) ==
  /\ call[th].at = "create" /\ Return(th)
  /\ m_socket' = [m_socket EXCEPT ![call[th].on] = invalid_socket]
  /\ UNCHANGED <<open, bound, leaked, serving, overlapped>>

Assign(th) ==
  /\ call[th].at = "assign"
  /\ call' = [call EXCEPT ![th].at = "capture", ![th].fd = invalid_socket]
  /\ m_socket' = [m_socket EXCEPT ![call[th].on] = call[th].fd]
  /\ UNCHANGED <<open, bound, leaked, serving, overlapped>>

-----------------------------------------------------------------------------
(* bind and close                                                          *)

\* ::bind on whatever m_socket is now, and for UDP that is all.
UdpBind(th) ==
  /\ call[th].at = "capture" /\ call[th].for = "bind" /\ call[th].on = "udp" /\ Return(th)
  /\ \/ /\ m_socket["udp"] \in open
        /\ bound' = bound \cup {m_socket["udp"]} /\ serving' = [serving EXCEPT !["udp"] = TRUE]
     \/ UNCHANGED <<bound, serving>>
  /\ UNCHANGED <<open, m_socket, leaked, overlapped>>

\* ::bind, then ::listen on m_listenSocket read again; both may fail.
TcpBind(th) ==
  /\ call[th].for = "bind" /\ call[th].on = "tcp"
  /\ \/ call[th].at = "capture" /\ m_socket["tcp"] \in open /\ Goto(th, "listen") /\ UNCHANGED <<bound, serving>>
     \/ /\ call[th].at = "listen" /\ m_socket["tcp"] \in open /\ Return(th)
        /\ bound' = bound \cup {m_socket["tcp"]} /\ serving' = [serving EXCEPT !["tcp"] = TRUE]
     \/ call[th].at \in {"capture", "listen"} /\ Return(th) /\ UNCHANGED <<bound, serving>>
  /\ UNCHANGED <<open, m_socket, leaked, overlapped>>

CloseSocket(th, t) ==
  /\ call[th].at = "idle" /\ m_socket[t] # invalid_socket
  /\ open' = open \ {m_socket[t]} /\ bound' = bound \ {m_socket[t]}
  /\ call' = [call EXCEPT ![th] = [Idle EXCEPT !.at = "invalidate", !.on = t, !.for = "close"]]
  /\ serving' = [serving EXCEPT ![t] = FALSE]
  /\ overlapped' = (overlapped \/ Meets(th, t))
  /\ UNCHANGED <<m_socket, leaked>>

\* close(), also called by the destructor.
UdpClose(th) == CloseSocket(th, "udp")
TcpClose(th) == CloseSocket(th, "tcp")

Invalidate(th) ==
  /\ call[th].at = "invalidate" /\ Return(th)
  /\ m_socket' = [m_socket EXCEPT ![call[th].on] = invalid_socket]
  /\ UNCHANGED <<open, bound, leaked, serving, overlapped>>

-----------------------------------------------------------------------------
(* The jobs: the number is copied when the lambda is made and used later,  *)
(* when it may be closed or stand for another socket                       *)

Capture(th) ==
  /\ call[th].at = "capture" /\ call[th].for \in {"send", "receive"}
  /\ call' = [call EXCEPT ![th].at = "job", ![th].fd = m_socket[call[th].on]]
  /\ UNCHANGED <<open, bound, m_socket, leaked, serving, overlapped>>

\* sendto or recvfrom, or a select that finds nothing to accept.
JobEnds(th) ==
  /\ call[th].at = "job" /\ Return(th)
  /\ UNCHANGED <<open, bound, m_socket, leaked, serving, overlapped>>

\* A connection for one packet: ::accept on the listening socket, ...
Accept(th) ==
  /\ call[th].at = "job" /\ call[th].on = "tcp" /\ call[th].fd \in bound
  /\ call[th].fd # m_socket["udp"] /\ CanOpen
  /\ open' = open \cup {Lowest}
  /\ call' = [call EXCEPT ![th].at = "connected", ![th].fd = Lowest]
  /\ UNCHANGED <<bound, m_socket, leaked, serving, overlapped>>

\* ... or create_tcp_socket in TcpTransport::send.
TcpSend(th) ==
  /\ call[th].at = "idle" /\ CanOpen
  /\ open' = open \cup {Lowest}
  /\ call' = [call EXCEPT ![th] = [at |-> "connected", on |-> "tcp", fd |-> Lowest, for |-> "send"]]
  /\ UNCHANGED <<bound, m_socket, leaked, serving, overlapped>>

\* Mutant of Disconnect: a return without close_socket, on an error path.
ReturnOpen(th) ==
  /\ call[th].at = "connected" /\ Return(th)
  /\ UNCHANGED <<open, bound, m_socket, leaked, serving, overlapped>>

\* The returns close it: connect failed, a short header or payload, a packet.
Disconnect(th) ==
  /\ call[th].at = "connected" /\ Return(th)
  /\ open' = open \ {call[th].fd}
  /\ UNCHANGED <<bound, m_socket, leaked, serving, overlapped>>

\* payload.resize(payloadSize) cannot get the memory the size field asks for: the
\* exception leaves the job before close_socket.
ResizeThrows(th) ==
  /\ call[th].at = "connected" /\ call[th].for = "receive" /\ Return(th)
  /\ leaked' = leaked \cup {call[th].fd}
  /\ UNCHANGED <<open, bound, m_socket, serving, overlapped>>

\* Nothing is claimed of what follows an overlap, so the model stops there.
SocketsNext ==
  ~overlapped /\ \E th \in SocketThreads :
    \/ \E t \in Transports, for \in {"bind", "send", "receive"} : ensure_socket_created(th, t, for)
    \/ create_socket(th) \/ CreateFails(th) \/ Assign(th) \/ UdpBind(th) \/ TcpBind(th)
    \/ UdpClose(th) \/ TcpClose(th) \/ Invalidate(th)
    \/ Capture(th) \/ JobEnds(th) \/ Accept(th) \/ TcpSend(th) \/ Disconnect(th)
    \/ ResizeThrows(th)

-----------------------------------------------------------------------------
(* Properties                                                              *)

Held(th) == call[th].at \in {"assign", "connected"}

\* Unless two threads created, bound or closed one transport at the same time,
\* which nothing prevents, no descriptor is closed under its owner, by however many
\* sends, receives, failures and closes, and one is leaked only where receive()
\* could not allocate the payload: the open ones are exactly those the transports
\* keep, those of connections being served and those leaked that way, which nothing
\* closes or hands out again. And a transport whose bind() returned true and that
\* was not closed keeps the bound socket: late failures and jobs on old numbers do
\* not take it away or replace it by one that is not bound.
SocketsAccounted ==
  ~overlapped =>
    LET closing == {call[th].on : th \in {u \in SocketThreads : call[u].at = "invalidate"}}
        kept == {m_socket[t] : t \in Transports \ closing} \ {invalid_socket}
        held == {call[th].fd : th \in {u \in SocketThreads : Held(u)}}
    IN /\ open = kept \cup held \cup leaked
       /\ leaked \cap (kept \cup held) = {}
       /\ \A t \in Transports : serving[t] => m_socket[t] \in open \cap bound
=============================================================================
