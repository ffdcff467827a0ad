----------------------------- MODULE TimeClient -----------------------------
(***************************************************************************)
(* The Winsock Client and the HostServer it asks for the time. The client  *)
(* is one thread; the server accepts and gives every connection a detached *)
(* thread that sends one timestamp, receives once and closes. Failing      *)
(* system calls, segmentation, resets and receive timeouts are choices of  *)
(* the environment. A byte of a timestamp is its index.                    *)
(***************************************************************************)
EXTENDS Integers, Sequences, FiniteSets, SequencesExt

CONSTANTS
  MaxConnects,     \* bound on the sockets the client creates
  TimestampBytes   \* sizeof(uint64_t), even

ASSUME ClientAssumption == TimestampBytes \in Nat /\ TimestampBytes % 2 = 0

VARIABLES
  connected, clientSocket, \* 0 is INVALID_SOCKET
  startups,                \* WSAStartup minus WSACleanup calls of the client
  hostUp,                  \* the server listens
  conn,                    \* sockets created so far, with both ends
  clientPc, received,      \* requestServerTime's progress and netTime
  answers,                 \* history: [socket, bytes] of non-empty results
  reconnected              \* history: connectToServer was called while connected

clientVars == <<connected, clientSocket, startups, hostUp, conn,
                clientPc, received, answers, reconnected>>

ClientInit ==
  /\ connected = FALSE /\ clientSocket = 0 /\ startups = 0
  /\ hostUp = FALSE
  /\ conn = <<>> /\ clientPc = "idle" /\ received = <<>>
  /\ answers = <<>> /\ reconnected = FALSE

Socket == conn[clientSocket]
Usable == clientSocket # 0 /\ Socket.client = "open"

\* Network-to-host conversion of the two 32-bit halves.
FromNetwork(bytes) ==
  LET half == TimestampBytes \div 2 IN
  Reverse(SubSeq(bytes, 1, half)) \o Reverse(SubSeq(bytes, half + 1, TimestampBytes))

-----------------------------------------------------------------------------
(* HostServer                                                              *)

\* start(): the accept loop is reached, or WSAStartup, socket, bind or listen
\* failed and everything before it has been undone.
start ==
  /\ ~hostUp
  /\ hostUp' \in BOOLEAN
  /\ UNCHANGED <<connected, clientSocket, startups, conn, clientPc, received, answers, reconnected>>

ServerEnd(c, from, to) ==
  /\ conn[c].server = from
  /\ conn' = [conn EXCEPT ![c] = to]
  /\ UNCHANGED <<connected, clientSocket, startups, hostUp, clientPc, received, answers, reconnected>>

accept(c) ==
  \/ ServerEnd(c, "backlog", [conn[c] EXCEPT !.server = "accepted"])
  \/ ServerEnd(c, "backlog", [conn[c] EXCEPT !.server = "closed"])   \* accept failed

\* The timestamp leaves in host byte order.
sendTime(c) ==
  ServerEnd(c, "accepted",
    [conn[c] EXCEPT !.server = "sent", !.down = @ \o [i \in 1..TimestampBytes |-> i]])

\* Mutant of handleClientDisconnection: the socket stays open.
ReceiveOnly(c) ==
  /\ conn[c].up \/ conn[c].client = "closed"
  /\ ServerEnd(c, "sent", [conn[c] EXCEPT !.server = "left"])

\* One recv, of whatever message or of the end of the stream, and the end.
handleClientDisconnection(c) ==
  /\ conn[c].up \/ conn[c].client = "closed"
  /\ ServerEnd(c, "sent", [conn[c] EXCEPT !.server = "closed"])

-----------------------------------------------------------------------------
(* Client                                                                  *)

\* The outcomes of connectToServer(). clientSocket is overwritten as soon as
\* socket() returns, also when the client is connected already.
ConnectFails ==
  /\ UNCHANGED <<connected, startups, hostUp, answers>>
  /\ \/ UNCHANGED <<clientSocket, conn>>              \* WSAStartup
     \/ clientSocket' = 0 /\ UNCHANGED conn            \* socket, WSACleanup
     \/ /\ Len(conn) < MaxConnects                     \* connect, closesocket, WSACleanup
        /\ conn' = Append(conn, [client |-> "closed", server |-> "closed", up |-> FALSE, down |-> <<>>])
        /\ clientSocket' = Len(conn')

ConnectSucceeds ==
  /\ hostUp /\ Len(conn) < MaxConnects
  /\ conn' = Append(conn, [client |-> "open", server |-> "backlog", up |-> FALSE, down |-> <<>>])
  /\ clientSocket' = Len(conn')
  /\ startups' = startups + 1
  /\ connected' = TRUE
  /\ UNCHANGED <<hostUp, answers>>

connectToServer ==
  /\ clientPc = "idle"
  /\ ConnectFails \/ ConnectSucceeds
  /\ reconnected' = (reconnected \/ connected)
  /\ UNCHANGED <<clientPc, received>>

\* requestServerTime() connects on its own if it has to.
requestServerTime ==
  /\ clientPc = "idle"
  /\ \/ connected /\ clientPc' = "send" /\ UNCHANGED <<connected, clientSocket, startups, hostUp, conn, answers>>
     \/ ~connected /\ ConnectSucceeds /\ clientPc' = "send"
     \/ ~connected /\ ConnectFails /\ UNCHANGED clientPc
  /\ received' = <<>>
  /\ UNCHANGED reconnected

updateServerTime ==
  /\ clientPc = "idle" /\ connected
  /\ clientPc' = "sendUpdate"
  /\ UNCHANGED <<connected, clientSocket, startups, hostUp, conn, received, answers, reconnected>>

\* send() fails on a closed handle, and may fail once the server has closed.
Send(from, to) ==
  /\ clientPc = from
  /\ \/ Usable /\ conn' = [conn EXCEPT ![clientSocket].up = TRUE] /\ clientPc' = to
     \/ (Usable => Socket.server = "closed") /\ clientPc' = "idle" /\ UNCHANGED conn
  /\ UNCHANGED <<connected, clientSocket, startups, hostUp, received, answers, reconnected>>

\* recv() of n bytes, those that have arrived.
Take(n) ==
  /\ n \in 1..Len(Socket.down)
  /\ conn' = [conn EXCEPT ![clientSocket].down = SubSeq(@, n + 1, Len(@))]

\* One turn of the loop that wants all bytes of the timestamp.
RecvTime ==
  /\ clientPc = "recv"
  /\ \E n \in 1..(TimestampBytes - Len(received)) :
       /\ Take(n)
       /\ received' = received \o SubSeq(Socket.down, 1, n)
  /\ IF Len(received') < TimestampBytes
       THEN UNCHANGED <<clientPc, answers>>
       ELSE /\ clientPc' = "idle"
            /\ answers' = Append(answers, [socket |-> clientSocket, bytes |-> FromNetwork(received')])
  /\ UNCHANGED <<connected, clientSocket, startups, hostUp, reconnected>>

RecvUpdate ==
  /\ clientPc = "recvUpdate"
  /\ \E n \in 1..TimestampBytes : Take(n)
  /\ clientPc' = "idle"
  /\ UNCHANGED <<connected, clientSocket, startups, hostUp, received, answers, reconnected>>

Receiving == clientPc \in {"recv", "recvUpdate"}

\* Mutant of RecvEnds: what has arrived of a timestamp is returned.
RecvEndsPartly ==
  /\ Receiving /\ Socket.down = <<>> /\ Socket.server = "closed"
  /\ clientPc' = "idle"
  /\ answers' = IF received = <<>> THEN answers
                ELSE Append(answers, [socket |-> clientSocket, bytes |-> received])
  /\ UNCHANGED <<connected, clientSocket, startups, hostUp, conn, received, reconnected>>

\* recv() = 0: the server has closed. An incomplete timestamp is thrown away.
RecvEnds ==
  /\ Receiving /\ Socket.down = <<>> /\ Socket.server = "closed"
  /\ clientPc' = "idle"
  /\ UNCHANGED <<connected, clientSocket, startups, hostUp, conn, received, answers, reconnected>>

\* SOCKET_ERROR: the receive timeout, or a reset that discards what had arrived.
\* `connected' stays as it is.
RecvFails ==
  /\ Receiving
  /\ \/ Socket.down = <<>> /\ UNCHANGED conn
     \/ Socket.server = "closed" /\ conn' = [conn EXCEPT ![clientSocket].down = <<>>]
  /\ clientPc' = "idle"
  /\ UNCHANGED <<connected, clientSocket, startups, hostUp, received, answers, reconnected>>

\* Mutant of disconnectFromServer: WSACleanup is forgotten.
DisconnectOnly ==
  /\ clientPc = "idle" /\ connected
  /\ connected' = FALSE
  /\ conn' = IF Usable THEN [conn EXCEPT ![clientSocket].up = TRUE, ![clientSocket].client = "closed"] ELSE conn
  /\ UNCHANGED <<clientSocket, startups, hostUp, clientPc, received, answers, reconnected>>

\* LOGOUT, whether or not it can be sent, then closesocket and WSACleanup.
disconnectFromServer ==
  /\ clientPc = "idle" /\ connected
  /\ connected' = FALSE
  /\ conn' = IF Usable THEN [conn EXCEPT ![clientSocket].up = TRUE, ![clientSocket].client = "closed"] ELSE conn
  /\ startups' = startups - 1
  /\ UNCHANGED <<clientSocket, hostUp, clientPc, received, answers, reconnected>>

ServerStep == \E c \in DOMAIN conn : accept(c) \/ sendTime(c) \/ handleClientDisconnection(c)

\* What a client does inside a call without the help of a timeout.
ClientStep ==
  \/ Send("send", "recv") \/ Send("sendUpdate", "recvUpdate")
  \/ RecvTime \/ RecvUpdate \/ RecvEnds

ClientNext ==
  \/ start \/ ServerStep \/ ClientStep \/ RecvFails
  \/ connectToServer \/ requestServerTime \/ updateServerTime \/ disconnectFromServer

-----------------------------------------------------------------------------
(* Properties                                                              *)

\* Every byte of a timestamp, each half in reverse.
HalvesReversed(bytes) ==
  LET half == TimestampBytes \div 2 IN
  /\ Len(bytes) = TimestampBytes
  /\ \A k \in 1..half : bytes[k] = half + 1 - k /\ bytes[half + k] = TimestampBytes + 1 - k

\* A non-empty result of requestServerTime is made of every byte of one timestamp,
\* each at the place the client's conversion gives it, whatever partial receives,
\* timeouts, resets and calls of updateServerTime came before on that connection,
\* and no connection ever yields a second result. (That the conversion is applied
\* to a value sent without its inverse is what AnswerIsServerTime is about.)
AnswersAreWhole ==
  \A i \in DOMAIN answers :
    /\ HalvesReversed(answers[i].bytes)
    /\ \A j \in DOMAIN answers : answers[i].socket = answers[j].socket => i = j

\* The integration test expects the value the server sent. HostServer sends the
\* bytes of its own memory and Client reverses those of each half.
AnswerIsServerTime ==
  \A i \in DOMAIN answers : answers[i].bytes = [k \in 1..TimestampBytes |-> k]

\* Between calls the client has as many WSAStartup calls outstanding as open
\* sockets, on every error path, unless connectToServer was called while
\* connected; and a client that counts as connected never has none outstanding.
WinsockBalanced ==
  /\ ~reconnected => startups = Cardinality({c \in DOMAIN conn : conn[c].client = "open"})
  /\ connected => startups > 0

\* A call that waits for the server returns, even where SO_RCVTIMEO could not be
\* set: the server sends before it receives and closes after one message.
CallsReturn == Receiving ~> clientPc = "idle"
=============================================================================
