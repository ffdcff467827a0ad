--------------------------- MODULE NetworkManager ---------------------------
(***************************************************************************)
(* soul::net::NetworkManager: two managers that exchange packets on one    *)
(* channel over a UDP transport that loses, reorders, delays and           *)
(* duplicates datagrams, with the reliable-UDP layer of                    *)
(* src/Networking/NetworkManager.cpp, and a TCP transport next to it.      *)
(*                                                                         *)
(* One action is one critical section of m_mutex or one operation of a     *)
(* transport; the coroutines of send, receive and retransmit_after are     *)
(* interleaved at these points. A datagram that is never taken from the    *)
(* network is lost.                                                        *)
(***************************************************************************)
EXTENDS Integers, FiniteSets

CONSTANTS
  Peers,     \* the two managers
  SeqMod,    \* 2^32 in the code: range of the sequence numbers
  Setups     \* the traffic and configurations to look at, each a record of
             \*   window       32 in the code: bits of receivedMask
             \*   attempts     values given to configure_udp_retransmission
             \*   start        sequence number the traffic starts after
             \*   sends, plain, tcp   bounds on what each peer sends: reliable
             \*                packets, unreliable packets, packets over TCP
             \*   toggle       enable_udp_reliability is called during the traffic
             \*   duplicating  the network may deliver a datagram again

\* Sequence numbers are not reused within the traffic modelled.
ASSUME NetworkAssumption ==
  /\ SeqMod \in Nat
  /\ \A x \in Setups :
       /\ x.window \in Nat \ {0}
       /\ x.attempts \subseteq Nat \ {0} /\ x.attempts # {}
       /\ x.start \in 0..(SeqMod - 1)
       /\ {x.sends, x.plain, x.tcp} \subseteq [Peers -> Nat]
       /\ \A p \in Peers : 2 * x.sends[p] < SeqMod
       /\ x.toggle \in BOOLEAN /\ x.duplicating \in BOOLEAN
  /\ \A p \in Peers : \E q \in Peers : q # p /\ Peers = {p, q}

VARIABLE setup   \* the member of Setups this behaviour runs, constant

Window == setup.window
Attempts == setup.attempts
Start == setup.start

Other(p) == CHOOSE q \in Peers : q # p

Seqs == 0..(SeqMod - 1)
Bits == 0..(Window - 1)

\* "data": reliable; "ack": PacketFlags::Ack without payload; "plain": sent with
\* DeliveryGuarantee::Unreliable, which leaves the header's numbers at zero.
\* `try' tells the transmissions of one packet apart.
Packet(kind) == [kind |-> kind, seq |-> 0, ack |-> 0, mask |-> {}, try |-> 0]

VARIABLES
  reliable,              \* m_udpReliableChannels, for the channel
  maxAttempts,           \* m_maxRetransmitAttempts
  nextOutgoingSequence, lastReceivedSequence, receivedMask, hasReceived, pendingAck,
  pending,               \* the keys of ReliableChannelState::pending
  attempts,              \* PendingPacket::attempts
  sending,               \* packets handed to UdpTransport::send, not yet on the wire
  net,                   \* net[p]: datagrams on the wire to p
  tcp,                   \* tcp[p]: packets that wait in the TCP transport of p
  timers,                \* retransmit_after coroutines (max = 0: not yet started)
  rx,                    \* the receive() in progress
  sends, plains, tcps,   \* how much each peer has sent
  accepted,              \* sequence numbers p found new (history)
  delivered,             \* how often p's application got each packet (history)
  transmissions,         \* how often each packet was put on the wire (history)
  dropped                \* packets given up by retransmit_after (history)

sendVars == <<nextOutgoingSequence, pending, attempts, dropped>>
recvVars == <<lastReceivedSequence, receivedMask, hasReceived, pendingAck, accepted>>
confVars == <<reliable, maxAttempts>>
countVars == <<sends, plains, tcps>>
vars == <<sendVars, recvVars, confVars, countVars, sending, net, tcp, timers, rx,
          delivered, transmissions>>

-----------------------------------------------------------------------------
(* Sequence arithmetic: unsigned subtraction, compared as a signed number. *)

Minus(l, r) == IF l >= r THEN l - r ELSE l - r + SeqMod

sequence_greater(l, r) == Minus(l, r) # 0 /\ 2 * Minus(l, r) < SeqMod

sequence_less_equal(l, r) == ~sequence_greater(l, r)

\* Mutant of is_sequence_acked: the acknowledgment is cumulative.
is_sequence_ackedCumulative(s, ack, mask) == sequence_less_equal(s, ack)

is_sequence_acked(s, ack, mask) ==
  \/ s = ack
  \/ /\ sequence_less_equal(s, ack)
     /\ Minus(ack, s) <= Window
     /\ (Minus(ack, s) - 1) \in mask

-----------------------------------------------------------------------------
\* Quiet start: nothing was sent yet, or all packets up to Start arrived in order.
Init ==
  /\ setup \in Setups
  /\ reliable = [p \in Peers |-> TRUE]
  /\ maxAttempts \in [Peers -> Attempts]
  /\ nextOutgoingSequence = [p \in Peers |-> Start]
  /\ lastReceivedSequence = [p \in Peers |-> Start]
  /\ receivedMask = [p \in Peers |-> {}]
  /\ hasReceived = [p \in Peers |-> Start # 0]
  /\ pendingAck = [p \in Peers |-> FALSE]
  /\ pending = [p \in Peers |-> {}]
  /\ attempts = [p \in Peers |-> [s \in Seqs |-> 0]]
  /\ sending = [p \in Peers |-> {}]
  /\ net = [p \in Peers |-> {}]
  /\ tcp = [p \in Peers |-> 0]
  /\ timers = [p \in Peers |-> {}]
  /\ rx = [p \in Peers |-> [at |-> "idle", packet |-> Packet("ack"), duplicate |-> FALSE]]
  /\ sends = [p \in Peers |-> 0] /\ plains = [p \in Peers |-> 0] /\ tcps = [p \in Peers |-> 0]
  /\ accepted = [p \in Peers |-> {}]
  /\ delivered = [p \in Peers |-> [s \in Seqs |-> 0]]
  /\ transmissions = [p \in Peers |-> [s \in Seqs |-> 0]]
  /\ dropped = [p \in Peers |-> {}]

-----------------------------------------------------------------------------
(* send                                                                    *)

\* ++nextOutgoingSequence
NextSequence(n) == (n + 1) % SeqMod

DataPacket(p, s, try) ==
  [kind |-> "data", seq |-> s, ack |-> lastReceivedSequence[p],
   mask |-> receivedMask[p], try |-> try]

\* The critical section; m_udp->send is awaited next.
send_reliable_udp(p) ==
  /\ reliable[p] /\ sends[p] < setup.sends[p]
  /\ LET s == NextSequence(nextOutgoingSequence[p]) IN
       /\ nextOutgoingSequence' = [nextOutgoingSequence EXCEPT ![p] = s]
       /\ pending' = [pending EXCEPT ![p] = @ \cup {s}]
       /\ attempts' = [attempts EXCEPT ![p][s] = 0]
       /\ sending' = [sending EXCEPT ![p] = @ \cup {DataPacket(p, s, 0)}]
  /\ sends' = [sends EXCEPT ![p] = @ + 1]
  /\ UNCHANGED <<dropped, recvVars, confVars, plains, tcps, net, tcp, timers, rx,
                 delivered, transmissions>>

\* DeliveryGuarantee::Unreliable: the caller's header goes out as it is.
SendUnreliable(p) ==
  /\ plains[p] < setup.plain[p]
  /\ plains' = [plains EXCEPT ![p] = @ + 1]
  /\ sending' = [sending EXCEPT ![p] = @ \cup {[Packet("plain") EXCEPT !.try = plains[p]]}]
  /\ UNCHANGED <<sendVars, recvVars, confVars, sends, tcps, net, tcp, timers, rx,
                 delivered, transmissions>>

\* DeliveryGuarantee::Reliable on another channel, or with reliability off. A
\* connect that fails or a send that is cut short loses the packet unnoticed.
SendTcp(p) ==
  /\ tcps[p] < setup.tcp[p]
  /\ tcps' = [tcps EXCEPT ![p] = @ + 1]
  /\ \/ tcp' = [tcp EXCEPT ![Other(p)] = @ + 1]
     \/ UNCHANGED tcp
  /\ UNCHANGED <<sendVars, recvVars, confVars, sends, plains, sending, net, timers, rx,
                 delivered, transmissions>>

\* Mutant of Transmit: schedule_retransmission is not called.
TransmitOnce(p) ==
  \E m \in sending[p] :
    /\ sending' = [sending EXCEPT ![p] = @ \ {m}]
    /\ net' = [net EXCEPT ![Other(p)] = @ \cup {m}]
    /\ UNCHANGED <<sendVars, recvVars, confVars, countVars, tcp, timers, rx, delivered,
                   transmissions>>

\* The sendto job; after a data packet schedule_retransmission follows.
Transmit(p) ==
  \E m \in sending[p] :
    /\ sending' = [sending EXCEPT ![p] = @ \ {m}]
    /\ net' = [net EXCEPT ![Other(p)] = @ \cup {m}]
    /\ IF m.kind = "data"
         THEN /\ timers' = [timers EXCEPT ![p] = @ \cup {[seq |-> m.seq, max |-> 0]}]
              /\ transmissions' = [transmissions EXCEPT ![p][m.seq] = @ + 1]
         ELSE UNCHANGED <<timers, transmissions>>
    /\ UNCHANGED <<sendVars, recvVars, confVars, countVars, tcp, rx, delivered>>

-----------------------------------------------------------------------------
(* retransmit_after                                                        *)

\* Mutant of BudgetSpent: `>' where the code has `>='.
BudgetSpentLate(tries, max) == tries + 1 > max

\* The initial transmission counts as an attempt.
BudgetSpent(tries, max) == tries + 1 >= max

\* Mutant of BeginWait: a second timer is armed.
BeginWaitTwice(p) ==
  \E t \in timers[p] :
    /\ t.max = 0
    /\ timers' = [timers EXCEPT ![p] = @ \cup {[t EXCEPT !.max = maxAttempts[p]]}]
    /\ UNCHANGED <<sendVars, recvVars, confVars, countVars, sending, net, tcp, rx,
                   delivered, transmissions>>

\* The configuration is read before the wait.
BeginWait(p) ==
  \E t \in timers[p] :
    /\ t.max = 0
    /\ timers' = [timers EXCEPT ![p] = (@ \ {t}) \cup {[t EXCEPT !.max = maxAttempts[p]]}]
    /\ UNCHANGED <<sendVars, recvVars, confVars, countVars, sending, net, tcp, rx,
                   delivered, transmissions>>

\* The critical section after the wait.
retransmit_after(p) ==
  \E t \in timers[p] :
    LET s == t.seq IN
    /\ t.max # 0
    /\ timers' = [timers EXCEPT ![p] = @ \ {t}]
    /\ \/ /\ s \notin pending[p]
          /\ UNCHANGED <<pending, attempts, sending, dropped>>
       \/ /\ s \in pending[p] /\ BudgetSpent(attempts[p][s], t.max)
          /\ pending' = [pending EXCEPT ![p] = @ \ {s}]
          /\ dropped' = [dropped EXCEPT ![p] = @ \cup {s}]
          /\ UNCHANGED <<attempts, sending>>
       \/ /\ s \in pending[p] /\ ~BudgetSpent(attempts[p][s], t.max)
          /\ attempts' = [attempts EXCEPT ![p][s] = @ + 1]
          /\ sending' = [sending EXCEPT ![p] = @ \cup {DataPacket(p, s, attempts[p][s] + 1)}]
          /\ UNCHANGED <<pending, dropped>>
    /\ UNCHANGED <<nextOutgoingSequence, recvVars, confVars, countVars, net, tcp, rx,
                   delivered, transmissions>>

-----------------------------------------------------------------------------
(* receive                                                                 *)

Deliver(p, m) ==
  IF m.kind = "data"
    THEN delivered' = [delivered EXCEPT ![p][m.seq] = @ + 1]
    ELSE UNCHANGED delivered

\* m_tcp->receive polls the listening socket with a zero timeout: it has a packet,
\* which the caller gets, or the UDP transport is asked.
receive(p) ==
  /\ rx[p].at = "idle"
  /\ \/ /\ tcp[p] > 0
        /\ tcp' = [tcp EXCEPT ![p] = @ - 1]
        /\ UNCHANGED rx
     \/ /\ tcp[p] = 0
        /\ rx' = [rx EXCEPT ![p].at = "recvfrom"]
        /\ UNCHANGED tcp
  /\ UNCHANGED <<sendVars, recvVars, confVars, countVars, sending, net, timers,
                 delivered, transmissions>>

\* m_udp->receive blocks in recvfrom. The network may keep another copy.
\* Without reliability on the channel the packet goes to the caller as it is.
ReceiveUdp(p) ==
  /\ rx[p].at = "recvfrom"
  /\ \E m \in net[p] :
       /\ \/ net' = [net EXCEPT ![p] = @ \ {m}]
          \/ setup.duplicating /\ net' = net
       /\ \/ /\ reliable[p]
             /\ rx' = [rx EXCEPT ![p] = [at |-> "record_ack", packet |-> m, duplicate |-> FALSE]]
             /\ UNCHANGED delivered
          \/ /\ ~reliable[p]
             /\ rx' = [rx EXCEPT ![p].at = "idle"]
             /\ Deliver(p, m)
  /\ UNCHANGED <<sendVars, recvVars, confVars, countVars, sending, tcp, timers, transmissions>>

\* An ACK-only packet ends here: nullopt.
record_ack(p) ==
  /\ rx[p].at = "record_ack"
  /\ LET m == rx[p].packet IN
       /\ pending' = [pending EXCEPT ![p] =
                        {s \in @ : ~is_sequence_acked(s, m.ack, m.mask)}]
       /\ rx' = [rx EXCEPT ![p].at = IF m.kind = "ack" THEN "idle" ELSE "handle"]
  /\ UNCHANGED <<nextOutgoingSequence, attempts, dropped, recvVars, confVars, countVars,
                 sending, net, tcp, timers, delivered, transmissions>>

\* Mutant of MarkReceived: the bit of a late packet is not set.
MarkForgotten(mask, diff) == mask

\* receivedMask |= 1u << (diff - 1)
MarkReceived(mask, diff) == mask \cup {diff - 1}

\* receivedMask <<= diff; bits beyond the last one fall off.
ShiftMask(mask, diff) == IF diff >= Window THEN {} ELSE {b + diff : b \in mask} \cap Bits

Fresh(p) ==
  LET s == rx[p].packet.seq IN
  /\ \/ /\ ~hasReceived[p]
        /\ hasReceived' = [hasReceived EXCEPT ![p] = TRUE]
        /\ lastReceivedSequence' = [lastReceivedSequence EXCEPT ![p] = s]
        /\ receivedMask' = [receivedMask EXCEPT ![p] = {}]
     \/ /\ hasReceived[p] /\ sequence_greater(s, lastReceivedSequence[p])
        /\ lastReceivedSequence' = [lastReceivedSequence EXCEPT ![p] = s]
        /\ receivedMask' = [receivedMask EXCEPT ![p] =
                              ShiftMask(@, Minus(s, lastReceivedSequence[p]))]
        /\ UNCHANGED hasReceived
     \/ LET diff == Minus(lastReceivedSequence[p], s) IN
        /\ hasReceived[p] /\ ~sequence_greater(s, lastReceivedSequence[p])
        /\ diff # 0 /\ diff <= Window /\ (diff - 1) \notin receivedMask[p]
        /\ receivedMask' = [receivedMask EXCEPT ![p] = MarkReceived(@, diff)]
        /\ UNCHANGED <<hasReceived, lastReceivedSequence>>
  /\ pendingAck' = [pendingAck EXCEPT ![p] = TRUE]
  /\ accepted' = [accepted EXCEPT ![p] = @ \cup {s}]

\* The same packet again, or one that fell out of the window.
Duplicate(p) ==
  LET s == rx[p].packet.seq
      diff == Minus(lastReceivedSequence[p], s)
  IN /\ hasReceived[p] /\ ~sequence_greater(s, lastReceivedSequence[p])
     /\ diff = 0 \/ diff > Window \/ (diff - 1) \in receivedMask[p]

handle_incoming_sequence(p) ==
  /\ rx[p].at = "handle"
  /\ \/ Fresh(p) /\ rx' = [rx EXCEPT ![p].at = "maybe_send_ack"]
     \/ /\ Duplicate(p)
        /\ rx' = [rx EXCEPT ![p].at = "maybe_send_ack", ![p].duplicate = TRUE]
        /\ UNCHANGED recvVars
  /\ UNCHANGED <<sendVars, confVars, countVars, sending, net, tcp, timers,
                 delivered, transmissions>>

AckPacket(p) ==
  [Packet("ack") EXCEPT !.ack = lastReceivedSequence[p], !.mask = receivedMask[p]]

\* The acknowledgment, then the return of receive: nullopt for a duplicate.
maybe_send_ack(p) ==
  /\ rx[p].at = "maybe_send_ack"
  /\ IF pendingAck[p]
       THEN sending' = [sending EXCEPT ![p] = @ \cup {AckPacket(p)}]
       ELSE UNCHANGED sending
  /\ pendingAck' = [pendingAck EXCEPT ![p] = FALSE]
  /\ rx' = [rx EXCEPT ![p] = [at |-> "idle", packet |-> Packet("ack"), duplicate |-> FALSE]]
  /\ IF rx[p].duplicate THEN UNCHANGED delivered ELSE Deliver(p, rx[p].packet)
  /\ UNCHANGED <<sendVars, lastReceivedSequence, receivedMask, hasReceived, accepted,
                 confVars, countVars, net, tcp, timers, transmissions>>

-----------------------------------------------------------------------------
(* configuration                                                           *)

enable_udp_reliability(p) ==
  /\ setup.toggle
  /\ reliable' = [reliable EXCEPT ![p] = ~@]
  /\ UNCHANGED <<sendVars, recvVars, maxAttempts, countVars, sending, net, tcp, timers, rx,
                 delivered, transmissions>>

configure_udp_retransmission(p) ==
  /\ \E n \in Attempts \ {maxAttempts[p]} : maxAttempts' = [maxAttempts EXCEPT ![p] = n]
  /\ UNCHANGED <<sendVars, recvVars, reliable, countVars, sending, net, tcp, timers, rx,
                 delivered, transmissions>>

-----------------------------------------------------------------------------
\* What the pool threads do on their own.
Background(p) == Transmit(p) \/ BeginWait(p) \/ retransmit_after(p)

Receiving(p) ==
  receive(p) \/ ReceiveUdp(p) \/ record_ack(p) \/ handle_incoming_sequence(p) \/ maybe_send_ack(p)

\* send() chooses by the packet's guarantee and its channel.
send(p) == send_reliable_udp(p) \/ SendUnreliable(p) \/ SendTcp(p)

Application(p) ==
  \/ send(p)
  \/ enable_udp_reliability(p) \/ configure_udp_retransmission(p)

Next ==
  /\ \E p \in Peers : Background(p) \/ Receiving(p) \/ Application(p)
  /\ UNCHANGED setup

\* The scheduler runs its coroutines, the application keeps calling receive; the
\* network owes nobody a packet: ReceiveUdp is not in the fairness condition.
Fairness ==
  \A p \in Peers :
    /\ WF_vars(Transmit(p)) /\ WF_vars(BeginWait(p)) /\ WF_vars(retransmit_after(p))
    /\ WF_vars(receive(p) \/ record_ack(p) \/ handle_incoming_sequence(p) \/ maybe_send_ack(p))

Spec == Init /\ [][Next]_<<vars, setup>> /\ Fairness

-----------------------------------------------------------------------------
(* Properties                                                              *)

\* The sequence numbers p has used.
Sent(p) == {(Start + i) % SeqMod : i \in 1..sends[p]}

\* record_ack against handle_incoming_sequence (NetworkManager.cpp:121-186): a
\* packet stops being pending only because the peer has accepted it or because
\* the retry budget ran out, never by an acknowledgment of something else.
NoFalseAck ==
  \A p \in Peers : Sent(p) \subseteq pending[p] \cup dropped[p] \cup accepted[Other(p)]

\* NetworkManager.h:60, "Total attempts (initial send + retries) before the packet
\* is dropped", also when the configuration changes while timers are asleep: no
\* packet exceeds the largest budget configured, none is dropped below the smallest.
RetryBudget ==
  \A p \in Peers : \A s \in Seqs :
    /\ \E n \in Attempts : transmissions[p][s] <= n
    /\ s \in dropped[p] => \E n \in Attempts : n <= transmissions[p][s]

\* send_reliable_udp, schedule_retransmission and retransmit_after hand a pending
\* packet on to exactly one of them: it is about to be transmitted or one timer
\* is asleep for it; otherwise it would stay pending for ever or be sent twice
\* as often.
OneRetransmissionChain ==
  \A p \in Peers : \A s \in Seqs :
    LET chains == Cardinality({m \in sending[p] : m.kind = "data" /\ m.seq = s})
                    + Cardinality({t \in timers[p] : t.seq = s})
    IN chains <= 1 /\ (s \in pending[p] => chains = 1)

\* The receiver's window (NetworkManager.cpp:145-186): retransmissions and network
\* duplicates of one packet reach the application at most twice.
DeliveredAtMostTwice == \A p \in Peers : \A s \in Seqs : delivered[p][s] <= 2

\* Everything that is pending is eventually acknowledged or given up.
PendingDrains == \A p \in Peers : []<>(pending[p] = {})

\* NetworkManager.h:51-53: reliability concerns "packets sent with
\* DeliveryGuarantee::Reliable"; an unreliable one is not taken for a duplicate.
PlainPacketsPass ==
  \A p \in Peers : rx[p].packet.kind = "plain" => ~rx[p].duplicate
=============================================================================
