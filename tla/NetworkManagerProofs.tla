------------------------ MODULE NetworkManagerProofs ------------------------
(***************************************************************************)
(* Reliable UDP for every traffic: the pending table, the chains of        *)
(* timers, the retry budget, and what acknowledgments say.                 *)
(***************************************************************************)
EXTENDS NetworkManager, FiniteSetTheorems, TLAPS

Packets == [kind : {"data", "ack", "plain"}, seq : Seqs, ack : Seqs,
            mask : SUBSET Nat, try : Nat]

Receptions == [at : {"idle", "recvfrom", "record_ack", "handle", "maybe_send_ack"},
               packet : Packets, duplicate : BOOLEAN]

\* Types, of the variables that the arguments below are about.
TypeInv ==
  /\ setup \in Setups
  /\ sends \in [Peers -> Nat]
  /\ maxAttempts \in [Peers -> Attempts]
  /\ nextOutgoingSequence \in [Peers -> Seqs] /\ lastReceivedSequence \in [Peers -> Seqs]
  /\ receivedMask \in [Peers -> SUBSET Nat]
  /\ hasReceived \in [Peers -> BOOLEAN]
  /\ pending \in [Peers -> SUBSET Seqs] /\ dropped \in [Peers -> SUBSET Seqs]
  /\ accepted \in [Peers -> SUBSET Seqs]
  /\ attempts \in [Peers -> [Seqs -> Nat]]
  /\ transmissions \in [Peers -> [Seqs -> Nat]] /\ delivered \in [Peers -> [Seqs -> Nat]]
  /\ plains \in [Peers -> Nat]
  /\ sending \in [Peers -> SUBSET Packets] /\ net \in [Peers -> SUBSET Packets]
  /\ timers \in [Peers -> SUBSET [seq : Seqs, max : Nat]]
  /\ rx \in [Peers -> Receptions]

Steps == [Next]_<<vars, setup>>

-----------------------------------------------------------------------------
(* Peers and numbers                                                       *)

\* There are two peers, each the other's.
LEMMA OtherPeer ==
  ASSUME NEW p \in Peers
  PROVE  /\ Other(p) \in Peers /\ Other(p) # p /\ Other(Other(p)) = p
         /\ Peers = {p, Other(p)}
<1>1. PICK q \in Peers : q # p /\ Peers = {p, q} BY NetworkAssumption
<1>2. Other(p) = q BY <1>1 DEF Other
<1>3. Other(q) = p BY <1>1 DEF Other
<1> QED BY <1>1, <1>2, <1>3

\* What the assumption says of the set-up in use.
LEMMA SetupFacts ==
  ASSUME setup \in Setups
  PROVE  /\ SeqMod \in Nat \ {0} /\ Start \in Seqs /\ Window \in Nat \ {0}
         /\ Attempts \subseteq Nat \ {0} /\ Attempts # {}
         /\ \A p \in Peers : setup.sends[p] \in Nat /\ 2 * setup.sends[p] < SeqMod
BY NetworkAssumption DEF Start, Window, Attempts, Seqs

\* Unsigned differences are numbers, zero only of equal ones, and add up.
LEMMA Distance ==
  ASSUME SeqMod \in Nat \ {0}, NEW l \in Seqs, NEW r \in Seqs
  PROVE  /\ Minus(l, r) \in Nat /\ Minus(l, r) < SeqMod
         /\ Minus(l, r) = 0 <=> l = r
BY DEF Seqs, Minus

\* A number below 2 * SeqMod, modulo SeqMod.
Wrapped(x) == IF x < SeqMod THEN x ELSE x - SeqMod

\* Which is what % computes.
LEMMA WrapOnce ==
  ASSUME SeqMod \in Nat \ {0}, NEW x \in Nat, x < 2 * SeqMod
  PROVE  x % SeqMod = Wrapped(x)
<1>1. CASE x < SeqMod BY <1>1 DEF Wrapped
<1>2. CASE x >= SeqMod
  <2>1. (x - SeqMod) % SeqMod = x - SeqMod BY <1>2
  <2>2. x % SeqMod = (x - SeqMod) % SeqMod BY <1>2
  <2> QED BY <1>2, <2>1, <2>2 DEF Wrapped
<1> QED BY <1>1, <1>2

-----------------------------------------------------------------------------
(* Types                                                                   *)

\* The headers that send, retransmit_after and maybe_send_ack fill in.
LEMMA PacketTypes ==
  ASSUME TypeInv, NEW p \in Peers
  PROVE  /\ \A s \in Seqs, try \in Nat : DataPacket(p, s, try) \in Packets
         /\ AckPacket(p) \in Packets /\ Packet("ack") \in Packets
         /\ [Packet("plain") EXCEPT !.try = plains[p]] \in Packets
<1>1. 0 \in Seqs BY SetupFacts DEF TypeInv, Seqs
<1>2. lastReceivedSequence[p] \in Seqs /\ receivedMask[p] \in SUBSET Nat /\ plains[p] \in Nat
  BY DEF TypeInv
<1> QED BY <1>1, <1>2 DEF DataPacket, AckPacket, Packet, Packets

\* ++nextOutgoingSequence stays in range.
LEMMA NextSequenceType ==
  ASSUME setup \in Setups, NEW n \in Seqs PROVE NextSequence(n) \in Seqs
BY SetupFacts DEF Seqs, NextSequence

\* Sending keeps the types.
LEMMA TypeSend ==
  ASSUME TypeInv, NEW p \in Peers, send(p), UNCHANGED setup PROVE TypeInv'
<1>1. CASE send_reliable_udp(p)
  <2> DEFINE s == NextSequence(nextOutgoingSequence[p])
  <2>1. s \in Seqs BY NextSequenceType DEF TypeInv
  <2>2. DataPacket(p, s, 0) \in Packets BY <2>1, PacketTypes
  <2> HIDE DEF s
  <2> QED BY <1>1, <2>1, <2>2
          DEF send_reliable_udp, s, TypeInv, recvVars, confVars, Attempts
<1>2. CASE SendUnreliable(p)
  <2>1. sending \in [Peers -> SUBSET Packets] /\ plains \in [Peers -> Nat] BY DEF TypeInv
  <2>2. sending' \in [Peers -> SUBSET Packets] /\ plains' \in [Peers -> Nat]
    BY <1>2, <2>1, PacketTypes DEF SendUnreliable
  <2> QED BY <1>2, <2>2 DEF SendUnreliable, TypeInv, sendVars, recvVars, confVars, Attempts
<1>3. CASE SendTcp(p)
  BY <1>3 DEF SendTcp, TypeInv, sendVars, recvVars, confVars, Attempts
<1> QED BY <1>1, <1>2, <1>3 DEF send

\* So do the transport, the timers and the retransmissions.
LEMMA TypeBackground ==
  ASSUME TypeInv, NEW p \in Peers, Background(p), UNCHANGED setup PROVE TypeInv'
<1> USE DEF Attempts
<1>1. CASE Transmit(p)
  <2>1. PICK m \in sending[p] :
          /\ sending' = [sending EXCEPT ![p] = @ \ {m}]
          /\ net' = [net EXCEPT ![Other(p)] = @ \cup {m}]
          /\ IF m.kind = "data"
               THEN /\ timers' = [timers EXCEPT ![p] = @ \cup {[seq |-> m.seq, max |-> 0]}]
                    /\ transmissions' = [transmissions EXCEPT ![p][m.seq] = @ + 1]
               ELSE UNCHANGED <<timers, transmissions>>
          /\ UNCHANGED <<sendVars, recvVars, confVars, countVars, tcp, rx, delivered>>
    BY <1>1 DEF Transmit
  <2>2. m \in Packets /\ m.seq \in Seqs BY DEF TypeInv, Packets
  <2>3. sending' \in [Peers -> SUBSET Packets] /\ net' \in [Peers -> SUBSET Packets]
    <3>1. sending \in [Peers -> SUBSET Packets] /\ net \in [Peers -> SUBSET Packets] BY DEF TypeInv
    <3> QED BY <2>1, <2>2, <3>1, OtherPeer
  <2>4. timers' \in [Peers -> SUBSET [seq : Seqs, max : Nat]]
    <3>1. timers \in [Peers -> SUBSET [seq : Seqs, max : Nat]] BY DEF TypeInv
    <3> QED BY <2>1, <2>2, <3>1
  <2>5. transmissions' \in [Peers -> [Seqs -> Nat]]
    <3>1. transmissions \in [Peers -> [Seqs -> Nat]] BY DEF TypeInv
    <3> QED BY <2>1, <2>2, <3>1
  <2> QED BY <2>1, <2>3, <2>4, <2>5
          DEF TypeInv, sendVars, recvVars, confVars, countVars
<1>2. CASE BeginWait(p)
  <2>1. maxAttempts[p] \in Nat BY SetupFacts DEF TypeInv
  <2>2. timers' \in [Peers -> SUBSET [seq : Seqs, max : Nat]]
    <3>1. timers \in [Peers -> SUBSET [seq : Seqs, max : Nat]] BY DEF TypeInv
    <3> QED BY <1>2, <2>1, <3>1 DEF BeginWait
  <2> QED BY <1>2, <2>2
          DEF BeginWait, TypeInv, sendVars, recvVars, confVars, countVars
<1>3. CASE retransmit_after(p)
  <2>1. PICK t \in timers[p] :
          /\ timers' = [timers EXCEPT ![p] = @ \ {t}]
          /\ \/ UNCHANGED <<pending, attempts, sending, dropped>>
             \/ /\ pending' = [pending EXCEPT ![p] = @ \ {t.seq}]
                /\ dropped' = [dropped EXCEPT ![p] = @ \cup {t.seq}]
                /\ UNCHANGED <<attempts, sending>>
             \/ /\ attempts' = [attempts EXCEPT ![p][t.seq] = @ + 1]
                /\ sending' = [sending EXCEPT ![p] = @ \cup {DataPacket(p, t.seq, attempts[p][t.seq] + 1)}]
                /\ UNCHANGED <<pending, dropped>>
          /\ UNCHANGED <<nextOutgoingSequence, recvVars, confVars, countVars, net, tcp, rx,
                         delivered, transmissions>>
    BY <1>3 DEF retransmit_after
  <2>2. t.seq \in Seqs /\ attempts[p][t.seq] \in Nat BY DEF TypeInv
  <2>3. attempts[p][t.seq] + 1 \in Nat BY <2>2
  <2>4. DataPacket(p, t.seq, attempts[p][t.seq] + 1) \in Packets BY <2>2, <2>3, PacketTypes
  <2>5. timers' \in [Peers -> SUBSET [seq : Seqs, max : Nat]]
    <3>1. timers \in [Peers -> SUBSET [seq : Seqs, max : Nat]] BY DEF TypeInv
    <3> QED BY <2>1, <3>1
  <2>6. pending' \in [Peers -> SUBSET Seqs] /\ dropped' \in [Peers -> SUBSET Seqs]
    <3>1. pending \in [Peers -> SUBSET Seqs] /\ dropped \in [Peers -> SUBSET Seqs] BY DEF TypeInv
    <3> QED BY <2>1, <2>2, <3>1
  <2>7. attempts' \in [Peers -> [Seqs -> Nat]]
    <3>1. attempts \in [Peers -> [Seqs -> Nat]] BY DEF TypeInv
    <3> QED BY <2>1, <2>2, <3>1
  <2>8. sending' \in [Peers -> SUBSET Packets]
    <3>1. sending \in [Peers -> SUBSET Packets] BY DEF TypeInv
    <3> QED BY <2>1, <2>4, <3>1
  <2> QED BY <2>1, <2>5, <2>6, <2>7, <2>8
          DEF TypeInv, recvVars, confVars, countVars
<1> QED BY <1>1, <1>2, <1>3 DEF Background

\* The count of deliveries goes up by one or stays.
LEMMA DeliverTypes ==
  ASSUME TypeInv, NEW p \in Peers, NEW m \in Packets, Deliver(p, m)
  PROVE  delivered' \in [Peers -> [Seqs -> Nat]]
<1>1. m.seq \in Seqs BY DEF Packets
<1>2. delivered \in [Peers -> [Seqs -> Nat]] BY DEF TypeInv
<1> QED BY <1>1, <1>2 DEF Deliver

\* So does receiving.
LEMMA TypeReceiving ==
  ASSUME TypeInv, NEW p \in Peers, Receiving(p), UNCHANGED setup PROVE TypeInv'
<1> USE DEF Attempts
<1>0. rx \in [Peers -> Receptions] BY DEF TypeInv
<1>1. CASE receive(p)
  <2>1. rx' \in [Peers -> Receptions] BY <1>1, <1>0 DEF receive, Receptions
  <2> QED BY <1>1, <2>1 DEF receive, TypeInv, sendVars, recvVars, confVars, countVars
<1>2. CASE ReceiveUdp(p)
  <2>1. PICK m \in net[p] :
          /\ \/ net' = [net EXCEPT ![p] = @ \ {m}]
             \/ net' = net
          /\ \/ /\ rx' = [rx EXCEPT ![p] = [at |-> "record_ack", packet |-> m, duplicate |-> FALSE]]
                /\ UNCHANGED delivered
             \/ /\ rx' = [rx EXCEPT ![p].at = "idle"]
                /\ Deliver(p, m)
    BY <1>2 DEF ReceiveUdp
  <2>2. m \in Packets BY DEF TypeInv
  <2>3. net' \in [Peers -> SUBSET Packets]
    <3>1. net \in [Peers -> SUBSET Packets] BY DEF TypeInv
    <3> QED BY <2>1, <3>1
  <2>4. rx' \in [Peers -> Receptions]
    <3>1. [at |-> "record_ack", packet |-> m, duplicate |-> FALSE] \in Receptions
      BY <2>2 DEF Receptions
    <3>2. [rx[p] EXCEPT !.at = "idle"] \in Receptions BY <1>0 DEF Receptions
    <3> QED BY <1>0, <2>1, <3>1, <3>2
  <2>5. delivered' \in [Peers -> [Seqs -> Nat]] BY <2>1, <2>2, DeliverTypes DEF TypeInv
  <2> QED BY <1>2, <2>3, <2>4, <2>5
          DEF ReceiveUdp, TypeInv, sendVars, recvVars, confVars, countVars
<1>3. CASE record_ack(p)
  <2>1. pending' \in [Peers -> SUBSET Seqs]
    <3>1. pending \in [Peers -> SUBSET Seqs] BY DEF TypeInv
    <3> QED BY <1>3, <3>1 DEF record_ack
  <2>2. rx' \in [Peers -> Receptions] BY <1>0, <1>3 DEF record_ack, Receptions
  <2> QED BY <1>3, <2>1, <2>2
          DEF record_ack, TypeInv, recvVars, confVars, countVars
<1>4. CASE handle_incoming_sequence(p)
  <2>1. rx' \in [Peers -> Receptions]
    BY <1>0, <1>4 DEF handle_incoming_sequence, Receptions
  <2>2. CASE UNCHANGED recvVars
    BY <1>4, <2>1, <2>2
    DEF handle_incoming_sequence, TypeInv, sendVars, recvVars, confVars, countVars
  <2>3. CASE Fresh(p)
    <3> DEFINE s == rx[p].packet.seq
               last == lastReceivedSequence[p]
    <3>1. s \in Seqs /\ last \in Seqs /\ receivedMask[p] \in SUBSET Nat
      BY DEF TypeInv, Receptions, Packets
    <3>2. Minus(s, last) \in Nat /\ Minus(last, s) \in Nat
      <4>1. setup \in Setups BY DEF TypeInv
      <4> QED BY <3>1, <4>1, SetupFacts, Distance
    <3>3. ShiftMask(receivedMask[p], Minus(s, last)) \in SUBSET Nat
      BY <3>1, <3>2, SetupFacts DEF TypeInv, ShiftMask, Bits
    <3>4. Minus(last, s) # 0 => MarkReceived(receivedMask[p], Minus(last, s)) \in SUBSET Nat
      BY <3>1, <3>2 DEF MarkReceived
    <3> HIDE DEF s, last
    <3>5. /\ hasReceived' \in [Peers -> BOOLEAN] /\ lastReceivedSequence' \in [Peers -> Seqs]
          /\ accepted' \in [Peers -> SUBSET Seqs]
      <4>1. /\ hasReceived \in [Peers -> BOOLEAN] /\ lastReceivedSequence \in [Peers -> Seqs]
            /\ accepted \in [Peers -> SUBSET Seqs]
        BY DEF TypeInv
      <4> QED BY <2>3, <3>1, <4>1 DEF Fresh, s, last
    <3>6. receivedMask' \in [Peers -> SUBSET Nat]
      <4>1. receivedMask \in [Peers -> SUBSET Nat] BY DEF TypeInv
      <4> QED BY <2>3, <3>3, <3>4, <4>1 DEF Fresh, s, last
    <3> QED BY <1>4, <2>1, <3>5, <3>6
            DEF handle_incoming_sequence, TypeInv, sendVars, confVars, countVars
  <2> QED BY <1>4, <2>2, <2>3 DEF handle_incoming_sequence
<1>5. CASE maybe_send_ack(p)
  <2>1. rx[p].packet \in Packets BY DEF TypeInv, Receptions
  <2>2. Packet("ack") \in Packets /\ AckPacket(p) \in Packets BY PacketTypes
  <2>3. rx' \in [Peers -> Receptions] BY <1>0, <1>5, <2>2 DEF maybe_send_ack, Receptions
  <2>4. sending' \in [Peers -> SUBSET Packets]
    <3>1. sending \in [Peers -> SUBSET Packets] BY DEF TypeInv
    <3> QED BY <1>5, <2>2, <3>1 DEF maybe_send_ack
  <2>5. delivered' \in [Peers -> [Seqs -> Nat]]
    BY <1>5, <2>1, DeliverTypes DEF maybe_send_ack, TypeInv
  <2> QED BY <1>5, <2>3, <2>4, <2>5
          DEF maybe_send_ack, TypeInv, sendVars, confVars, countVars
<1> QED BY <1>1, <1>2, <1>3, <1>4, <1>5 DEF Receiving

\* Types are invariant.
LEMMA TypeStep == TypeInv /\ Steps => TypeInv'
<1> SUFFICES ASSUME TypeInv, Steps PROVE TypeInv' OBVIOUS
<1>1. CASE UNCHANGED <<vars, setup>>
  BY <1>1 DEF vars, sendVars, recvVars, confVars, countVars, TypeInv, Attempts
<1>2. ASSUME NEW p \in Peers, UNCHANGED setup,
             enable_udp_reliability(p) \/ configure_udp_retransmission(p)
      PROVE  TypeInv'
  <2>1. maxAttempts \in [Peers -> Attempts] BY DEF TypeInv
  <2>2. maxAttempts' \in [Peers -> Attempts']
    BY <1>2, <2>1 DEF enable_udp_reliability, configure_udp_retransmission, Attempts
  <2> QED BY <1>2, <2>2 DEF enable_udp_reliability, configure_udp_retransmission, sendVars, recvVars,
                            countVars, TypeInv
<1> QED BY <1>1, <1>2, TypeSend, TypeBackground, TypeReceiving DEF Steps, Next, Application

\* The types hold at the start.
LEMMA TypeInit == Init => TypeInv
<1> SUFFICES ASSUME Init PROVE TypeInv OBVIOUS
<1>1. SeqMod \in Nat \ {0} /\ Start \in Seqs /\ 0 \in Seqs BY SetupFacts DEF Init, Seqs
<1>2. Packet("ack") \in Packets BY <1>1 DEF Packet, Packets
<1> QED BY <1>1, <1>2 DEF Init, TypeInv, Receptions

-----------------------------------------------------------------------------
(* The sender: pending table, packets about to be transmitted, timers.     *)

\* The data packets that p has handed to the transport.
DataIn(p) == {m \in sending[p] : m.kind = "data"}

\* What every action but sending, transmitting, waiting and retransmitting does to
\* the sender's state: acknowledgments may shorten the pending table.
Elsewhere ==
  /\ UNCHANGED <<sends, nextOutgoingSequence, attempts, timers, transmissions, dropped>>
  /\ \A q \in Peers : pending'[q] \subseteq pending[q] /\ DataIn(q)' = DataIn(q)

\* Four actions change the state of a sender, and the traffic never changes.
LEMMA SenderSteps ==
  ASSUME TypeInv, Steps
  PROVE  /\ UNCHANGED setup
         /\ \/ Elsewhere
            \/ \E p \in Peers :
                 send_reliable_udp(p) \/ Transmit(p) \/ BeginWait(p) \/ retransmit_after(p)
<1>0. sending \in [Peers -> SUBSET Packets] /\ pending \in [Peers -> SUBSET Seqs] BY DEF TypeInv
<1>1. CASE UNCHANGED <<vars, setup>>
  BY <1>1 DEF vars, sendVars, countVars, Elsewhere, DataIn
<1>2. ASSUME NEW p \in Peers, SendUnreliable(p) PROVE Elsewhere
  <2>1. [Packet("plain") EXCEPT !.try = plains[p]].kind = "plain" BY DEF Packet
  <2>2. \A q \in Peers : DataIn(q)' = DataIn(q) BY <1>0, <1>2, <2>1 DEF SendUnreliable, DataIn
  <2> QED BY <1>2, <2>2 DEF SendUnreliable, Elsewhere, sendVars
<1>3. ASSUME NEW p \in Peers, SendTcp(p) PROVE Elsewhere
  BY <1>3 DEF SendTcp, Elsewhere, sendVars, DataIn
<1>4. ASSUME NEW p \in Peers, receive(p) \/ ReceiveUdp(p) \/ handle_incoming_sequence(p)
      PROVE  Elsewhere
  BY <1>4 DEF receive, ReceiveUdp, handle_incoming_sequence, Elsewhere, sendVars, countVars, DataIn
<1>5. ASSUME NEW p \in Peers, record_ack(p) PROVE Elsewhere
  <2>1. \A q \in Peers : pending'[q] \subseteq pending[q] BY <1>0, <1>5 DEF record_ack
  <2> QED BY <1>5, <2>1 DEF record_ack, Elsewhere, countVars, DataIn
<1>6. ASSUME NEW p \in Peers, maybe_send_ack(p) PROVE Elsewhere
  <2>1. AckPacket(p).kind = "ack" BY DEF AckPacket, Packet
  <2>2. \A q \in Peers : DataIn(q)' = DataIn(q) BY <1>0, <1>6, <2>1 DEF maybe_send_ack, DataIn
  <2> QED BY <1>6, <2>2 DEF maybe_send_ack, Elsewhere, sendVars, countVars
<1>7. ASSUME NEW p \in Peers, enable_udp_reliability(p) \/ configure_udp_retransmission(p)
      PROVE  Elsewhere
  BY <1>7 DEF enable_udp_reliability, configure_udp_retransmission, Elsewhere, sendVars,
              countVars, DataIn
<1> QED BY <1>1, <1>2, <1>3, <1>4, <1>5, <1>6, <1>7
        DEF Steps, Next, Background, Receiving, Application, send

\* Numbers are used in order: the sender's tables only know numbers that were
\* used, and nothing was transmitted under another one.
SentInv(p) ==
  /\ sends[p] <= setup.sends[p]
  /\ nextOutgoingSequence[p] = (Start + sends[p]) % SeqMod
  /\ pending[p] \subseteq Sent(p)
  /\ \A m \in DataIn(p) : m.seq \in Sent(p)
  /\ \A t \in timers[p] : t.seq \in Sent(p)
  /\ \A s \in Seqs \ Sent(p) : transmissions[p][s] = 0

\* The numbers after Start differ, as long as fewer than SeqMod / 2 are used.
LEMMA Numbers ==
  ASSUME setup \in Setups, NEW p \in Peers,
         NEW i \in 0..setup.sends[p], NEW j \in 0..setup.sends[p]
  PROVE  /\ (Start + i) % SeqMod \in Seqs
         /\ (Start + i) % SeqMod = (Start + j) % SeqMod => i = j
         /\ (Start + 0) % SeqMod = Start
<1>1. /\ SeqMod \in Nat \ {0} /\ Start \in Nat /\ Start < SeqMod
      /\ i \in Nat /\ j \in Nat /\ 2 * i < SeqMod /\ 2 * j < SeqMod
  BY SetupFacts DEF Seqs
<1>2. Start + i \in Nat /\ Start + i < 2 * SeqMod /\ Start + j \in Nat /\ Start + j < 2 * SeqMod
  BY <1>1
<1>3. (Start + i) % SeqMod = Wrapped(Start + i) BY <1>1, <1>2, WrapOnce
<1>4. (Start + j) % SeqMod = Wrapped(Start + j) BY <1>1, <1>2, WrapOnce
<1>5. (Start + 0) % SeqMod = Start BY <1>1
<1> QED BY <1>1, <1>3, <1>4, <1>5 DEF Wrapped, Seqs

\* The number that send_reliable_udp takes is new, and the only one that becomes
\* used.
LEMMA NewNumber ==
  ASSUME TypeInv, NEW p \in Peers, SentInv(p), send_reliable_udp(p), UNCHANGED setup
  PROVE  LET s == NextSequence(nextOutgoingSequence[p]) IN
         /\ s \in Seqs /\ s \notin Sent(p)
         /\ s = (Start + sends[p] + 1) % SeqMod
         /\ Sent(p)' = Sent(p) \cup {s}
         /\ \A q \in Peers \ {p} : Sent(q)' = Sent(q)
         /\ sends[p] + 1 <= setup.sends[p]
<1> DEFINE n == sends[p]
           s == NextSequence(nextOutgoingSequence[p])
<1>1. /\ SeqMod \in Nat \ {0} /\ Start \in Seqs /\ n \in Nat
      /\ setup.sends[p] \in Nat /\ 2 * setup.sends[p] < SeqMod
  BY SetupFacts DEF TypeInv
<1>2. n < setup.sends[p] /\ sends' = [sends EXCEPT ![p] = n + 1] BY DEF send_reliable_udp
<1>3. s = (((Start + n) % SeqMod) + 1) % SeqMod BY DEF SentInv, NextSequence
<1>4. s = (Start + (n + 1)) % SeqMod
  <2>1. /\ Start \in Nat /\ Start < SeqMod /\ Start + n \in Nat /\ Start + n < 2 * SeqMod
        /\ Start + (n + 1) \in Nat /\ Start + (n + 1) < 2 * SeqMod
    BY <1>1, <1>2 DEF Seqs
  <2>2. (Start + n) % SeqMod = Wrapped(Start + n) BY <1>1, <2>1, WrapOnce
  <2>3. (Start + (n + 1)) % SeqMod = Wrapped(Start + (n + 1)) BY <1>1, <2>1, WrapOnce
  <2>4. Wrapped(Start + n) + 1 \in Nat /\ Wrapped(Start + n) + 1 < 2 * SeqMod
    BY <1>1, <2>1 DEF Wrapped
  <2>5. (Wrapped(Start + n) + 1) % SeqMod = Wrapped(Wrapped(Start + n) + 1)
    BY <1>1, <2>4, WrapOnce
  <2>6. Wrapped(Wrapped(Start + n) + 1) = Wrapped(Start + (n + 1))
    BY <1>1, <1>2, <2>1 DEF Wrapped
  <2> QED BY <1>3, <2>2, <2>3, <2>5, <2>6
<1>5. n + 1 \in 0..setup.sends[p] BY <1>1, <1>2
<1>6. setup \in Setups BY DEF TypeInv
<1>7. s \in Seqs BY <1>4, <1>5, <1>6, Numbers
<1>8. s \notin Sent(p)
  <2> SUFFICES ASSUME NEW i \in 1..n PROVE s # (Start + i) % SeqMod BY DEF Sent
  <2>1. i \in 0..setup.sends[p] /\ i # n + 1 BY <1>1, <1>2
  <2> QED BY <1>4, <1>5, <1>6, <2>1, Numbers
<1>9. Sent(p)' = Sent(p) \cup {s}
  <2>1. sends'[p] = n + 1 /\ Start' = Start BY <1>2 DEF TypeInv, Start
  <2>2. 1..(n + 1) = (1..n) \cup {n + 1} BY <1>1
  <2> QED BY <1>4, <2>1, <2>2 DEF Sent
<1>10. \A q \in Peers \ {p} : Sent(q)' = Sent(q) BY <1>2 DEF TypeInv, Sent, Start
<1>11. s = (Start + n + 1) % SeqMod
  <2>1. Start + (n + 1) = Start + n + 1 BY <1>1 DEF Seqs
  <2> QED BY <1>4, <2>1
<1> QED BY <1>1, <1>2, <1>7, <1>8, <1>9, <1>10, <1>11
-----------------------------------------------------------------------------
(* One packet, one chain, one budget. The invariant for one sender.        *)

\* A number that was used belongs to at most one data packet about to be
\* transmitted or one timer, and to exactly one while it is pending.
ChainInv(p) ==
  /\ \A m, n \in DataIn(p) : m.seq = n.seq => m = n
  /\ \A t, u \in timers[p] : t.seq = u.seq => t = u
  /\ \A m \in DataIn(p), t \in timers[p] : m.seq # t.seq
  /\ \A s \in pending[p] :
       (\E m \in DataIn(p) : m.seq = s) \/ (\E t \in timers[p] : t.seq = s)

\* PendingPacket::attempts counts the retransmissions, and a packet is only handed
\* to the transport while some configured budget allows it.
BudgetInv(p) ==
  /\ \A m \in DataIn(p) :
       /\ transmissions[p][m.seq] = attempts[p][m.seq]
       /\ \E n \in Attempts : attempts[p][m.seq] + 1 <= n
  /\ \A t \in timers[p] :
       /\ transmissions[p][t.seq] = attempts[p][t.seq] + 1
       /\ t.max \in Attempts \cup {0}
  /\ \A s \in Seqs : \E n \in Attempts : transmissions[p][s] <= n
  /\ \A s \in dropped[p] : \E n \in Attempts : n <= transmissions[p][s]

SenderInv == \A p \in Peers : SentInv(p) /\ ChainInv(p) /\ BudgetInv(p)

\* An action of one peer leaves the other's sender alone.
SameSender(q) ==
  /\ UNCHANGED <<sends[q], nextOutgoingSequence[q], pending[q], attempts[q], timers[q],
                 transmissions[q], dropped[q], setup>>
  /\ DataIn(q)' = DataIn(q)

\* What holds of a sender that no step touches goes on holding.
LEMMA SameSenderInv ==
  ASSUME NEW q \in Peers, SameSender(q), SentInv(q) /\ ChainInv(q) /\ BudgetInv(q)
  PROVE  (SentInv(q) /\ ChainInv(q) /\ BudgetInv(q))'
<1>1. SentInv(q)' BY DEF SameSender, SentInv, Sent, Start
<1>2. ChainInv(q)' BY DEF SameSender, ChainInv
<1>3. BudgetInv(q)' BY DEF SameSender, BudgetInv, Attempts
<1> QED BY <1>1, <1>2, <1>3

\* Acknowledgments and everything else that only shortens the pending table.
LEMMA ElsewhereInv ==
  ASSUME TypeInv, SenderInv, Elsewhere, UNCHANGED setup PROVE SenderInv'
<1> SUFFICES ASSUME NEW p \in Peers PROVE (SentInv(p) /\ ChainInv(p) /\ BudgetInv(p))'
  BY DEF SenderInv
<1>0. SentInv(p) /\ ChainInv(p) /\ BudgetInv(p) BY DEF SenderInv
<1>1. SentInv(p)' BY <1>0 DEF Elsewhere, SentInv, Sent, Start
<1>2. ChainInv(p)' BY <1>0 DEF Elsewhere, ChainInv
<1>3. BudgetInv(p)' BY <1>0 DEF Elsewhere, BudgetInv, Attempts
<1> QED BY <1>1, <1>2, <1>3

\* send_reliable_udp starts one chain, for a number that has none.
LEMMA SendInv ==
  ASSUME TypeInv, SenderInv, NEW p \in Peers, send_reliable_udp(p), UNCHANGED setup
  PROVE  SenderInv'
<1> DEFINE s == NextSequence(nextOutgoingSequence[p])
           new == DataPacket(p, s, 0)
<1>0. SentInv(p) /\ ChainInv(p) /\ BudgetInv(p) BY DEF SenderInv
<1>1. /\ s \in Seqs /\ s \notin Sent(p) /\ s = (Start + sends[p] + 1) % SeqMod
      /\ Sent(p)' = Sent(p) \cup {s} /\ sends[p] + 1 <= setup.sends[p]
      /\ \A q \in Peers \ {p} : Sent(q)' = Sent(q)
  BY <1>0, NewNumber
<1>2. new.kind = "data" /\ new.seq = s BY DEF DataPacket
<1> HIDE DEF s, new
<1>3. /\ nextOutgoingSequence'[p] = s /\ pending'[p] = pending[p] \cup {s}
      /\ attempts'[p] = [attempts[p] EXCEPT ![s] = 0] /\ sends'[p] = sends[p] + 1
      /\ sending'[p] = sending[p] \cup {new}
      /\ UNCHANGED <<timers, transmissions, dropped>>
  BY <1>1 DEF send_reliable_udp, TypeInv, s, new
<1>4. DataIn(p)' = DataIn(p) \cup {new} BY <1>2, <1>3 DEF DataIn
<1>5. attempts'[p][s] = 0 /\ \A r \in Seqs \ {s} : attempts'[p][r] = attempts[p][r]
  BY <1>1, <1>3 DEF TypeInv
<1>6. ASSUME NEW q \in Peers \ {p} PROVE SameSender(q)
  BY <1>6 DEF send_reliable_udp, SameSender, TypeInv, DataIn
<1>7. SentInv(p)'
  <2>1. Start' = Start /\ setup' = setup BY DEF Start
  <2>2. sends[p] \in Nat /\ Start \in Int BY SetupFacts DEF TypeInv, Seqs
  <2>3. Start + (sends[p] + 1) = Start + sends[p] + 1 BY <2>2
  <2>4. nextOutgoingSequence'[p] = (Start' + sends'[p]) % SeqMod BY <1>1, <1>3, <2>1, <2>3
  <2> QED BY <1>0, <1>1, <1>2, <1>3, <1>4, <2>1, <2>4 DEF SentInv
<1>8. ChainInv(p)'
  <2>1. \A m \in DataIn(p) : m.seq # s BY <1>0, <1>1 DEF SentInv
  <2>2. \A t \in timers[p] : t.seq # s BY <1>0, <1>1 DEF SentInv
  <2> QED BY <1>0, <1>2, <1>3, <1>4, <2>1, <2>2 DEF ChainInv
<1>9. BudgetInv(p)'
  <2>1. Attempts' = Attempts BY DEF Attempts
  <2>2. transmissions[p][s] = 0 BY <1>0, <1>1 DEF SentInv
  <2>3. \E n \in Attempts : 0 + 1 <= n BY SetupFacts DEF TypeInv
  <2>4. \A m \in DataIn(p) : m.seq \in Seqs \ {s}
    BY <1>0, <1>1 DEF SentInv, DataIn, TypeInv, Packets
  <2>5. \A t \in timers[p] : t.seq \in Seqs \ {s} BY <1>0, <1>1 DEF SentInv, TypeInv
  <2> QED BY <1>0, <1>2, <1>3, <1>4, <1>5, <2>1, <2>2, <2>3, <2>4, <2>5 DEF BudgetInv
<1> QED BY <1>0, <1>6, <1>7, <1>8, <1>9, SameSenderInv DEF SenderInv

\* Transmit hands the chain of a data packet on to a timer.
LEMMA TransmitInv ==
  ASSUME TypeInv, SenderInv, NEW p \in Peers, Transmit(p), UNCHANGED setup
  PROVE  SenderInv'
<1>0. SentInv(p) /\ ChainInv(p) /\ BudgetInv(p) BY DEF SenderInv
<1>1. PICK m \in sending[p] :
        /\ sending' = [sending EXCEPT ![p] = @ \ {m}]
        /\ IF m.kind = "data"
             THEN /\ timers' = [timers EXCEPT ![p] = @ \cup {[seq |-> m.seq, max |-> 0]}]
                  /\ transmissions' = [transmissions EXCEPT ![p][m.seq] = @ + 1]
             ELSE UNCHANGED <<timers, transmissions>>
        /\ UNCHANGED <<sendVars, sends>>
  BY DEF Transmit, countVars
<1>2. ASSUME NEW q \in Peers \ {p} PROVE SameSender(q)
  BY <1>1 DEF SameSender, TypeInv, DataIn, sendVars
<1>3. CASE m.kind # "data"
  <2>1. SameSender(p)
    <3>1. DataIn(p)' = DataIn(p) BY <1>1, <1>3 DEF DataIn, TypeInv
    <3> QED BY <1>1, <1>3, <3>1 DEF SameSender, sendVars
  <2> QED BY <1>0, <1>2, <2>1, SameSenderInv DEF SenderInv
<1>4. CASE m.kind = "data"
  <2> DEFINE s == m.seq
             timer == [seq |-> s, max |-> 0]
  <2>1. m \in DataIn(p) /\ s \in Seqs BY <1>4 DEF DataIn, TypeInv, Packets
  <2>2. DataIn(p)' = DataIn(p) \ {m} BY <1>1 DEF DataIn, TypeInv
  <2>3. /\ timers'[p] = timers[p] \cup {timer} /\ timer.seq = s /\ timer.max = 0
        /\ UNCHANGED <<sends, nextOutgoingSequence, pending, attempts, dropped>>
    BY <1>1, <1>4 DEF TypeInv, sendVars
  <2>4. /\ transmissions'[p][s] = transmissions[p][s] + 1
        /\ \A r \in Seqs \ {s} : transmissions'[p][r] = transmissions[p][r]
    BY <1>1, <1>4, <2>1 DEF TypeInv
  <2> HIDE DEF s, timer
  <2>5. SentInv(p)'
    <3>1. s \in Sent(p) BY <1>0, <2>1 DEF SentInv, s
    <3>2. Sent(p)' = Sent(p) /\ Start' = Start BY <2>3 DEF Sent, Start
    <3> QED BY <1>0, <2>2, <2>3, <2>4, <3>1, <3>2 DEF SentInv
  <2>6. ChainInv(p)'
    <3>1. \A n \in DataIn(p)' : n.seq # s BY <1>0, <2>1, <2>2 DEF ChainInv, s
    <3>2. \A t \in timers[p] : t.seq # s BY <1>0, <2>1 DEF ChainInv, s
    <3>3. \A r \in pending[p] : r # s =>
            (\E n \in DataIn(p)' : n.seq = r) \/ (\E t \in timers'[p] : t.seq = r)
      BY <1>0, <2>2, <2>3 DEF ChainInv, s
    <3> QED BY <1>0, <2>2, <2>3, <3>1, <3>2, <3>3 DEF ChainInv
  <2>7. BudgetInv(p)'
    <3>1. Attempts' = Attempts BY DEF Attempts
    <3>2. transmissions[p][s] = attempts[p][s] /\ \E n \in Attempts : attempts[p][s] + 1 <= n
      BY <1>0, <2>1 DEF BudgetInv, s
    <3>3. \A n \in DataIn(p)' : n.seq \in Seqs \ {s}
      BY <1>0, <2>1, <2>2 DEF ChainInv, s, DataIn, TypeInv, Packets
    <3>4. \A t \in timers[p] : t.seq \in Seqs \ {s} BY <1>0, <2>1 DEF ChainInv, s, TypeInv
    <3>5. \A r \in dropped[p] : \E n \in Attempts : n <= transmissions'[p][r]
      <4>1. /\ transmissions[p][s] \in Nat /\ dropped[p] \subseteq Seqs
            /\ \A n \in Attempts : n \in Nat
        BY <2>1, SetupFacts DEF TypeInv
      <4> QED BY <1>0, <2>4, <4>1 DEF BudgetInv
    <3> QED BY <1>0, <2>2, <2>3, <2>4, <3>1, <3>2, <3>3, <3>4, <3>5 DEF BudgetInv
  <2> QED BY <1>0, <1>2, <2>5, <2>6, <2>7, SameSenderInv DEF SenderInv
<1> QED BY <1>3, <1>4

\* BeginWait replaces a timer by one for the same number.
LEMMA WaitInv ==
  ASSUME TypeInv, SenderInv, NEW p \in Peers, BeginWait(p), UNCHANGED setup
  PROVE  SenderInv'
<1>0. SentInv(p) /\ ChainInv(p) /\ BudgetInv(p) BY DEF SenderInv
<1>1. PICK t \in timers[p] :
        /\ timers' = [timers EXCEPT ![p] = (@ \ {t}) \cup {[t EXCEPT !.max = maxAttempts[p]]}]
        /\ UNCHANGED <<sendVars, sends, sending, transmissions>>
  BY DEF BeginWait, countVars
<1> DEFINE new == [t EXCEPT !.max = maxAttempts[p]]
<1>2. t \in [seq : Seqs, max : Nat] /\ maxAttempts[p] \in Attempts BY DEF TypeInv
<1>3. new.seq = t.seq /\ new.max = maxAttempts[p] BY <1>2
<1>4. timers'[p] = (timers[p] \ {t}) \cup {new} BY <1>1 DEF TypeInv
<1>5. ASSUME NEW q \in Peers \ {p} PROVE SameSender(q)
  BY <1>1 DEF SameSender, TypeInv, DataIn, sendVars
<1>6. /\ UNCHANGED <<sends, nextOutgoingSequence, pending, attempts, dropped, transmissions>>
      /\ DataIn(p)' = DataIn(p)
  BY <1>1 DEF sendVars, DataIn
<1> HIDE DEF new
<1>7. SentInv(p)' BY <1>0, <1>3, <1>4, <1>6 DEF SentInv, Sent, Start
<1>8. ChainInv(p)'
  <2>1. \A u \in timers[p] \ {t} : u.seq # t.seq BY <1>0 DEF ChainInv
  <2> QED BY <1>0, <1>3, <1>4, <1>6, <2>1 DEF ChainInv
<1>9. BudgetInv(p)' BY <1>0, <1>2, <1>3, <1>4, <1>6 DEF BudgetInv, Attempts
<1> QED BY <1>0, <1>5, <1>7, <1>8, <1>9, SameSenderInv DEF SenderInv

\* retransmit_after ends the chain of a packet that is no longer pending or whose
\* budget is spent, and hands any other on to the transport.
LEMMA RetransmitInv ==
  ASSUME TypeInv, SenderInv, NEW p \in Peers, retransmit_after(p), UNCHANGED setup
  PROVE  SenderInv'
<1>0. SentInv(p) /\ ChainInv(p) /\ BudgetInv(p) BY DEF SenderInv
<1>1. PICK t \in timers[p] :
        /\ t.max # 0
        /\ timers' = [timers EXCEPT ![p] = @ \ {t}]
        /\ \/ /\ t.seq \notin pending[p]
              /\ UNCHANGED <<pending, attempts, sending, dropped>>
           \/ /\ BudgetSpent(attempts[p][t.seq], t.max)
              /\ pending' = [pending EXCEPT ![p] = @ \ {t.seq}]
              /\ dropped' = [dropped EXCEPT ![p] = @ \cup {t.seq}]
              /\ UNCHANGED <<attempts, sending>>
           \/ /\ ~BudgetSpent(attempts[p][t.seq], t.max)
              /\ attempts' = [attempts EXCEPT ![p][t.seq] = @ + 1]
              /\ sending' = [sending EXCEPT ![p] = @ \cup {DataPacket(p, t.seq, attempts[p][t.seq] + 1)}]
              /\ UNCHANGED <<pending, dropped>>
        /\ UNCHANGED <<nextOutgoingSequence, sends, transmissions>>
  BY DEF retransmit_after, countVars
<1> DEFINE s == t.seq
           new == DataPacket(p, s, attempts[p][s] + 1)
<1>2. ASSUME NEW q \in Peers \ {p} PROVE SameSender(q)
  BY <1>1 DEF SameSender, TypeInv, DataIn
<1>3. /\ s \in Seqs /\ s \in Sent(p) /\ t.max \in Attempts /\ t.max \in Nat
      /\ attempts[p][s] \in Nat /\ transmissions[p][s] = attempts[p][s] + 1
  BY <1>0, <1>1 DEF SentInv, BudgetInv, TypeInv
<1>4. timers'[p] = timers[p] \ {t} /\ \A u \in timers'[p] : u.seq # s
  BY <1>0, <1>1 DEF ChainInv, TypeInv
<1>5. \A m \in DataIn(p) : m.seq # s BY <1>0 DEF ChainInv
<1>6. new.kind = "data" /\ new.seq = s BY DEF DataPacket
<1>7. Sent(p)' = Sent(p) /\ Start' = Start /\ Attempts' = Attempts BY <1>1 DEF Sent, Start, Attempts
<1>8. UNCHANGED <<nextOutgoingSequence, sends, transmissions, setup>> BY <1>1
<1>9. CASE UNCHANGED <<pending, attempts, sending, dropped>> /\ s \notin pending[p]
  <2>1. DataIn(p)' = DataIn(p) BY <1>9 DEF DataIn
  <2> HIDE DEF s, new
  <2>2. SentInv(p)' BY <1>0, <1>4, <1>7, <1>8, <1>9, <2>1 DEF SentInv
  <2>3. ChainInv(p)' BY <1>0, <1>4, <1>9, <2>1 DEF ChainInv, s
  <2>4. BudgetInv(p)' BY <1>0, <1>4, <1>7, <1>8, <1>9, <2>1 DEF BudgetInv
  <2> QED BY <1>0, <1>2, <2>2, <2>3, <2>4, SameSenderInv DEF SenderInv
<1>10. CASE /\ BudgetSpent(attempts[p][s], t.max)
            /\ pending' = [pending EXCEPT ![p] = @ \ {s}]
            /\ dropped' = [dropped EXCEPT ![p] = @ \cup {s}]
            /\ UNCHANGED <<attempts, sending>>
  <2>1. DataIn(p)' = DataIn(p) BY <1>10 DEF DataIn
  <2>2. pending'[p] = pending[p] \ {s} /\ dropped'[p] = dropped[p] \cup {s}
    BY <1>10 DEF TypeInv
  <2>3. t.max <= transmissions[p][s] BY <1>3, <1>10 DEF BudgetSpent
  <2> HIDE DEF s, new
  <2>4. SentInv(p)' BY <1>0, <1>4, <1>7, <1>8, <2>1, <2>2 DEF SentInv
  <2>5. ChainInv(p)' BY <1>0, <1>4, <2>1, <2>2 DEF ChainInv, s
  <2>6. BudgetInv(p)' BY <1>0, <1>3, <1>4, <1>7, <1>8, <1>10, <2>1, <2>2, <2>3 DEF BudgetInv
  <2> QED BY <1>0, <1>2, <2>4, <2>5, <2>6, SameSenderInv DEF SenderInv
<1>11. CASE /\ ~BudgetSpent(attempts[p][s], t.max)
            /\ attempts' = [attempts EXCEPT ![p][s] = @ + 1]
            /\ sending' = [sending EXCEPT ![p] = @ \cup {new}]
            /\ UNCHANGED <<pending, dropped>>
  <2>1. /\ attempts'[p][s] = attempts[p][s] + 1
        /\ \A r \in Seqs \ {s} : attempts'[p][r] = attempts[p][r]
    BY <1>3, <1>11 DEF TypeInv
  <2>2. DataIn(p)' = DataIn(p) \cup {new}
    <3>1. sending'[p] = sending[p] \cup {new} BY <1>11 DEF TypeInv
    <3> QED BY <1>6, <3>1 DEF DataIn
  <2>3. attempts'[p][s] + 1 <= t.max BY <1>3, <1>11, <2>1 DEF BudgetSpent
  <2>4. \A m \in DataIn(p) : m.seq \in Seqs BY DEF DataIn, TypeInv, Packets
  <2>5. \A u \in timers'[p] : u.seq \in Seqs BY <1>4 DEF TypeInv
  <2> HIDE DEF s, new
  <2>6. SentInv(p)' BY <1>0, <1>3, <1>4, <1>6, <1>7, <1>8, <1>11, <2>2 DEF SentInv
  <2>7. ChainInv(p)'
    <3>1. \A r \in pending[p] : r # s =>
            (\E m \in DataIn(p)' : m.seq = r) \/ (\E u \in timers'[p] : u.seq = r)
      BY <1>0, <1>4, <2>2 DEF ChainInv, s
    <3> QED BY <1>0, <1>4, <1>5, <1>6, <1>11, <2>2, <3>1 DEF ChainInv
  <2>8. BudgetInv(p)'
    BY <1>0, <1>3, <1>4, <1>5, <1>6, <1>7, <1>8, <1>11, <2>1, <2>2, <2>3, <2>4, <2>5
    DEF BudgetInv
  <2> QED BY <1>0, <1>2, <2>6, <2>7, <2>8, SameSenderInv DEF SenderInv
<1> QED BY <1>1, <1>9, <1>10, <1>11

\* Every step keeps what holds of the senders.
LEMMA SenderStep == TypeInv /\ SenderInv /\ Steps => SenderInv'
BY SenderSteps, ElsewhereInv, SendInv, TransmitInv, WaitInv, RetransmitInv

\* Nothing has been sent at the start.
LEMMA SenderInit == Init => SenderInv
<1> SUFFICES ASSUME Init, NEW p \in Peers PROVE SentInv(p) /\ ChainInv(p) /\ BudgetInv(p)
  BY DEF SenderInv
<1>1. /\ sends[p] = 0 /\ nextOutgoingSequence[p] = Start /\ pending[p] = {} /\ timers[p] = {}
      /\ DataIn(p) = {} /\ dropped[p] = {} /\ \A s \in Seqs : transmissions[p][s] = 0
  BY DEF Init, DataIn
<1>2. /\ setup \in Setups /\ setup.sends[p] \in Nat /\ Start \in Seqs /\ SeqMod \in Nat \ {0}
      /\ Attempts \subseteq Nat \ {0} /\ Attempts # {}
  BY SetupFacts DEF Init
<1>3. (Start + 0) % SeqMod = Start BY <1>2 DEF Seqs
<1>4. SentInv(p) BY <1>1, <1>2, <1>3 DEF SentInv
<1>5. ChainInv(p) BY <1>1 DEF ChainInv
<1>6. BudgetInv(p)
  <2>0. PICK n \in Attempts : TRUE BY <1>2
  <2>1. n \in Nat /\ 0 <= n BY <1>2
  <2> QED BY <1>1, <2>1 DEF BudgetInv
<1> QED BY <1>4, <1>5, <1>6

\* The invariant of the senders.
LEMMA SenderInvariant == Spec => [](TypeInv /\ SenderInv)
<1>1. Init => TypeInv /\ SenderInv BY TypeInit, SenderInit
<1>2. TypeInv /\ SenderInv /\ [Next]_<<vars, setup>> => (TypeInv /\ SenderInv)'
  BY TypeStep, SenderStep DEF Steps
<1> QED BY <1>1, <1>2, PTL DEF Spec

\* A set without two different elements has at most one.
LEMMA AtMostOne ==
  ASSUME NEW S, \A x, y \in S : x = y
  PROVE  (Cardinality(S) = 0 /\ S = {}) \/ (Cardinality(S) = 1 /\ S # {})
<1>1. CASE S = {}
  <2>1. Cardinality(S) = 0 BY <1>1, FS_EmptySet, Zenon
  <2> QED BY <1>1, <2>1
<1>2. CASE S # {}
  <2>1. PICK x \in S : TRUE BY <1>2
  <2>2. S = {x} BY <2>1
  <2>3. Cardinality({x}) = 1 BY FS_Singleton
  <2> QED BY <1>2, <2>2, <2>3
<1> QED BY <1>1, <1>2

\* One retransmission chain per pending packet, whatever the traffic, the window,
\* the budgets and the order in which jobs and timers run: send_reliable_udp,
\* schedule_retransmission and retransmit_after (NetworkManager.cpp) never fork a
\* chain and never drop one that is still needed.
THEOREM OneChainAlways == Spec => []OneRetransmissionChain
<1>1. TypeInv /\ SenderInv => OneRetransmissionChain
  <2> SUFFICES ASSUME TypeInv, SenderInv, NEW p \in Peers, NEW s \in Seqs
               PROVE  LET chains == Cardinality({m \in sending[p] : m.kind = "data" /\ m.seq = s})
                                      + Cardinality({t \in timers[p] : t.seq = s})
                      IN chains <= 1 /\ (s \in pending[p] => chains = 1)
    BY DEF OneRetransmissionChain
  <2> DEFINE M == {m \in sending[p] : m.kind = "data" /\ m.seq = s}
             T == {t \in timers[p] : t.seq = s}
  <2>0. ChainInv(p) BY DEF SenderInv
  <2>1. M = {m \in DataIn(p) : m.seq = s} BY DEF DataIn
  <2>2. \A m, n \in M : m = n BY <2>0, <2>1 DEF ChainInv
  <2>3. \A t, u \in T : t = u BY <2>0 DEF ChainInv
  <2>4. M = {} \/ T = {} BY <2>0, <2>1 DEF ChainInv
  <2>5. s \in pending[p] => M # {} \/ T # {} BY <2>0, <2>1 DEF ChainInv
  <2> HIDE DEF M, T
  <2>6. (Cardinality(M) = 0 /\ M = {}) \/ (Cardinality(M) = 1 /\ M # {})
    BY <2>2, AtMostOne
  <2>7. (Cardinality(T) = 0 /\ T = {}) \/ (Cardinality(T) = 1 /\ T # {})
    BY <2>3, AtMostOne
  <2>8. Cardinality(M) + Cardinality(T) <= 1
        /\ (s \in pending[p] => Cardinality(M) + Cardinality(T) = 1)
    BY <2>4, <2>5, <2>6, <2>7
  <2> QED BY <2>8 DEF M, T
<1> QED BY <1>1, SenderInvariant, PTL

\* The retry budget of configure_udp_retransmission holds for every packet of every
\* traffic, also when it is reconfigured while timers are asleep.
THEOREM BudgetAlways == Spec => []RetryBudget
<1>1. SenderInv => RetryBudget
  BY DEF SenderInv, BudgetInv, RetryBudget
<1> QED BY <1>1, SenderInvariant, PTL

-----------------------------------------------------------------------------
(* What acknowledgments say. The numbers acknowledged by a header are      *)
(* numbers the sender of the header has accepted.                          *)

\* A last number and a mask that name only numbers q has accepted, or Start,
\* which is not a number of this traffic.
Recorded(q, ack, mask) ==
  /\ ack \in accepted[q] \cup {Start}
  /\ \A s \in Seqs : (Minus(ack, s) - 1) \in mask => s \in accepted[q]

\* An unreliable packet has zero in the place of the acknowledgment.
Blank(q, m) == setup.plain[q] # 0 /\ m.ack = 0 /\ m.mask = {}

Truthful(q, m) == Recorded(q, m.ack, m.mask) \/ Blank(q, m)

\* Of the packets that q sends, until Other(q) has read the acknowledgment.
AckInv(q) ==
  /\ Recorded(q, lastReceivedSequence[q], receivedMask[q])
  /\ \A m \in sending[q] : Truthful(q, m)
  /\ \A m \in net[Other(q)] : Truthful(q, m)
  /\ rx[Other(q)].at = "record_ack" => Truthful(q, rx[Other(q)].packet)

\* NoFalseAck, but for number 0, which an unreliable packet seems to acknowledge.
AckedOrBlank(p) ==
  \A s \in Sent(p) : \/ s \in pending[p] \cup dropped[p] \cup accepted[Other(p)]
                     \/ s = 0 /\ setup.plain[Other(p)] # 0

ReceiverInv == \A q \in Peers : AckInv(q) /\ AckedOrBlank(q)

\* Only a fresh number changes what a receiver has recorded.
LEMMA RecordSteps ==
  ASSUME TypeInv, Steps, NEW q \in Peers
  PROVE  \/ UNCHANGED <<lastReceivedSequence[q], receivedMask[q], accepted[q]>>
         \/ Fresh(q)
<1>1. CASE UNCHANGED <<vars, setup>> BY <1>1 DEF vars, recvVars
<1>2. ASSUME NEW p \in Peers, Background(p) \/ Application(p)
      PROVE  UNCHANGED <<lastReceivedSequence, receivedMask, accepted>>
  <2>1. CASE Background(p)
    BY <2>1 DEF Background, Transmit, BeginWait, retransmit_after, recvVars
  <2>2. CASE Application(p)
    BY <2>2 DEF Application, send, send_reliable_udp, SendUnreliable, SendTcp,
                enable_udp_reliability, configure_udp_retransmission, recvVars
  <2> QED BY <1>2, <2>1, <2>2
<1>3. ASSUME NEW p \in Peers, receive(p) \/ ReceiveUdp(p) \/ record_ack(p) \/ maybe_send_ack(p)
      PROVE  UNCHANGED <<lastReceivedSequence, receivedMask, accepted>>
  BY <1>3 DEF receive, ReceiveUdp, record_ack, maybe_send_ack, recvVars
<1>4. ASSUME NEW p \in Peers, handle_incoming_sequence(p)
      PROVE  UNCHANGED <<lastReceivedSequence[q], receivedMask[q], accepted[q]>> \/ Fresh(q)
  <2>1. CASE UNCHANGED recvVars BY <2>1 DEF recvVars
  <2>2. CASE Fresh(p) /\ p # q
    BY <2>2 DEF Fresh, TypeInv
  <2> QED BY <1>4, <2>1, <2>2 DEF handle_incoming_sequence
<1> QED BY <1>1, <1>2, <1>3, <1>4 DEF Steps, Next, Receiving

\* A packet that is handed to the transport reports what its sender has recorded,
\* or is an unreliable one.
LEMMA SendingSteps ==
  ASSUME TypeInv, Steps, NEW q \in Peers, NEW m \in sending'[q]
  PROVE  \/ m \in sending[q]
         \/ m.ack = lastReceivedSequence[q] /\ m.mask = receivedMask[q]
         \/ Blank(q, m)
<1>0. sending \in [Peers -> SUBSET Packets] BY DEF TypeInv
<1>1. CASE UNCHANGED sending BY <1>1
<1>2. ASSUME NEW p \in Peers, send_reliable_udp(p)
      PROVE  m \in sending[q] \/ (m.ack = lastReceivedSequence[q] /\ m.mask = receivedMask[q])
  BY <1>0, <1>2 DEF send_reliable_udp, DataPacket
<1>3. ASSUME NEW p \in Peers, SendUnreliable(p) PROVE m \in sending[q] \/ Blank(q, m)
  <2>1. plains[p] \in Nat /\ plains[p] < setup.plain[p] BY <1>3 DEF SendUnreliable, TypeInv
  <2>2. setup.plain[p] # 0 BY <2>1
  <2> QED BY <1>0, <1>3, <2>2 DEF SendUnreliable, Blank, Packet
<1>4. ASSUME NEW p \in Peers, Transmit(p) PROVE m \in sending[q]
  BY <1>0, <1>4 DEF Transmit
<1>5. ASSUME NEW p \in Peers, retransmit_after(p)
      PROVE  m \in sending[q] \/ (m.ack = lastReceivedSequence[q] /\ m.mask = receivedMask[q])
  BY <1>0, <1>5 DEF retransmit_after, DataPacket
<1>6. ASSUME NEW p \in Peers, maybe_send_ack(p)
      PROVE  m \in sending[q] \/ (m.ack = lastReceivedSequence[q] /\ m.mask = receivedMask[q])
  <2>1. AckPacket(p).ack = lastReceivedSequence[p] /\ AckPacket(p).mask = receivedMask[p]
    BY DEF AckPacket, Packet
  <2> QED BY <1>0, <1>6, <2>1 DEF maybe_send_ack
<1>7. ASSUME NEW p \in Peers,
             \/ BeginWait(p) \/ SendTcp(p) \/ enable_udp_reliability(p)
             \/ configure_udp_retransmission(p) \/ receive(p) \/ ReceiveUdp(p)
             \/ record_ack(p) \/ handle_incoming_sequence(p)
      PROVE  UNCHANGED sending
  BY <1>7 DEF BeginWait, SendTcp, enable_udp_reliability, configure_udp_retransmission,
              receive, ReceiveUdp, record_ack, handle_incoming_sequence
<1>8. CASE UNCHANGED <<vars, setup>> BY <1>8 DEF vars
<1> QED BY <1>1, <1>2, <1>3, <1>4, <1>5, <1>6, <1>7, <1>8
        DEF Steps, Next, Background, Receiving, Application, send

\* Datagrams come from the transport of the other peer.
LEMMA NetSteps ==
  ASSUME TypeInv, Steps, NEW q \in Peers
  PROVE  net'[Other(q)] \subseteq net[Other(q)] \cup sending[q]
<1>0. net \in [Peers -> SUBSET Packets] BY DEF TypeInv
<1>1. CASE UNCHANGED net BY <1>1
<1>2. ASSUME NEW p \in Peers, Transmit(p) PROVE net'[Other(q)] \subseteq net[Other(q)] \cup sending[q]
  <2>1. p # q => Other(p) # Other(q) BY OtherPeer
  <2> QED BY <1>0, <1>2, <2>1, OtherPeer DEF Transmit
<1>3. ASSUME NEW p \in Peers, ReceiveUdp(p) PROVE net'[Other(q)] \subseteq net[Other(q)]
  BY <1>0, <1>3, OtherPeer DEF ReceiveUdp
<1>4. ASSUME NEW p \in Peers,
             \/ BeginWait(p) \/ retransmit_after(p) \/ Application(p) \/ receive(p)
             \/ record_ack(p) \/ handle_incoming_sequence(p) \/ maybe_send_ack(p)
      PROVE  UNCHANGED net
  BY <1>4 DEF BeginWait, retransmit_after, Application, send, send_reliable_udp, SendUnreliable,
              SendTcp, enable_udp_reliability, configure_udp_retransmission,
              receive, record_ack, handle_incoming_sequence, maybe_send_ack
<1>5. CASE UNCHANGED <<vars, setup>> BY <1>5 DEF vars
<1> QED BY <1>1, <1>2, <1>3, <1>4, <1>5 DEF Steps, Next, Background, Receiving

\* The packet whose acknowledgment is read comes from the network.
LEMMA ReadSteps ==
  ASSUME TypeInv, Steps, NEW p \in Peers, rx'[p].at = "record_ack"
  PROVE  \/ rx[p].at = "record_ack" /\ rx'[p].packet = rx[p].packet
         \/ rx'[p].packet \in net[p]
<1>0. rx \in [Peers -> Receptions] BY DEF TypeInv
<1>1. CASE UNCHANGED rx BY <1>1
<1>2. ASSUME NEW r \in Peers, ReceiveUdp(r)
      PROVE (rx[p].at = "record_ack" /\ rx'[p].packet = rx[p].packet) \/ rx'[p].packet \in net[p]
  <2>1. CASE r = p
    BY <1>0, <1>2, <2>1 DEF ReceiveUdp, Receptions
  <2>2. CASE r # p BY <1>0, <1>2, <2>2 DEF ReceiveUdp
  <2> QED BY <2>1, <2>2
<1>3. ASSUME NEW r \in Peers,
             receive(r) \/ record_ack(r) \/ handle_incoming_sequence(r) \/ maybe_send_ack(r)
      PROVE  rx[p].at = "record_ack" /\ rx'[p].packet = rx[p].packet
  <2>1. CASE r = p
    BY <1>0, <1>3, <2>1 DEF receive, record_ack, handle_incoming_sequence, maybe_send_ack, Receptions
  <2>2. CASE r # p
    BY <1>0, <1>3, <2>2 DEF receive, record_ack, handle_incoming_sequence, maybe_send_ack
  <2> QED BY <2>1, <2>2
<1>4. ASSUME NEW r \in Peers, Background(r) \/ Application(r) PROVE UNCHANGED rx
  BY <1>4 DEF Background, Transmit, BeginWait, retransmit_after, Application, send,
              send_reliable_udp, SendUnreliable, SendTcp, enable_udp_reliability,
              configure_udp_retransmission
<1>5. CASE UNCHANGED <<vars, setup>> BY <1>5 DEF vars
<1> QED BY <1>1, <1>2, <1>3, <1>4, <1>5 DEF Steps, Next, Receiving

\* What was recorded stays true: a receiver never forgets that it accepted a number.
LEMMA RecordedGrows ==
  ASSUME NEW q \in Peers, UNCHANGED setup, accepted[q] \subseteq accepted'[q],
         NEW ack, NEW mask, Recorded(q, ack, mask)
  PROVE  Recorded(q, ack, mask)'
BY DEF Recorded, Start

\* Differences along the circle of numbers: from s over l to n.
LEMMA DistancesAdd ==
  ASSUME SeqMod \in Nat \ {0}, NEW n \in Seqs, NEW l \in Seqs, NEW s \in Seqs,
         Minus(n, l) <= Minus(n, s)
  PROVE  Minus(l, s) = Minus(n, s) - Minus(n, l)
BY DEF Seqs, Minus

\* Numbers at the same distance are equal.
LEMMA SameDistance ==
  ASSUME SeqMod \in Nat \ {0}, NEW l \in Seqs, NEW r \in Seqs, NEW s \in Seqs,
         Minus(l, r) = Minus(l, s)
  PROVE  r = s
BY DEF Seqs, Minus

\* handle_incoming_sequence records the number it accepts and nothing else: in the
\* shifted mask every bit still stands for the number it stood for.
LEMMA FreshRecorded ==
  ASSUME TypeInv, NEW q \in Peers, Fresh(q), UNCHANGED setup,
         Recorded(q, lastReceivedSequence[q], receivedMask[q])
  PROVE  /\ Recorded(q, lastReceivedSequence[q], receivedMask[q])'
         /\ accepted[q] \subseteq accepted'[q]
<1> DEFINE n == rx[q].packet.seq
           l == lastReceivedSequence[q]
           mask == receivedMask[q]
<1>1. n \in Seqs /\ l \in Seqs /\ mask \in SUBSET Nat BY DEF TypeInv, Receptions, Packets
<1>2. SeqMod \in Nat \ {0} /\ Start' = Start BY SetupFacts DEF TypeInv, Start
<1>3. accepted'[q] = accepted[q] \cup {n} BY DEF Fresh, TypeInv
<1>4. /\ l \in accepted[q] \cup {Start}
      /\ \A s \in Seqs : (Minus(l, s) - 1) \in mask => s \in accepted[q]
  BY DEF Recorded
<1>5. /\ lastReceivedSequence \in [Peers -> Seqs] /\ receivedMask \in [Peers -> SUBSET Nat]
  BY DEF TypeInv
<1>6. CASE lastReceivedSequence'[q] = n /\ receivedMask'[q] = {}
  BY <1>3, <1>6 DEF Recorded
<1>7. CASE /\ lastReceivedSequence'[q] = n
           /\ receivedMask'[q] = ShiftMask(mask, Minus(n, l))
  <2>1. ASSUME NEW s \in Seqs, (Minus(n, s) - 1) \in receivedMask'[q]
        PROVE  s \in accepted[q]
    <3>1. PICK b \in mask : Minus(n, s) - 1 = b + Minus(n, l) BY <1>7, <2>1 DEF ShiftMask
    <3>2. b \in Nat /\ Minus(n, s) \in Nat /\ Minus(n, l) \in Nat BY <1>1, <1>2, Distance
    <3>3. Minus(n, l) <= Minus(n, s) /\ Minus(n, s) - Minus(n, l) = b + 1 BY <3>1, <3>2
    <3>4. Minus(l, s) = b + 1 BY <1>1, <1>2, <3>3, DistancesAdd
    <3>5. Minus(l, s) - 1 = b BY <3>2, <3>4
    <3> QED BY <1>4, <3>5
  <2> QED BY <1>3, <1>7, <2>1 DEF Recorded
<1>8. CASE /\ lastReceivedSequence'[q] = l
           /\ receivedMask'[q] = mask \cup {Minus(l, n) - 1}
  <2>1. ASSUME NEW s \in Seqs, (Minus(l, s) - 1) \in receivedMask'[q]
        PROVE  s \in accepted'[q]
    <3>1. CASE (Minus(l, s) - 1) \in mask BY <1>3, <1>4, <3>1
    <3>2. CASE Minus(l, s) - 1 = Minus(l, n) - 1
      <4>1. Minus(l, s) \in Nat /\ Minus(l, n) \in Nat BY <1>1, <1>2, Distance
      <4>2. Minus(l, s) = Minus(l, n) BY <3>2, <4>1
      <4>3. s = n BY <1>1, <1>2, <4>2, SameDistance
      <4> QED BY <1>3, <4>3
    <3> QED BY <1>8, <2>1, <3>1, <3>2
  <2> QED BY <1>2, <1>3, <1>4, <1>8, <2>1 DEF Recorded
<1>9. \/ lastReceivedSequence'[q] = n /\ receivedMask'[q] = {}
      \/ lastReceivedSequence'[q] = n /\ receivedMask'[q] = ShiftMask(mask, Minus(n, l))
      \/ lastReceivedSequence'[q] = l /\ receivedMask'[q] = mask \cup {Minus(l, n) - 1}
  BY <1>5 DEF Fresh, MarkReceived
<1> QED BY <1>3, <1>6, <1>7, <1>8, <1>9

\* The pending table of p changes by its own sends and by acknowledgments; a
\* packet that runs out of attempts is dropped.
LEMMA PendingSteps ==
  ASSUME TypeInv, Steps, NEW p \in Peers
  PROVE  \/ send_reliable_udp(p)
         \/ record_ack(p)
         \/ /\ Sent(p)' = Sent(p)
            /\ pending[p] \cup dropped[p] \subseteq pending'[p] \cup dropped'[p]
<1>0. pending \in [Peers -> SUBSET Seqs] /\ dropped \in [Peers -> SUBSET Seqs] BY DEF TypeInv
<1> DEFINE Kept == /\ sends'[p] = sends[p]
                   /\ pending[p] \cup dropped[p] \subseteq pending'[p] \cup dropped'[p]
<1>1. Kept /\ UNCHANGED setup => Sent(p)' = Sent(p) BY DEF Sent, Start
<1>2. UNCHANGED <<sends, pending, dropped>> => Kept OBVIOUS
<1>3. ASSUME NEW r \in Peers, retransmit_after(r) PROVE Kept
  <2>1. sends' = sends BY <1>3 DEF retransmit_after, countVars
  <2> QED BY <1>0, <1>3, <2>1 DEF retransmit_after
<1>4. ASSUME NEW r \in Peers, r # p, record_ack(r) PROVE Kept
  BY <1>0, <1>4 DEF record_ack, countVars
<1>5. ASSUME NEW r \in Peers, r # p, send_reliable_udp(r) PROVE Kept
  BY <1>0, <1>5 DEF send_reliable_udp, TypeInv
<1>6. ASSUME NEW r \in Peers,
             \/ Transmit(r) \/ BeginWait(r) \/ SendUnreliable(r) \/ SendTcp(r)
             \/ enable_udp_reliability(r) \/ configure_udp_retransmission(r) \/ receive(r)
             \/ ReceiveUdp(r) \/ handle_incoming_sequence(r) \/ maybe_send_ack(r)
      PROVE  UNCHANGED <<sends, pending, dropped>>
  BY <1>6 DEF Transmit, BeginWait, SendUnreliable, SendTcp, enable_udp_reliability,
              configure_udp_retransmission, receive, ReceiveUdp, handle_incoming_sequence,
              maybe_send_ack, sendVars, countVars
<1>7. UNCHANGED setup BY SenderSteps
<1>8. UNCHANGED <<vars, setup>> => UNCHANGED <<sends, pending, dropped>>
  BY DEF vars, sendVars, countVars
<1> HIDE DEF Kept
<1>9. send_reliable_udp(p) \/ record_ack(p) \/ Kept \/ UNCHANGED <<sends, pending, dropped>>
  BY <1>3, <1>4, <1>5, <1>6, <1>8
  DEF Steps, Next, Background, Receiving, Application, send
<1> QED BY <1>1, <1>2, <1>7, <1>9 DEF Kept

\* Acknowledgments stay truthful on their way.
LEMMA AckStep ==
  ASSUME TypeInv, Steps, NEW q \in Peers, AckInv(q) PROVE AckInv(q)' /\ accepted[q] \subseteq accepted'[q]
<1> DEFINE o == Other(q)
<1>1. UNCHANGED setup BY SenderSteps
<1>2. /\ Recorded(q, lastReceivedSequence[q], receivedMask[q])'
      /\ accepted[q] \subseteq accepted'[q]
  <2>1. CASE Fresh(q) BY <1>1, <2>1, FreshRecorded DEF AckInv
  <2>2. CASE UNCHANGED <<lastReceivedSequence[q], receivedMask[q], accepted[q]>>
    BY <1>1, <2>2 DEF AckInv, Recorded, Start
  <2> QED BY <2>1, <2>2, RecordSteps
<1>3. ASSUME NEW m, Truthful(q, m) PROVE Truthful(q, m)'
  BY <1>1, <1>2, <1>3, RecordedGrows DEF Truthful, Blank
<1>4. ASSUME NEW m \in sending'[q] PROVE Truthful(q, m)'
  <2>1. CASE m \in sending[q] BY <1>3, <2>1 DEF AckInv
  <2>2. CASE m.ack = lastReceivedSequence[q] /\ m.mask = receivedMask[q]
    BY <1>3, <2>2 DEF AckInv, Truthful
  <2>3. CASE Blank(q, m) BY <1>3, <2>3 DEF Truthful
  <2> QED BY <1>4, <2>1, <2>2, <2>3, SendingSteps
<1>5. ASSUME NEW m \in net'[o] PROVE Truthful(q, m)'
  <2>1. m \in net[o] \/ m \in sending[q] BY <1>5, NetSteps
  <2> QED BY <1>3, <2>1 DEF AckInv
<1>6. ASSUME rx'[o].at = "record_ack" PROVE Truthful(q, rx[o].packet)'
  <2>1. Truthful(q, rx'[o].packet) BY <1>6, ReadSteps, OtherPeer DEF AckInv
  <2> QED BY <1>1, <1>2, <2>1, RecordedGrows DEF Truthful, Blank, Recorded, Start
<1> QED BY <1>2, <1>4, <1>5, <1>6 DEF AckInv

\* Reading a truthful header frees only packets that the peer has accepted.
LEMMA ReadTruthful ==
  ASSUME TypeInv, NEW p \in Peers, AckInv(Other(p)), record_ack(p),
         NEW s \in pending[p], s \notin pending'[p], s # Start
  PROVE  s \in accepted[Other(p)] \/ (s = 0 /\ setup.plain[Other(p)] # 0)
<1> DEFINE m == rx[p].packet
           q == Other(p)
<1>1. s \in Seqs BY DEF TypeInv
<1>2. is_sequence_acked(s, m.ack, m.mask) BY DEF record_ack, TypeInv
<1>3. Other(q) = p /\ rx[p].at = "record_ack" BY OtherPeer DEF record_ack
<1>4. Truthful(q, m) BY <1>3 DEF AckInv
<1>5. CASE Recorded(q, m.ack, m.mask)
  BY <1>1, <1>2, <1>5 DEF Recorded, is_sequence_acked
<1>6. CASE Blank(q, m)
  BY <1>2, <1>6 DEF Blank, is_sequence_acked
<1> QED BY <1>4, <1>5, <1>6 DEF Truthful

\* Start is not a number of the traffic.
LEMMA StartNotSent == ASSUME TypeInv, SenderInv, NEW p \in Peers PROVE Start \notin Sent(p)
<1> SUFFICES ASSUME NEW i \in 1..sends[p] PROVE (Start + i) % SeqMod # Start BY DEF Sent
<1>1. setup \in Setups /\ sends[p] \in Nat /\ setup.sends[p] \in Nat /\ sends[p] <= setup.sends[p]
  BY SetupFacts DEF TypeInv, SenderInv, SentInv
<1>2. i \in 0..setup.sends[p] /\ 0 \in 0..setup.sends[p] /\ i # 0 BY <1>1
<1> QED BY <1>1, <1>2, Numbers

\* Every step keeps what holds of the receivers and of acknowledged numbers.
LEMMA ReceiverStep == TypeInv /\ SenderInv /\ ReceiverInv /\ Steps => ReceiverInv'
<1> SUFFICES ASSUME TypeInv, SenderInv, ReceiverInv, Steps, NEW p \in Peers
             PROVE  AckInv(p)' /\ AckedOrBlank(p)'
  BY DEF ReceiverInv
<1> DEFINE q == Other(p)
<1>1. q \in Peers /\ AckInv(p) /\ AckInv(q) /\ AckedOrBlank(p) BY OtherPeer DEF ReceiverInv
<1>2. AckInv(p)' /\ accepted[q] \subseteq accepted'[q] BY <1>1, AckStep
<1>3. UNCHANGED setup BY SenderSteps
<1>4. CASE send_reliable_udp(p)
  <2> DEFINE s == NextSequence(nextOutgoingSequence[p])
  <2>1. Sent(p)' = Sent(p) \cup {s} BY <1>3, <1>4, NewNumber DEF SenderInv
  <2>2. pending'[p] = pending[p] \cup {s} /\ dropped' = dropped
    BY <1>4 DEF send_reliable_udp, TypeInv
  <2> HIDE DEF s
  <2> QED BY <1>1, <1>2, <1>3, <2>1, <2>2 DEF AckedOrBlank
<1>5. CASE record_ack(p)
  <2>1. Sent(p)' = Sent(p) /\ dropped' = dropped
    BY <1>3, <1>5 DEF record_ack, countVars, Sent, Start
  <2>2. ASSUME NEW s \in Sent(p), s \in pending[p], s \notin pending'[p]
        PROVE  s \in accepted[q] \/ (s = 0 /\ setup.plain[q] # 0)
    <3>1. s # Start BY <2>2, StartNotSent
    <3> QED BY <1>1, <1>5, <2>2, <3>1, ReadTruthful
  <2> QED BY <1>1, <1>2, <1>3, <2>1, <2>2 DEF AckedOrBlank
<1>6. CASE /\ Sent(p)' = Sent(p)
           /\ pending[p] \cup dropped[p] \subseteq pending'[p] \cup dropped'[p]
  BY <1>1, <1>2, <1>3, <1>6 DEF AckedOrBlank
<1> QED BY <1>2, <1>4, <1>5, <1>6, PendingSteps

\* Nothing has been received at the start.
LEMMA ReceiverInit == Init => ReceiverInv
<1> SUFFICES ASSUME Init, NEW p \in Peers PROVE AckInv(p) /\ AckedOrBlank(p) BY DEF ReceiverInv
<1>1. Sent(p) = {} BY DEF Init, Sent
<1> QED BY <1>1, OtherPeer DEF Init, AckInv, AckedOrBlank, Recorded

\* The invariant of senders and receivers.
LEMMA ReceiverInvariant == Spec => [](TypeInv /\ SenderInv /\ ReceiverInv)
<1>1. Init => ReceiverInv BY ReceiverInit
<1>2. TypeInv /\ SenderInv /\ ReceiverInv /\ [Next]_<<vars, setup>> => ReceiverInv'
  BY ReceiverStep DEF Steps
<1> QED BY <1>1, <1>2, SenderInvariant, PTL DEF Spec

\* Unreliable packets carry number and acknowledgment 0. They do no harm where the
\* traffic starts at 0, as every connection does, or where there are none.
HarmlessBlanks == Start = 0 \/ \A p \in Peers : setup.plain[p] = 0

\* An acknowledgment never frees a packet that the peer has not accepted, whatever
\* is lost, duplicated or reordered on the way: record_ack reads in a header only
\* what handle_incoming_sequence has recorded (NetworkManager.cpp:121-186). An
\* unreliable packet is read like an acknowledgment of number 0, a number that
\* is only in use after 2^32 packets.
THEOREM AcknowledgmentsAlways == Spec => [](HarmlessBlanks => NoFalseAck)
<1>1. ASSUME TypeInv, SenderInv, ReceiverInv, HarmlessBlanks PROVE NoFalseAck
  <2> SUFFICES ASSUME NEW p \in Peers, NEW s \in Sent(p)
               PROVE  s \in pending[p] \cup dropped[p] \cup accepted[Other(p)]
    BY DEF NoFalseAck
  <2>1. s # Start BY <1>1, StartNotSent
  <2>2. Other(p) \in Peers BY OtherPeer
  <2> QED BY <1>1, <2>1, <2>2 DEF ReceiverInv, AckedOrBlank, HarmlessBlanks
<1> QED BY <1>1, ReceiverInvariant, PTL

-----------------------------------------------------------------------------
(* The receiver's window: at most two deliveries of a number.              *)

\* How far a number is behind Start on the circle. The traffic uses less than half
\* of the circle, so these indices order its numbers.
Index(s) == Minus(s, Start)

Ahead(s) == 2 * Index(s) < SeqMod

\* The reliability of the channel is never switched off.
AlwaysReliable == HarmlessBlanks /\ ~setup.toggle

Numbered(m) == m.kind = "ack" \/ Ahead(m.seq)

\* The packets that reach handle_incoming_sequence have numbers of the traffic.
NumberInv(p) ==
  /\ reliable[p]
  /\ \A m \in sending[p] : Numbered(m)
  /\ \A m \in net[p] : Numbered(m)
  /\ rx[p].at = "record_ack" => Numbered(rx[p].packet)
  /\ rx[p].at \in {"handle", "maybe_send_ack"} => Ahead(rx[p].packet.seq)
  /\ Ahead(lastReceivedSequence[p])

\* A packet found new, which maybe_send_ack is about to hand to the application.
Coming(p, s) ==
  IF /\ rx[p].at = "maybe_send_ack" /\ ~rx[p].duplicate
     /\ rx[p].packet.kind = "data" /\ rx[p].packet.seq = s
    THEN 1 ELSE 0

Count(p, s) == delivered[p][s] + Coming(p, s)

\* Which numbers can still be found new, and how often that has happened. The last
\* number loses its place when it stops being the last: its bit is not set.
WindowInv(p) ==
  \A s \in Seqs :
    LET behind == Index(lastReceivedSequence[p]) - Index(s) IN
    /\ Count(p, s) <= 2
    /\ ~hasReceived[p] => Count(p, s) = 0
    /\ Ahead(s) /\ behind < 0 => Count(p, s) = 0
    /\ Ahead(s) /\ behind = 0 => Count(p, s) <= 1
    /\ Ahead(s) /\ behind > 0 /\ behind <= Window /\ (behind - 1) \notin receivedMask[p]
         => Count(p, s) <= 1

DeliveryInv == AlwaysReliable => \A p \in Peers : NumberInv(p) /\ WindowInv(p)

\* On the numbers of the traffic sequence_greater is the order of their indices, and
\* the distance of two of them is the difference.
LEMMA IndexOrder ==
  ASSUME setup \in Setups, NEW l \in Seqs, NEW s \in Seqs, Ahead(l), Ahead(s)
  PROVE  /\ Index(l) \in Nat /\ Index(s) \in Nat
         /\ sequence_greater(s, l) <=> Index(s) > Index(l)
         /\ Index(s) <= Index(l) => Minus(l, s) = Index(l) - Index(s)
         /\ Index(s) >= Index(l) => Minus(s, l) = Index(s) - Index(l)
         /\ Index(s) = Index(l) => s = l
<1>1. SeqMod \in Nat \ {0} /\ Start \in Seqs BY SetupFacts
<1> QED BY <1>1 DEF Ahead, Index, Minus, Seqs, sequence_greater

\* The numbers used are numbers of the traffic.
LEMMA SentAhead ==
  ASSUME TypeInv, SenderInv, NEW p \in Peers, NEW s \in Sent(p) PROVE s \in Seqs /\ Ahead(s)
<1>1. PICK i \in 1..sends[p] : s = (Start + i) % SeqMod BY DEF Sent
<1>2. /\ setup \in Setups /\ sends[p] \in Nat /\ setup.sends[p] \in Nat
      /\ sends[p] <= setup.sends[p] /\ 2 * setup.sends[p] < SeqMod
      /\ SeqMod \in Nat \ {0} /\ Start \in Seqs
  BY SetupFacts DEF TypeInv, SenderInv, SentInv
<1>3. i \in 0..setup.sends[p] /\ i \in Nat /\ 2 * i < SeqMod BY <1>2
<1>4. Start + i \in Nat /\ Start + i < 2 * SeqMod BY <1>2, <1>3 DEF Seqs
<1>5. s = Wrapped(Start + i) BY <1>1, <1>2, <1>4, WrapOnce
<1>6. s \in Seqs BY <1>2, <1>3, <1>5 DEF Wrapped, Seqs
<1>7. Index(s) = i BY <1>2, <1>3, <1>5 DEF Wrapped, Seqs, Index, Minus
<1> QED BY <1>3, <1>6, <1>7 DEF Ahead

\* Unreliable packets have number 0.
PlainInv == \A p \in Peers : \A m \in sending[p] :
              m.kind = "plain" => m.seq = 0 /\ setup.plain[p] # 0

\* Plain packets keep number 0, and only a peer that sends some has any.
LEMMA PlainStep == TypeInv /\ PlainInv /\ Steps => PlainInv'
<1> SUFFICES ASSUME TypeInv, PlainInv, Steps, NEW q \in Peers, NEW m \in sending'[q],
                    m.kind = "plain"
             PROVE  m.seq = 0 /\ setup'.plain[q] # 0
  BY DEF PlainInv
<1>0. sending \in [Peers -> SUBSET Packets] /\ UNCHANGED setup BY SenderSteps DEF TypeInv
<1>1. CASE m \in sending[q] BY <1>0, <1>1 DEF PlainInv
<1>2. ASSUME NEW p \in Peers, send_reliable_udp(p) \/ retransmit_after(p) PROVE m \in sending[q]
  BY <1>0, <1>2 DEF send_reliable_udp, retransmit_after, DataPacket
<1>3. CASE \E p \in Peers : SendUnreliable(p)
  <2>1. PICK p \in Peers : SendUnreliable(p) BY <1>3
  <2>2. plains[p] \in Nat /\ plains[p] < setup.plain[p] BY <2>1 DEF SendUnreliable, TypeInv
  <2>3. setup.plain[p] # 0 BY <2>2
  <2>4. [Packet("plain") EXCEPT !.try = plains[p]].seq = 0 BY DEF Packet
  <2>5. CASE m \notin sending[q] BY <1>0, <2>1, <2>3, <2>4, <2>5 DEF SendUnreliable
  <2> QED BY <1>1, <2>5
<1>4. ASSUME NEW p \in Peers, Transmit(p) PROVE m \in sending[q] BY <1>0, <1>4 DEF Transmit
<1>5. ASSUME NEW p \in Peers, maybe_send_ack(p) PROVE m \in sending[q]
  <2>1. AckPacket(p).kind = "ack" BY DEF AckPacket, Packet
  <2> QED BY <1>0, <1>5, <2>1 DEF maybe_send_ack
<1>6. ASSUME NEW p \in Peers,
             \/ BeginWait(p) \/ SendTcp(p) \/ enable_udp_reliability(p)
             \/ configure_udp_retransmission(p) \/ receive(p) \/ ReceiveUdp(p)
             \/ record_ack(p) \/ handle_incoming_sequence(p)
      PROVE  m \in sending[q]
  BY <1>6 DEF BeginWait, SendTcp, enable_udp_reliability, configure_udp_retransmission,
              receive, ReceiveUdp, record_ack, handle_incoming_sequence
<1>7. UNCHANGED <<vars, setup>> => m \in sending[q] BY DEF vars
<1> QED BY <1>1, <1>2, <1>3, <1>4, <1>5, <1>6, <1>7
        DEF Steps, Next, Background, Receiving, Application, send

\* Every packet handed to the transport has a number of the traffic.
AllNumbered == HarmlessBlanks => \A p \in Peers : \A m \in sending[p] : Numbered(m)

\* It follows from what the senders hand over.
LEMMA SendingNumbered == TypeInv /\ SenderInv /\ PlainInv => AllNumbered
<1> SUFFICES ASSUME TypeInv, SenderInv, PlainInv, HarmlessBlanks,
                    NEW p \in Peers, NEW m \in sending[p]
             PROVE  Numbered(m)
  BY DEF AllNumbered
<1>1. m.kind \in {"data", "ack", "plain"} BY DEF TypeInv, Packets
<1>2. CASE m.kind = "data"
  <2>1. m.seq \in Sent(p) BY <1>2 DEF SenderInv, SentInv, DataIn
  <2> QED BY <2>1, SentAhead DEF Numbered
<1>3. CASE m.kind = "plain"
  <2>1. m.seq = 0 /\ Start = 0 BY <1>3 DEF PlainInv, HarmlessBlanks
  <2>2. SeqMod \in Nat \ {0} BY SetupFacts DEF TypeInv
  <2> QED BY <2>1, <2>2 DEF Numbered, Ahead, Index, Minus
<1> QED BY <1>1, <1>2, <1>3 DEF Numbered

\* So it holds always.
LEMMA NumberedInvariant == Spec => [](TypeInv /\ SenderInv /\ PlainInv /\ AllNumbered)
<1>1. Init => PlainInv BY DEF Init, PlainInv
<1>2. TypeInv /\ PlainInv /\ [Next]_<<vars, setup>> => PlainInv' BY PlainStep DEF Steps
<1> QED BY <1>1, <1>2, SendingNumbered, SenderInvariant, PTL DEF Spec

\* The configuration of a channel that is not reconfigured.
LEMMA ReliableSteps ==
  ASSUME Steps, ~setup.toggle PROVE UNCHANGED reliable
<1>1. ASSUME NEW p \in Peers, Background(p) PROVE UNCHANGED reliable
  BY <1>1 DEF Background, Transmit, BeginWait, retransmit_after, confVars
<1>2. ASSUME NEW p \in Peers, Receiving(p) PROVE UNCHANGED reliable
  BY <1>2 DEF Receiving, receive, ReceiveUdp, record_ack, handle_incoming_sequence,
              maybe_send_ack, confVars
<1>3. ASSUME NEW p \in Peers, Application(p) PROVE UNCHANGED reliable
  BY <1>3 DEF Application, send, send_reliable_udp, SendUnreliable, SendTcp,
              enable_udp_reliability, configure_udp_retransmission, confVars
<1>4. CASE UNCHANGED <<vars, setup>> BY <1>4 DEF vars, confVars
<1> QED BY <1>1, <1>2, <1>3, <1>4 DEF Steps, Next

\* A packet goes from record_ack to handle_incoming_sequence unless it is an
\* acknowledgment only.
LEMMA HandleSteps ==
  ASSUME TypeInv, Steps, NEW p \in Peers, rx'[p].at \in {"handle", "maybe_send_ack"}
  PROVE  /\ rx'[p].packet = rx[p].packet
         /\ \/ rx[p].at = "record_ack" /\ rx[p].packet.kind # "ack"
            \/ rx[p].at \in {"handle", "maybe_send_ack"}
<1>0. rx \in [Peers -> Receptions] BY DEF TypeInv
<1> DEFINE Goal == /\ rx'[p].packet = rx[p].packet
                   /\ \/ rx[p].at = "record_ack" /\ rx[p].packet.kind # "ack"
                      \/ rx[p].at \in {"handle", "maybe_send_ack"}
<1>1. UNCHANGED rx => Goal OBVIOUS
<1>2. ASSUME NEW r \in Peers, Receiving(r) PROVE Goal
  <2>1. CASE r = p
    BY <1>0, <1>2, <2>1 DEF Receiving, receive, ReceiveUdp, record_ack,
                            handle_incoming_sequence, maybe_send_ack, Receptions
  <2>2. CASE r # p
    BY <1>0, <1>2, <2>2 DEF Receiving, receive, ReceiveUdp, record_ack,
                            handle_incoming_sequence, maybe_send_ack
  <2> QED BY <2>1, <2>2
<1>3. ASSUME NEW r \in Peers, Background(r) \/ Application(r) PROVE UNCHANGED rx
  BY <1>3 DEF Background, Transmit, BeginWait, retransmit_after, Application, send,
              send_reliable_udp, SendUnreliable, SendTcp, enable_udp_reliability,
              configure_udp_retransmission
<1>4. UNCHANGED <<vars, setup>> => UNCHANGED rx BY DEF vars
<1> HIDE DEF Goal
<1>5. Goal BY <1>1, <1>2, <1>3, <1>4 DEF Steps, Next
<1> QED BY <1>5 DEF Goal

\* What was found new is delivered once; nothing else is delivered while the
\* channel is reliable.
LEMMA DeliverySteps ==
  ASSUME TypeInv, Steps, NEW p \in Peers, reliable[p]
  PROVE  \/ /\ UNCHANGED <<lastReceivedSequence[p], receivedMask[p], hasReceived[p]>>
            /\ \A s \in Seqs : Count(p, s)' = Count(p, s)
         \/ /\ Fresh(p) /\ rx[p].at = "handle"
            /\ \A s \in Seqs : s = rx[p].packet.seq => Count(p, s)' <= Count(p, s) + 1
            /\ \A s \in Seqs \ {rx[p].packet.seq} : Count(p, s)' = Count(p, s)
<1> DEFINE Same == /\ UNCHANGED <<lastReceivedSequence[p], receivedMask[p], hasReceived[p]>>
                   /\ \A s \in Seqs : Count(p, s)' = Count(p, s)
           New == /\ Fresh(p) /\ rx[p].at = "handle"
                  /\ \A s \in Seqs : s = rx[p].packet.seq => Count(p, s)' <= Count(p, s) + 1
                  /\ \A s \in Seqs \ {rx[p].packet.seq} : Count(p, s)' = Count(p, s)
<1>0. rx \in [Peers -> Receptions] /\ delivered \in [Peers -> [Seqs -> Nat]] BY DEF TypeInv
<1>1. CASE UNCHANGED <<recvVars, rx, delivered>> BY <1>1 DEF recvVars, Count, Coming
<1>2. ASSUME NEW r \in Peers, Background(r) PROVE UNCHANGED <<recvVars, rx, delivered>>
  BY <1>2 DEF Background, Transmit, BeginWait, retransmit_after
<1>3. ASSUME NEW r \in Peers, Application(r) PROVE UNCHANGED <<recvVars, rx, delivered>>
  BY <1>3 DEF Application, send, send_reliable_udp, SendUnreliable, SendTcp,
              enable_udp_reliability, configure_udp_retransmission
<1>4. ASSUME NEW r \in Peers, Receiving(r), r # p PROVE Same
  <2>1. rx'[p] = rx[p]
    BY <1>0, <1>4 DEF Receiving, receive, ReceiveUdp, record_ack, handle_incoming_sequence,
                      maybe_send_ack
  <2>2. delivered'[p] = delivered[p]
    BY <1>0, <1>4 DEF Receiving, receive, ReceiveUdp, record_ack, handle_incoming_sequence,
                      maybe_send_ack, Deliver
  <2>3. UNCHANGED <<lastReceivedSequence[p], receivedMask[p], hasReceived[p]>>
    BY <1>4 DEF Receiving, receive, ReceiveUdp, record_ack, handle_incoming_sequence,
                maybe_send_ack, recvVars, Fresh, TypeInv
  <2> QED BY <2>1, <2>2, <2>3 DEF Count, Coming
<1>5. ASSUME receive(p) \/ ReceiveUdp(p) \/ record_ack(p) PROVE Same
  <2>1. rx[p].at # "maybe_send_ack" BY <1>5 DEF receive, ReceiveUdp, record_ack
  <2>2. rx'[p].at # "maybe_send_ack" /\ delivered' = delivered
    BY <1>0, <1>5 DEF receive, ReceiveUdp, record_ack, Receptions
  <2>3. UNCHANGED recvVars BY <1>5 DEF receive, ReceiveUdp, record_ack
  <2> QED BY <2>1, <2>2, <2>3 DEF Count, Coming, recvVars
<1>6. ASSUME handle_incoming_sequence(p) PROVE Same \/ New
  <2>1. rx[p].at = "handle" /\ delivered' = delivered BY <1>6 DEF handle_incoming_sequence
  <2>2. CASE UNCHANGED recvVars /\ rx' = [rx EXCEPT ![p].at = "maybe_send_ack", ![p].duplicate = TRUE]
    <3>1. rx'[p].duplicate = TRUE BY <1>0, <2>2 DEF Receptions
    <3> QED BY <2>1, <2>2, <3>1 DEF Count, Coming, recvVars
  <2>3. CASE Fresh(p) /\ rx' = [rx EXCEPT ![p].at = "maybe_send_ack"]
    <3>1. rx'[p].packet = rx[p].packet BY <1>0, <2>3 DEF Receptions
    <3>2. rx[p].packet.seq \in Seqs BY <1>0 DEF Receptions, Packets
    <3>5. \A s \in Seqs : s = rx[p].packet.seq => Count(p, s)' <= Count(p, s) + 1
      <4> TAKE s \in Seqs
      <4>1. delivered[p][s] \in Nat BY <1>0
      <4>2. Coming(p, s)' \in {0, 1} /\ Coming(p, s) = 0 BY <2>1 DEF Coming
      <4> QED BY <2>1, <4>1, <4>2 DEF Count
    <3>6. \A s \in Seqs \ {rx[p].packet.seq} : Count(p, s)' = Count(p, s)
      BY <2>1, <3>1 DEF Count, Coming
    <3> QED BY <2>1, <2>3, <3>5, <3>6
  <2> QED BY <1>6, <2>2, <2>3 DEF handle_incoming_sequence
<1>7. ASSUME maybe_send_ack(p) PROVE Same
  <2>1. rx[p].at = "maybe_send_ack" /\ rx'[p].at = "idle"
    BY <1>0, <1>7 DEF maybe_send_ack, Receptions
  <2>2. \A s \in Seqs : delivered'[p][s] = delivered[p][s] + Coming(p, s)
    <3>1. rx[p].packet.seq \in Seqs BY <1>0 DEF Receptions, Packets
    <3> QED BY <1>0, <1>7, <2>1, <3>1 DEF maybe_send_ack, Deliver, Coming
  <2>3. \A s \in Seqs : Coming(p, s)' = 0 BY <2>1 DEF Coming
  <2>4. \A s \in Seqs : Count(p, s)' = Count(p, s)
    <3> TAKE s \in Seqs
    <3>1. delivered[p][s] \in Nat /\ Coming(p, s) \in Nat BY <1>0 DEF Coming
    <3> QED BY <2>2, <2>3, <3>1 DEF Count
  <2> QED BY <1>7, <2>4 DEF maybe_send_ack
<1>8. UNCHANGED <<vars, setup>> => UNCHANGED <<recvVars, rx, delivered>> BY DEF vars
<1> HIDE DEF Same, New
<1>9. Same \/ New \/ UNCHANGED <<recvVars, rx, delivered>>
  BY <1>2, <1>3, <1>4, <1>5, <1>6, <1>7, <1>8 DEF Steps, Next, Receiving
<1> QED BY <1>1, <1>9 DEF Same, New

\* Numbers of the traffic stay what they are.
LEMMA AheadSame == ASSUME UNCHANGED setup PROVE \A s : Index(s)' = Index(s) /\ Ahead(s)' = Ahead(s)
BY DEF Ahead, Index, Start

\* The numbers a receiver keeps stay numbers of the traffic.
LEMMA NumberStep ==
  ASSUME TypeInv, AlwaysReliable, Steps, NEW p \in Peers, NumberInv(p), AllNumbered, AllNumbered'
  PROVE  NumberInv(p)'
<1>1. UNCHANGED setup /\ reliable' = reliable BY SenderSteps, ReliableSteps DEF AlwaysReliable
<1>2. HarmlessBlanks' BY <1>1 DEF AlwaysReliable, HarmlessBlanks, Start
<1>3. (\A m \in sending[p] : Numbered(m))' BY <1>2 DEF AllNumbered
<1>4. \A m : Numbered(m) => Numbered(m)' BY <1>1, AheadSame DEF Numbered
<1>5. (\A m \in net[p] : Numbered(m))'
  <2>1. net'[p] \subseteq net[p] \cup sending[Other(p)]
    <3>1. Other(p) \in Peers /\ Other(Other(p)) = p BY OtherPeer
    <3> QED BY <3>1, NetSteps
  <2>2. \A m \in sending[Other(p)] : Numbered(m) BY OtherPeer DEF AllNumbered, AlwaysReliable
  <2> QED BY <1>4, <2>1, <2>2 DEF NumberInv
<1>6. ASSUME (rx[p].at = "record_ack")' PROVE Numbered(rx[p].packet)'
  <2>1. PICK m : m = rx'[p].packet /\ Numbered(m) BY <1>6, ReadSteps DEF NumberInv
  <2>2. Numbered(m)' BY <1>4, <2>1
  <2> QED BY <2>1, <2>2 DEF Numbered, Ahead, Index
<1>7. ASSUME (rx[p].at \in {"handle", "maybe_send_ack"})' PROVE Ahead(rx[p].packet.seq)'
  <2>1. rx'[p].packet = rx[p].packet /\ Ahead(rx[p].packet.seq)
    BY <1>7, HandleSteps DEF NumberInv, Numbered
  <2> QED BY <1>1, <2>1 DEF Ahead, Index, Start
<1>8. Ahead(lastReceivedSequence[p])'
  <2>1. CASE UNCHANGED lastReceivedSequence[p]
    BY <1>1, <2>1 DEF NumberInv, Ahead, Index, Start
  <2>2. CASE Fresh(p) /\ rx[p].at = "handle"
    <3>1. lastReceivedSequence'[p] \in {lastReceivedSequence[p], rx[p].packet.seq}
      BY <2>2 DEF Fresh, TypeInv
    <3>2. Ahead(lastReceivedSequence[p]) /\ Ahead(rx[p].packet.seq) BY <2>2 DEF NumberInv
    <3> QED BY <1>1, <3>1, <3>2 DEF Ahead, Index, Start
  <2> QED BY <2>1, <2>2, DeliverySteps DEF NumberInv
<1> QED BY <1>1, <1>3, <1>5, <1>6, <1>7, <1>8 DEF NumberInv

\* handle_incoming_sequence finds a number new at most twice.
LEMMA FreshWindow ==
  ASSUME TypeInv, NEW p \in Peers, NumberInv(p), WindowInv(p), UNCHANGED setup,
         Fresh(p), rx[p].at = "handle",
         \A s \in Seqs : s = rx[p].packet.seq => Count(p, s)' <= Count(p, s) + 1,
         \A s \in Seqs \ {rx[p].packet.seq} : Count(p, s)' = Count(p, s),
         TypeInv'
  PROVE  WindowInv(p)'
<1> DEFINE n == rx[p].packet.seq
           l == lastReceivedSequence[p]
           mask == receivedMask[p]
<1>0. setup \in Setups /\ Window \in Nat \ {0} /\ Window' = Window BY SetupFacts DEF TypeInv, Window
<1>1. n \in Seqs /\ l \in Seqs /\ mask \in SUBSET Nat BY DEF TypeInv, Receptions, Packets
<1>2. Ahead(n) /\ Ahead(l) BY DEF NumberInv
<1>3. hasReceived'[p] = TRUE BY DEF Fresh, TypeInv
<1>4. \A s \in Seqs : Count(p, s) \in Nat /\ Count(p, s)' \in Nat
  BY DEF Count, Coming, TypeInv
<1>5. /\ lastReceivedSequence \in [Peers -> Seqs] /\ receivedMask \in [Peers -> SUBSET Nat]
  BY DEF TypeInv
<1>6. \A s : Index(s)' = Index(s) /\ Ahead(s)' = Ahead(s) BY AheadSame
<1>7. \A s \in Seqs : Ahead(s) => Index(s) \in Nat BY <1>0, IndexOrder
<1> DEFINE Inv(s, last, msk) ==
             LET behind == Index(last) - Index(s) IN
             /\ Count(p, s)' <= 2
             /\ Ahead(s) /\ behind < 0 => Count(p, s)' = 0
             /\ Ahead(s) /\ behind = 0 => Count(p, s)' <= 1
             /\ Ahead(s) /\ behind > 0 /\ behind <= Window /\ (behind - 1) \notin msk
                  => Count(p, s)' <= 1
<1>8. SUFFICES ASSUME NEW s \in Seqs PROVE Inv(s, lastReceivedSequence'[p], receivedMask'[p])
  <2> QED BY <1>0, <1>3, <1>6 DEF WindowInv
<1>9. /\ Count(p, s) <= 2
      /\ ~hasReceived[p] => Count(p, s) = 0
      /\ Ahead(s) /\ Index(l) - Index(s) < 0 => Count(p, s) = 0
      /\ Ahead(s) /\ Index(l) - Index(s) = 0 => Count(p, s) <= 1
      /\ /\ Ahead(s) /\ Index(l) - Index(s) > 0 /\ Index(l) - Index(s) <= Window
         /\ (Index(l) - Index(s) - 1) \notin mask
         => Count(p, s) <= 1
  BY <1>8 DEF WindowInv
<1>10. /\ s = n => Count(p, s)' <= Count(p, s) + 1
       /\ s # n => Count(p, s)' = Count(p, s)
  BY <1>8
<1>11. Ahead(s) /\ Index(s) = Index(n) => s = n BY <1>0, <1>1, <1>2, IndexOrder
<1>12. Count(p, s) \in Nat /\ Count(p, s)' \in Nat BY <1>4
<1>13. Index(n) \in Nat /\ Index(l) \in Nat /\ (Ahead(s) => Index(s) \in Nat) BY <1>1, <1>2, <1>7
<1>14. CASE ~hasReceived[p]
  <2>1. lastReceivedSequence'[p] = n BY <1>5, <1>14 DEF Fresh
  <2>2. Count(p, s)' <= 1 /\ (s # n => Count(p, s)' = 0) BY <1>9, <1>10, <1>12, <1>14
  <2> HIDE DEF n, l, mask
  <2> QED BY <1>2, <1>11, <1>12, <1>13, <2>1, <2>2
<1>15. CASE hasReceived[p] /\ sequence_greater(n, l)
  <2> DEFINE d == Minus(n, l)
  <2>1. lastReceivedSequence'[p] = n /\ receivedMask'[p] = ShiftMask(mask, d)
    BY <1>5, <1>15 DEF Fresh
  <2>2. Index(n) > Index(l) /\ d = Index(n) - Index(l) /\ d \in Nat
    BY <1>0, <1>1, <1>2, <1>13, <1>15, IndexOrder
  <2>3. ASSUME Ahead(s), Index(l) - Index(s) > 0, Index(n) - Index(s) <= Window,
               (Index(n) - Index(s) - 1) \notin ShiftMask(mask, d)
        PROVE  (Index(l) - Index(s) - 1) \notin mask
    <3> DEFINE b == Index(l) - Index(s) - 1
    <3>1. b \in Nat /\ Index(n) - Index(s) - 1 = b + d /\ b + d \in Bits /\ ~(d >= Window)
      BY <1>0, <1>13, <2>2, <2>3 DEF Bits
    <3> HIDE DEF b, d
    <3>2. b \in mask => (b + d) \in ShiftMask(mask, d) BY <3>1 DEF ShiftMask
    <3>3. b \notin mask BY <2>3, <3>1, <3>2
    <3> QED BY <3>3 DEF b
  <2>4. s = n => Count(p, s) = 0 BY <1>2, <1>9, <1>13, <2>2
  <2> HIDE DEF n, l, mask, d
  <2>5. Count(p, s)' <= 2 BY <1>9, <1>10, <1>12, <2>4
  <2>6. Ahead(s) /\ Index(n) - Index(s) < 0 => Count(p, s)' = 0
    BY <1>9, <1>10, <1>12, <1>13, <2>2
  <2>7. Ahead(s) /\ Index(n) - Index(s) = 0 => Count(p, s)' <= 1
    BY <1>10, <1>11, <1>12, <1>13, <2>4
  <2>8. ASSUME Ahead(s), Index(n) - Index(s) > 0, Index(n) - Index(s) <= Window,
               (Index(n) - Index(s) - 1) \notin ShiftMask(mask, d)
        PROVE  Count(p, s)' <= 1
    <3>1. Count(p, s)' = Count(p, s) BY <1>10, <1>13, <2>8
    <3>2. CASE Index(l) - Index(s) > 0
      <4>1. Index(l) - Index(s) <= Window BY <1>0, <1>13, <2>2, <2>8
      <4> QED BY <1>9, <2>3, <2>8, <3>1, <3>2, <4>1
    <3>3. CASE Index(l) - Index(s) <= 0 BY <1>9, <1>12, <1>13, <2>8, <3>1, <3>3
    <3> QED BY <1>13, <2>8, <3>2, <3>3
  <2> QED BY <2>1, <2>5, <2>6, <2>7, <2>8
<1>16. CASE hasReceived[p] /\ ~sequence_greater(n, l)
  <2> DEFINE d == Minus(l, n)
  <2>1. /\ lastReceivedSequence'[p] = l /\ receivedMask'[p] = mask \cup {d - 1}
        /\ d # 0 /\ d <= Window /\ (d - 1) \notin mask
    BY <1>5, <1>16 DEF Fresh, MarkReceived
  <2>2. Index(n) <= Index(l) /\ d = Index(l) - Index(n)
    BY <1>0, <1>1, <1>2, <1>13, <1>16, IndexOrder
  <2>3. s = n => Count(p, s) <= 1 BY <1>2, <1>9, <1>13, <2>1, <2>2
  <2> HIDE DEF n, l, mask, d
  <2>4. Count(p, s)' <= 2 BY <1>9, <1>10, <1>12, <2>3
  <2>5. Ahead(s) /\ Index(l) - Index(s) < 0 => Count(p, s)' = 0
    BY <1>9, <1>10, <1>12, <1>13, <2>2
  <2>6. Ahead(s) /\ Index(l) - Index(s) = 0 => Count(p, s)' <= 1
    BY <1>9, <1>10, <1>12, <1>13, <2>1, <2>2
  <2>7. ASSUME Ahead(s), Index(l) - Index(s) > 0, Index(l) - Index(s) <= Window,
               (Index(l) - Index(s) - 1) \notin mask \cup {d - 1}
        PROVE  Count(p, s)' <= 1
    <3>1. s # n BY <2>2, <2>7
    <3> QED BY <1>9, <1>10, <2>7, <3>1
  <2> QED BY <2>1, <2>4, <2>5, <2>6, <2>7
<1> QED BY <1>14, <1>15, <1>16

\* Every step keeps the count of deliveries and the receive window.
LEMMA DeliveryStep ==
  ASSUME TypeInv, AllNumbered, DeliveryInv, Steps, TypeInv', AllNumbered'
  PROVE  DeliveryInv'
<1>1. UNCHANGED setup BY SenderSteps
<1>2. AlwaysReliable' <=> AlwaysReliable BY <1>1 DEF AlwaysReliable, HarmlessBlanks, Start
<1> SUFFICES ASSUME AlwaysReliable, NEW p \in Peers PROVE NumberInv(p)' /\ WindowInv(p)'
  BY <1>2 DEF DeliveryInv
<1>3. NumberInv(p) /\ WindowInv(p) BY DEF DeliveryInv
<1>4. NumberInv(p)' BY <1>3, NumberStep
<1>5. CASE /\ UNCHANGED <<lastReceivedSequence[p], receivedMask[p], hasReceived[p]>>
           /\ \A s \in Seqs : Count(p, s)' = Count(p, s)
  <2>1. \A s : Index(s)' = Index(s) /\ Ahead(s)' = Ahead(s) BY <1>1, AheadSame
  <2>2. Window' = Window BY <1>1 DEF Window
  <2>3. WindowInv(p)' BY <1>3, <1>5, <2>1, <2>2 DEF WindowInv
  <2> QED BY <1>4, <2>3
<1>6. CASE /\ Fresh(p) /\ rx[p].at = "handle"
           /\ \A s \in Seqs : s = rx[p].packet.seq => Count(p, s)' <= Count(p, s) + 1
           /\ \A s \in Seqs \ {rx[p].packet.seq} : Count(p, s)' = Count(p, s)
  BY <1>1, <1>3, <1>4, <1>6, FreshWindow
<1> QED BY <1>3, <1>5, <1>6, DeliverySteps DEF NumberInv

\* Nothing has been delivered at the start.
LEMMA DeliveryInit == Init => DeliveryInv
<1> SUFFICES ASSUME Init PROVE DeliveryInv OBVIOUS
<1>2. SeqMod \in Nat \ {0} /\ Start \in Nat /\ Ahead(Start)
  BY SetupFacts DEF Init, Seqs, Ahead, Index, Minus
<1>3. ASSUME NEW p \in Peers PROVE NumberInv(p) /\ WindowInv(p)
  <2>1. NumberInv(p) BY <1>2 DEF Init, NumberInv
  <2>2. \A s \in Seqs : Count(p, s) = 0 BY DEF Init, Count, Coming
  <2> QED BY <2>1, <2>2 DEF WindowInv
<1> QED BY <1>3 DEF DeliveryInv

\* Retransmissions and duplicates of one packet reach the application at most
\* twice, whatever the window, the budgets and the network do, as long as the
\* reliability of the channel is not switched off: the twice is the last number
\* received, whose bit handle_incoming_sequence does not set when it moves on
\* (NetworkManager.cpp:145-186).
THEOREM DeliveriesAlways == Spec => [](AlwaysReliable => DeliveredAtMostTwice)
<1>1. Init => DeliveryInv BY DeliveryInit
<1>2. /\ TypeInv /\ AllNumbered /\ DeliveryInv /\ [Next]_<<vars, setup>>
      /\ (TypeInv /\ AllNumbered)'
      => DeliveryInv'
  BY DeliveryStep DEF Steps
<1>3. ASSUME TypeInv, DeliveryInv, AlwaysReliable PROVE DeliveredAtMostTwice
  <2> SUFFICES ASSUME NEW p \in Peers, NEW s \in Seqs PROVE delivered[p][s] <= 2
    BY DEF DeliveredAtMostTwice
  <2>1. Count(p, s) <= 2 BY <1>3 DEF DeliveryInv, WindowInv
  <2>2. delivered[p][s] \in Nat /\ Coming(p, s) \in Nat BY <1>3 DEF TypeInv, Coming
  <2> QED BY <2>1, <2>2 DEF Count
<1> QED BY <1>1, <1>2, <1>3, NumberedInvariant, PTL DEF Spec
=============================================================================
