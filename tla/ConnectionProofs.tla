-------------------------- MODULE ConnectionProofs --------------------------
(***************************************************************************)
(* Connection, for every value of its constants: the invariants and the    *)
(* action properties that the runs check on a small instance.              *)
(***************************************************************************)
EXTENDS Connection, SequenceTheorems, TLAPS

-----------------------------------------------------------------------------
(* The numbers as places on a circle, for every even MaxSequence. *)

\* The next number is the one a place further on the circle.
LEMMA NextSeqIsShift ==
    ASSUME NEW s \in SeqNumbers
    PROVE  NextSeq(s) = Shift(s, 1) /\ NextSeq(s) \in SeqNumbers
BY MaxSequenceAssumption, SMT DEF NextSeq, Shift, SeqNumbers

\* Moving on the circle by d and then by e is moving by d + e.
LEMMA ShiftCompose ==
    ASSUME NEW s \in SeqNumbers,
           NEW d \in Int, -MaxSequence < d, d < MaxSequence,
           NEW e \in Int, -MaxSequence < e, e < MaxSequence,
           -MaxSequence < d + e, d + e < MaxSequence
    PROVE  Shift(s, d) \in SeqNumbers /\ Shift(Shift(s, d), e) = Shift(s, d + e)
BY MaxSequenceAssumption, SMT DEF Shift, SeqNumbers

(* ddproto_seq_in_backroom tells the past from the future: of the numbers  *)
(* less than half the circle away from ack, it holds of ack and of those   *)
(* before it, wherever the numbers wrap.                                   *)
THEOREM BackroomIsRecentPast ==
    ASSUME NEW ack \in SeqNumbers,
           NEW d \in Int, -Half <= d, d < Half
    PROVE  SeqInBackroom(Shift(ack, d), ack) <=> d <= 0
BY MaxSequenceAssumption, SMT DEF SeqInBackroom, Shift, SeqNumbers, Half

\* Places less than half the circle away have different numbers.
LEMMA ShiftInjective ==
    ASSUME NEW s \in SeqNumbers,
           NEW d \in Int, -Half <= d, d < Half,
           NEW e \in Int, -Half <= e, e < Half,
           Shift(s, d) = Shift(s, e)
    PROVE  d = e
BY MaxSequenceAssumption, SMT DEF Shift, SeqNumbers, Half

\* The assumptions on the constants, in the form the proofs use.
LEMMA ConstantFacts ==
    /\ MaxSequence \in Nat /\ Half \in Nat /\ MaxSequence = 2 * Half
    /\ Uint16 \in Nat \ {0}
    /\ Window \in Nat \ {0} /\ MaxLag \in Nat
    /\ Window + MaxLag < Half /\ 2 * MaxLag < Half
    /\ 0 \in SeqNumbers
    /\ "CONNECTACCEPT" \notin Noise
BY MaxSequenceAssumption, ClientAssumption, ConnectionAssumption, NetworkAssumption, SMT
   DEF Half, SeqNumbers

\* Taking the first chunk off the inbox.
LEMMA HeadTailType ==
    ASSUME inbox \in Seq(Chunks), inbox # <<>>
    PROVE  /\ Head(inbox) \in Chunks /\ Tail(inbox) \in Seq(Chunks)
           /\ 1 \in DOMAIN inbox /\ Head(inbox) = inbox[1]
           /\ \A j \in DOMAIN Tail(inbox) : j + 1 \in DOMAIN inbox /\ Tail(inbox)[j] = inbox[j + 1]
BY SMT

\* ddproto_build_packet keeps DDProtoSession.sequence a uint16.
LEMMA CountVitalType ==
    ASSUME NEW ss \in Sessions
    PROVE  CountVital(ss) \in Sessions
<1>1. (ss.sequence + 1) % Uint16 \in 0 .. Uint16 - 1
  BY ConstantFacts, SMT DEF Sessions
<1> QED  BY <1>1, SMT DEF Sessions, CountVital

\* The packets twclient_send_info and the answers build are client packets.
LEMMA VitalPacketType ==
    ASSUME sent \in Nat, NEW msg \in {"INFO", "READY", "CL_STARTINFO", "ENTERGAME"},
           NEW ss \in Sessions, NEW resend \in BOOLEAN, NEW index \in Nat
    PROVE  VitalPacket(msg, ss, resend, index) \in ClientPackets
<1>1. ss.sequence % MaxSequence \in SeqNumbers
  BY ConstantFacts, SMT DEF Sessions, SeqNumbers
<1> QED  BY <1>1, SMT DEF Sessions, VitalPacket, ClientPackets

\* So are the control packets.
LEMMA ControlPacketType ==
    ASSUME sent \in Nat, NEW kind \in {"ACCEPT", "KEEPALIVE", "CLOSE", "CONNECT"},
           NEW ss \in Sessions, NEW resend \in BOOLEAN, NEW ack \in SeqNumbers, NEW index \in Nat
    PROVE  ControlPacket(kind, ss, resend, ack, index) \in ClientPackets
BY ConstantFacts, SMT DEF Sessions, ControlPacket, ClientPackets, SeqNumbers

\* What SendPackets and the peer's sends leave in flight was there or is new.
LEMMA SendPacketsSubset ==
    ASSUME NEW packets, SendPackets(packets)
    PROVE  toPeer' \subseteq toPeer \cup packets /\ request_resend' = FALSE /\ idle' = FALSE
BY SMT DEF SendPackets, Surviving

\* The switch of twclient_on_chunk keeps the types of all it changes.
LEMMA HandleMessageType ==
    ASSUME TypeOK, inbox # <<>>, NEW c \in Chunks, NEW ss \in Sessions,
           NEW resend \in BOOLEAN, NEW index \in Nat,
           HandleMessage(c, ss, resend, index)
    PROVE  /\ session' \in Sessions /\ request_resend' \in BOOLEAN /\ idle' \in BOOLEAN
           /\ inbox' \in Seq(Chunks) /\ ackIdx' \in Nat /\ handled' \subseteq Nat
           /\ toPeer' \subseteq ClientPackets
           /\ status' = status /\ toClient' = toClient /\ sent' = sent
<1>1. /\ inbox' = Tail(inbox) /\ ackIdx' = index
      /\ handled' = (IF c.vital THEN handled \cup {c.idx} ELSE handled)
      /\ status' = status /\ toClient' = toClient /\ sent' = sent
  BY SMT DEF HandleMessage
<1>2. inbox' \in Seq(Chunks) /\ handled' \subseteq Nat
  <2>1. inbox \in Seq(Chunks) /\ handled \subseteq Nat
    BY SMT DEF TypeOK
  <2>2. inbox' \in Seq(Chunks)
    BY <1>1, <2>1, HeadTailType, Zenon
  <2>3. c.idx \in Nat
    BY SMT DEF Chunks
  <2>4. handled' = handled \cup {c.idx} \/ handled' = handled
    BY <1>1, Zenon
  <2>5. handled' \subseteq Nat
    BY <2>1, <2>3, <2>4, Zenon
  <2> QED  BY <2>2, <2>5
<1>3. CASE c.kind \in DOMAIN Reply
  <2>1. /\ session' = CountVital(ss)
        /\ SendPackets({VitalPacket(Reply[c.kind], session', resend, index)})
    BY <1>3, Zenon DEF HandleMessage
  <2>2. Reply[c.kind] \in {"INFO", "READY", "CL_STARTINFO", "ENTERGAME"}
    BY <1>3, SMT DEF Reply
  <2>3. session' \in Sessions
    BY <2>1, CountVitalType
  <2>4. VitalPacket(Reply[c.kind], session', resend, index) \in ClientPackets
    BY <2>2, <2>3, VitalPacketType, Zenon DEF TypeOK
  <2>5. /\ toPeer' \subseteq toPeer \cup {VitalPacket(Reply[c.kind], session', resend, index)}
        /\ request_resend' = FALSE /\ idle' = FALSE
    BY <2>1, SendPacketsSubset, Zenon
  <2>6. toPeer' \subseteq ClientPackets
    BY <2>4, <2>5, Zenon DEF TypeOK
  <2> QED  BY <1>1, <1>2, <2>3, <2>5, <2>6, Zenon
<1>4. CASE c.kind \notin DOMAIN Reply
  <2>1. session' = ss /\ request_resend' = resend /\ idle' = idle /\ toPeer' = toPeer
    BY <1>4, Zenon DEF HandleMessage
  <2> QED  BY <1>1, <1>2, <2>1, Zenon DEF TypeOK
<1> QED  BY <1>3, <1>4

----------------------------------------------------------------------------
(* Type correctness *)

\* A packet is received at the top of main's loop, and was in flight.
LEMMA RecvFacts ==
    ASSUME NEW p, Recv(p)
    PROVE  /\ p \in toClient /\ toClient' \subseteq toClient
           /\ inbox = <<>> /\ status = "running"
BY Zenon DEF Recv, AtLoop, AfterDelivery

\* The same for the peer.
LEMMA PeerRecvFacts ==
    ASSUME NEW p, PeerRecv(p)
    PROVE  p \in toPeer /\ toPeer' \subseteq toPeer /\ inbox = <<>>
BY Zenon DEF PeerRecv, PeerTurn, AfterDelivery

\* What the peer's sending leaves in flight was there or is the packet.
LEMMA PeerSendFacts ==
    ASSUME NEW p, PeerSend(p)
    PROVE  toClient' \subseteq toClient \cup {p}
BY Zenon DEF PeerSend, Surviving

\* A batch is a sequence of chunks of the buffer.
LEMMA BatchFacts ==
    ASSUME TypeOK, NEW batch \in Batches
    PROVE  /\ batch \in Seq(Chunks)
           /\ \A j \in DOMAIN batch : batch[j] \in buffer
<1>1. buffer \subseteq Chunks
  BY Zenon DEF TypeOK
<1>2. CASE \E c \in buffer : batch = <<c>>
  BY <1>1, <1>2, SMT
<1>3. CASE \E c \in buffer, d \in buffer : batch = <<c, d>>
  <2>1. PICK c \in buffer, d \in buffer : batch = <<c, d>>
    BY <1>3
  <2>2. c \in Chunks /\ d \in Chunks
    BY <1>1, <2>1, Zenon
  <2>3. batch \in Seq(Chunks)
    BY <2>1, <2>2, SMT
  <2>4. \A j \in DOMAIN batch : batch[j] = c \/ batch[j] = d
    BY <2>1, SMT
  <2>5. \A j \in DOMAIN batch : batch[j] \in buffer
    <3>1. SUFFICES ASSUME NEW j \in DOMAIN batch PROVE batch[j] \in buffer
      OBVIOUS
    <3>2. CASE batch[j] = c
      BY <2>1, <3>2, Zenon
    <3>3. CASE batch[j] = d
      BY <2>1, <3>3, Zenon
    <3> QED  BY <2>4, <3>2, <3>3
  <2> QED  BY <2>3, <2>5
<1>4. \/ \E c \in buffer : batch = <<c>>
      \/ \E c \in buffer, d \in buffer : batch = <<c, d>>
  BY SMT DEF Batches
<1> QED  BY <1>2, <1>3, <1>4

\* What the client's own actions leave alone keeps its type.
LEMMA PeerTypeUnchanged ==
    ASSUME TypeOK, UNCHANGED peerVars
    PROVE  /\ peerStatus' \in {"listening", "online", "closed"} /\ buffer' \subseteq Chunks
           /\ peerSequence' \in SeqNumbers /\ peerAck' \in SeqNumbers /\ confirmed' \in Nat
BY Zenon DEF TypeOK, peerVars

\* twclient_on_network_data keeps the types.
LEMMA OnPacketType ==
    ASSUME TypeOK, OnPacket, UNCHANGED peerVars
    PROVE  TypeOK'
<1>1. PICK p \in toClient :
        \/ RecvConnectAccept(p) \/ RecvNormal(p)
        \/ RecvClose(p) \/ RecvUndecodable(p) \/ RecvIgnored(p) \/ RecvConnless(p)
  BY Zenon DEF OnPacket
<1>2. p \in PeerPackets /\ p.token = PeerToken /\ p.chunks \in Seq(Chunks)
  BY <1>1, SMT DEF TypeOK, PeerPackets
<1>3. CASE RecvConnectAccept(p)
  <2> DEFINE taken == [session EXCEPT !.token = p.token]
             counted == CountVital(taken)
             accept == ControlPacket("ACCEPT", taken, request_resend, 0, 0)
             info == VitalPacket("INFO", counted, FALSE, ackIdx)
  <2>1. /\ Recv(p) /\ session' = counted /\ SendPackets({accept, info})
        /\ UNCHANGED <<status, inbox, ackIdx, handled, sent>>
    BY <1>3, Zenon DEF RecvConnectAccept
  <2>2. taken \in Sessions
    BY <1>2, SMT DEF TypeOK, Sessions
  <2>3. counted \in Sessions
    BY <2>2, CountVitalType, Zenon
  <2>4. accept \in ClientPackets
    BY <2>2, ConstantFacts, ControlPacketType, Zenon DEF TypeOK
  <2>5. info \in ClientPackets
    BY <2>3, VitalPacketType, Zenon DEF TypeOK
  <2> HIDE DEF taken, counted, accept, info
  <2>6. /\ toPeer' \subseteq toPeer \cup {accept, info}
        /\ request_resend' = FALSE /\ idle' = FALSE
    BY <2>1, SendPacketsSubset, Zenon
  <2>7. toPeer' \subseteq ClientPackets
    BY <2>4, <2>5, <2>6, Zenon DEF TypeOK
  <2> QED  BY <2>1, <2>3, <2>6, <2>7, RecvFacts, PeerTypeUnchanged, Zenon DEF TypeOK
<1>4. CASE RecvClose(p) \/ RecvUndecodable(p)
  BY <1>4, RecvFacts, PeerTypeUnchanged, Zenon DEF RecvClose, RecvUndecodable, Exit, TypeOK
<1>5. CASE RecvIgnored(p) \/ RecvConnless(p)
  BY <1>5, RecvFacts, PeerTypeUnchanged, Zenon
     DEF RecvIgnored, RecvConnless, TypeOK, clientVars
<1>6. CASE RecvNormal(p)
  BY <1>2, <1>6, RecvFacts, PeerTypeUnchanged, Zenon DEF RecvNormal, TypeOK
<1> QED  BY <1>1, <1>3, <1>4, <1>5, <1>6

\* The four ways to treat a chunk, with what HandleMessage is given.
LEMMA OnChunkCases ==
    ASSUME TypeOK, OnChunk
    PROVE  /\ inbox # <<>> /\ status = "running" /\ Head(inbox) \in Chunks
           /\ \/ /\ Head(inbox).vital /\ InSequence(Head(inbox))
                 /\ HandleMessage(Head(inbox), [session EXCEPT !.ack = NextSeq(session.ack)],
                                  request_resend, Head(inbox).idx)
              \/ /\ Head(inbox).vital /\ ~InSequence(Head(inbox))
                 /\ SeqInBackroom(Head(inbox).sequence, session.ack)
                 /\ DropKnown
              \/ /\ Head(inbox).vital /\ ~InSequence(Head(inbox))
                 /\ ~SeqInBackroom(Head(inbox).sequence, session.ack)
                 /\ HandleMessage(Head(inbox), session, TRUE, ackIdx)
              \/ /\ ~Head(inbox).vital
                 /\ HandleMessage(Head(inbox), session, request_resend, ackIdx)
<1>1. inbox # <<>> /\ status = "running"
  BY Zenon DEF OnChunk, AcceptNext, DropKnown, HandleOutOfOrder, HandleNonVital
<1>2. Head(inbox) \in Chunks
  BY <1>1, HeadTailType, Zenon DEF TypeOK
<1>3. CASE AcceptNext
  BY <1>1, <1>2, <1>3, Zenon DEF AcceptNext
<1>4. CASE DropKnown
  BY <1>1, <1>2, <1>4, Zenon DEF DropKnown
<1>5. CASE HandleOutOfOrder
  BY <1>1, <1>2, <1>5, Zenon DEF HandleOutOfOrder
<1>6. CASE HandleNonVital
  BY <1>1, <1>2, <1>6, Zenon DEF HandleNonVital
<1> QED  BY <1>3, <1>4, <1>5, <1>6, Zenon DEF OnChunk

\* twclient_on_chunk keeps the types.
LEMMA OnChunkType ==
    ASSUME TypeOK, OnChunk, UNCHANGED peerVars
    PROVE  TypeOK'
<1> DEFINE c == Head(inbox)
           next == [session EXCEPT !.ack = NextSeq(session.ack)]
<1>1. inbox # <<>> /\ c \in Chunks /\ c.idx \in Nat
  BY OnChunkCases, SMT DEF Chunks
<1>2. session \in Sessions /\ next \in Sessions /\ request_resend \in BOOLEAN /\ ackIdx \in Nat
  BY NextSeqIsShift, SMT DEF TypeOK, Sessions
<1>3. CASE DropKnown
  BY <1>1, <1>3, HeadTailType, PeerTypeUnchanged, Zenon DEF DropKnown, TypeOK
<1>4. CASE \/ HandleMessage(c, next, request_resend, c.idx)
           \/ HandleMessage(c, session, TRUE, ackIdx)
           \/ HandleMessage(c, session, request_resend, ackIdx)
  <2>1. PICK ss \in Sessions, resend \in BOOLEAN, index \in Nat : HandleMessage(c, ss, resend, index)
    BY <1>1, <1>2, <1>4, Zenon
  <2>2. /\ session' \in Sessions /\ request_resend' \in BOOLEAN /\ idle' \in BOOLEAN
        /\ inbox' \in Seq(Chunks) /\ ackIdx' \in Nat /\ handled' \subseteq Nat
        /\ toPeer' \subseteq ClientPackets
        /\ status' = status /\ toClient' = toClient /\ sent' = sent
    BY <1>1, <2>1, HandleMessageType, Zenon
  <2> QED  BY <2>2, PeerTypeUnchanged, Zenon DEF TypeOK
<1> QED  BY OnChunkCases, <1>3, <1>4, Zenon

\* So do keep-alive, disconnect and the passing of time.
LEMMA RestOfLoopType ==
    ASSUME TypeOK, Tick \/ KeepAlive \/ Disconnect, UNCHANGED peerVars
    PROVE  TypeOK'
<1> DEFINE packet(kind) == ControlPacket(kind, session, request_resend, session.ack, ackIdx)
<1>1. packet("KEEPALIVE") \in ClientPackets /\ packet("CLOSE") \in ClientPackets
  <2>1. session.ack \in SeqNumbers
    BY SMT DEF TypeOK, Sessions
  <2> QED  BY <2>1, ControlPacketType, Zenon DEF TypeOK
<1>2. CASE Tick
  BY <1>2, PeerTypeUnchanged, Zenon DEF Tick, TypeOK
<1>3. CASE KeepAlive
  <2>1. SendPackets({packet("KEEPALIVE")})
    BY <1>3, Zenon DEF KeepAlive
  <2>2. toPeer' \subseteq ClientPackets /\ request_resend' = FALSE /\ idle' = FALSE
    BY <1>1, <2>1, SendPacketsSubset, Zenon DEF TypeOK
  <2> QED  BY <1>3, <2>2, PeerTypeUnchanged, Zenon DEF KeepAlive, TypeOK
<1>4. CASE Disconnect
  <2>1. SendPackets({packet("CLOSE")})
    BY <1>4, Zenon DEF Disconnect
  <2>2. toPeer' \subseteq ClientPackets /\ request_resend' = FALSE /\ idle' = FALSE
    BY <1>1, <2>1, SendPacketsSubset, Zenon DEF TypeOK
  <2> QED  BY <1>4, <2>2, PeerTypeUnchanged, Zenon DEF Disconnect, TypeOK
<1> QED  BY <1>2, <1>3, <1>4

\* A packet without chunks.
LEMMA NoChunks == <<>> \in Seq(Chunks) /\ DOMAIN <<>> = {}
BY SMT

\* What the peer sends is a peer packet.
LEMMA PacketType ==
    ASSUME sent \in Nat, NEW kind \in {"CONNECTACCEPT", "NORMAL"} \cup Noise,
           NEW chunks \in Seq(Chunks)
    PROVE  Packet(kind, chunks) \in PeerPackets
BY SMT DEF Packet, PeerPackets

\* The actions of the peer keep the types.
LEMMA PeerNextType ==
    ASSUME TypeOK, PeerNext
    PROVE  TypeOK'
<1>1. ASSUME NEW p \in toPeer, PeerRecvConnect(p)
      PROVE  TypeOK'
  <2>1. Packet("CONNECTACCEPT", <<>>) \in PeerPackets
    BY NoChunks, PacketType, Zenon DEF TypeOK
  <2>2. toClient' \subseteq PeerPackets /\ toPeer' \subseteq toPeer
    BY <1>1, <2>1, PeerRecvFacts, PeerSendFacts, Zenon DEF PeerRecvConnect, TypeOK
  <2> QED  BY <1>1, <2>2, Zenon DEF PeerRecvConnect, TypeOK, clientVars, peerVars
<1>2. ASSUME NEW p \in toPeer, PeerRecvOnline(p)
      PROVE  TypeOK'
  <2>1. p.sequence \in SeqNumbers /\ p.ackIdx \in Nat
    BY <1>2, SMT DEF TypeOK, ClientPackets
  <2>2. /\ peerStatus' \in {"listening", "online", "closed"}
        /\ buffer' \subseteq buffer /\ peerAck' \in SeqNumbers /\ confirmed' \in Nat
    BY <1>2, <2>1, SMT DEF PeerRecvOnline, Forget, TypeOK
  <2>3. toPeer' \subseteq toPeer
    BY <1>2, PeerRecvFacts, Zenon DEF PeerRecvOnline
  <2> QED  BY <1>2, <2>2, <2>3, Zenon DEF PeerRecvOnline, TypeOK, clientVars
<1>3. ASSUME NEW kind \in Kinds, PeerSendVital(kind)
      PROVE  TypeOK'
  <2> DEFINE c == [vital |-> TRUE, sequence |-> NextSeq(peerSequence),
                   kind |-> kind, idx |-> sent + 1]
             p == [Packet("NORMAL", <<c>>) EXCEPT !.stamp = sent + 1]
  <2>1. c \in Chunks /\ NextSeq(peerSequence) \in SeqNumbers
    BY NextSeqIsShift, SMT DEF TypeOK, Chunks
  <2>2. p \in PeerPackets
    <3>1. <<c>> \in Seq(Chunks) /\ sent \in Nat
      BY <2>1, SMT DEF TypeOK
    <3> HIDE DEF c
    <3>2. p = [kind |-> "NORMAL", token |-> PeerToken, chunks |-> <<c>>, stamp |-> sent + 1]
      BY SMT DEF Packet
    <3> HIDE DEF p
    <3> QED  BY <3>1, <3>2, SMT DEF PeerPackets
  <2>3. /\ sent' = sent + 1 /\ peerSequence' = NextSeq(peerSequence) /\ buffer' = buffer \cup {c}
        /\ toClient' \in Surviving(Fresh(toClient, sent') \cup {p}, CapToClient)
        /\ toPeer' = Fresh(toPeer, sent')
        /\ UNCHANGED <<clientVars, peerStatus, peerAck, confirmed>>
    BY <1>3, Zenon DEF PeerSendVital
  <2> HIDE DEF c, p
  <2>4. toClient' \subseteq PeerPackets /\ toPeer' \subseteq ClientPackets
    BY <2>2, <2>3, SMT DEF Surviving, Fresh, TypeOK
  <2>5. sent' \in Nat
    BY <2>3, SMT DEF TypeOK
  <2> QED  BY <2>1, <2>3, <2>4, <2>5, Zenon DEF TypeOK, clientVars
<1>4. ASSUME NEW batch \in Batches, PeerResend(batch)
      PROVE  TypeOK'
  <2>1. Packet("NORMAL", batch) \in PeerPackets
    BY BatchFacts, PacketType, Zenon DEF TypeOK
  <2> QED  BY <1>4, <2>1, PeerSendFacts, Zenon DEF PeerResend, TypeOK, clientVars, peerVars
<1>5. ASSUME NEW kind \in LooseKinds, PeerSendNonVital(kind)
      PROVE  TypeOK'
  <2> DEFINE c == [vital |-> FALSE, sequence |-> 0, kind |-> kind, idx |-> 0]
  <2>1. c \in Chunks
    BY ConstantFacts, SMT DEF Chunks
  <2>2. PeerSend(Packet("NORMAL", <<c>>)) /\ UNCHANGED <<clientVars, toPeer, sent, peerVars>>
    BY <1>5, Zenon DEF PeerSendNonVital
  <2> HIDE DEF c
  <2>3. <<c>> \in Seq(Chunks)
    BY <2>1, SMT
  <2>4. Packet("NORMAL", <<c>>) \in PeerPackets
    BY <2>3, PacketType, Zenon DEF TypeOK
  <2> QED  BY <2>2, <2>4, PeerSendFacts, Zenon DEF TypeOK, clientVars, peerVars
<1>6. ASSUME NEW kind \in Noise, PeerSendNoise(kind)
      PROVE  TypeOK'
  <2>1. Packet(kind, <<>>) \in PeerPackets
    BY NoChunks, PacketType, Zenon DEF TypeOK
  <2>2. peerStatus' \in {"listening", "online", "closed"}
    BY <1>6, SMT DEF PeerSendNoise, TypeOK
  <2> QED  BY <1>6, <2>1, <2>2, PeerSendFacts, Zenon DEF PeerSendNoise, TypeOK, clientVars
<1> QED  BY <1>1, <1>2, <1>3, <1>4, <1>5, <1>6, Zenon DEF PeerNext

\* The types are right at the start.
LEMMA TypeInit == Init => TypeOK
<1> SUFFICES ASSUME Init PROVE TypeOK
  OBVIOUS
<1>1. session \in Sessions
  BY ConstantFacts, SMT DEF Init, ClientInit, Sessions
<1>2. toPeer \subseteq ClientPackets
  <2>1. sent \in Nat
    BY SMT DEF Init
  <2>2. ControlPacket("CONNECT", session, FALSE, 0, 0) \in ClientPackets
    BY <1>1, <2>1, ConstantFacts, ControlPacketType, Zenon
  <2> QED  BY <2>2, Zenon DEF Init, ClientInit
<1>3. inbox \in Seq(Chunks)
  BY NoChunks, Zenon DEF Init, ClientInit
<1>4. 0 \in Nat /\ 0 \in SeqNumbers
  BY ConstantFacts
<1> QED  BY <1>1, <1>2, <1>3, <1>4, Zenon DEF Init, ClientInit, TypeOK

\* Every step keeps the types.
LEMMA TypeStep == TypeOK /\ [Next]_vars => TypeOK'
<1> SUFFICES ASSUME TypeOK, [Next]_vars PROVE TypeOK'
  OBVIOUS
<1>1. CASE ClientNext /\ UNCHANGED peerVars
  BY <1>1, OnPacketType, OnChunkType, RestOfLoopType, Zenon DEF ClientNext
<1>2. CASE PeerNext
  BY <1>2, PeerNextType
<1>3. CASE UNCHANGED vars
  BY <1>3, Zenon DEF TypeOK, vars, clientVars, peerVars
<1> QED  BY <1>1, <1>2, <1>3, Zenon DEF Next

(* The state keeps its types: in particular ack, the sequence numbers in   *)
(* chunk headers and those in packet headers always fit their bit fields.  *)
THEOREM TypeCorrect == Spec => []TypeOK
BY TypeInit, TypeStep, PTL DEF Spec

----------------------------------------------------------------------------
(* Numbers stay in step.                                                   *)
(*                                                                         *)
(* The invariant places every number on the wire relative to the client's  *)
(* ack.  A step of the client that advances ack moves that origin by one;  *)
(* a step of the peer that sends a message moves the other end.  As long   *)
(* as Window + MaxLag < Half, no number in flight is half the circle away, *)
(* which is what SeqInBackroom needs to tell the past from the future.     *)

\* The parts of TypeOK that the arithmetic needs.
LEMMA InvTypes ==
    ASSUME TypeOK
    PROVE  /\ sent \in Nat /\ ackIdx \in Nat /\ confirmed \in Nat
           /\ session.ack \in SeqNumbers /\ peerSequence \in SeqNumbers
           /\ buffer \subseteq Chunks
           /\ \A c \in buffer : c.idx \in Nat /\ c.sequence \in SeqNumbers
           /\ \A p \in toClient : p.stamp \in Nat /\ p.chunks \in Seq(Chunks)
           /\ \A p \in toPeer : p.stamp \in Nat /\ p.ackIdx \in Nat /\ p.ack \in SeqNumbers
<1>1. /\ sent \in Nat /\ ackIdx \in Nat /\ confirmed \in Nat
      /\ peerSequence \in SeqNumbers /\ buffer \subseteq Chunks
  BY Zenon DEF TypeOK
<1>2. session.ack \in SeqNumbers
  BY SMT DEF TypeOK, Sessions
<1>3. \A c \in Chunks : c.idx \in Nat /\ c.sequence \in SeqNumbers
  BY SMT DEF Chunks
<1>4. \A p \in PeerPackets : p.stamp \in Nat /\ p.chunks \in Seq(Chunks)
  BY SMT DEF PeerPackets
<1>5. \A p \in ClientPackets : p.stamp \in Nat /\ p.ackIdx \in Nat /\ p.ack \in SeqNumbers
  BY SMT DEF ClientPackets
<1>6. toClient \subseteq PeerPackets /\ toPeer \subseteq ClientPackets
  BY Zenon DEF TypeOK
<1> QED  BY <1>1, <1>2, <1>3, <1>4, <1>5, <1>6, Zenon

\* The number of message i does not depend on how far ack has come.
LEMMA Renumber ==
    ASSUME ackIdx \in Nat, session.ack \in SeqNumbers, NEW i \in Int,
           -Half < i - ackIdx, i - ackIdx <= Half,
           \/ ackIdx' = ackIdx /\ session'.ack = session.ack
           \/ ackIdx' = ackIdx + 1 /\ session'.ack = NextSeq(session.ack)
    PROVE  NumberOf(i)' = NumberOf(i)
<1>1. CASE ackIdx' = ackIdx /\ session'.ack = session.ack
  BY <1>1, Zenon DEF NumberOf
<1>2. CASE ackIdx' = ackIdx + 1 /\ session'.ack = NextSeq(session.ack)
  <2> DEFINE e == i - ackIdx - 1
  <2>1. /\ e \in Int /\ -MaxSequence < e /\ e < MaxSequence
        /\ -MaxSequence < 1 + e /\ 1 + e < MaxSequence /\ 1 + e = i - ackIdx
        /\ e = i - (ackIdx + 1) /\ 1 \in Int /\ -MaxSequence < 1 /\ 1 < MaxSequence
    BY ConstantFacts, MaxSequenceAssumption, SMT
  <2> HIDE DEF e
  <2>2. Shift(Shift(session.ack, 1), e) = Shift(session.ack, 1 + e)
    BY <2>1, ShiftCompose
  <2>3. session'.ack = Shift(session.ack, 1)
    BY <1>2, NextSeqIsShift
  <2> QED  BY <1>2, <2>1, <2>2, <2>3, Zenon DEF NumberOf
<1> QED  BY <1>1, <1>2

\* What twclient_on_chunk learns from the number of a chunk that is in step.
LEMMA ChunkPlace ==
    ASSUME TypeOK, InStep, NEW c \in Chunks, c.vital,
           NEW n \in Int, n <= sent, sent - n <= MaxLag, ChunkInStep(c, n)
    PROVE  /\ c.idx \in Nat \ {0} /\ c.idx <= sent
           /\ -Half < c.idx - ackIdx /\ c.idx - ackIdx < Half
           /\ InSequence(c) <=> c.idx = ackIdx + 1
           /\ SeqInBackroom(c.sequence, session.ack) <=> c.idx <= ackIdx
<1> DEFINE d == c.idx - ackIdx
<1>1. /\ c.idx \in Nat \ {0} /\ c.idx <= n /\ n - c.idx < Window
      /\ c.sequence = Shift(session.ack, d)
  BY Zenon DEF ChunkInStep, NumberOf
<1>2. /\ ackIdx \in Nat /\ sent \in Nat /\ session.ack \in SeqNumbers
      /\ ackIdx <= sent /\ sent - ackIdx <= Window
  BY InvTypes, Zenon DEF InStep
<1>3. /\ d \in Int /\ -Half < d /\ d < Half /\ -Half <= d
      /\ 1 \in Int /\ -Half <= 1 /\ 1 < Half /\ c.idx <= sent
      /\ d = 1 <=> c.idx = ackIdx + 1
      /\ d <= 0 <=> c.idx <= ackIdx
  BY <1>1, <1>2, ConstantFacts, MaxSequenceAssumption, SMT
<1> HIDE DEF d
<1>4. c.sequence = NextSeq(session.ack) <=> d = 1
  <2>1. NextSeq(session.ack) = Shift(session.ack, 1)
    BY <1>2, NextSeqIsShift
  <2>2. Shift(session.ack, d) = Shift(session.ack, 1) => d = 1
    BY <1>2, <1>3, ShiftInjective
  <2> QED  BY <1>1, <2>1, <2>2, Zenon
<1>5. SeqInBackroom(c.sequence, session.ack) <=> d <= 0
  BY <1>1, <1>2, <1>3, BackroomIsRecentPast
<1> QED  BY <1>1, <1>3, <1>4, <1>5 DEF InSequence, d

\* An ack on its way to the peer is less than half the circle from anything
\* the peer has in its buffer, and from the client's ack.
LEMMA AckPlace ==
    ASSUME TypeOK, InStep, NEW p \in toPeer, AckInStep(p)
    PROVE  /\ p.ackIdx <= ackIdx
           /\ -Half < p.ackIdx - ackIdx /\ -Half < p.ackIdx - sent
<1>1. p.stamp \in Nat /\ p.ackIdx \in Nat /\ sent \in Nat /\ ackIdx \in Nat
  BY InvTypes, Zenon
<1>2. /\ p.stamp <= sent /\ sent - p.stamp <= MaxLag /\ p.ackIdx <= ackIdx
      /\ p.stamp - p.ackIdx <= Window \/ p.stamp - p.ackIdx <= MaxLag
  BY Zenon DEF AckInStep
<1>3. ackIdx <= sent
  BY Zenon DEF InStep
<1> QED  BY <1>1, <1>2, <1>3, ConstantFacts, SMT

\* The peer compares a buffered chunk with an ack: what it concludes.
LEMMA AckMeansIndex ==
    ASSUME TypeOK, InStep, BufferInStep, NEW p \in toPeer, AckInStep(p), NEW c \in buffer
    PROVE  SeqInBackroom(c.sequence, p.ack) <=> c.idx <= p.ackIdx
<1> DEFINE d == p.ackIdx - ackIdx
           e == c.idx - p.ackIdx
<1>1. /\ c.idx \in Nat \ {0} /\ c.idx <= sent /\ sent - c.idx < Window
      /\ c.sequence = Shift(session.ack, c.idx - ackIdx)
  BY Zenon DEF BufferInStep, ChunkInStep, NumberOf
<1>2. p.ack = Shift(session.ack, d)
  BY Zenon DEF AckInStep, NumberOf
<1>3. /\ p.ackIdx \in Nat /\ p.ack \in SeqNumbers /\ sent \in Nat /\ ackIdx \in Nat
      /\ session.ack \in SeqNumbers /\ ackIdx <= sent /\ sent - ackIdx <= Window
  BY InvTypes, Zenon DEF InStep
<1>4. /\ d \in Int /\ -MaxSequence < d /\ d < MaxSequence
      /\ e \in Int /\ -MaxSequence < e /\ e < MaxSequence /\ -Half <= e /\ e < Half
      /\ -MaxSequence < d + e /\ d + e < MaxSequence /\ d + e = c.idx - ackIdx
      /\ e <= 0 <=> c.idx <= p.ackIdx
  BY <1>1, <1>3, AckPlace, ConstantFacts, SMT
<1> HIDE DEF d, e
<1>5. c.sequence = Shift(p.ack, e)
  BY <1>1, <1>2, <1>3, <1>4, ShiftCompose
<1>6. SeqInBackroom(Shift(p.ack, e), p.ack) <=> e <= 0
  BY <1>3, <1>4, BackroomIsRecentPast
<1> QED  BY <1>4, <1>5, <1>6

\* What an action of the client may do to the numbers: keep ack, or accept
\* the next message; and send packets that carry its ack, or, while the
\* stream has barely begun, no ack.
ClientMoves ==
    /\ UNCHANGED <<sent, peerVars>>
    /\ \/ ackIdx' = ackIdx /\ session'.ack = session.ack
       \/ ackIdx' = ackIdx + 1 /\ ackIdx < sent /\ session'.ack = NextSeq(session.ack)
    /\ toClient' \subseteq toClient
    /\ \A p \in toPeer' :
           \/ p \in toPeer
           \/ p.stamp = sent /\ p.ackIdx = ackIdx' /\ p.ack = session'.ack
           \/ p.stamp = sent /\ sent <= MaxLag /\ p.ackIdx = 0 /\ p.ack = 0
    /\ \A j \in DOMAIN inbox' :
           \E n \in sent - MaxLag .. sent : ChunkInStep(inbox'[j], n)
    /\ 1 .. ackIdx' \subseteq handled'

\* Two places on the circle that Shift computes at once.
LEMMA ShiftToOrigin ==
    /\ \A a \in Int, s \in SeqNumbers : Shift(s, a - a) = s
    /\ \A a \in Nat : a < MaxSequence => Shift(a, 0 - a) = 0
BY ConstantFacts, SMT DEF Shift, SeqNumbers

\* The invariant survives whatever ClientMoves allows.
LEMMA ClientMovesInv ==
    ASSUME Inv, TypeOK', ClientMoves
    PROVE  Inv'
<1>1. /\ sent \in Nat /\ ackIdx \in Nat /\ ackIdx' \in Nat /\ session.ack \in SeqNumbers
      /\ ackIdx <= sent /\ sent - ackIdx <= Window /\ peerSequence = NumberOf(sent)
      /\ ackIdx < MaxSequence => session.ack = ackIdx
      /\ peerStatus = "listening" => sent = 0
  BY InvTypes, Zenon DEF Inv, NumbersInStep, InStep, TypeOK
<1>2. /\ sent' = sent /\ peerStatus' = peerStatus /\ buffer' = buffer
      /\ peerSequence' = peerSequence /\ confirmed' = confirmed
  BY Zenon DEF ClientMoves, peerVars
<1>3. \/ ackIdx' = ackIdx /\ session'.ack = session.ack
      \/ ackIdx' = ackIdx + 1 /\ ackIdx < sent /\ session'.ack = NextSeq(session.ack)
  BY Zenon DEF ClientMoves
<1>4. ASSUME NEW i \in Int, -Half < i - ackIdx, i - ackIdx <= Half
      PROVE  NumberOf(i)' = NumberOf(i)
  BY <1>1, <1>3, <1>4, Renumber, Zenon
<1>5. ackIdx <= ackIdx' /\ ackIdx' <= sent /\ sent - ackIdx' <= Window
  <2>1. ackIdx' = ackIdx \/ (ackIdx' = ackIdx + 1 /\ ackIdx < sent)
    BY <1>3, Zenon
  <2>2. sent \in Nat /\ ackIdx \in Nat /\ ackIdx <= sent /\ sent - ackIdx <= Window /\ Window \in Nat
    BY <1>1, ConstantFacts, Zenon
  <2> QED  BY <2>1, <2>2, SMT
<1>6. session'.ack \in SeqNumbers /\ Shift(session'.ack, ackIdx' - ackIdx') = session'.ack
  <2>1. session'.ack \in SeqNumbers
    <3>1. NextSeq(session.ack) \in SeqNumbers
      BY <1>1, NextSeqIsShift
    <3> QED  BY <1>1, <1>3, <3>1, Zenon
  <2>2. ackIdx' \in Int
    BY <1>1
  <2> QED  BY <2>1, <2>2, ShiftToOrigin, Zenon
<1>7. ackIdx' < MaxSequence => session'.ack = ackIdx'
  <2>1. CASE ackIdx' = ackIdx + 1 /\ session'.ack = NextSeq(session.ack)
    <3>1. NextSeq(session.ack) = Shift(session.ack, 1)
      BY <1>1, NextSeqIsShift
    <3> QED  BY <1>1, <2>1, <3>1, ConstantFacts, SMT DEF Shift
  <2> QED  BY <1>1, <1>3, <2>1
<1>8. InStep'
  <2>1. NumberOf(sent)' = NumberOf(sent)
    <3>1. sent \in Int /\ -Half < sent - ackIdx /\ sent - ackIdx <= Half
      BY <1>1, ConstantFacts, SMT
    <3>2. NumberOf(sent)' = Shift(session'.ack, sent - ackIdx')
      BY <1>2, Zenon DEF NumberOf
    <3>3. Shift(session'.ack, sent - ackIdx') = Shift(session.ack, sent - ackIdx)
      BY <3>1, <1>4, Zenon DEF NumberOf
    <3> QED  BY <3>2, <3>3, Zenon DEF NumberOf
  <2> QED  BY <1>1, <1>2, <1>5, <1>7, <2>1, Zenon DEF InStep
<1>9. ASSUME NEW c, NEW n \in Int, n <= sent, sent - n <= MaxLag, ChunkInStep(c, n)
      PROVE  ChunkInStep(c, n)'
  <2>1. CASE ~c.vital
    BY <2>1, Zenon DEF ChunkInStep
  <2>2. CASE c.vital
    <3>1. /\ c.idx \in Nat \ {0} /\ c.idx <= n /\ n - c.idx < Window
          /\ c.sequence = NumberOf(c.idx)
      BY <1>9, <2>2, Zenon DEF ChunkInStep
    <3>2. c.idx \in Int /\ -Half < c.idx - ackIdx /\ c.idx - ackIdx <= Half
      BY <1>1, <1>9, <3>1, ConstantFacts, SMT
    <3>3. NumberOf(c.idx)' = NumberOf(c.idx)
      BY <1>4, <3>2
    <3> QED  BY <3>1, <3>3, Zenon DEF ChunkInStep
  <2> QED  BY <2>1, <2>2
<1>10. BufferInStep'
  <2>1. \A c \in buffer : c.vital /\ ChunkInStep(c, sent)
    BY Zenon DEF Inv, NumbersInStep, BufferInStep
  <2>2. sent \in Int /\ sent <= sent /\ sent - sent <= MaxLag
    BY <1>1, ConstantFacts, SMT
  <2>3. \A c \in buffer : ChunkInStep(c, sent)'
    BY <1>2, <1>9, <2>1, <2>2, Zenon DEF ChunkInStep
  <2> QED  BY <1>2, <2>1, <2>3, Zenon DEF BufferInStep, ChunkInStep
<1>11. InboxInStep'
  <2>1. SUFFICES ASSUME NEW j \in DOMAIN inbox'
                 PROVE  \E n \in sent' - MaxLag .. sent' : ChunkInStep(inbox[j], n)'
    BY Zenon DEF InboxInStep
  <2>2. PICK n \in sent - MaxLag .. sent : ChunkInStep(inbox'[j], n)
    BY Zenon DEF ClientMoves
  <2>3. n \in Int /\ n <= sent /\ sent - n <= MaxLag
    BY <1>1, <2>2, ConstantFacts, SMT
  <2>4. ChunkInStep(inbox[j], n)'
    BY <1>9, <2>2, <2>3, Zenon DEF ChunkInStep
  <2> QED  BY <1>2, <2>2, <2>4, Zenon
<1>12. ASSUME NEW p \in toClient'
       PROVE  PacketInStep(p)'
  <2>1. p \in toClient /\ PacketInStep(p)
    BY Zenon DEF ClientMoves, Inv, NumbersInStep
  <2>2. p.stamp \in Int /\ p.stamp <= sent /\ sent - p.stamp <= MaxLag
    BY <2>1, InvTypes, SMT DEF PacketInStep, Inv
  <2>3. \A j \in DOMAIN p.chunks : ChunkInStep(p.chunks[j], p.stamp)'
    BY <1>9, <2>1, <2>2, Zenon DEF PacketInStep, ChunkInStep
  <2> QED  BY <1>2, <2>1, <2>3, Zenon DEF PacketInStep, ChunkInStep
<1>13. ASSUME NEW p \in toPeer'
       PROVE  AckInStep(p)'
  <2>1. CASE p \in toPeer
    <3>1. AckInStep(p) /\ p.ackIdx \in Nat
      BY <2>1, InvTypes, Zenon DEF Inv, NumbersInStep
    <3>2. p.ackIdx \in Int /\ p.ackIdx <= ackIdx /\ -Half < p.ackIdx - ackIdx /\ p.ackIdx - ackIdx <= Half
      BY <1>1, <2>1, <3>1, AckPlace, ConstantFacts, SMT DEF Inv, NumbersInStep
    <3>3. NumberOf(p.ackIdx)' = NumberOf(p.ackIdx)
      BY <1>4, <3>2
    <3>4. p.ackIdx <= ackIdx'
      BY <1>1, <1>5, <3>1, <3>2, SMT
    <3> QED  BY <1>2, <3>1, <3>3, <3>4, Zenon DEF AckInStep
  <2>2. CASE p.stamp = sent /\ p.ackIdx = ackIdx' /\ p.ack = session'.ack
    <3>1. /\ p.stamp <= sent /\ sent - p.stamp <= MaxLag /\ p.stamp - p.ackIdx <= Window
          /\ p.ackIdx <= ackIdx'
      BY <1>1, <1>5, <2>2, ConstantFacts, SMT
    <3>2. p.ack = Shift(session'.ack, p.ackIdx - ackIdx')
      BY <1>6, <2>2, Zenon
    <3>3. p.ack = NumberOf(p.ackIdx)'
      BY <3>2, Zenon DEF NumberOf
    <3> QED  BY <1>2, <3>1, <3>3, Zenon DEF AckInStep
  <2>3. CASE p.stamp = sent /\ sent <= MaxLag /\ p.ackIdx = 0 /\ p.ack = 0
    <3>1. /\ p.stamp <= sent /\ sent - p.stamp <= MaxLag /\ p.stamp - p.ackIdx <= MaxLag
          /\ p.ackIdx <= ackIdx' /\ ackIdx' < MaxSequence
      BY <1>1, <1>5, <2>3, ConstantFacts, SMT
    <3>2. session'.ack = ackIdx'
      BY <1>7, <3>1
    <3>3. Shift(ackIdx', p.ackIdx - ackIdx') = 0
      BY <1>1, <2>3, <3>1, ShiftToOrigin, Zenon
    <3>4. NumberOf(p.ackIdx)' = 0
      BY <3>2, <3>3, Zenon DEF NumberOf
    <3> QED  BY <1>2, <2>3, <3>1, <3>4, Zenon DEF AckInStep
  <2> QED  BY <2>1, <2>2, <2>3, Zenon DEF ClientMoves
<1>14. AckedWereHandled' /\ BufferIsUnconfirmed'
  <2>1. confirmed <= ackIdx /\ {c.idx : c \in buffer} = confirmed + 1 .. sent
    BY Zenon DEF Inv, BufferIsUnconfirmed
  <2>2. confirmed <= ackIdx'
    BY <1>1, <1>5, <2>1, InvTypes, SMT DEF Inv
  <2>3. ackIdx' <= sent' /\ 1 .. ackIdx' \subseteq handled'
    BY <1>2, <1>5, Zenon DEF ClientMoves
  <2> QED  BY <1>2, <2>1, <2>2, <2>3, Zenon DEF AckedWereHandled, BufferIsUnconfirmed
<1> QED  BY <1>8, <1>10, <1>11, <1>12, <1>13, <1>14, Zenon DEF Inv, NumbersInStep

----------------------------------------------------------------------------
(* Each action of the client moves the numbers only as ClientMoves allows. *)

\* Counting a vital message leaves the ack alone.
LEMMA CountVitalKeepsAck ==
    ASSUME NEW ss \in Sessions
    PROVE  CountVital(ss).ack = ss.ack
BY SMT DEF CountVital, Sessions

\* The conjuncts of the invariant.
LEMMA InvParts ==
    ASSUME Inv
    PROVE  /\ TypeOK /\ InStep /\ BufferInStep /\ InboxInStep
           /\ \A p \in toClient : PacketInStep(p)
           /\ \A p \in toPeer : AckInStep(p)
           /\ 1 .. ackIdx \subseteq handled
           /\ confirmed <= ackIdx /\ {c.idx : c \in buffer} = confirmed + 1 .. sent
BY Zenon DEF Inv, NumbersInStep, AckedWereHandled, BufferIsUnconfirmed

\* An action that leaves ack, inbox and handled alone.
LEMMA QuietMoves ==
    ASSUME Inv, UNCHANGED <<sent, peerVars, ackIdx, inbox, handled>>,
           session'.ack = session.ack, toClient' \subseteq toClient,
           \A p \in toPeer' :
              \/ p \in toPeer
              \/ p.stamp = sent /\ p.ackIdx = ackIdx' /\ p.ack = session'.ack
              \/ p.stamp = sent /\ sent <= MaxLag /\ p.ackIdx = 0 /\ p.ack = 0
    PROVE  ClientMoves
BY InvParts, Zenon DEF ClientMoves, InboxInStep

\* twclient_on_network_data.
LEMMA OnPacketMoves ==
    ASSUME Inv, OnPacket, UNCHANGED peerVars
    PROVE  ClientMoves
<1>1. PICK p \in toClient :
        \/ RecvConnectAccept(p) \/ RecvNormal(p)
        \/ RecvClose(p) \/ RecvUndecodable(p) \/ RecvIgnored(p) \/ RecvConnless(p)
  BY Zenon DEF OnPacket
<1>2. PacketInStep(p) /\ p.stamp \in Nat /\ sent \in Nat
  BY <1>1, InvParts, InvTypes, Zenon
<1>3. CASE RecvConnectAccept(p)
  <2> DEFINE taken == [session EXCEPT !.token = p.token]
             counted == CountVital(taken)
             accept == ControlPacket("ACCEPT", taken, request_resend, 0, 0)
             info == VitalPacket("INFO", counted, FALSE, ackIdx)
  <2>1. /\ p.kind = "CONNECTACCEPT" /\ Recv(p) /\ session' = counted
        /\ SendPackets({accept, info})
        /\ UNCHANGED <<status, inbox, ackIdx, handled, sent>>
    BY <1>3, Zenon DEF RecvConnectAccept
  <2>2. sent <= MaxLag
    <3>1. p.stamp = 0 /\ sent - p.stamp <= MaxLag
      BY <1>2, <2>1, Zenon DEF PacketInStep
    <3> QED  BY <1>2, <3>1, ConstantFacts, SMT
  <2>3. counted.ack = session.ack
    <3>1. p.token = PeerToken /\ session \in Sessions
      BY <1>1, InvParts, SMT DEF TypeOK, PeerPackets
    <3>2. taken \in Sessions /\ taken.ack = session.ack
      BY <3>1, SMT DEF Sessions
    <3> HIDE DEF taken
    <3> QED  BY <3>2, CountVitalKeepsAck, Zenon
  <2>4. /\ accept.stamp = sent /\ accept.ackIdx = 0 /\ accept.ack = 0
        /\ info.stamp = sent /\ info.ackIdx = ackIdx /\ info.ack = counted.ack
    <3> HIDE DEF taken, counted
    <3> QED  BY Zenon DEF VitalPacket, ControlPacket
  <2> HIDE DEF taken, counted, accept, info
  <2>5. toPeer' \subseteq toPeer \cup {accept, info}
    BY <2>1, SendPacketsSubset, Zenon
  <2>6. \A q \in toPeer' :
           \/ q \in toPeer
           \/ q.stamp = sent /\ q.ackIdx = ackIdx' /\ q.ack = session'.ack
           \/ q.stamp = sent /\ sent <= MaxLag /\ q.ackIdx = 0 /\ q.ack = 0
    BY <2>1, <2>2, <2>4, <2>5, Zenon
  <2>7. toClient' \subseteq toClient
    BY <2>1, RecvFacts, Zenon
  <2> QED  BY <2>1, <2>3, <2>6, <2>7, QuietMoves, Zenon
<1>4. CASE RecvClose(p) \/ RecvUndecodable(p)
  BY <1>4, RecvFacts, QuietMoves, Zenon DEF RecvClose, RecvUndecodable, Exit
<1>5. CASE RecvIgnored(p) \/ RecvConnless(p)
  BY <1>5, RecvFacts, QuietMoves, Zenon DEF RecvIgnored, RecvConnless, clientVars
<1>6. CASE RecvNormal(p)
  <2>1. /\ inbox' = p.chunks /\ toClient' \subseteq toClient
        /\ UNCHANGED <<session, ackIdx, handled, toPeer, sent>>
    BY <1>6, RecvFacts, Zenon DEF RecvNormal
  <2>2. p.stamp \in sent - MaxLag .. sent
    <3>1. p.stamp <= sent /\ sent - p.stamp <= MaxLag
      BY <1>2, Zenon DEF PacketInStep
    <3> QED  BY <1>2, <3>1, ConstantFacts, SMT
  <2>3. \A j \in DOMAIN inbox' : ChunkInStep(inbox'[j], p.stamp)
    BY <1>2, <2>1, Zenon DEF PacketInStep
  <2> QED  BY <2>1, <2>2, <2>3, InvParts, Zenon DEF ClientMoves
<1> QED  BY <1>1, <1>3, <1>4, <1>5, <1>6

\* Keep-alive, disconnect and the passing of time.
LEMMA RestOfLoopMoves ==
    ASSUME Inv, Tick \/ KeepAlive \/ Disconnect, UNCHANGED peerVars
    PROVE  ClientMoves
<1> DEFINE packet(kind) == ControlPacket(kind, session, request_resend, session.ack, ackIdx)
<1>1. CASE Tick
  BY <1>1, QuietMoves, Zenon DEF Tick
<1>2. ASSUME NEW kind, SendPackets({packet(kind)}),
             UNCHANGED <<session, inbox, ackIdx, handled, toClient, sent>>
      PROVE  ClientMoves
  <2> DEFINE q == packet(kind)
  <2>1. q.stamp = sent /\ q.ackIdx = ackIdx /\ q.ack = session.ack
    BY Zenon DEF ControlPacket
  <2>2. SendPackets({q})
    BY <1>2
  <2> HIDE DEF q
  <2>3. toPeer' \subseteq toPeer \cup {q}
    BY <2>2, SendPacketsSubset, Zenon
  <2>4. \A p \in toPeer' :
          p \in toPeer \/ (p.stamp = sent /\ p.ackIdx = ackIdx' /\ p.ack = session'.ack)
    BY <1>2, <2>1, <2>3, Zenon
  <2> QED  BY <1>2, <2>4, QuietMoves, Zenon
<1>3. CASE KeepAlive
  BY <1>2, <1>3, Zenon DEF KeepAlive
<1>4. CASE Disconnect
  BY <1>2, <1>4, Zenon DEF Disconnect
<1> QED  BY <1>1, <1>3, <1>4

\* Handling the chunk at the head of the inbox, with ack kept or advanced.
LEMMA HandleMoves ==
    ASSUME Inv, UNCHANGED peerVars, inbox # <<>>,
           NEW ss \in Sessions, NEW resend \in BOOLEAN, NEW index \in Nat,
           HandleMessage(Head(inbox), ss, resend, index),
           \/ index = ackIdx /\ ss.ack = session.ack
           \/ /\ index = ackIdx + 1 /\ ackIdx < sent /\ ss.ack = NextSeq(session.ack)
              /\ Head(inbox).vital /\ Head(inbox).idx = index
    PROVE  ClientMoves
<1> DEFINE c == Head(inbox)
<1>1. /\ inbox' = Tail(inbox) /\ ackIdx' = index
      /\ handled' = (IF c.vital THEN handled \cup {c.idx} ELSE handled)
      /\ toClient' = toClient /\ sent' = sent
  BY Zenon DEF HandleMessage
<1>2. /\ session'.ack = ss.ack
      /\ \A p \in toPeer' :
            p \in toPeer \/ (p.stamp = sent /\ p.ackIdx = ackIdx' /\ p.ack = session'.ack)
  <2>1. CASE c.kind \in DOMAIN Reply
    <3> DEFINE q == VitalPacket(Reply[c.kind], session', resend, index)
    <3>1. session' = CountVital(ss) /\ SendPackets({q})
      BY <2>1, Zenon DEF HandleMessage
    <3>2. q.stamp = sent /\ q.ackIdx = index /\ q.ack = session'.ack
      BY Zenon DEF VitalPacket
    <3>3. session'.ack = ss.ack
      BY <3>1, CountVitalKeepsAck
    <3> HIDE DEF q
    <3>4. toPeer' \subseteq toPeer \cup {q}
      BY <3>1, SendPacketsSubset, Zenon
    <3> QED  BY <1>1, <3>2, <3>3, <3>4, Zenon
  <2>2. CASE c.kind \notin DOMAIN Reply
    BY <2>2, Zenon DEF HandleMessage
  <2> QED  BY <2>1, <2>2
<1>3. \A j \in DOMAIN inbox' :
        \E n \in sent - MaxLag .. sent : ChunkInStep(inbox'[j], n)
  <2>1. inbox \in Seq(Chunks)
    BY InvParts, Zenon DEF TypeOK
  <2> QED  BY <1>1, <2>1, HeadTailType, InvParts, Zenon DEF InboxInStep
<1>4. 1 .. ackIdx' \subseteq handled'
  <2>1. 1 .. ackIdx \subseteq handled /\ ackIdx \in Nat
    BY InvParts, InvTypes
  <2>2. handled \subseteq handled'
    BY <1>1, Zenon
  <2>3. CASE index = ackIdx
    BY <1>1, <2>1, <2>2, <2>3, Zenon
  <2>4. CASE index = ackIdx + 1 /\ c.vital /\ c.idx = index
    <3>1. 1 .. index = (1 .. ackIdx) \cup {index}
      BY <2>1, <2>4, SMT
    <3>2. index \in handled'
      BY <1>1, <2>4, Zenon
    <3> QED  BY <1>1, <2>1, <2>2, <3>1, <3>2, Zenon
  <2> QED  BY <2>3, <2>4
<1> QED  BY <1>1, <1>2, <1>3, <1>4, Zenon DEF ClientMoves

\* The chunk at the head of the inbox is in step: what its number tells.
LEMMA HeadPlace ==
    ASSUME Inv, inbox # <<>>, Head(inbox).vital
    PROVE  /\ Head(inbox).idx \in Nat \ {0} /\ Head(inbox).idx <= sent
           /\ InSequence(Head(inbox)) <=> Head(inbox).idx = ackIdx + 1
           /\ SeqInBackroom(Head(inbox).sequence, session.ack) <=> Head(inbox).idx <= ackIdx
<1>1. Head(inbox) \in Chunks /\ 1 \in DOMAIN inbox /\ Head(inbox) = inbox[1]
  BY HeadTailType, InvParts, Zenon DEF TypeOK
<1>2. PICK n \in sent - MaxLag .. sent : ChunkInStep(Head(inbox), n)
  BY <1>1, InvParts, Zenon DEF InboxInStep
<1>3. n \in Int /\ n <= sent /\ sent - n <= MaxLag
  BY <1>2, InvParts, InvTypes, ConstantFacts, SMT
<1> QED  BY <1>1, <1>2, <1>3, InvParts, ChunkPlace, Zenon

\* twclient_on_chunk: a chunk is accepted only when its message is the next.
LEMMA OnChunkMoves ==
    ASSUME Inv, OnChunk, UNCHANGED peerVars
    PROVE  ClientMoves
<1> DEFINE c == Head(inbox)
           next == [session EXCEPT !.ack = NextSeq(session.ack)]
<1>1. inbox # <<>> /\ c \in Chunks /\ TypeOK
  BY InvParts, OnChunkCases, Zenon
<1>2. /\ session \in Sessions /\ next \in Sessions /\ next.ack = NextSeq(session.ack)
      /\ request_resend \in BOOLEAN /\ ackIdx \in Nat /\ sent \in Nat
  BY <1>1, NextSeqIsShift, SMT DEF TypeOK, Sessions
<1>3. CASE DropKnown
  <2>1. /\ inbox' = Tail(inbox)
        /\ UNCHANGED <<session, ackIdx, handled, toClient, toPeer, sent>>
    BY <1>3, Zenon DEF DropKnown
  <2>2. \A j \in DOMAIN inbox' :
          \E n \in sent - MaxLag .. sent : ChunkInStep(inbox'[j], n)
    <3>1. inbox \in Seq(Chunks)
      BY <1>1, Zenon DEF TypeOK
    <3> QED  BY <1>1, <2>1, <3>1, HeadTailType, InvParts, Zenon DEF InboxInStep
  <2> QED  BY <2>1, <2>2, InvParts, Zenon DEF ClientMoves
<1>4. CASE c.vital /\ InSequence(c) /\ HandleMessage(c, next, request_resend, c.idx)
  <2>1. c.idx = ackIdx + 1 /\ c.idx <= sent
    BY <1>1, <1>4, HeadPlace, Zenon
  <2>2. c.idx \in Nat /\ ackIdx < sent
    BY <1>2, <2>1, SMT
  <2> HIDE DEF next
  <2> QED  BY <1>1, <1>2, <1>4, <2>1, <2>2, HandleMoves, Zenon
<1>5. CASE \/ HandleMessage(c, session, TRUE, ackIdx)
           \/ HandleMessage(c, session, request_resend, ackIdx)
  BY <1>1, <1>2, <1>5, HandleMoves, Zenon
<1> QED  BY <1>1, <1>3, <1>4, <1>5, OnChunkCases, Zenon

\* The actions of the client keep the invariant.
LEMMA ClientNextInv ==
    ASSUME Inv, ClientNext, UNCHANGED peerVars
    PROVE  Inv'
<1>1. ClientMoves
  BY OnPacketMoves, OnChunkMoves, RestOfLoopMoves, Zenon DEF ClientNext
<1>2. TypeOK'
  BY InvParts, OnPacketType, OnChunkType, RestOfLoopType, Zenon DEF ClientNext
<1> QED  BY <1>1, <1>2, ClientMovesInv

----------------------------------------------------------------------------
(* The actions of the peer leave the client's ack alone.                   *)

\* A step that sends no vital message: what it may change of the peer.
LEMMA PeerQuiet ==
    ASSUME Inv, TypeOK', UNCHANGED <<clientVars, sent, peerSequence, buffer, confirmed>>,
           peerStatus = "listening" \/ peerStatus' # "listening",
           toPeer' \subseteq toPeer,
           \A p \in toClient' : p \in toClient \/ PacketInStep(p)
    PROVE  Inv'
<1>1. /\ session' = session /\ ackIdx' = ackIdx /\ inbox' = inbox /\ handled' = handled
      /\ sent' = sent /\ peerSequence' = peerSequence /\ buffer' = buffer
      /\ confirmed' = confirmed
  BY Zenon DEF clientVars
<1>2. InStep'
  BY <1>1, InvParts, Zenon DEF InStep, NumberOf
<1>3. BufferInStep' /\ InboxInStep'
  BY <1>1, InvParts, Zenon DEF BufferInStep, InboxInStep, ChunkInStep, NumberOf
<1>4. \A p \in toClient' : PacketInStep(p)'
  BY <1>1, InvParts, Zenon DEF PacketInStep, ChunkInStep, NumberOf
<1>5. \A p \in toPeer' : AckInStep(p)'
  BY <1>1, InvParts, Zenon DEF AckInStep, NumberOf
<1>6. AckedWereHandled' /\ BufferIsUnconfirmed'
  BY <1>1, Zenon DEF Inv, AckedWereHandled, BufferIsUnconfirmed
<1> QED  BY <1>2, <1>3, <1>4, <1>5, <1>6, Zenon DEF Inv, NumbersInStep

\* A packet of chunks that the peer sends now.
LEMMA FreshPacketInStep ==
    ASSUME TypeOK, NEW kind, NEW chunks,
           kind = "CONNECTACCEPT" => sent = 0,
           \A j \in DOMAIN chunks : ChunkInStep(chunks[j], sent)
    PROVE  PacketInStep(Packet(kind, chunks))
<1>1. /\ Packet(kind, chunks).stamp = sent /\ Packet(kind, chunks).kind = kind
      /\ Packet(kind, chunks).chunks = chunks
  BY Zenon DEF Packet
<1>2. sent <= sent /\ sent - sent <= MaxLag
  BY InvTypes, ConstantFacts, SMT
<1> QED  BY <1>1, <1>2, Zenon DEF PacketInStep

\* An ack removes from the buffer just the messages it stands for.
LEMMA PeerRecvOnlineInv ==
    ASSUME Inv, TypeOK', NEW p \in toPeer, PeerRecvOnline(p)
    PROVE  Inv'
<1>1. /\ UNCHANGED <<clientVars, toClient, sent, peerSequence>>
      /\ buffer' = {c \in buffer : ~SeqInBackroom(c.sequence, p.ack)}
      /\ confirmed' = IF p.ackIdx > confirmed THEN p.ackIdx ELSE confirmed
      /\ toPeer' \subseteq toPeer /\ peerStatus' # "listening"
  BY PeerRecvFacts, SMT DEF PeerRecvOnline, Forget
<1>2. /\ session' = session /\ ackIdx' = ackIdx /\ inbox' = inbox /\ handled' = handled
      /\ sent' = sent /\ peerSequence' = peerSequence /\ toClient' = toClient
  BY <1>1, Zenon DEF clientVars
<1>3. /\ sent \in Nat /\ ackIdx \in Nat /\ confirmed \in Nat /\ p.ackIdx \in Nat
      /\ p.ackIdx <= ackIdx /\ confirmed <= ackIdx /\ ackIdx <= sent
      /\ \A c \in buffer : c.idx \in Nat
  BY InvParts, InvTypes, AckPlace, Zenon DEF InStep
<1>4. buffer' = {c \in buffer : ~(c.idx <= p.ackIdx)}
  <2>1. \A c \in buffer : SeqInBackroom(c.sequence, p.ack) <=> c.idx <= p.ackIdx
    BY InvParts, AckMeansIndex
  <2> QED  BY <1>1, <2>1, Zenon
<1>5. {c.idx : c \in buffer'} = {i \in {c.idx : c \in buffer} : ~(i <= p.ackIdx)}
  BY <1>4, SMT
<1>6. {c.idx : c \in buffer'} = confirmed' + 1 .. sent
  <2>1. {c.idx : c \in buffer'} = {i \in confirmed + 1 .. sent : ~(i <= p.ackIdx)}
    BY <1>5, InvParts, Zenon
  <2>2. {i \in confirmed + 1 .. sent : ~(i <= p.ackIdx)} = confirmed' + 1 .. sent
    BY <1>1, <1>3, SMT
  <2> QED  BY <2>1, <2>2, Zenon
<1>7. confirmed' <= ackIdx
  BY <1>1, <1>3, SMT
<1>8. InStep'
  BY <1>1, <1>2, InvParts, Zenon DEF InStep, NumberOf
<1>9. BufferInStep' /\ InboxInStep'
  BY <1>2, <1>4, InvParts, Zenon DEF BufferInStep, InboxInStep, ChunkInStep, NumberOf
<1>10. \A q \in toClient' : PacketInStep(q)'
  BY <1>2, InvParts, Zenon DEF PacketInStep, ChunkInStep, NumberOf
<1>11. \A q \in toPeer' : AckInStep(q)'
  BY <1>1, <1>2, InvParts, Zenon DEF AckInStep, NumberOf
<1>12. AckedWereHandled' /\ BufferIsUnconfirmed'
  BY <1>2, <1>6, <1>7, Zenon DEF Inv, AckedWereHandled, BufferIsUnconfirmed
<1> QED  BY <1>8, <1>9, <1>10, <1>11, <1>12, Zenon DEF Inv, NumbersInStep

\* A new message extends the stream, its number and the buffer together.
LEMMA PeerSendVitalInv ==
    ASSUME Inv, TypeOK', NEW kind \in Kinds, PeerSendVital(kind)
    PROVE  Inv'
<1>1. PICK c, p, n :
         /\ n = sent + 1 /\ inbox = <<>> /\ peerStatus = "online"
         /\ c = [vital |-> TRUE, sequence |-> NextSeq(peerSequence), kind |-> kind, idx |-> n]
         /\ p = [Packet("NORMAL", <<c>>) EXCEPT !.stamp = n]
         /\ \A b \in buffer : n - b.idx < Window
         /\ sent' = n /\ peerSequence' = NextSeq(peerSequence) /\ buffer' = buffer \cup {c}
         /\ toClient' \in Surviving(Fresh(toClient, n) \cup {p}, CapToClient)
         /\ toPeer' = Fresh(toPeer, n)
         /\ UNCHANGED <<clientVars, peerStatus, peerAck, confirmed>>
  <2> DEFINE n == sent + 1
             c == [vital |-> TRUE, sequence |-> NextSeq(peerSequence), kind |-> kind, idx |-> n]
             p == [Packet("NORMAL", <<c>>) EXCEPT !.stamp = n]
  <2>1. n = sent + 1
    OBVIOUS
  <2>2. c = [vital |-> TRUE, sequence |-> NextSeq(peerSequence), kind |-> kind, idx |-> n]
    OBVIOUS
  <2>3. p = [Packet("NORMAL", <<c>>) EXCEPT !.stamp = n]
    OBVIOUS
  <2>4. /\ sent' = n /\ peerSequence' = NextSeq(peerSequence) /\ buffer' = buffer \cup {c}
        /\ inbox = <<>> /\ peerStatus = "online"
        /\ UNCHANGED <<clientVars, peerStatus, peerAck, confirmed>>
    BY Zenon DEF PeerSendVital, PeerTurn
  <2>7. \A b \in buffer : n - b.idx < Window
    <3>1. WindowOpen
      BY Zenon DEF PeerSendVital
    <3> QED  BY <3>1 DEF WindowOpen
  <2>5. toClient' \in Surviving(Fresh(toClient, n) \cup {p}, CapToClient)
    BY <2>4, Zenon DEF PeerSendVital
  <2>6. toPeer' = Fresh(toPeer, n)
    BY <2>4, Zenon DEF PeerSendVital
  <2> HIDE DEF n, c, p
  <2> QED  BY <2>1, <2>2, <2>3, <2>4, <2>5, <2>6, <2>7, Zenon
<1>2. c.vital /\ c.idx = n /\ c.sequence = NextSeq(peerSequence)
  BY <1>1, Zenon
<1>3. p = [kind |-> "NORMAL", token |-> PeerToken, chunks |-> <<c>>, stamp |-> n]
  <2>1. p = [[kind |-> "NORMAL", token |-> PeerToken, chunks |-> <<c>>, stamp |-> sent]
               EXCEPT !.stamp = n]
    BY <1>1, Zenon DEF Packet
  <2> QED  BY <2>1, SMT
<1>4. p.stamp = n /\ p.kind = "NORMAL" /\ p.chunks = <<c>>
  BY <1>3, Zenon
<1>5. /\ session' = session /\ ackIdx' = ackIdx /\ inbox' = inbox /\ handled' = handled
      /\ peerStatus' = peerStatus /\ confirmed' = confirmed
  BY <1>1, Zenon DEF clientVars
<1>6. /\ sent \in Nat /\ ackIdx \in Nat /\ confirmed \in Nat /\ session.ack \in SeqNumbers
      /\ confirmed <= ackIdx /\ ackIdx <= sent /\ sent - ackIdx <= Window
      /\ peerSequence = Shift(session.ack, sent - ackIdx)
      /\ \A b \in buffer : b.idx \in Nat
  BY InvParts, InvTypes, Zenon DEF InStep, NumberOf
<1>7. n - ackIdx <= Window
  <2>1. CASE ackIdx = sent
    BY <1>1, <1>6, <2>1, ConstantFacts, SMT
  <2>2. CASE ackIdx # sent
    <3>1. ackIdx + 1 \in confirmed + 1 .. sent
      BY <1>6, <2>2, SMT
    <3>2. PICK b \in buffer : b.idx = ackIdx + 1
      BY <3>1, InvParts, Zenon
    <3>3. n - (ackIdx + 1) < Window /\ n = sent + 1
      BY <1>1, <3>2, Zenon
    <3> QED  BY <1>6, <3>3, ConstantFacts, SMT
  <2> QED  BY <2>1, <2>2
<1>8. c.sequence = Shift(session.ack, n - ackIdx)
  <2> DEFINE d == sent - ackIdx
  <2>1. /\ d \in Int /\ -MaxSequence < d /\ d < MaxSequence
        /\ 1 \in Int /\ -MaxSequence < 1 /\ 1 < MaxSequence
        /\ -MaxSequence < d + 1 /\ d + 1 < MaxSequence /\ d + 1 = n - ackIdx
    <3>1. n = sent + 1
      BY <1>1
    <3> QED  BY <1>6, <1>7, <3>1, ConstantFacts, MaxSequenceAssumption, SMT
  <2> HIDE DEF d
  <2>2. Shift(session.ack, d) \in SeqNumbers
        /\ Shift(Shift(session.ack, d), 1) = Shift(session.ack, d + 1)
    BY <1>6, <2>1, ShiftCompose
  <2>3. NextSeq(Shift(session.ack, d)) = Shift(Shift(session.ack, d), 1)
    BY <2>2, NextSeqIsShift
  <2> QED  BY <1>2, <1>6, <2>1, <2>2, <2>3 DEF d
<1>9. InStep'
  <2>1. ackIdx <= n
    BY <1>1, <1>6, SMT
  <2>2. peerSequence' = NumberOf(sent)'
    BY <1>1, <1>2, <1>5, <1>8, Zenon DEF NumberOf
  <2>3. peerStatus' # "listening"
    BY <1>1, <1>5
  <2> QED  BY <1>1, <1>5, <1>7, <2>1, <2>2, <2>3, InvParts, Zenon DEF InStep
<1>10. ChunkInStep(c, n)'
  <2>1. n \in Nat \ {0} /\ n <= n /\ n - n < Window
    BY <1>1, <1>6, ConstantFacts, SMT
  <2> QED  BY <1>2, <1>5, <1>8, <2>1, Zenon DEF ChunkInStep, NumberOf
<1>11. BufferInStep'
  <2>1. ASSUME NEW b \in buffer PROVE b.vital /\ ChunkInStep(b, n)'
    <3>1. /\ b.vital /\ b.idx \in Nat \ {0} /\ b.idx <= sent /\ b.sequence = NumberOf(b.idx)
      BY InvParts, Zenon DEF BufferInStep, ChunkInStep
    <3>2. b.idx <= n /\ n - b.idx < Window
      BY <1>1, <1>6, <3>1, SMT
    <3> QED  BY <1>5, <3>1, <3>2, Zenon DEF ChunkInStep, NumberOf
  <2>2. \A b \in buffer' : b.vital /\ ChunkInStep(b, n)'
    BY <1>1, <1>2, <1>10, <2>1, Zenon
  <2> QED  BY <1>1, <2>2, Zenon DEF BufferInStep, ChunkInStep
<1>12. InboxInStep'
  BY <1>1, <1>5, NoChunks, Zenon DEF InboxInStep
<1>13. ASSUME NEW q \in toClient' PROVE PacketInStep(q)'
  <2>1. q \in Fresh(toClient, n) \/ q = p
    BY <1>1, <1>13, Zenon DEF Surviving
  <2>2. CASE q \in Fresh(toClient, n)
    <3>1. q \in toClient /\ n - q.stamp <= MaxLag /\ PacketInStep(q) /\ q.stamp \in Nat
      BY <1>1, <2>2, InvParts, InvTypes, Zenon DEF Fresh
    <3>2. q.stamp <= n
      BY <1>1, <1>6, <3>1, SMT DEF PacketInStep
    <3> QED  BY <1>1, <1>5, <3>1, <3>2, Zenon DEF PacketInStep, ChunkInStep, NumberOf
  <2>3. CASE q = p
    <3>1. q.stamp <= n /\ n - q.stamp <= MaxLag /\ q.kind # "CONNECTACCEPT"
      BY <1>1, <1>4, <1>6, <2>3, ConstantFacts, SMT
    <3>2. \A j \in DOMAIN q.chunks : q.chunks[j] = c
      BY <1>4, <2>3, SMT
    <3>3. \A j \in DOMAIN q.chunks : ChunkInStep(q.chunks[j], q.stamp)'
      BY <1>4, <1>10, <2>3, <3>2, Zenon DEF ChunkInStep
    <3> QED  BY <1>1, <3>1, <3>3, Zenon DEF PacketInStep
  <2> QED  BY <2>1, <2>2, <2>3
<1>14. ASSUME NEW q \in toPeer' PROVE AckInStep(q)'
  <2>1. q \in toPeer /\ n - q.stamp <= MaxLag /\ AckInStep(q) /\ q.stamp \in Nat
    BY <1>1, <1>14, InvParts, InvTypes, Zenon DEF Fresh
  <2>2. q.stamp <= n
    BY <1>1, <1>6, <2>1, SMT DEF AckInStep
  <2> QED  BY <1>1, <1>5, <2>1, <2>2, Zenon DEF AckInStep, NumberOf
<1>15. AckedWereHandled'
  <2>1. ackIdx <= n
    BY <1>1, <1>6, SMT
  <2> QED  BY <1>1, <1>5, <2>1, InvParts, Zenon DEF AckedWereHandled
<1>16. BufferIsUnconfirmed'
  <2>1. {b.idx : b \in buffer'} = {b.idx : b \in buffer} \cup {n}
    BY <1>1, <1>2, SMT
  <2>2. (confirmed + 1 .. sent) \cup {n} = confirmed + 1 .. n
    BY <1>1, <1>6, SMT
  <2> QED  BY <1>1, <1>5, <1>6, <2>1, <2>2, InvParts, Zenon DEF BufferIsUnconfirmed
<1> QED  BY <1>9, <1>11, <1>12, <1>13, <1>14, <1>15, <1>16, Zenon DEF Inv, NumbersInStep

\* The actions of the peer keep the invariant.
LEMMA PeerNextInv ==
    ASSUME Inv, PeerNext
    PROVE  Inv'
<1>1. TypeOK' /\ TypeOK
  BY InvParts, PeerNextType, Zenon
<1>2. ASSUME NEW p \in toPeer, PeerRecvConnect(p)
      PROVE  Inv'
  <2> DEFINE q == Packet("CONNECTACCEPT", <<>>)
  <2>1. /\ peerStatus = "listening" /\ toPeer' \subseteq toPeer
        /\ UNCHANGED <<clientVars, sent, peerVars>> /\ PeerSend(q)
    BY <1>2, PeerRecvFacts, Zenon DEF PeerRecvConnect
  <2>2. PacketInStep(q)
    <3>1. sent = 0
      BY <2>1, InvParts, Zenon DEF InStep
    <3>2. \A j \in DOMAIN <<>> : ChunkInStep(<<>>[j], sent)
      BY NoChunks, Zenon
    <3> QED  BY <1>1, <3>1, <3>2, FreshPacketInStep, Zenon
  <2> HIDE DEF q
  <2>3. \A p_1 \in toClient' : p_1 \in toClient \/ PacketInStep(p_1)
    BY <2>1, <2>2, PeerSendFacts, Zenon
  <2> QED  BY <1>1, <2>1, <2>3, PeerQuiet, Zenon DEF peerVars
<1>3. ASSUME NEW p \in toPeer, PeerRecvOnline(p)
      PROVE  Inv'
  BY <1>1, <1>3, PeerRecvOnlineInv
<1>4. ASSUME NEW kind \in Kinds, PeerSendVital(kind)
      PROVE  Inv'
  BY <1>1, <1>4, PeerSendVitalInv
<1>5. ASSUME NEW batch \in Batches, PeerResend(batch)
      PROVE  Inv'
  <2> DEFINE q == Packet("NORMAL", batch)
  <2>1. PeerSend(q) /\ UNCHANGED <<clientVars, toPeer, sent, peerVars>>
    BY <1>5, Zenon DEF PeerResend
  <2>2. PacketInStep(q)
    <3>1. \A j \in DOMAIN batch : ChunkInStep(batch[j], sent)
      BY <1>1, <1>5, BatchFacts, InvParts, Zenon DEF BufferInStep
    <3> QED  BY <1>1, <3>1, FreshPacketInStep, Zenon
  <2> HIDE DEF q
  <2>3. \A p \in toClient' : p \in toClient \/ PacketInStep(p)
    BY <2>1, <2>2, PeerSendFacts, Zenon
  <2> QED  BY <1>1, <2>1, <2>3, PeerQuiet, Zenon DEF peerVars
<1>6. ASSUME NEW kind \in LooseKinds, PeerSendNonVital(kind)
      PROVE  Inv'
  <2>1. PICK c : ~c.vital /\ PeerSend(Packet("NORMAL", <<c>>))
                 /\ UNCHANGED <<clientVars, toPeer, sent, peerVars>>
    <3> DEFINE c == [vital |-> FALSE, sequence |-> 0, kind |-> kind, idx |-> 0]
    <3>1. ~c.vital
      BY Zenon
    <3>2. PeerSend(Packet("NORMAL", <<c>>)) /\ UNCHANGED <<clientVars, toPeer, sent, peerVars>>
      BY <1>6, Zenon DEF PeerSendNonVital
    <3> HIDE DEF c
    <3> QED  BY <3>1, <3>2
  <2>2. PacketInStep(Packet("NORMAL", <<c>>))
    <3>1. \A j \in DOMAIN <<c>> : <<c>>[j] = c
      BY SMT
    <3>2. \A j \in DOMAIN <<c>> : ChunkInStep(<<c>>[j], sent)
      BY <2>1, <3>1, Zenon DEF ChunkInStep
    <3> QED  BY <1>1, <3>2, FreshPacketInStep, Zenon
  <2>3. \A p \in toClient' : p \in toClient \/ PacketInStep(p)
    BY <2>1, <2>2, PeerSendFacts, Zenon
  <2> QED  BY <1>1, <2>1, <2>3, PeerQuiet, Zenon DEF peerVars
<1>7. ASSUME NEW kind \in Noise, PeerSendNoise(kind)
      PROVE  Inv'
  <2> DEFINE q == Packet(kind, <<>>)
  <2>1. /\ peerStatus = "online" /\ PeerSend(q)
        /\ UNCHANGED <<clientVars, toPeer, sent, buffer, peerSequence, peerAck, confirmed>>
    BY <1>7, Zenon DEF PeerSendNoise
  <2>2. peerStatus' # "listening"
    BY <1>7, SMT DEF PeerSendNoise
  <2>3. PacketInStep(q)
    <3>1. kind # "CONNECTACCEPT"
      BY ConstantFacts, Zenon
    <3>2. \A j \in DOMAIN <<>> : ChunkInStep(<<>>[j], sent)
      BY NoChunks, Zenon
    <3> QED  BY <1>1, <3>1, <3>2, FreshPacketInStep, Zenon
  <2> HIDE DEF q
  <2>4. \A p \in toClient' : p \in toClient \/ PacketInStep(p)
    BY <2>1, <2>3, PeerSendFacts, Zenon
  <2> QED  BY <1>1, <2>1, <2>2, <2>4, PeerQuiet, Zenon
<1> QED  BY <1>2, <1>3, <1>4, <1>5, <1>6, <1>7, Zenon DEF PeerNext

----------------------------------------------------------------------------
(* The theorems *)

\* The invariant holds at the start.
LEMMA InvInit == Init => Inv
<1> SUFFICES ASSUME Init PROVE Inv
  OBVIOUS
<1>1. TypeOK
  BY TypeInit
<1>2. /\ sent = 0 /\ ackIdx = 0 /\ session.ack = 0 /\ peerSequence = 0 /\ confirmed = 0
      /\ buffer = {} /\ toClient = {} /\ inbox = <<>>
  BY SMT DEF Init, ClientInit
<1>3. Shift(0, 0 - 0) = 0 /\ 0 - 0 <= Window /\ 0 - 0 <= MaxLag /\ 0 <= 0
  BY ConstantFacts, ShiftToOrigin, SMT
<1>4. InStep
  BY <1>2, <1>3, Zenon DEF InStep, NumberOf
<1>5. BufferInStep /\ InboxInStep /\ \A p \in toClient : PacketInStep(p)
  BY <1>2, NoChunks, Zenon DEF BufferInStep, InboxInStep
<1>6. ASSUME NEW p \in toPeer PROVE AckInStep(p)
  <2>1. p = ControlPacket("CONNECT", session, FALSE, 0, 0)
    BY Zenon DEF Init, ClientInit
  <2>2. p.stamp = 0 /\ p.ackIdx = 0 /\ p.ack = 0
    BY <1>2, <2>1, Zenon DEF ControlPacket
  <2> QED  BY <1>2, <1>3, <2>2, Zenon DEF AckInStep, NumberOf
<1>7. AckedWereHandled /\ BufferIsUnconfirmed
  <2>1. 1 .. 0 = {} /\ 0 + 1 .. 0 = {}
    BY SMT
  <2> QED  BY <1>2, <1>3, <2>1, Zenon DEF AckedWereHandled, BufferIsUnconfirmed
<1> QED  BY <1>1, <1>4, <1>5, <1>6, <1>7, Zenon DEF Inv, NumbersInStep

\* Every step keeps the invariant.
LEMMA InvStep == Inv /\ [Next]_vars => Inv'
<1> SUFFICES ASSUME Inv, [Next]_vars PROVE Inv'
  OBVIOUS
<1>1. CASE ClientNext /\ UNCHANGED peerVars
  BY <1>1, ClientNextInv
<1>2. CASE PeerNext
  BY <1>2, PeerNextInv
<1>3. CASE UNCHANGED vars
  <2>1. /\ UNCHANGED clientVars /\ toClient' = toClient /\ toPeer' = toPeer
        /\ sent' = sent /\ UNCHANGED peerVars
    BY <1>3, Zenon DEF vars
  <2>2. TypeOK'
    BY <2>1, InvParts, TypeStep, <1>3
  <2> QED  BY <2>1, <2>2, InvParts, PeerQuiet, Zenon DEF peerVars
<1> QED  BY <1>1, <1>2, <1>3, Zenon DEF Next

(* The inductive invariant: every number in flight is read as the message  *)
(* it was written for, whatever the constants, as long as a window and the *)
(* lag of the network together are less than half the sequence numbers.    *)
THEOREM InvHolds == Spec => []Inv
BY InvInit, InvStep, PTL DEF Spec

(* Every number in flight stays in step with the client's ack.             *)
THEOREM NumbersStayInStep == Spec => []NumbersInStep
<1>1. Inv => NumbersInStep
  BY Zenon DEF Inv
<1> QED  BY <1>1, InvHolds, PTL

(* No message the client has acknowledged was skipped.                     *)
THEOREM AckedAreHandled == Spec => []AckedWereHandled
<1>1. Inv => AckedWereHandled
  BY Zenon DEF Inv
<1> QED  BY <1>1, InvHolds, PTL

(* The peer keeps a message for resending until the client has it.         *)
THEOREM UnconfirmedAreKept == Spec => []BufferIsUnconfirmed
<1>1. Inv => BufferIsUnconfirmed
  BY Zenon DEF Inv
<1> QED  BY <1>1, InvHolds, PTL

-----------------------------------------------------------------------------
(* What a step may do, and the stream: the action properties, and that the *)
(* connection implements ReliableStream.  All follow from the inductive    *)
(* invariant.                                                              *)

\* While there are chunks in the inbox only twclient_on_chunk runs.
LEMMA OnlyOnChunk ==
    ASSUME Next, inbox # <<>>
    PROVE  OnChunk /\ UNCHANGED peerVars
<1>1. ~PeerNext
  <2>1. \A p \in toPeer : ~PeerRecvConnect(p) /\ ~PeerRecvOnline(p)
    BY Zenon DEF PeerRecvConnect, PeerRecvOnline, PeerRecv, PeerTurn
  <2>2. \A kind : ~PeerSendVital(kind) /\ ~PeerSendNonVital(kind) /\ ~PeerSendNoise(kind)
    BY Zenon DEF PeerSendVital, PeerSendNonVital, PeerSendNoise, PeerTurn
  <2>3. \A batch : ~PeerResend(batch)
    BY Zenon DEF PeerResend, PeerTurn
  <2> QED  BY <2>1, <2>2, <2>3, Zenon DEF PeerNext
<1>2. ~OnPacket
  BY Zenon DEF OnPacket, RecvConnectAccept, RecvNormal, RecvClose, RecvUndecodable,
               RecvIgnored, RecvConnless, Recv, AtLoop
<1>3. ~Tick /\ ~KeepAlive /\ ~Disconnect
  BY Zenon DEF Tick, KeepAlive, Disconnect, AtLoop
<1> QED  BY <1>1, <1>2, <1>3, Zenon DEF Next, ClientNext

\* The actions of the peer leave the client alone.
LEMMA PeerKeepsClient ==
    ASSUME PeerNext
    PROVE  UNCHANGED clientVars
BY Zenon DEF PeerNext, PeerRecvConnect, PeerRecvOnline, PeerSendVital, PeerResend,
             PeerSendNonVital, PeerSendNoise

\* Every action of the client moves the numbers as ClientMoves allows.
LEMMA ClientNextMoves ==
    ASSUME Inv, ClientNext, UNCHANGED peerVars
    PROVE  ClientMoves
BY OnPacketMoves, OnChunkMoves, RestOfLoopMoves, Zenon DEF ClientNext

\* How the two ends of the stream move in a step.
LEMMA AckStep ==
    ASSUME Inv, [Next]_vars
    PROVE  \/ ackIdx' = ackIdx /\ session'.ack = session.ack
           \/ /\ ackIdx' = ackIdx + 1 /\ ackIdx < sent
              /\ session'.ack = NextSeq(session.ack)
              /\ UNCHANGED <<sent, confirmed>>
<1>1. CASE ClientNext /\ UNCHANGED peerVars
  BY <1>1, ClientNextMoves, Zenon DEF ClientMoves, peerVars
<1>2. CASE PeerNext
  BY <1>2, PeerKeepsClient, Zenon DEF clientVars
<1>3. CASE UNCHANGED vars
  BY <1>3, Zenon DEF vars, clientVars
<1> QED  BY <1>1, <1>2, <1>3, Zenon DEF Next

(* AcceptsInOrder: in twclient_on_chunk ack moves only to the next message *)
(* of the stream, whatever the network does and wherever the numbers wrap. *)
THEOREM AcceptedInOrder == Spec => AcceptsInOrder
<1>1. Inv /\ [Next]_vars =>
        [/\ ackIdx' # ackIdx => ackIdx' = ackIdx + 1
         /\ session.ack' # session.ack => ackIdx' # ackIdx]_vars
  <2>1. SUFFICES ASSUME Inv, [Next]_vars
                 PROVE  /\ ackIdx' # ackIdx => ackIdx' = ackIdx + 1
                        /\ session.ack' # session.ack => ackIdx' # ackIdx
    BY Zenon
  <2>2. ackIdx \in Nat
    BY <2>1, InvParts, Zenon DEF TypeOK
  <2>3. ackIdx + 1 # ackIdx
    BY <2>2, SMT
  <2> QED  BY <2>1, <2>3, AckStep, Zenon
<1> QED  BY <1>1, InvHolds, PTL DEF Spec, AcceptsInOrder

\* A vital chunk is treated by where its message is in the stream.
LEMMA ChunkStepCases ==
    ASSUME Inv, Next, inbox # <<>>, Head(inbox).vital
    PROVE  \/ Head(inbox).idx <= ackIdx /\ DropKnown
           \/ /\ Head(inbox).idx = ackIdx + 1
              /\ \E ss : HandleMessage(Head(inbox), ss, request_resend, Head(inbox).idx)
           \/ /\ ~(Head(inbox).idx <= ackIdx) /\ Head(inbox).idx # ackIdx + 1
              /\ HandleMessage(Head(inbox), session, TRUE, ackIdx)
<1>1. OnChunk /\ TypeOK
  BY OnlyOnChunk, InvParts
<1> QED  BY <1>1, OnChunkCases, HeadPlace, Zenon

(* AcceptedHasNoEffect: a message twclient_on_chunk has accepted is not    *)
(* acted on, answered or taken for a gap when it arrives again.            *)
THEOREM AcceptedAgainIsIgnored == Spec => AcceptedHasNoEffect
<1>1. Inv /\ [Next]_vars =>
        [ChunkStep /\ Head(inbox).vital /\ Head(inbox).idx <= ackIdx
           => UNCHANGED <<session, request_resend, handled, toPeer>>]_vars
  <2>1. SUFFICES ASSUME Inv, Next, ChunkStep, Head(inbox).vital, Head(inbox).idx <= ackIdx
                 PROVE  UNCHANGED <<session, request_resend, handled, toPeer>>
    BY Zenon
  <2>2. inbox # <<>>
    BY <2>1, Zenon DEF ChunkStep
  <2>3. Head(inbox).idx # ackIdx + 1
    <3>1. ackIdx \in Nat /\ Head(inbox).idx \in Nat
      BY <2>1, <2>2, InvParts, InvTypes, HeadPlace
    <3> QED  BY <2>1, <3>1, SMT
  <2>4. DropKnown
    BY <2>1, <2>2, <2>3, ChunkStepCases, Zenon
  <2> QED  BY <2>4, Zenon DEF DropKnown
<1> QED  BY <1>1, InvHolds, PTL DEF Spec, AcceptedHasNoEffect

(* NothingNewDropped: whatever twclient_on_chunk drops as known the client *)
(* has acted on.                                                           *)
THEOREM DroppedWasHandled == Spec => NothingNewDropped
<1>1. Inv /\ [Next]_vars =>
        [ChunkStep /\ Head(inbox).vital => Head(inbox).idx \in handled']_vars
  <2>1. SUFFICES ASSUME Inv, Next, ChunkStep, Head(inbox).vital
                 PROVE  Head(inbox).idx \in handled'
    BY Zenon
  <2>2. inbox # <<>>
    BY <2>1, Zenon DEF ChunkStep
  <2>3. CASE Head(inbox).idx <= ackIdx /\ DropKnown
    <3>1. ackIdx \in Nat /\ Head(inbox).idx \in Nat \ {0}
      BY <2>1, <2>2, InvParts, InvTypes, HeadPlace
    <3>2. Head(inbox).idx \in 1 .. ackIdx
      BY <2>3, <3>1, SMT
    <3>3. handled' = handled
      BY <2>3, Zenon DEF DropKnown
    <3> QED  BY <2>1, <3>2, <3>3, InvParts, Zenon
  <2>4. CASE \E ss, resend, index : HandleMessage(Head(inbox), ss, resend, index)
    BY <2>1, <2>4, Zenon DEF HandleMessage
  <2> QED  BY <2>1, <2>2, <2>3, <2>4, ChunkStepCases, Zenon
<1> QED  BY <1>1, InvHolds, PTL DEF Spec, NothingNewDropped

\* An action outside twclient_on_chunk never sets the flag.
LEMMA FlagOnlyOnChunk ==
    ASSUME Next, ~request_resend, request_resend'
    PROVE  inbox # <<>>
<1>1. CASE PeerNext
  BY <1>1, PeerKeepsClient, Zenon DEF clientVars
<1>2. CASE OnPacket
  <2>1. PICK p : \/ RecvConnectAccept(p) \/ RecvNormal(p)
                 \/ RecvClose(p) \/ RecvUndecodable(p) \/ RecvIgnored(p) \/ RecvConnless(p)
    BY <1>2, Zenon DEF OnPacket
  <2>2. ~RecvConnectAccept(p)
    BY SendPacketsSubset, Zenon DEF RecvConnectAccept
  <2> QED  BY <2>1, <2>2, Zenon DEF RecvNormal, RecvClose, RecvUndecodable, Exit,
                                    RecvIgnored, RecvConnless, clientVars
<1>3. CASE OnChunk
  BY <1>3, Zenon DEF OnChunk, AcceptNext, DropKnown, HandleOutOfOrder, HandleNonVital
<1>4. CASE Tick
  BY <1>4, Zenon DEF Tick
<1>5. CASE KeepAlive \/ Disconnect
  BY <1>5, SendPacketsSubset, Zenon DEF KeepAlive, Disconnect
<1> QED  BY <1>1, <1>2, <1>3, <1>4, <1>5, Zenon DEF Next, ClientNext

(* ResendOnlyForGap: the client requests a resend only for a message that  *)
(* is missing.                                                             *)
THEOREM ResendIsForGap == Spec => ResendOnlyForGap
<1>1. Inv /\ [Next]_vars =>
        [~request_resend /\ request_resend'
           => \E i \in ackIdx + 1 .. sent : i < Head(inbox).idx /\ Head(inbox).vital]_vars
  <2>1. SUFFICES ASSUME Inv, Next, ~request_resend, request_resend'
                 PROVE  \E i \in ackIdx + 1 .. sent : i < Head(inbox).idx /\ Head(inbox).vital
    BY Zenon
  <2> DEFINE c == Head(inbox)
  <2>2. inbox # <<>> /\ OnChunk /\ TypeOK /\ ackIdx \in Nat /\ sent \in Nat
    BY <2>1, FlagOnlyOnChunk, OnlyOnChunk, InvParts, InvTypes, Zenon
  <2>3. ASSUME NEW ss, NEW index, HandleMessage(c, ss, request_resend, index)
        PROVE  FALSE
    BY <2>1, <2>3, SendPacketsSubset, Zenon DEF HandleMessage
  <2>4. c.vital
    BY <2>2, <2>3, OnChunkCases, Zenon
  <2>5. ~DropKnown
    BY <2>1, Zenon DEF DropKnown
  <2>6. ~(c.idx <= ackIdx) /\ c.idx # ackIdx + 1
    BY <2>1, <2>2, <2>3, <2>4, <2>5, ChunkStepCases, Zenon
  <2>7. c.idx \in Nat /\ c.idx <= sent
    BY <2>1, <2>2, <2>4, HeadPlace, Zenon
  <2>8. ackIdx + 1 \in ackIdx + 1 .. sent /\ ackIdx + 1 < c.idx
    BY <2>2, <2>6, <2>7, SMT
  <2> QED  BY <2>4, <2>8
<1> QED  BY <1>1, InvHolds, PTL DEF Spec, ResendOnlyForGap

----------------------------------------------------------------------------
(* Whatever uses the flag up has put it into its packets.                  *)

\* What is new in flight to the peer after a sending is what was sent.
LEMMA NewIsSent ==
    ASSUME NEW packets, SendPackets(packets)
    PROVE  toPeer' \ toPeer \subseteq packets
<1>1. toPeer' \subseteq toPeer \cup packets
  BY SendPacketsSubset, Zenon
<1> QED  BY <1>1, Zenon

\* What becomes of the flag when a chunk is handled.
LEMMA FlagOnHandle ==
    ASSUME NEW c, NEW ss, NEW resend, NEW index, resend,
           HandleMessage(c, ss, resend, index), ~request_resend'
    PROVE  \A p \in toPeer' \ toPeer : p.resend
<1>1. c.kind \in DOMAIN Reply
  BY Zenon DEF HandleMessage
<1>2. SendPackets({VitalPacket(Reply[c.kind], session', resend, index)})
  BY <1>1, Zenon DEF HandleMessage
<1>3. VitalPacket(Reply[c.kind], session', resend, index).resend
  BY Zenon DEF VitalPacket
<1>4. toPeer' \ toPeer \subseteq {VitalPacket(Reply[c.kind], session', resend, index)}
  BY <1>2, NewIsSent
<1> QED  BY <1>3, <1>4, Zenon

\* A pending request that is used up, outside the handling of a gap.
LEMMA FlagUsedUp ==
    ASSUME Inv, Next, request_resend, ~request_resend'
    PROVE  \A p \in toPeer' \ toPeer : p.resend \/ p.msg = "INFO"
<1>1. CASE PeerNext
  BY <1>1, PeerKeepsClient, Zenon DEF clientVars
<1>2. CASE OnPacket
  <2>1. PICK p : RecvConnectAccept(p)
    BY <1>2, Zenon DEF OnPacket, RecvNormal, RecvClose, RecvUndecodable, Exit,
                       RecvIgnored, RecvConnless, clientVars
  <2> DEFINE taken   == [session EXCEPT !.token = p.token]
             counted == CountVital(taken)
             accept  == ControlPacket("ACCEPT", taken, request_resend, 0, 0)
             info    == VitalPacket("INFO", counted, FALSE, ackIdx)
  <2>2. SendPackets({accept, info})
    BY <2>1, Zenon DEF RecvConnectAccept
  <2>3. accept.resend /\ info.msg = "INFO"
    <3> HIDE DEF taken, counted
    <3> QED  BY Zenon DEF ControlPacket, VitalPacket
  <2> HIDE DEF taken, counted, accept, info
  <2>4. toPeer' \ toPeer \subseteq {accept, info}
    BY <2>2, NewIsSent
  <2> QED  BY <2>3, <2>4, Zenon
<1>3. CASE OnChunk
  <2>1. \E ss, resend, index :
           resend /\ HandleMessage(Head(inbox), ss, resend, index)
    <3>1. ~DropKnown
      BY Zenon DEF DropKnown
    <3> QED  BY <1>3, <3>1, InvParts, OnChunkCases, Zenon
  <2> QED  BY <2>1, FlagOnHandle, Zenon
<1>4. CASE Tick
  BY <1>4, Zenon DEF Tick
<1>5. ASSUME NEW kind,
             SendPackets({ControlPacket(kind, session, request_resend, session.ack, ackIdx)})
      PROVE  \A p \in toPeer' \ toPeer : p.resend
  <2>1. ControlPacket(kind, session, request_resend, session.ack, ackIdx).resend
    BY Zenon DEF ControlPacket
  <2>2. toPeer' \ toPeer
          \subseteq {ControlPacket(kind, session, request_resend, session.ack, ackIdx)}
    BY <1>5, NewIsSent
  <2> QED  BY <2>1, <2>2, Zenon
<1>6. CASE KeepAlive \/ Disconnect
  BY <1>5, <1>6, Zenon DEF KeepAlive, Disconnect
<1> QED  BY <1>1, <1>2, <1>3, <1>4, <1>6, Zenon DEF Next, ClientNext

\* The answer to a chunk moves the session's count on.
LEMMA CountVitalMoves ==
    ASSUME NEW ss \in Sessions, Uint16 # 1
    PROVE  CountVital(ss).sequence # ss.sequence
<1>1. ss.sequence \in 0 .. Uint16 - 1
  BY SMT DEF Sessions
<1>2. CountVital(ss).sequence = (ss.sequence + 1) % Uint16
  BY SMT DEF CountVital, Sessions
<1>3. (ss.sequence + 1) % Uint16 # ss.sequence
  <2>1. CASE ss.sequence + 1 < Uint16
    BY <1>1, <2>1, ConstantFacts, SMT
  <2>2. CASE ss.sequence + 1 = Uint16
    BY <1>1, <2>2, ConstantFacts, SMT
  <2> QED  BY <1>1, <2>1, <2>2, ConstantFacts, SMT
<1> QED  BY <1>2, <1>3

(* GapIsReported: the request for a resend that a gap gives rise to in     *)
(* twclient_on_chunk stays pending until twclient_send_packet puts it into *)
(* a packet.                                                               *)
THEOREM GapsAreReported == Spec => GapIsReported
<1> DEFINE gap == ChunkStep /\ Head(inbox).vital /\ Head(inbox).idx > ackIdx + 1
<1>1. Inv /\ [Next]_vars =>
        [/\ gap => request_resend' \/ session'.sequence # session.sequence
         /\ (gap \/ request_resend) /\ ~request_resend'
              => \A p \in toPeer' \ toPeer : p.resend \/ p.msg = "INFO"]_vars
  <2>1. SUFFICES ASSUME Inv, Next
                 PROVE  /\ gap => request_resend' \/ session'.sequence # session.sequence
                        /\ (gap \/ request_resend) /\ ~request_resend'
                             => \A p \in toPeer' \ toPeer : p.resend \/ p.msg = "INFO"
    BY Zenon
  <2>2. ASSUME gap
        PROVE  HandleMessage(Head(inbox), session, TRUE, ackIdx)
    <3>1. inbox # <<>> /\ Head(inbox).vital /\ Head(inbox).idx > ackIdx + 1
      BY <2>2, Zenon DEF ChunkStep
    <3>2. ackIdx \in Nat /\ Head(inbox).idx \in Nat
      BY <2>1, <3>1, InvParts, InvTypes, HeadPlace
    <3>3. ~(Head(inbox).idx <= ackIdx) /\ Head(inbox).idx # ackIdx + 1
      BY <3>1, <3>2, SMT
    <3> QED  BY <2>1, <3>1, <3>3, ChunkStepCases, Zenon
  <2>3. ASSUME gap, ~request_resend'
        PROVE  session'.sequence # session.sequence
    <3>1. session' = CountVital(session)
      BY <2>2, <2>3, Zenon DEF HandleMessage
    <3>2. session \in Sessions
      BY <2>1, InvParts, Zenon DEF TypeOK
    <3>3. Uint16 # 1
      BY ConstantFacts, ClientAssumption, MaxSequenceAssumption, SMT
    <3> QED  BY <3>1, <3>2, <3>3, CountVitalMoves
  <2>4. ASSUME gap, ~request_resend'
        PROVE  \A p \in toPeer' \ toPeer : p.resend
    BY <2>2, <2>4, FlagOnHandle, Zenon
  <2>5. ASSUME request_resend, ~request_resend'
        PROVE  \A p \in toPeer' \ toPeer : p.resend \/ p.msg = "INFO"
    BY <2>1, <2>5, FlagUsedUp
  <2> HIDE DEF gap
  <2> QED  BY <2>3, <2>4, <2>5, Zenon
<1> QED  BY <1>1, InvHolds, PTL DEF Spec, GapIsReported

----------------------------------------------------------------------------
(* Refinement: each step of the connection is a step of the stream, or one *)
(* that the stream does not see.                                           *)

\* An ack that arrives is Confirm, or nothing when it is an old one.
LEMMA ConfirmStep ==
    ASSUME Inv, NEW p \in toPeer, PeerRecvOnline(p)
    PROVE  [Stream!Next]_(Stream!streamVars)
<1>1. /\ sent' = sent /\ ackIdx' = ackIdx
      /\ confirmed' = IF p.ackIdx > confirmed THEN p.ackIdx ELSE confirmed
  BY Zenon DEF PeerRecvOnline, clientVars
<1>2. p.ackIdx <= ackIdx /\ p.ackIdx \in Nat /\ confirmed \in Nat /\ ackIdx \in Nat
  BY InvParts, InvTypes, AckPlace, Zenon
<1>3. CASE p.ackIdx > confirmed
  <2>1. confirmed < ackIdx /\ confirmed' \in confirmed + 1 .. ackIdx
    BY <1>1, <1>2, <1>3, SMT
  <2> QED  BY <1>1, <2>1, Zenon DEF Stream!Next, Stream!Confirm
<1>4. CASE ~(p.ackIdx > confirmed)
  BY <1>1, <1>4, Zenon DEF Stream!streamVars
<1> QED  BY <1>3, <1>4

\* A new vital message is Send: the window is counted from confirmed.
LEMMA SendStep ==
    ASSUME Inv, NEW kind, PeerSendVital(kind)
    PROVE  Stream!Next
<1>1. sent < MaxSent /\ sent' = sent + 1 /\ ackIdx' = ackIdx /\ confirmed' = confirmed
  BY Zenon DEF PeerSendVital, clientVars
<1>2. /\ sent \in Nat /\ confirmed \in Nat /\ confirmed <= sent
      /\ {c.idx : c \in buffer} = confirmed + 1 .. sent
  <2>1. sent \in Nat /\ confirmed \in Nat /\ ackIdx \in Nat /\ confirmed <= ackIdx /\ ackIdx <= sent
    BY InvParts, InvTypes, Zenon DEF InStep
  <2> QED  BY <2>1, InvParts, SMT
<1>3. sent - confirmed < Window
  <2>1. CASE sent = confirmed
    BY <1>2, <2>1, ConstantFacts, SMT
  <2>2. CASE sent # confirmed
    <3>1. confirmed + 1 \in confirmed + 1 .. sent
      BY <1>2, <2>2, SMT
    <3>2. PICK b \in buffer : b.idx = confirmed + 1
      BY <1>2, <3>1, Zenon
    <3>3. (sent + 1) - (confirmed + 1) < Window
      BY <3>2, Zenon DEF PeerSendVital, WindowOpen
    <3> QED  BY <1>2, <3>3, ConstantFacts, SMT
  <2> QED  BY <2>1, <2>2
<1> QED  BY <1>1, <1>3, Zenon DEF Stream!Next, Stream!Send

\* Every step of the connection is a step of the stream or a stutter.
LEMMA StreamStep ==
    ASSUME Inv, [Next]_vars
    PROVE  [Stream!Next]_(Stream!streamVars)
<1>1. CASE ClientNext /\ UNCHANGED peerVars
  <2>1. ClientMoves /\ UNCHANGED <<sent, confirmed>>
    BY <1>1, ClientNextMoves, Zenon DEF ClientMoves, peerVars
  <2>2. \/ ackIdx' = ackIdx
        \/ ackIdx < sent /\ ackIdx' = ackIdx + 1
    BY <2>1, Zenon DEF ClientMoves
  <2> QED  BY <2>1, <2>2, Zenon DEF Stream!Next, Stream!Accept, Stream!streamVars
<1>2. CASE PeerNext
  <2>1. ASSUME UNCHANGED <<clientVars, sent, confirmed>>
        PROVE  UNCHANGED Stream!streamVars
    BY <2>1, Zenon DEF clientVars, Stream!streamVars
  <2>2. CASE \E p \in toPeer : PeerRecvConnect(p)
    BY <2>1, <2>2, Zenon DEF PeerRecvConnect, peerVars
  <2>3. CASE \E p \in toPeer : PeerRecvOnline(p)
    BY <2>3, ConfirmStep, Zenon
  <2>4. CASE \E kind : PeerSendVital(kind)
    BY <2>4, SendStep, Zenon
  <2>5. CASE \E batch : PeerResend(batch)
    BY <2>1, <2>5, Zenon DEF PeerResend, peerVars
  <2>6. CASE \E kind : PeerSendNonVital(kind)
    BY <2>1, <2>6, Zenon DEF PeerSendNonVital, peerVars
  <2>7. CASE \E kind : PeerSendNoise(kind)
    BY <2>1, <2>7, Zenon DEF PeerSendNoise
  <2> QED  BY <1>2, <2>2, <2>3, <2>4, <2>5, <2>6, <2>7, Zenon DEF PeerNext
<1>3. CASE UNCHANGED vars
  BY <1>3, Zenon DEF vars, clientVars, peerVars, Stream!streamVars
<1> QED  BY <1>1, <1>2, <1>3, Zenon DEF Next

(* The client and its peer over a network that loses, repeats and reorders *)
(* packets implement a stream of messages that are accepted once and in    *)
(* order: ack of twclient_on_chunk, and what it tells the peer.            *)
THEOREM Implements == Spec => ImplementsStream
<1>1. Init => Stream!Init
  BY Zenon DEF Init, ClientInit, Stream!Init
<1>2. Inv /\ [Next]_vars => [Stream!Next]_(Stream!streamVars)
  BY StreamStep
<1> QED  BY <1>1, <1>2, InvHolds, PTL DEF Spec, ImplementsStream, Stream!Spec
=============================================================================
