------------------------------- MODULE Client -------------------------------
(***************************************************************************)
(* The client of src/examples/client.c on top of ddproto_build_packet and  *)
(* ddproto_seq_in_backroom.  It is one thread: main's loop sends a         *)
(* keep-alive when it has been silent for more than a second, then handles *)
(* at most one packet, to the end, before it loops.  The chunks of the     *)
(* packet being handled are the inbox; while there are some the client     *)
(* does nothing else.                                                      *)
(***************************************************************************)
EXTENDS SeqNum, Sequences, Network

CONSTANTS
    Uint16,       \* 2^16, the range of DDProtoSession.sequence
    NoToken,      \* DDPROTO_TOKEN_NONE
    PeerToken,    \* the token the peer hands out
    MaxInfos      \* bound: the network repeats CONNECTACCEPT only while the
                  \* client has sent fewer vital messages than this

ASSUME ClientAssumption ==
    /\ Uint16 \in Nat \ {0} /\ Uint16 % MaxSequence = 0
    /\ NoToken # PeerToken
    /\ MaxInfos \in Nat

VARIABLES
    session,          \* DDProtoSession: ack, sequence, peer_ack, token
    request_resend,   \* TwClient.request_resend
    idle,             \* nothing was sent for more than a second
    status,           \* "running" until the process exits
    inbox,            \* chunks of the current packet not yet handled
    ackIdx,           \* history: the message the last advance of ack was for
    handled           \* history: the vital messages the client acted on

clientVars == <<session, request_resend, idle, status, inbox, ackIdx, handled>>

----------------------------------------------------------------------------
(* Sending *)

\* The answers twclient_on_chunk gives to the messages that have one.
Reply == [MAP_CHANGE       |-> "READY",
          CON_READY        |-> "CL_STARTINFO",
          SV_READYTOENTER  |-> "ENTERGAME"]

\* A control packet with header.ack = ack, as twclient_send_packet completes
\* it.  index is the message ack stands for.
ControlPacket(kind, ss, resend, ack, index) ==
    [kind |-> kind, token |-> ss.token, ack |-> ack, resend |-> resend,
     sequence |-> 0, msg |-> "none", stamp |-> sent, ackIdx |-> index]

\* ddproto_build_packet for one vital message, completed the same way.  The
\* chunk header encoder keeps the low bits of the sequence.
VitalPacket(msg, ss, resend, index) ==
    [kind |-> "NORMAL", token |-> ss.token, ack |-> ss.ack, resend |-> resend,
     sequence |-> ss.sequence % MaxSequence, msg |-> msg,
     stamp |-> sent, ackIdx |-> index]

\* ddproto_build_packet counts a vital message before it is sent.
CountVital(ss) == [ss EXCEPT !.sequence = (@ + 1) % Uint16]

\* twclient_send_packet: the packets reach the network, the flag is used up.
SendPackets(packets) ==
    /\ toPeer' \in Surviving(toPeer \cup packets, CapToPeer)
    /\ request_resend' = FALSE
    /\ idle' = FALSE

----------------------------------------------------------------------------
(* Receiving a packet *)

\* The top of main's loop.
AtLoop == status = "running" /\ inbox = <<>>

\* twclient_recv: the keep-alive that was due has been sent.
Recv(p) == AtLoop /\ ~idle /\ p \in toClient /\ toClient' \in AfterDelivery(toClient, p)

\* A variant of RecvConnectAccept with an error: the session starts anew.
ConnectAcceptResets(p) ==
    LET taken   == [session EXCEPT !.token = p.token, !.ack = 0]
        counted == CountVital(taken)
    IN  /\ p.kind = "CONNECTACCEPT" /\ session.sequence < MaxInfos
        /\ Recv(p)
        /\ session' = counted
        /\ SendPackets({ControlPacket("ACCEPT", taken, request_resend, 0, 0),
                        VitalPacket("INFO", counted, FALSE, ackIdx)})
        /\ UNCHANGED <<status, inbox, ackIdx, handled, sent>>

\* CONNECTACCEPT: the token is taken, the answer is ACCEPT and then INFO.
\* ACCEPT is built without an ack.
RecvConnectAccept(p) ==
    LET taken   == [session EXCEPT !.token = p.token]
        counted == CountVital(taken)
    IN  /\ p.kind = "CONNECTACCEPT" /\ session.sequence < MaxInfos
        /\ Recv(p)
        /\ session' = counted
        /\ SendPackets({ControlPacket("ACCEPT", taken, request_resend, 0, 0),
                        VitalPacket("INFO", counted, FALSE, ackIdx)})
        /\ UNCHANGED <<status, inbox, ackIdx, handled, sent>>

\* The process exits.
Exit ==
    /\ status' = "exited"
    /\ UNCHANGED <<session, request_resend, idle, inbox, ackIdx, handled, toPeer, sent>>

RecvClose(p) == p.kind = "CLOSE" /\ Recv(p) /\ Exit

\* A control or normal packet with a decoding error.
RecvUndecodable(p) == p.kind = "UNDECODABLE" /\ Recv(p) /\ Exit

\* The other control packets are ignored.
RecvIgnored(p) ==
    /\ p.kind \in {"CONNECT", "KEEPALIVE", "ACCEPT"}
    /\ Recv(p)
    /\ UNCHANGED <<clientVars, toPeer, sent>>

\* A packet that fails to decode while DDProtoPacket.kind is still CONNLESS:
\* too short, too long, or not to be decompressed.  It is ignored too.
RecvConnless(p) ==
    /\ p.kind = "CONNLESS"
    /\ Recv(p)
    /\ UNCHANGED <<clientVars, toPeer, sent>>

\* twclient_on_normal_packet goes through the chunks in their order.
RecvNormal(p) ==
    /\ p.kind = "NORMAL"
    /\ Recv(p)
    /\ inbox' = p.chunks
    /\ UNCHANGED <<session, request_resend, idle, status, ackIdx, handled, toPeer, sent>>

----------------------------------------------------------------------------
(* twclient_on_chunk *)

\* Variants of InSequence with an error: any later number will do, and the
\* wrap is forgotten.
AnyLaterInSequence(c) == c.sequence > session.ack
InSequenceUnwrapped(c) == c.sequence = session.ack + 1

InSequence(c) == c.sequence = NextSeq(session.ack)

\* A variant of HandleMessage with an error: the answer is built with the flag
\* of before the sequence check.
HandleMessageStaleFlag(c, ss, resend, index) ==
    /\ inbox' = Tail(inbox)
    /\ ackIdx' = index
    /\ handled' = IF c.vital THEN handled \cup {c.idx} ELSE handled
    /\ \/ /\ c.kind \in DOMAIN Reply
          /\ session' = CountVital(ss)
          /\ SendPackets({VitalPacket(Reply[c.kind], session', request_resend, index)})
       \/ /\ c.kind \notin DOMAIN Reply
          /\ session' = ss
          /\ request_resend' = resend
          /\ UNCHANGED <<idle, toPeer>>
    /\ UNCHANGED <<status, toClient, sent>>

\* The switch over the message kinds, with the session and the flag that the
\* sequence check left behind.
HandleMessage(c, ss, resend, index) ==
    /\ inbox' = Tail(inbox)
    /\ ackIdx' = index
    /\ handled' = IF c.vital THEN handled \cup {c.idx} ELSE handled
    /\ \/ /\ c.kind \in DOMAIN Reply
          /\ session' = CountVital(ss)
          /\ SendPackets({VitalPacket(Reply[c.kind], session', resend, index)})
       \/ /\ c.kind \notin DOMAIN Reply
          /\ session' = ss
          /\ request_resend' = resend
          /\ UNCHANGED <<idle, toPeer>>
    /\ UNCHANGED <<status, toClient, sent>>

AcceptNext ==
    /\ status = "running" /\ inbox # <<>>
    /\ LET c == Head(inbox)
       IN  /\ c.vital /\ InSequence(c)
           /\ HandleMessage(c, [session EXCEPT !.ack = NextSeq(@)], request_resend, c.idx)

\* A variant of DropKnown with an error: the chunk is handled all the same.
DropKnownHandles ==
    /\ status = "running" /\ inbox # <<>>
    /\ LET c == Head(inbox)
       IN  /\ c.vital /\ ~InSequence(c) /\ SeqInBackroom(c.sequence, session.ack)
           /\ HandleMessage(c, session, request_resend, ackIdx)

DropKnown ==
    /\ status = "running" /\ inbox # <<>>
    /\ LET c == Head(inbox)
       IN  c.vital /\ ~InSequence(c) /\ SeqInBackroom(c.sequence, session.ack)
    /\ inbox' = Tail(inbox)
    /\ UNCHANGED <<session, request_resend, idle, status, ackIdx, handled, toClient, toPeer, sent>>

\* A variant of HandleOutOfOrder with an error: ack jumps over the gap.
OutOfOrderAccepts ==
    /\ status = "running" /\ inbox # <<>>
    /\ LET c == Head(inbox)
       IN  /\ c.vital /\ ~InSequence(c) /\ ~SeqInBackroom(c.sequence, session.ack)
           /\ HandleMessage(c, [session EXCEPT !.ack = c.sequence], TRUE, c.idx)

\* Something was lost: a resend is requested, and the chunk is handled all
\* the same.
HandleOutOfOrder ==
    /\ status = "running" /\ inbox # <<>>
    /\ LET c == Head(inbox)
       IN  /\ c.vital /\ ~InSequence(c) /\ ~SeqInBackroom(c.sequence, session.ack)
           /\ HandleMessage(c, session, TRUE, ackIdx)

HandleNonVital ==
    /\ status = "running" /\ inbox # <<>>
    /\ ~Head(inbox).vital
    /\ HandleMessage(Head(inbox), session, request_resend, ackIdx)

----------------------------------------------------------------------------
(* The rest of main's loop *)

\* More than a second passes after the last packet was sent.
Tick ==
    /\ AtLoop /\ ~idle
    /\ idle' = TRUE
    /\ UNCHANGED <<session, request_resend, status, inbox, ackIdx, handled, toClient, toPeer, sent>>

\* Variants of KeepAlive with an error: it carries the number expected next,
\* or no ack at all.
KeepAliveNextExpected ==
    /\ AtLoop /\ idle
    /\ SendPackets({ControlPacket("KEEPALIVE", session, request_resend,
                                  NextSeq(session.ack), ackIdx)})
    /\ UNCHANGED <<session, status, inbox, ackIdx, handled, toClient, sent>>

KeepAliveWithoutAck ==
    /\ AtLoop /\ idle
    /\ SendPackets({ControlPacket("KEEPALIVE", session, request_resend, 0, 0)})
    /\ UNCHANGED <<session, status, inbox, ackIdx, handled, toClient, sent>>

KeepAlive ==
    /\ AtLoop /\ idle
    /\ SendPackets({ControlPacket("KEEPALIVE", session, request_resend, session.ack, ackIdx)})
    /\ UNCHANGED <<session, status, inbox, ackIdx, handled, toClient, sent>>

\* The loop saw got_sigint: twclient_disconnect, then main returns.
Disconnect ==
    /\ AtLoop
    /\ SendPackets({ControlPacket("CLOSE", session, request_resend, session.ack, ackIdx)})
    /\ status' = "exited"
    /\ UNCHANGED <<session, inbox, ackIdx, handled, toClient, sent>>

----------------------------------------------------------------------------
\* The client after twclient_connect, its CONNECT packet in flight or lost.
ClientInit ==
    /\ session = [ack |-> 0, sequence |-> 0, peer_ack |-> 0, token |-> NoToken]
    /\ request_resend = FALSE
    /\ idle = FALSE
    /\ status = "running"
    /\ inbox = <<>>
    /\ ackIdx = 0
    /\ handled = {}
    /\ toPeer \in {{}, {ControlPacket("CONNECT", session, FALSE, 0, 0)}}

OnChunk == AcceptNext \/ DropKnown \/ HandleOutOfOrder \/ HandleNonVital

OnPacket ==
    \E p \in toClient :
        \/ RecvConnectAccept(p) \/ RecvNormal(p)
        \/ RecvClose(p) \/ RecvUndecodable(p) \/ RecvIgnored(p) \/ RecvConnless(p)

ClientNext == OnPacket \/ OnChunk \/ Tick \/ KeepAlive \/ Disconnect
=============================================================================
