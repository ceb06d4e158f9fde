----------------------------- MODULE Connection -----------------------------
(***************************************************************************)
(* The client of src/examples/client.c connected to a peer.  The           *)
(* repository has no server; the peer is the ddnet server as the headers   *)
(* describe it: vital messages are kept and resent until acknowledged      *)
(* (chunk.h), numbers are compared as in session.h, the token is checked.  *)
(*                                                                         *)
(* The peer acts when the client is not in the middle of a packet.  This   *)
(* hides nothing: handling a packet only adds to toPeer.                   *)
(***************************************************************************)
EXTENDS Client

CONSTANTS
    Window,         \* unacknowledged vital messages the peer allows itself
    MaxSent,        \* bound: vital messages the peer sends
    Kinds,          \* kinds of its vital messages
    LooseKinds,     \* kinds of its non-vital messages
    Noise           \* kinds of its packets without chunks

ASSUME ConnectionAssumption ==
    /\ Window \in Nat \ {0} /\ MaxSent \in Nat
    /\ Window + MaxLag < Half /\ 2 * MaxLag < Half
    /\ Noise \subseteq {"KEEPALIVE", "CLOSE", "UNDECODABLE", "CONNLESS"}

VARIABLES
    peerStatus,     \* "listening", "online" or "closed"
    buffer,         \* vital chunks sent and not yet acknowledged
    peerSequence,   \* sequence of the last vital chunk sent
    peerAck,        \* sequence of the last vital chunk received in sequence
    confirmed       \* history: the newest message acknowledged to the peer

peerVars == <<peerStatus, buffer, peerSequence, peerAck, confirmed>>
vars == <<clientVars, toClient, toPeer, sent, peerVars>>

----------------------------------------------------------------------------
\* The peer is scheduled between two packets of the client.
PeerTurn == inbox = <<>>

PeerRecv(p) ==
    PeerTurn /\ p \in toPeer /\ toPeer' \in AfterDelivery(toPeer, p)

Packet(kind, chunks) ==
    [kind |-> kind, token |-> PeerToken, chunks |-> chunks, stamp |-> sent]

PeerSend(p) == toClient' \in Surviving(toClient \cup {p}, CapToClient)

\* The chunks acknowledged by ack leave the resend buffer.
Forget(ack) == buffer' = {c \in buffer : ~SeqInBackroom(c.sequence, ack)}

PeerRecvConnect(p) ==
    /\ p.kind = "CONNECT" /\ peerStatus = "listening"
    /\ PeerRecv(p)
    /\ PeerSend(Packet("CONNECTACCEPT", <<>>))
    /\ UNCHANGED <<clientVars, sent, peerVars>>

\* Every other packet must carry the token.
PeerRecvOnline(p) ==
    /\ p.kind # "CONNECT" /\ p.token = PeerToken
    /\ peerStatus = "online" \/ (peerStatus = "listening" /\ p.kind = "ACCEPT")
    /\ PeerRecv(p)
    /\ peerStatus' = IF p.kind = "CLOSE" THEN "closed" ELSE "online"
    /\ Forget(p.ack)
    /\ confirmed' = IF p.ackIdx > confirmed THEN p.ackIdx ELSE confirmed
    /\ peerAck' = IF p.kind = "NORMAL" /\ p.sequence = NextSeq(peerAck)
                    THEN p.sequence ELSE peerAck
    /\ UNCHANGED <<clientVars, toClient, sent, peerSequence>>

\* Room in the window for one more.
WindowOpen == \A b \in buffer : (sent + 1) - b.idx < Window

PeerSendVital(kind) ==
    LET c == [vital |-> TRUE, sequence |-> NextSeq(peerSequence),
              kind |-> kind, idx |-> sent + 1]
        p == [Packet("NORMAL", <<c>>) EXCEPT !.stamp = sent + 1]
    IN  /\ PeerTurn /\ peerStatus = "online" /\ sent < MaxSent
        /\ WindowOpen
        /\ sent' = sent + 1
        /\ peerSequence' = NextSeq(peerSequence)
        /\ buffer' = buffer \cup {c}
        /\ toClient' \in Surviving(Fresh(toClient, sent') \cup {p}, CapToClient)
        /\ toPeer' = Fresh(toPeer, sent')
        /\ UNCHANGED <<clientVars, peerStatus, peerAck, confirmed>>

\* One or two messages of the buffer, in their order.
Batches == {<<c>> : c \in buffer}
             \cup {<<c, d>> : c \in buffer, d \in buffer}

PeerResend(batch) ==
    /\ PeerTurn /\ peerStatus = "online"
    /\ Len(batch) = 2 => batch[1].idx < batch[2].idx
    /\ PeerSend(Packet("NORMAL", batch))
    /\ UNCHANGED <<clientVars, toPeer, sent, peerVars>>

PeerSendNonVital(kind) ==
    LET c == [vital |-> FALSE, sequence |-> 0, kind |-> kind, idx |-> 0]
    IN  /\ PeerTurn /\ peerStatus = "online"
        /\ PeerSend(Packet("NORMAL", <<c>>))
        /\ UNCHANGED <<clientVars, toPeer, sent, peerVars>>

PeerSendNoise(kind) ==
    /\ PeerTurn /\ peerStatus = "online"
    /\ PeerSend(Packet(kind, <<>>))
    /\ peerStatus' = IF kind = "CLOSE" THEN "closed" ELSE peerStatus
    /\ UNCHANGED <<clientVars, toPeer, sent, buffer, peerSequence, peerAck, confirmed>>

PeerNext ==
    \/ \E p \in toPeer : PeerRecvConnect(p) \/ PeerRecvOnline(p)
    \/ \E kind \in Kinds : PeerSendVital(kind)
    \/ \E batch \in Batches : PeerResend(batch)
    \/ \E kind \in LooseKinds : PeerSendNonVital(kind)
    \/ \E kind \in Noise : PeerSendNoise(kind)

Init ==
    /\ sent = 0
    /\ ClientInit
    /\ toClient = {}
    /\ peerStatus = "listening"
    /\ buffer = {}
    /\ peerSequence = 0
    /\ peerAck = 0
    /\ confirmed = 0

Next == (ClientNext /\ UNCHANGED peerVars) \/ PeerNext

Spec == Init /\ [][Next]_vars

----------------------------------------------------------------------------
Chunks == [vital : BOOLEAN, sequence : SeqNumbers, kind : Kinds \cup LooseKinds, idx : Nat]

ClientPackets ==
    [kind : {"CONNECT", "ACCEPT", "NORMAL", "KEEPALIVE", "CLOSE"},
     token : {NoToken, PeerToken}, ack : SeqNumbers, resend : BOOLEAN,
     sequence : SeqNumbers,
     msg : {"none", "INFO", "READY", "CL_STARTINFO", "ENTERGAME"},
     stamp : Nat, ackIdx : Nat]

PeerPackets ==
    [kind : {"CONNECTACCEPT", "NORMAL"} \cup Noise, token : {PeerToken},
     chunks : Seq(Chunks), stamp : Nat]

Sessions ==
    [ack : SeqNumbers, sequence : 0 .. Uint16 - 1,
     peer_ack : {0}, token : {NoToken, PeerToken}]

TypeOK ==
    /\ session \in Sessions
    /\ request_resend \in BOOLEAN /\ idle \in BOOLEAN
    /\ status \in {"running", "exited"}
    /\ inbox \in Seq(Chunks)
    /\ ackIdx \in Nat /\ handled \subseteq Nat
    /\ sent \in Nat
    /\ toClient \subseteq PeerPackets /\ toPeer \subseteq ClientPackets
    /\ peerStatus \in {"listening", "online", "closed"}
    /\ buffer \subseteq Chunks
    /\ peerSequence \in SeqNumbers /\ peerAck \in SeqNumbers /\ confirmed \in Nat

(* Every message the client has acknowledged, it has acted on: what ack    *)
(* (twclient_on_chunk) counts is a prefix of the stream and no message of  *)
(* that prefix was skipped.                                                *)
AckedWereHandled == ackIdx <= sent /\ 1 .. ackIdx \subseteq handled

(* The peer never forgets a message the client has yet to accept: an ack   *)
(* in a packet header, however late, duplicated or wrapped, removes from   *)
(* the buffer just the messages up to the one it was sent for              *)
(* (ddproto_seq_in_backroom on the peer's side).                           *)
BufferIsUnconfirmed ==
    confirmed <= ackIdx /\ {c.idx : c \in buffer} = confirmed + 1 .. sent

\* A chunk leaves the inbox in this step: the one twclient_on_chunk handled.
ChunkStep == inbox # <<>> /\ inbox' = Tail(inbox)

(* ack only ever advances to the next message of the stream, whatever was  *)
(* lost, repeated or reordered and across the wrap of the numbers.         *)
AcceptsInOrder ==
    [][/\ ackIdx' # ackIdx => ackIdx' = ackIdx + 1
       /\ session.ack' # session.ack => ackIdx' # ackIdx]_vars

(* A message the client has accepted has no effect when it arrives again:  *)
(* it is not acted on, not answered, and no resend is asked for.           *)
AcceptedHasNoEffect ==
    [][ChunkStep /\ Head(inbox).vital /\ Head(inbox).idx <= ackIdx
         => UNCHANGED <<session, request_resend, handled, toPeer>>]_vars

(* No message is mistaken for a known one: whatever twclient_on_chunk      *)
(* drops silently, the client has acted on before.                         *)
NothingNewDropped ==
    [][ChunkStep /\ Head(inbox).vital => Head(inbox).idx \in handled']_vars

(* A resend is asked for only when a message is really missing.            *)
ResendOnlyForGap ==
    [][~request_resend /\ request_resend'
         => \E i \in ackIdx + 1 .. sent : i < Head(inbox).idx /\ Head(inbox).vital]_vars

(* A gap is reported: once a chunk has come too early (twclient_on_chunk), *)
(* the request for a resend is pending until a packet carries it           *)
(* (twclient_send_packet), be it the answer to that very chunk.  Of the    *)
(* two packets of CONNECTACCEPT the first, ACCEPT, carries it.             *)
GapIsReported ==
    [][LET gap == ChunkStep /\ Head(inbox).vital /\ Head(inbox).idx > ackIdx + 1
       IN  /\ gap => request_resend' \/ session'.sequence # session.sequence
           /\ (gap \/ request_resend) /\ ~request_resend'
                => \A p \in toPeer' \ toPeer : p.resend \/ p.msg = "INFO"]_vars

(* The connection implements the abstract stream: the client accepts at    *)
(* ackIdx, and the peer is sure of the messages up to confirmed.           *)
Stream == INSTANCE ReliableStream WITH accepted <- ackIdx

ImplementsStream == Stream!Spec

----------------------------------------------------------------------------
(* Why it works: every number in flight is close enough to the client's    *)
(* ack for its place in the stream to be read off it.                      *)

\* The number on the wire for message i.
NumberOf(i) == Shift(session.ack, i - ackIdx)

InStep ==
    /\ ackIdx <= sent /\ sent - ackIdx <= Window
    /\ peerSequence = NumberOf(sent)
    /\ ackIdx < MaxSequence => session.ack = ackIdx
    /\ peerStatus = "listening" => sent = 0

\* A vital chunk that left the peer when it had sent n messages.
ChunkInStep(c, n) ==
    c.vital => /\ c.idx \in Nat \ {0} /\ c.idx <= n /\ n - c.idx < Window
               /\ c.sequence = NumberOf(c.idx)

BufferInStep == \A c \in buffer : c.vital /\ ChunkInStep(c, sent)

\* A packet to the client: not too old, its chunks in step when it was sent.
PacketInStep(p) ==
    /\ p.stamp <= sent /\ sent - p.stamp <= MaxLag
    /\ p.kind = "CONNECTACCEPT" => p.stamp = 0
    /\ \A j \in DOMAIN p.chunks : ChunkInStep(p.chunks[j], p.stamp)

InboxInStep ==
    \A j \in DOMAIN inbox :
        \E n \in sent - MaxLag .. sent : ChunkInStep(inbox[j], n)

\* A packet to the peer: not too old, its ack one that the client has had.
AckInStep(p) ==
    /\ p.stamp <= sent /\ sent - p.stamp <= MaxLag
    /\ p.ackIdx <= ackIdx
    /\ p.stamp - p.ackIdx <= Window \/ p.stamp - p.ackIdx <= MaxLag
    /\ p.ack = NumberOf(p.ackIdx)

(* Every vital chunk in flight or in the inbox, and every ack, is close    *)
(* enough to the client's ack to be told from all others: what             *)
(* twclient_on_chunk and the peer rely on when they compare numbers.       *)
NumbersInStep ==
    /\ InStep /\ BufferInStep /\ InboxInStep
    /\ \A p \in toClient : PacketInStep(p)
    /\ \A p \in toPeer : AckInStep(p)

\* The inductive invariant.
Inv == TypeOK /\ NumbersInStep /\ AckedWereHandled /\ BufferIsUnconfirmed

----------------------------------------------------------------------------
(* Fairness.  The client's loop keeps running, so it handles the chunks it *)
(* has, and time passes, so it sends again and again: a keep-alive when    *)
(* nothing else, for receiving does not reset last_send.  The peer resends *)
(* what is not acknowledged.  The network loses packets, but not every     *)
(* copy of one that is sent again and again, nor only those that come      *)
(* while the client waits for packets.                                     *)

Missing(chunks) == \E j \in DOMAIN chunks : chunks[j].vital /\ chunks[j].idx = ackIdx + 1

ResendMissing ==
    ~idle /\ \E batch \in Batches :
        Missing(batch) /\ PeerResend(batch) /\ Packet("NORMAL", batch) \in toClient'

DeliverMissing == \E p \in toClient : Missing(p.chunks) /\ RecvNormal(p)

SendsVital == (OnPacket \/ OnChunk) /\ session'.sequence # session.sequence

AckSurvives == (KeepAlive \/ SendsVital) /\ \E p \in toPeer' : p.ackIdx = ackIdx'

DeliverAck == \E p \in toPeer : p.ackIdx = ackIdx /\ PeerRecvOnline(p)

Fairness ==
    /\ WF_vars(OnChunk /\ UNCHANGED peerVars)
    /\ SF_vars((Tick \/ SendsVital) /\ UNCHANGED peerVars)
    /\ SF_vars(AckSurvives /\ UNCHANGED peerVars)
    /\ SF_vars(ResendMissing)
    /\ SF_vars(DeliverMissing /\ UNCHANGED peerVars)
    /\ SF_vars(DeliverAck)

FairSpec == Spec /\ Fairness

Over == status = "exited" \/ peerStatus = "closed"

(* Every vital message is accepted by the client and the peer learns of    *)
(* it, unless one side ends the connection: the client sends its ack with  *)
(* a keep-alive even when it has nothing else to say.                      *)
EventuallyConfirmed ==
    \A i \in 1 .. MaxSent :
        (sent >= i) ~> (confirmed >= i \/ Over)
=============================================================================
