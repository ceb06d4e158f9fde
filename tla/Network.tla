------------------------------ MODULE Network -------------------------------
(***************************************************************************)
(* The datagram network between the client and its peer: the UDP socket    *)
(* that twclient_send and twclient_recv (src/examples/client.c) use.  It   *)
(* loses, duplicates and reorders packets.  It does not delay a packet     *)
(* for ever: a packet of the past is gone once the peer has put more than  *)
(* MaxLag further vital messages into the stream.                          *)
(***************************************************************************)
EXTENDS Integers, FiniteSets

CONSTANTS
    CapToClient,    \* bound: packets in flight from the peer to the client
    CapToPeer,      \* bound: packets in flight from the client to the peer
    MaxLag          \* vital messages sent while a packet is in flight

ASSUME NetworkAssumption == CapToClient \in Nat /\ CapToPeer \in Nat /\ MaxLag \in Nat

VARIABLES
    toClient,   \* packets in flight from the peer to the client
    toPeer,     \* packets in flight from the client to the peer
    sent        \* vital messages the peer has put into the stream so far;
                \* each packet carries the value of its sending as `stamp'

\* What may be in flight of these packets: all, or fewer when some are lost.
Surviving(packets, cap) == {s \in SUBSET packets : Cardinality(s) <= cap}

\* The packets that are not too old when the count of vital messages is now.
Fresh(packets, now) == {p \in packets : now - p.stamp <= MaxLag}

\* What is in flight after p is delivered: p too, when it is duplicated.
AfterDelivery(net, p) == {net, net \ {p}}
=============================================================================
