---------------------------- MODULE MCConnection ----------------------------
(***************************************************************************)
(* Connection for model checking, and what the headers of the repository   *)
(* say of the client that the client does not do.                          *)
(***************************************************************************)
EXTENDS Connection

(* chunk.h:15-20 and session.h:15-16, of both sides: a vital chunk that    *)
(* the other side does not acknowledge is resent.  So the peer gets the    *)
(* client's vital messages too.                                            *)
ClientVitalsArrive ==
    (session.sequence # 0 /\ peerStatus = "online")
      ~> (peerAck = session.sequence % MaxSequence \/ Over)
=============================================================================
