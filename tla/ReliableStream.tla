--------------------------- MODULE ReliableStream ---------------------------
(***************************************************************************)
(* What the reliability layer promises, without packets and without        *)
(* sequence numbers that wrap: vital messages are numbered 1, 2, 3...; the *)
(* receiver accepts each once and in order; the sender learns of it later, *)
(* never too early, and has at most Window messages it is not sure of.     *)
(***************************************************************************)
EXTENDS Integers

CONSTANTS Window, MaxSent

VARIABLES
    sent,       \* messages sent
    accepted,   \* messages accepted, in order
    confirmed   \* messages the sender knows to be accepted

streamVars == <<sent, accepted, confirmed>>

Init == sent = 0 /\ accepted = 0 /\ confirmed = 0

Send ==
    /\ sent < MaxSent /\ sent - confirmed < Window
    /\ sent' = sent + 1
    /\ UNCHANGED <<accepted, confirmed>>

Accept ==
    /\ accepted < sent
    /\ accepted' = accepted + 1
    /\ UNCHANGED <<sent, confirmed>>

Confirm ==
    /\ confirmed < accepted
    /\ confirmed' \in confirmed + 1 .. accepted
    /\ UNCHANGED <<sent, accepted>>

Next == Send \/ Accept \/ Confirm

Spec == Init /\ [][Next]_streamVars
=============================================================================
