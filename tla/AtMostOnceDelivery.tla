------------------------- MODULE AtMostOnceDelivery -------------------------
(***************************************************************************)
(* What the DTLS data phase promises its application: a datagram service   *)
(* that may lose and reorder what the peer sent but never delivers a       *)
(* record twice and never delivers one the peer did not send.              *)
(***************************************************************************)
EXTENDS Naturals

CONSTANT Ids        \* identities (record numbers) of the peer's records

VARIABLES
    sent,       \* the records the peer has sent
    copies      \* copies[i]: how often record i was handed to the application

Init == sent = {} /\ copies = [i \in Ids |-> 0]

PeerSends(new) == sent' = sent \cup new /\ UNCHANGED copies

Deliver(i) ==
    /\ i \in sent /\ copies[i] = 0
    /\ copies' = [copies EXCEPT ![i] = 1]
    /\ UNCHANGED sent

Next == (\E new \in SUBSET Ids : PeerSends(new)) \/ (\E i \in Ids : Deliver(i))

Spec == Init /\ [][Next]_<<sent, copies>>
=============================================================================
