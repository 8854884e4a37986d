--------------------------- MODULE MC_PostHandshake ---------------------------
(***************************************************************************)
(* All streams of up to three messages out of a small set: tickets with    *)
(* and without a body, legal and illegal key updates, an unknown message.  *)
(***************************************************************************)
EXTENDS PostHandshake

M(type, len, flag) == [type |-> type, len |-> len, flag |-> flag]

MCMessages == {M("ticket", 0, 0), M("ticket", 3, 0), M("key_update", 1, 0),
               M("key_update", 1, 1), M("key_update", 1, 2), M("key_update", 2, 1),
               M("other", 0, 0), M("other", 1, 0)}

MCStreams == UNION {[1..n -> MCMessages] : n \in 1..3}
===============================================================================
