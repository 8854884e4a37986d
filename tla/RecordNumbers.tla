---------------------------- MODULE RecordNumbers ----------------------------
(***************************************************************************)
(* Record numbers of the DTLS 1.3 record layer (dtls/record.rs).  A record *)
(* carries only the low bits of its 64-bit number; the receiver rebuilds   *)
(* the number from those bits and the number it expects next.  `step` is   *)
(* 2^bits for the on-wire width (8 or 16 bits).                            *)
(***************************************************************************)
EXTENDS Integers

CONSTANT SEQ_MAX    \* u64::MAX

ASSUME SeqMaxAssumption == SEQ_MAX \in Nat

SeqNos == 0 .. SEQ_MAX

WireSeq(seq, step) == seq % step

AbsDiff(a, b) == IF a >= b THEN a - b ELSE b - a

(***************************************************************************)
(* reconstruct_seq: the candidate with the expected number's high bits,    *)
(* then the neighbour one step up and the one one step down, each taken    *)
(* only when it exists in 64 bits and is strictly closer.                  *)
(***************************************************************************)
ReconstructSeq(wire_low, step, expected) ==
    LET candidate == expected - (expected % step) + (wire_low % step)
        up   == candidate + step
        down == candidate - step
        best == IF /\ up <= SEQ_MAX
                   /\ AbsDiff(up, expected) < AbsDiff(candidate, expected)
                THEN up ELSE candidate
    IN  IF /\ down >= 0
           /\ AbsDiff(down, expected) < AbsDiff(best, expected)
        THEN down ELSE best
=============================================================================
