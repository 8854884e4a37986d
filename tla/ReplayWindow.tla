---------------------------- MODULE ReplayWindow ----------------------------
(***************************************************************************)
(* The per-epoch anti-replay window of the DTLS receiver                   *)
(* (dtls/replay.rs).  A window is a record with the fields of the struct;  *)
(* the 64-bit bitmap is the set of its one bits, so bit i in `bitmap`      *)
(* says that record number highest - i has been seen.  A left shift drops  *)
(* the bits that leave the word.                                           *)
(***************************************************************************)
EXTENDS Integers

CONSTANT WINDOW     \* width of the bitmap in bits: 64 in the source

ASSUME WindowAssumption == WINDOW \in Nat \ {0}

Bits == 0 .. (WINDOW - 1)

ReplayWindows == [highest : Nat, seen_any : BOOLEAN, bitmap : SUBSET Bits]

NewWindow == [highest |-> 0, seen_any |-> FALSE, bitmap |-> {}]

\* Mutant of Accepts: the bitmap is not consulted.
AcceptsInWindow(w, seq) ==
    \/ ~w.seen_any
    \/ seq > w.highest
    \/ w.highest - seq < WINDOW

Accepts(w, seq) ==
    \/ ~w.seen_any
    \/ seq > w.highest
    \/ /\ w.highest - seq < WINDOW
       /\ (w.highest - seq) \notin w.bitmap

\* Mutant of ShiftLeft: one position too few.
ShiftLeftShort(bits, n) == { b \in Bits : b - (n - 1) \in bits }

ShiftLeft(bits, n) == { b \in Bits : b - n \in bits }

\* Mutant of MarkWindow: a record below the highest one leaves no mark.
MarkWindowNewest(w, seq) ==
    IF ~w.seen_any
    THEN [highest |-> seq, seen_any |-> TRUE, bitmap |-> {0}]
    ELSE IF seq > w.highest
    THEN [highest |-> seq, seen_any |-> TRUE,
          bitmap |-> ShiftLeft(w.bitmap, seq - w.highest) \cup {0}]
    ELSE w

MarkWindow(w, seq) ==
    IF ~w.seen_any
    THEN [highest |-> seq, seen_any |-> TRUE, bitmap |-> {0}]
    ELSE IF seq > w.highest
    THEN [highest |-> seq, seen_any |-> TRUE,
          bitmap |-> ShiftLeft(w.bitmap, seq - w.highest) \cup {0}]
    ELSE [w EXCEPT !.bitmap = @ \cup ({w.highest - seq} \cap Bits)]
=============================================================================
