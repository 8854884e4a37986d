-------------------------------- MODULE Wire --------------------------------
(***************************************************************************)
(* Parsers as ordered lists of checks over sequences of cells.             *)
(*                                                                         *)
(* A cell is one integer field of the wire format (u8, u16 or u24) or one  *)
(* byte of a payload: lengths count cells, and a message can be cut between*)
(* any two of them. TLC evaluates every check of a list, so the readers    *)
(* are total.                                                              *)
(***************************************************************************)
EXTENDS Naturals, Sequences, SequencesExt

\* A parser returns at its first failing check; checks are <<condition, error>>.
ErrorOf(checks, k) == IF k = 0 THEN "Ok" ELSE checks[k][2]
Verdict(checks) == ErrorOf(checks, SelectInSeq(checks, LAMBDA c : ~c[1]))

\* The check that a callee returned Ok; its error is the caller's.
Passed(e) == <<e = "Ok", e>>

\* The cell at offset i (from 0, as in the code), 0 behind the end.
At(b, i) == IF i + 1 \in DOMAIN b THEN b[i + 1] ELSE 0

\* b[i..j] of the code, clipped to b.
Slice(b, i, j) == SubSeq(b, i + 1, IF j < Len(b) THEN j ELSE Len(b))

From(b, i) == Slice(b, i, Len(b))

Minus(a, b) == IF a > b THEN a - b ELSE 0

\* Type-length-value units from offset 0 up to the first that is cut short. The
\* length is the cell behind the type.
UnitAt(b, i, end) == [type |-> At(b, i), body |-> Slice(b, i + 2, end), full |-> Slice(b, i, end), end |-> end]
Units(b) ==
    LET walk[i \in 0..Len(b)] ==
            IF i + 2 > Len(b) \/ At(b, i + 1) > Minus(Len(b), i + 2) THEN <<>>
            ELSE <<UnitAt(b, i, i + 2 + At(b, i + 1))>> \o walk[i + 2 + At(b, i + 1)]
    IN  walk[0]

NoUnit == [type |-> 0, body |-> <<>>, full |-> <<>>, end |-> 0]
Unit(us, k) == IF k \in DOMAIN us THEN us[k] ELSE NoUnit
UnitsEnd(us) == IF us = <<>> THEN 0 ELSE Last(us).end
=============================================================================
