------------------------------- MODULE Joining -------------------------------
(***************************************************************************)
(* Two operators on sequences that the modules with proofs share.          *)
(*                                                                         *)
(* SequencesExt has both (FlattenSeq and Last), but it extends Bags, and   *)
(* with Bags among its definitions the proof system takes thirty times as  *)
(* long over every obligation.                                             *)
(***************************************************************************)
EXTENDS Naturals, Sequences

\* The members of ss, one after the other.
Joined(ss) ==
    LET joined[i \in 0..Len(ss)] == IF i = 0 THEN <<>> ELSE joined[i - 1] \o ss[i]
    IN  joined[Len(ss)]

\* The last member of a non-empty sequence.
LastOf(s) == s[Len(s)]
===============================================================================
