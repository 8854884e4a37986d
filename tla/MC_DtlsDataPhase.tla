-------------------------- MODULE MC_DtlsDataPhase --------------------------
(* Bounded instances of DtlsDataPhase for TLC.                             *)
EXTENDS DtlsDataPhase
=============================================================================
