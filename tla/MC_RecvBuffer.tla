---------------------------- MODULE MC_RecvBuffer ----------------------------
(* Small instances of RecvBuffer for TLC.                                  *)
EXTENDS RecvBuffer
===============================================================================
