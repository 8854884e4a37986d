---------------------------- MODULE SecureChannel ----------------------------
(***************************************************************************)
(* What a TLS session promises the two applications: each direction is a   *)
(* stream that is never reordered, repeated or cut out of the middle, and  *)
(* the client reports a clean end of the server's stream only when it has  *)
(* handed over all of it.                                                  *)
(***************************************************************************)
EXTENDS Naturals, Sequences

VARIABLES
    down, got_down,    \* written by the server, read by the client
    up, got_up,        \* written by the client, read by the server
    ended              \* the client has reported a clean end of `down`

vars == <<down, got_down, up, got_up, ended>>

\* The stream t starts with s.
Extends(t, s) == Len(s) <= Len(t) /\ SubSeq(t, 1, Len(s)) = s

Init == down = <<>> /\ got_down = <<>> /\ up = <<>> /\ got_up = <<>> /\ ended = FALSE

ServerWrites ==
    /\ Len(down') > Len(down) /\ Extends(down', down)
    /\ ~ended
    /\ UNCHANGED <<got_down, up, got_up, ended>>

ClientWrites ==
    /\ Len(up') > Len(up) /\ Extends(up', up)
    /\ UNCHANGED <<down, got_down, got_up, ended>>

ClientReads ==
    /\ Extends(got_down', got_down) /\ Extends(down, got_down')
    /\ UNCHANGED <<down, up, got_up, ended>>

ServerReads ==
    /\ Extends(got_up', got_up) /\ Extends(up, got_up')
    /\ UNCHANGED <<down, got_down, up, ended>>

ClientSeesEnd ==
    /\ got_down = down
    /\ ended' = TRUE
    /\ UNCHANGED <<down, got_down, up, got_up>>

Next == ServerWrites \/ ClientWrites \/ ClientReads \/ ServerReads \/ ClientSeesEnd

Spec == Init /\ [][Next]_vars
===============================================================================
