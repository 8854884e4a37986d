--------------------------- MODULE MC_TlsSession ---------------------------
(***************************************************************************)
(* Small instances of TlsSession.                                          *)
(***************************************************************************)
EXTENDS TlsSession

MCDown2 == <<"d1", "d2">>
MCUp2 == <<"u1", "u2">>

\* One or two pieces in a record.
MCHsBodies == {<<t>> : t \in Tokens} \cup {<<"N1", "N2">>, <<"N2", "K1">>, <<"K1", "K2r">>}
MCHsSome == {<<"N1">>, <<"N2">>, <<"K1", "K2r">>, <<"K1", "K2n">>}
=============================================================================
