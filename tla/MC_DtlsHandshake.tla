--------------------------- MODULE MC_DtlsHandshake ---------------------------
(***************************************************************************)
(* Two ways to send the flight: with EncryptedExtensions in the tail of    *)
(* the ServerHello's datagram, and with every datagram of one epoch only.  *)
(***************************************************************************)
EXTENDS DtlsHandshake

SH == [kind |-> "sh", n |-> 0, names |-> {}]
Ep2(n, names) == [kind |-> "ep2", n |-> n, names |-> names]

MCLayouts ==
    { << <<SH, Ep2(0, {"ee"})>>, <<Ep2(1, {"auth"})>>, <<Ep2(2, {"fin"})>> >>,
      << <<SH>>, <<Ep2(0, {"ee", "auth"}), Ep2(1, {"fin"})>> >> }
===============================================================================
