---------------------------- MODULE MC_DtlsFlight ----------------------------
(***************************************************************************)
(* A flight of three messages, the last one the Finished, cut into records *)
(* and datagrams in the ways that matter to the walk.                      *)
(***************************************************************************)
EXTENDS DtlsFlight

Msg(type, len) == [type |-> type, len |-> len]
MCFlight == 1 :> Msg("ee", 1) @@ 2 :> Msg("cert", 5) @@ 3 :> Msg("fin", 2)

Piece(seq, off, end) == Frag(MCFlight[seq].type, seq, MCFlight[seq].len, off, end)
Whole(seq) == Piece(seq, 0, MCFlight[seq].len)

Bytes(frags) == FoldLeft(LAMBDA sum, f : sum + FragSize(f), 0, frags)

\* A handshake record, number n, with a two-byte number and a length.
Rec(n, frags) ==
    [epoch |-> 2, n |-> n, two |-> TRUE, length |-> TRUE, type |-> CT_HANDSHAKE,
     frags |-> frags, content |-> Bytes(frags), pad |-> 0]
Narrow(r) == [r EXCEPT !.two = FALSE]
Unsized(r) == [r EXCEPT !.length = FALSE]
Padded(r, inner) == [r EXCEPT !.pad = inner - 1 - r.content]
Tailed(r, more) == [r EXCEPT !.content = @ + more]
Other(r, epoch, type) == [r EXCEPT !.epoch = epoch, !.type = type]

\* `from` to `to`: empty records.
Empties(from, to) == [i \in 1..(to - from + 1) |-> Rec(from + i - 1, <<>>)]

Plain(records) == [hello |-> {}, records |-> records]
HelloFirst(length, flen, records) ==
    [hello |-> {[type |-> CT_HANDSHAKE, length |-> length, flen |-> flen]}, records |-> records]

\* The k-th of eight datagrams with 16 records each.
Run(k) == ("run" \o ToString(k)) :> Plain(Empties(16 * (k - 1), 16 * k - 1))

MCDatagrams ==
    "whole" :> Plain(<<Rec(0, <<Whole(1), Whole(2), Whole(3)>>)>>)
 @@ "split1" :> Plain(<<Rec(0, <<Whole(1), Piece(2, 0, 2)>>), Unsized(Rec(1, <<Piece(2, 2, 5)>>))>>)
 @@ "split2" :> Plain(<<Narrow(Rec(2, <<Whole(3)>>)), Other(Rec(0, <<>>), 3, CT_HANDSHAKE), Rec(3, <<Whole(2)>>)>>)
 @@ "again" :> HelloFirst(100, 88, <<Narrow(Unsized(Rec(4, <<Whole(1), Piece(2, 1, 4)>>)))>>)
 @@ "hidden" :> Plain(<<Unsized(Rec(5, <<Whole(1)>>)), Rec(6, <<Whole(2)>>)>>)
 @@ "full" :> Plain(<<Padded(Rec(7, <<Whole(3)>>), RECORD_SIZE_LIMIT)>>)
 @@ "cut" :> Plain(<<Padded(Rec(8, <<Whole(2)>>), 1990), Rec(9, <<Whole(3)>>)>>)
 @@ "late" :> Plain(<<Rec(300, <<Whole(2)>>), Narrow(Rec(301, <<Whole(3)>>))>>)
 @@ "plain" :> Plain(<<Rec(10, <<Piece(2, 4, 5)>>), Other(Rec(0, <<Whole(1)>>), 0, CT_HANDSHAKE), Rec(11, <<Whole(1)>>)>>)
 @@ "acks" :> Plain(<<Other(Tailed(Rec(12, <<>>), 18), 2, CT_ACK), Tailed(Rec(13, <<Whole(1)>>), 5)>>)
 @@ "short" :> Plain(<<Tailed(Rec(14, <<Whole(2)>>), -1)>>)
 @@ "badhello" :> HelloFirst(40, 29, <<Rec(15, <<Whole(1)>>)>>)
 @@ Run(1) @@ Run(2) @@ Run(3) @@ Run(4) @@ Run(5) @@ Run(6) @@ Run(7)
 @@ "run8" :> Plain(Empties(112, 126) \o <<Rec(127, <<Whole(1), Whole(2)>>)>>)
 @@ "last" :> Plain(<<Rec(128, <<Whole(3)>>)>>)

Runs == <<"run1", "run2", "run3", "run4", "run5", "run6", "run7", "run8", "last">>
Small == DOMAIN MCDatagrams \ ToSet(Runs)
InOrder == [i \in DOMAIN Runs |-> {Runs[i]}]
UpTo(n, names) == [i \in 1..n |-> names]

AllFeatures == {"ecdsa", "rsa"}
MCSessions ==
    {Session(AllFeatures, 16, {20}, {0}, {}, {}, UpTo(3, Small)),
     Session({}, 32, {}, {20}, {0}, {64}, UpTo(3, Small)),
     Session(AllFeatures, 16, {20}, {20}, {256}, {64}, InOrder)}
    \cup {Session(AllFeatures, 32, cid, server_cid, cookie, limit, UpTo(2, {"whole", "acks"})) :
            cid \in {{}, {0}, {20}, {21}}, server_cid \in {{}, {0}, {20}, {21}},
            cookie \in {{}, {256}, {257}}, limit \in {{}, {63}, {64}, {1500}}}
==============================================================================
