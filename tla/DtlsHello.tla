------------------------------ MODULE DtlsHello ------------------------------
(***************************************************************************)
(* dtls/handshake.rs: the length of the ClientHello, and the parsers of    *)
(* the ServerHello, the HelloRetryRequest and the record_size_limit among  *)
(* the EncryptedExtensions. Messages are sequences of cells (Wire); the    *)
(* random and the key share are shorter than in the code.                  *)
(***************************************************************************)
EXTENDS DtlsRecord

EXT_RECORD_SIZE_LIMIT == 28
EXT_COOKIE == 44
EXT_KEY_SHARE == 51
EXT_CONNECTION_ID == 54
NAMED_GROUP_X25519 == 29
HRR_RANDOM == 207
KEY_LEN == 2          \* cells of an X25519 share

MAX_CID_LEN == 20
MAX_DATAGRAM == 2048
MAX_INBOUND_HEADER == 1 + MAX_CID_LEN + 2 + 2

\* Mutant: the tag is left out of the sum.
LimitWithoutTag == MAX_DATAGRAM - MAX_INBOUND_HEADER

RECORD_SIZE_LIMIT == MAX_DATAGRAM - MAX_INBOUND_HEADER - TAG_LEN

----------------------------------------------------------------------------
(* write_client_hello. An option is the set of its value.                  *)

Schemes(F) == 1 + (IF "ecdsa" \in F THEN 2 ELSE 0) + (IF "rsa" \in F THEN 1 ELSE 0)
OptionLen(opt, header) == SumSet({header + n : n \in opt})

\* Version, random, session id and cookie (empty both), suite, compression; the
\* extensions: versions, groups, record size limit, signature schemes, key
\* share, connection id, cookie.
HelloLen(F, cid_len, cookie_len) ==
    (2 + 32 + 1 + 1 + 4 + 2) + 2
    + (7 + 8 + 6 + (4 + 2 + 2 * Schemes(F)) + (4 + 2 + 2 + 2 + 32))
    + OptionLen(cid_len, 5) + OptionLen(cookie_len, 6)

write_client_hello(F, cid_len, cookie_len, room) ==
    Verdict(<<<<\A n \in cid_len : n <= MAX_CID_LEN, "BufferTooSmall">>,
              <<HelloLen(F, cid_len, cookie_len) <= room, "BufferTooSmall">>>>)

----------------------------------------------------------------------------
(* parse_server_hello.                                                     *)

\* A vector behind its length: does it fit, and what is in it.
Counted(b) == [ok |-> b # <<>> /\ Len(b) >= 1 + At(b, 0), body |-> Slice(b, 1, 1 + At(b, 0))]

\* The extensions of b from i up to `end`; the last may reach beyond it, but
\* not beyond b.
HelloExtensions(b, i, end) ==
    LET walk[j \in 0..Len(b)] ==
            IF j + 2 > end THEN <<>>
            ELSE IF j + 2 + At(b, j + 1) > Len(b) THEN <<[NoUnit EXCEPT !.end = -1]>>
            ELSE <<UnitAt(b, j, j + 2 + At(b, j + 1))>> \o walk[j + 2 + At(b, j + 1)]
    IN  walk[i]

ExtensionError(u) ==
    CASE u.end = -1 -> "Malformed"
      [] u.type \in {EXT_COOKIE, EXT_CONNECTION_ID} -> Verdict(<<<<Counted(u.body).ok, "Malformed">>>>)
      [] u.type = EXT_KEY_SHARE ->
            Verdict(<<<<u.body # <<>>, "Malformed">>,
                      <<At(u.body, 0) = NAMED_GROUP_X25519, "UnexpectedGroup">>,
                      <<Counted(From(u.body, 1)).ok, "Malformed">>,
                      <<Len(Counted(From(u.body, 1)).body) = KEY_LEN, "UnexpectedGroup">>>>)
      [] OTHER -> "Ok"

\* The value that is left when all extensions have been read: the last one.
LastExtension(us, type) == Unit(us, SelectLastInSeq(us, LAMBDA u : u.type = type))
HasExtension(us, type) == \E k \in DOMAIN us : us[k].type = type

HelloOf(b, suite_at, retry, us) ==
    [err |-> Verdict(<<
        <<Len(b) >= 3, "Malformed">>,
        <<Len(b) >= suite_at + 3, "Malformed">>,
        <<Len(b) >= suite_at + 3 + At(b, suite_at + 2), "Malformed">>>>
        \o [k \in DOMAIN us |-> Passed(ExtensionError(us[k]))] \o <<
        <<retry => HasExtension(us, EXT_COOKIE), "MissingCookie">>,
        <<~retry => HasExtension(us, EXT_KEY_SHARE), "MissingKeyShare">>>>),
     retry |-> retry, suite |-> At(b, suite_at),
     cookie |-> Counted(LastExtension(us, EXT_COOKIE).body).body,
     cid |-> {Counted(u.body).body : u \in IF HasExtension(us, EXT_CONNECTION_ID)
                                           THEN {LastExtension(us, EXT_CONNECTION_ID)} ELSE {}}]

\* Version, random, session id, suite, compression, extensions.
parse_server_hello(b) ==
    LET suite_at == 3 + At(b, 2)
        ext_at == suite_at + 3
    IN  HelloOf(b, suite_at, At(b, 1) = HRR_RANDOM,
                IF Len(b) < ext_at THEN <<>> ELSE HelloExtensions(b, ext_at, ext_at + At(b, suite_at + 2)))

----------------------------------------------------------------------------
\* parse_ee_record_size_limit: the extensions before it are walked over.
LimitIn(exts, us, k) ==
    [err |-> Verdict(<<<<k # 0 \/ UnitsEnd(us) + 2 > Len(exts), "Malformed">>,
                       <<k # 0 => Len(us[k].body) = 1, "Malformed">>,
                       <<k # 0 => At(us[k].body, 0) >= 64, "Malformed">>>>),
     limit |-> IF k = 0 THEN {} ELSE {At(us[k].body, 0)}]
LimitAmong(exts, us) == LimitIn(exts, us, SelectInSeq(us, LAMBDA u : u.type = EXT_RECORD_SIZE_LIMIT))
parse_ee_record_size_limit(ee) ==
    IF ~Counted(ee).ok THEN [err |-> "Malformed", limit |-> {}]
    ELSE LimitAmong(Counted(ee).body, Units(Counted(ee).body))
==============================================================================
