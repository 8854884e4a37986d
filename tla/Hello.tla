------------------------------- MODULE Hello -------------------------------
(***************************************************************************)
(* The two hellos of TLS: the ClientHello writer and sizer of lib.rs, the  *)
(* ServerHello parser, the key exchange groups (traits/kx.rs and the       *)
(* backends), and read_server_hello_with_backend of connection.rs.         *)
(*                                                                         *)
(* The ClientHello is byte-accurate: a sequence of fields <<bytes, value>>,*)
(* a payload having the value 0. The ServerHello is in cells (see Wire).   *)
(* F is the set of Cargo features.                                         *)
(***************************************************************************)
EXTENDS Records

HS_CLIENT_HELLO == 1
HS_SERVER_HELLO == 2
TLS_1_3 == 772
LEGACY_SESSION_ID_LEN == 32
\* The cells of a session id that is not empty.
Sid == <<5, 6>>
AES == 4865
CHACHA == 4867
X25519 == 29
SECP256R1 == 23
X25519MLKEM768 == 4588
EXT_SERVER_NAME == 0
EXT_SUPPORTED_GROUPS == 10
EXT_SIG_ALGS == 13
EXT_ALPN == 16
EXT_RSL == 28
EXT_SUPPORTED_VERSIONS == 43
EXT_KEY_SHARE == 51

Bit(cond) == IF cond THEN 1 ELSE 0
SumSeq(s) ==
    LET sum[i \in 0..Len(s)] == IF i = 0 THEN 0 ELSE sum[i - 1] + s[i] IN sum[Len(s)]
None == [some |-> FALSE, value |-> 0]
Some(v) == [some |-> TRUE, value |-> v]

----------------------------------------------------------------------------
(* What a build can offer. *)

TwoGroups(F) == {"p256-kx", "x25519-kx"} \subseteq F
SUPPORTED_GROUPS_COUNT(F) == Bit("x25519-kx" \in F) + Bit("p256-kx" \in F)
SIG_SCHEME_COUNT(F) == 1 + Bit("rsa" \in F) + 3 * Bit("mldsa" \in F) + 2 * Bit("ecdsa" \in F)
CH_CIPHER_SUITES_COUNT(F) == Bit("cipher-aes" \in F) + Bit("chacha20" \in F)

KEY_SHARE_GROUP(F) ==
    IF "mlkem" \in F THEN X25519MLKEM768 ELSE IF "x25519-kx" \in F THEN X25519 ELSE SECP256R1

MLKEM768_EK_BYTES == 1184
P256_SHARE_BYTES == 65
KEY_SHARE_KEY_LEN(F) ==
    IF "mlkem" \in F THEN MLKEM768_EK_BYTES + 32 ELSE IF "x25519-kx" \in F THEN 32 ELSE P256_SHARE_BYTES
PRIMARY_PUB_LEN(F) == IF "mlkem" \in F THEN 32 ELSE KEY_SHARE_KEY_LEN(F)
P256_KX_ENTRY_LEN(F) == IF TwoGroups(F) THEN 4 + 65 ELSE 0
KEY_SHARE_LIST_LEN(F) == (4 + KEY_SHARE_KEY_LEN(F)) + P256_KX_ENTRY_LEN(F)
CH_SCRATCH(F) == IF "mlkem" \in F THEN 2048 ELSE 768

\* effective_suite_list: the suites of the config, narrowed at run time.
effective_suite_list(config, runtime) ==
    CASE config = "AesOnly" -> "AesOnly"
      [] config = "ChaChaOnly" -> "ChaChaOnly"
      [] config = "AesAndChaCha" -> runtime

----------------------------------------------------------------------------
(* The sizer. opts has hostname, rsl and sid (None or Some), alpn (None or *)
(* Some of a sequence of name lengths) and suites; a missing KEM or P-256  *)
(* share is ek or p256 FALSE.                                              *)

CH_EXTENSIONS_FIXED_TOTAL(F) ==
    (4 + 3) + (4 + 2 + 2 * SUPPORTED_GROUPS_COUNT(F)) + (4 + 2 + 2 * SIG_SCHEME_COUNT(F))
    + (4 + 2 + KEY_SHARE_LIST_LEN(F))

sni_ext_total(n) == 9 + n
ch_n_suites(F, suites) == IF suites = "Default" THEN CH_CIPHER_SUITES_COUNT(F) ELSE 1
ch_cipher_suites_field_len(F, suites) == 2 + 2 * ch_n_suites(F, suites)

\* Mutant of alpn_ext_total: the length bytes of the names are not counted.
alpn_ext_total_bare(alpn) == IF alpn.some THEN 4 + 2 + SumSeq(alpn.value) ELSE 0

alpn_ext_total(alpn) ==
    IF alpn.some THEN 4 + 2 + SumSeq([i \in DOMAIN alpn.value |-> 1 + alpn.value[i]]) ELSE 0

ch_extensions_total(F, opts) ==
    CH_EXTENSIONS_FIXED_TOTAL(F)
    + (IF opts.hostname.some THEN sni_ext_total(opts.hostname.value) ELSE 0)
    + (IF opts.rsl.some THEN 4 + 2 ELSE 0)
    + alpn_ext_total(opts.alpn)

ch_body_len(F, opts) ==
    2 + 32 + (1 + (IF opts.sid.some THEN LEGACY_SESSION_ID_LEN ELSE 0))
    + ch_cipher_suites_field_len(F, opts.suites) + (1 + 1) + 2 + ch_extensions_total(F, opts)

client_hello_len_with(F, opts) == 5 + 4 + ch_body_len(F, opts)

----------------------------------------------------------------------------
(* The writer: the fields in the order they are written.                   *)

Schemes(F) ==
    <<2055>> \o (IF "ecdsa" \in F THEN <<1027, 1283>> ELSE <<>>)
    \o (IF "rsa" \in F THEN <<2052>> ELSE <<>>)
    \o (IF "mldsa" \in F THEN <<2308, 2309, 2310>> ELSE <<>>)

\* ChaCha first; AES unless the list is ChaCha only.
Suites(F, suites) ==
    (IF "chacha20" \in F /\ suites \in {"Default", "ChaChaOnly"} THEN <<CHACHA>> ELSE <<>>)
    \o (IF "cipher-aes" \in F /\ ("chacha20" \notin F \/ suites # "ChaChaOnly") THEN <<AES>> ELSE <<>>)

Groups(F) == <<KEY_SHARE_GROUP(F)>> \o (IF TwoGroups(F) THEN <<SECP256R1>> ELSE <<>>)

U16s(s) == [i \in DOMAIN s |-> <<2, s[i]>>]
If(cond, fields) == IF cond THEN fields ELSE <<>>

write_fields(F, opts) ==
    LET body == ch_body_len(F, opts)
        list == alpn_ext_total(opts.alpn) - 6
        host == opts.hostname.value
        U16(n) == <<2, n % 2^16>>
    IN  <<<<1, CT_HANDSHAKE>>, <<2, LEGACY_VERSION>>, U16(4 + body), <<1, HS_CLIENT_HELLO>>,
          <<3, body>>, <<2, LEGACY_VERSION>>, <<32, 0>>>>
        \o (IF opts.sid.some THEN <<<<1, LEGACY_SESSION_ID_LEN>>, <<32, 0>>>> ELSE <<<<1, 0>>>>)
        \o <<U16(2 * ch_n_suites(F, opts.suites))>> \o U16s(Suites(F, opts.suites))
        \o <<<<1, 1>>, <<1, 0>>, U16(ch_extensions_total(F, opts))>>
        \o <<<<2, EXT_SUPPORTED_VERSIONS>>, <<2, 3>>, <<1, 2>>, <<2, TLS_1_3>>>>
        \o <<<<2, EXT_SUPPORTED_GROUPS>>, <<2, 2 + 2 * SUPPORTED_GROUPS_COUNT(F)>>,
             <<2, 2 * SUPPORTED_GROUPS_COUNT(F)>>>> \o U16s(Groups(F))
        \o <<<<2, EXT_SIG_ALGS>>, <<2, 2 + 2 * SIG_SCHEME_COUNT(F)>>, <<2, 2 * SIG_SCHEME_COUNT(F)>>>>
        \o U16s(Schemes(F))
        \o If(opts.hostname.some,
              <<<<2, EXT_SERVER_NAME>>, U16(2 + 1 + 2 + host), U16(1 + 2 + host), <<1, 0>>, U16(host),
                <<host, 0>>>>)
        \o If(opts.rsl.some, <<<<2, EXT_RSL>>, <<2, 2>>, <<2, opts.rsl.value>>>>)
        \o If(opts.alpn.some,
              <<<<2, EXT_ALPN>>, U16(2 + list), U16(list)>>
              \o FlattenSeq([i \in DOMAIN opts.alpn.value |->
                                <<<<1, opts.alpn.value[i] % 2^8>>, <<opts.alpn.value[i], 0>>>>]))
        \o <<<<2, EXT_KEY_SHARE>>, <<2, 2 + KEY_SHARE_LIST_LEN(F)>>, <<2, KEY_SHARE_LIST_LEN(F)>>,
             <<2, KEY_SHARE_GROUP(F)>>, <<2, KEY_SHARE_KEY_LEN(F)>>>>
        \o If("mlkem" \in F, <<<<MLKEM768_EK_BYTES, 0>>>>) \o <<<<PRIMARY_PUB_LEN(F), 0>>>>
        \o If(TwoGroups(F), <<<<2, SECP256R1>>, <<2, P256_SHARE_BYTES>>, <<P256_SHARE_BYTES, 0>>>>)

\* With the scratch of connection.rs: what does not fit CH_SCRATCH is refused
\* while it is written, before anything is sent or hashed.
write_client_hello_with(F, opts) ==
    LET fields == write_fields(F, opts)
        names == IF opts.alpn.some THEN opts.alpn.value ELSE <<1>>
        \* What is written before the last n bytes fits the scratch.
        Fits(n) == Minus(client_hello_len_with(F, opts), n) <= CH_SCRATCH(F)
    IN  [err |-> Verdict(<<
            <<~opts.hostname.some \/ opts.hostname.value <= 2^16 - 1, "HostnameTooLong">>,
            <<~opts.rsl.some \/ opts.rsl.value \in 64..16385, "RecordSizeLimitOutOfRange">>,
            <<names # <<>> /\ \A i \in DOMAIN names : names[i] \in 1..255, "AlpnNameLen">>,
            <<client_hello_len_with(F, opts) <= 5 + TLS_PLAINTEXT_MAX, "MessageTooLong">>,
            <<"mlkem" \notin F \/ Fits(KEY_SHARE_KEY_LEN(F) + P256_KX_ENTRY_LEN(F)), "MessageTooLong">>,
            <<"mlkem" \notin F \/ opts.ek, "MissingMlKemKeyShare">>,
            <<~TwoGroups(F) \/ Fits(P256_SHARE_BYTES), "MessageTooLong">>,
            <<~TwoGroups(F) \/ opts.p256, "MissingP256KeyShare">>,
            <<Fits(0), "MessageTooLong">>>>),
         n |-> client_hello_len_with(F, opts), fields |-> fields]

----------------------------------------------------------------------------
(* The ServerHello. Shares in cells: 1 for X25519, 2 for the hybrid        *)
(* (ciphertext and point), 3 for P-256.                                    *)

HrrRandom == 1
DowngradeRandoms == {2, 3}
SidCells == 2
ShareCells(group) == CASE group = X25519MLKEM768 -> 2 [] group = SECP256R1 -> 3 [] OTHER -> 1

\* What the loop checks of the k-th extension.
ExtensionChecks(F, us, k) ==
    LET u == us[k]
        again == \E i \in 1..(k - 1) : us[i].type = u.type
        group == At(u.body, 0)
        key == From(u.body, 2)
    IN  CASE u.type = EXT_SUPPORTED_VERSIONS ->
                <<<<~again, "DuplicateExtension">>, <<Len(u.body) = 1, "BadSupportedVersions">>,
                  <<At(u.body, 0) = TLS_1_3, "BadSupportedVersions">>>>
          [] u.type = EXT_KEY_SHARE ->
                <<<<~again, "DuplicateExtension">>, <<Len(u.body) >= 2, "Truncated">>,
                  <<Len(key) >= At(u.body, 1), "Truncated">>,
                  <<Len(key) = At(u.body, 1), "BadKeyShare">>,
                  <<Contains(Groups(F), group), "BadKeyShare">>,
                  <<Len(key) = ShareCells(group), "BadKeyShare">>>>
          [] OTHER -> <<<<FALSE, "UnknownExtension">>>>

\* b is the record, h the handshake message in it, s the body of that, exts its
\* extensions and us the same as units; sid_end is behind the session id in s.
HelloView(F, b, h, s, sid_end, exts, us) ==
    LET share == Unit(us, SelectInSeq(us, LAMBDA u : u.type = EXT_KEY_SHARE)).body
    IN  [err |-> Verdict(<<
            <<Len(b) >= 1, "Truncated">>, <<At(b, 0) = CT_HANDSHAKE, "UnexpectedContentType">>,
            <<Len(b) >= 2, "Truncated">>, <<At(b, 1) = LEGACY_VERSION, "UnexpectedLegacyVersion">>,
            <<Len(b) >= 3, "Truncated">>, <<Len(h) >= At(b, 2), "Truncated">>,
            <<Len(h) = At(b, 2), "TrailingBytes">>,
            <<Len(h) >= 1, "Truncated">>, <<At(h, 0) = HS_SERVER_HELLO, "UnexpectedHandshakeType">>,
            <<Len(h) >= 2, "Truncated">>, <<Len(s) >= At(h, 1), "Truncated">>,
            <<Len(s) = At(h, 1), "LengthMismatch">>,
            <<Len(s) >= 1, "Truncated">>, <<At(s, 0) = LEGACY_VERSION, "UnexpectedLegacyVersion">>,
            <<Len(s) >= 2, "Truncated">>, <<At(s, 1) # HrrRandom, "HelloRetryRequested">>,
            <<At(s, 1) \notin DowngradeRandoms, "DowngradeDetected">>,
            <<Len(s) >= 3, "Truncated">>, <<Len(s) >= sid_end, "Truncated">>,
            <<At(s, 2) <= SidCells, "UnexpectedSessionIdEcho">>,
            <<Len(s) >= sid_end + 1, "Truncated">>,
            <<At(s, sid_end) = AES \/ ("chacha20" \in F /\ At(s, sid_end) = CHACHA), "UnsupportedCipherSuite">>,
            <<Len(s) >= sid_end + 2, "Truncated">>,
            <<At(s, sid_end + 1) = 0, "UnexpectedCompressionMethod">>,
            <<Len(s) >= sid_end + 3, "Truncated">>,
            <<Len(exts) >= At(s, sid_end + 2), "Truncated">>,
            <<Len(exts) = At(s, sid_end + 2), "TrailingBytes">>>>
            \o FlattenSeq([k \in DOMAIN us |-> ExtensionChecks(F, us, k)])
            \o <<<<UnitsEnd(us) = Len(exts), "Truncated">>,
                 <<\E k \in DOMAIN us : us[k].type = EXT_KEY_SHARE, "BadKeyShare">>,
                 <<\E k \in DOMAIN us : us[k].type = EXT_SUPPORTED_VERSIONS, "BadSupportedVersions">>>>),
         session_id_echo |-> Slice(s, 3, sid_end), cipher_suite |-> At(s, sid_end),
         group |-> At(share, 0), share |-> From(share, 2)]
HelloWith(F, b, h, s, sid_end, exts) == HelloView(F, b, h, s, sid_end, exts, Units(exts))
HelloBody(F, b, h, s) == HelloWith(F, b, h, s, 3 + At(s, 2), From(s, 3 + At(s, 2) + 3))
parse_server_hello(F, b) == HelloBody(F, b, From(b, 3), From(b, 5))

----------------------------------------------------------------------------
(* Key exchange: KxGroup::derive of the three groups. A share whose last   *)
(* cell is 0 stands for a low-order or off-curve point, which every group  *)
(* refuses. The hybrid derives X25519 from the point behind the ciphertext *)
(* and puts the KEM secret first.                                          *)

agree(group, cell) == <<"dh", group, cell>>
decapsulate(ct) == <<"kem", X25519MLKEM768, ct>>

derive(group, share) ==
    LET point == Last(share)
    IN  IF point = 0 THEN [err |-> "DhAllZero", ikm |-> Zeros]
        ELSE [err |-> "Ok",
              ikm |-> CASE group = X25519MLKEM768 -> <<decapsulate(share[1]), agree(X25519, point)>>
                        [] group = SECP256R1 -> <<agree(SECP256R1, point)>>
                        [] group = X25519 -> <<agree(X25519, point)>>]

\* read_server_hello_with_backend. sent is what WaitServerHello keeps: the id
\* that was sent and the suites that were advertised.
Advertised(F, suites, suite) ==
    \/ suite = AES /\ "cipher-aes" \in F /\ ("chacha20" \notin F \/ suites # "ChaChaOnly")
    \/ suite = CHACHA /\ "chacha20" \in F /\ suites \in {"Default", "ChaChaOnly"}

HelloKeys(err, transcript, hs, keyLen) ==
    [err |-> err, transcript |-> transcript, hs |-> hs,
     c |-> handshake_traffic_secrets("tls13 ", hs, Hash(transcript)).c,
     s |-> handshake_traffic_secrets("tls13 ", hs, Hash(transcript)).s, keyLen |-> keyLen]
HelloRead(F, sent, sh, kx, transcript) ==
    HelloKeys(Verdict(<<
                  Passed(sh.err),
                  <<sh.session_id_echo = sent.sid, "UnexpectedSessionIdEcho">>,
                  <<Advertised(F, sent.suites, sh.cipher_suite), "UnexpectedSuite">>,
                  Passed(kx.err)>>),
              transcript, handshake_secret("tls13 ", kx.ikm), IF sh.cipher_suite = AES THEN 16 ELSE 32)
HelloParsed(F, sent, sh, transcript) ==
    HelloRead(F, sent, sh, IF sh.err = "Ok" THEN derive(sh.group, sh.share) ELSE [err |-> "Ok", ikm |-> Zeros], transcript)
read_server_hello(F, sent, ch, b) == HelloParsed(F, sent, parse_server_hello(F, b), ch \o From(b, 3))
=============================================================================
