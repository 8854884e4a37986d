-------------------------- MODULE MC_TlsHandshake --------------------------
(***************************************************************************)
(* The handshake model on the scenarios of HandshakeWorld, and a judgement *)
(* of each that is not written the way the code is: grammars instead of    *)
(* cursors, paths instead of a walk, labels instead of suffixes.           *)
(***************************************************************************)
EXTENDS HandshakeWorld, TlsHandshake

MCPki == [tlv |-> TlvTable, der |-> DerTable]
MCSigned == SignedTable
MCScenarios == Families(Base)

----------------------------------------------------------------------------
(* What is acceptable, from the grammar of the messages and from what the  *)
(* certificates say.                                                       *)

\* The ClientHello as nested vectors, each counting what it encloses.
Bytes(fields) == SumSeq([i \in DOMAIN fields |-> fields[i][1]])
Vec(w, fields) == <<<<w, Bytes(fields)>>>> \o fields
Extension(type, fields) == <<<<2, type>>>> \o Vec(2, fields)
KeyShares(F) ==
    (IF "mlkem" \in F THEN <<<<2, X25519MLKEM768>>>> \o Vec(2, <<<<1184, 0>>, <<32, 0>>>>)
     ELSE IF "x25519-kx" \in F THEN <<<<2, X25519>>>> \o Vec(2, <<<<32, 0>>>>) ELSE <<>>)
    \o (IF "p256-kx" \in F THEN <<<<2, SECP256R1>>>> \o Vec(2, <<<<65, 0>>>>) ELSE <<>>)

HelloTree(F, opts) ==
    LET exts ==
            Extension(EXT_SUPPORTED_VERSIONS, Vec(1, <<<<2, TLS_1_3>>>>))
            \o Extension(EXT_SUPPORTED_GROUPS, Vec(2, U16s(Groups(F))))
            \o Extension(EXT_SIG_ALGS, Vec(2, U16s(Schemes(F))))
            \o Extension(EXT_SERVER_NAME, Vec(2, <<<<1, 0>>>> \o Vec(2, <<<<opts.hostname.value, 0>>>>)))
            \o Extension(EXT_RSL, <<<<2, opts.rsl.value>>>>)
            \o If(opts.alpn.some,
                  Extension(EXT_ALPN, Vec(2, FlattenSeq(
                      [i \in DOMAIN opts.alpn.value |-> Vec(1, <<<<opts.alpn.value[i], 0>>>>)]))))
            \o Extension(EXT_KEY_SHARE, Vec(2, KeyShares(F)))
        body == <<<<2, LEGACY_VERSION>>, <<32, 0>>>> \o Vec(1, If(opts.sid.some, <<<<32, 0>>>>))
                \o Vec(2, U16s(Suites(F, opts.suites))) \o Vec(1, <<<<1, 0>>>>) \o Vec(2, exts)
    IN  <<<<1, CT_HANDSHAKE>>, <<2, LEGACY_VERSION>>>> \o Vec(2, <<<<1, HS_CLIENT_HELLO>>>> \o Vec(3, body))

ConfigOk(s) ==
    /\ s.rng /\ Len(s.host) <= 255
    /\ s.alpn.some => s.alpn.value # <<>> /\ \A i \in DOMAIN s.alpn.value : s.alpn.value[i] \in 1..255
    /\ Bytes(HelloTree(s.F, ClientHelloOptions(s))) <= CH_SCRATCH(s.F)
    /\ s.RECV >= (IF "mlkem" \in s.F THEN 1183 ELSE 95)
    /\ s.RECV >= MAX_FLIGHT_LEN(s.F, s.policy)

OfferedSuites(s) ==
    LET both == IF s.config = "AesAndChaCha" THEN s.suite_policy ELSE s.config
    IN  CASE both = "AesOnly" -> {AES} [] both = "ChaChaOnly" -> {CHACHA} [] OTHER -> {AES, CHACHA}
OfferedGroups(F) ==
    (IF "mlkem" \in F THEN {X25519MLKEM768} ELSE IF "x25519-kx" \in F THEN {X25519} ELSE {})
    \cup (IF "p256-kx" \in F THEN {SECP256R1} ELSE {})

HelloOk(s) ==
    \E st \in HelloOf(s.sh) :
        /\ st.random \notin {HrrRandom} \cup DowngradeRandoms
        /\ st.sid = (IF s.middlebox_compat THEN Sid ELSE <<>>)
        /\ st.suite \in OfferedSuites(s) /\ st.group \in OfferedGroups(s.F)
        /\ Last(st.share) # 0

\* The messages up to the first Finished; a flight has one order.
UpTo(us, t) == SubSeq(us, 1, SelectInSeq(us, LAMBDA u : u.type = t))
Messages(s) == UpTo(Units(s.flight), HS_FINISHED)
Requests(ms) == Len(ms) = 5
Ordered(ms) ==
    [i \in DOMAIN ms |-> ms[i].type] \in
        {<<HS_ENCRYPTED_EXTENSIONS>> \o cr \o <<HS_CERTIFICATE, HS_CERTIFICATE_VERIFY, HS_FINISHED>> :
            cr \in {<<>>, <<HS_CERTIFICATE_REQUEST>>}}
BodyOf(ms, t) == Unit(ms, SelectInSeq(ms, LAMBDA u : u.type = t)).body

Tiled(exts, us) == UnitsEnd(us) = Len(exts)

LimitsOk(limits) ==
    Len(limits) <= 1 /\ \A i \in DOMAIN limits : Len(limits[i].body) = 1 /\ limits[i].body[1] \in 64..16385
ExtensionsOk(ee) ==
    /\ ee # <<>> /\ ee[1] = Len(ee) - 1
    /\ \A us \in {Units(Tail(ee))} :
        Tiled(Tail(ee), us) /\ LimitsOk(SelectSeq(us, LAMBDA u : u.type = EXT_RECORD_SIZE_LIMIT))

\* The contexts and schemes a CertificateRequest can be read as: one or none.
SchemesIn(body, n, exts, us) ==
    IF BodyOf(us, EXT_SIGNATURE_ALGORITHMS) = <<>>
    THEN {<<>> : x \in {y \in {us} : ~(\E k \in DOMAIN y : y[k].type = EXT_SIGNATURE_ALGORITHMS) /\ Tiled(exts, y)}}
    ELSE {Tail(d) : d \in {e \in {BodyOf(us, EXT_SIGNATURE_ALGORITHMS)} : Len(e) >= 2 /\ e[1] = Len(e) - 1}}
SchemesOf(body) ==
    UNION {SchemesIn(body, n, SubSeq(body, n + 3, Len(body)), Units(SubSeq(body, n + 3, Len(body)))) :
            n \in {m \in 0..Len(body) : m + 2 <= Len(body) /\ body[1] = m /\ body[m + 2] = Len(body) - m - 2}}

RequestOk(s, ms) ==
    Requests(ms) =>
        /\ s.policy # "NoClientAuth"
        /\ \E schemes \in SchemesOf(BodyOf(ms, HS_CERTIFICATE_REQUEST)) :
            s.policy = "WithClientAuth" =>
                /\ Contains(schemes, s.signer.scheme) /\ s.signer.works
                /\ s.signer.cert_len \in 1..MAX_CLIENT_CERT_DER(s.F)
                /\ s.signer.sig_len <= MAX_CLIENT_SIG_LEN(s.F)

\* The chains a Certificate body can be read as: one or none. An entry has a
\* certificate of one cell or of another number.
EntryEnd(list, i) == i + 2 + At(list, i) + At(list, i + 1 + At(list, i))
Entries(list) ==
    LET read[i \in 0..Len(list)] ==
            IF i = Len(list) THEN {<<>>}
            ELSE IF i + 2 + At(list, i) > Len(list) \/ EntryEnd(list, i) > Len(list) THEN {}
            ELSE {<<IF At(list, i) = 1 THEN list[i + 2] ELSE 0>> \o rest : rest \in read[EntryEnd(list, i)]}
    IN  {c \in read[0] : Len(c) <= MAX_CHAIN}
ChainsIn(body, start) ==
    IF start > Len(body) \/ start + At(body, start - 1) > Len(body) THEN {}
    ELSE Entries(SubSeq(body, start + 1, start + At(body, start - 1)))
ChainsAt(body) == ChainsIn(body, At(body, 0) + 2)
ChainsOf(ms) == ChainsAt(BodyOf(ms, HS_CERTIFICATE))

Unreadable == [Says EXCEPT !.kind = "Junk", !.id = 0, !.forged = TRUE]
Meant(n) == IF n \in Structures THEN What(n) ELSE Unreadable
Now(s) == IF s.clock.some THEN <<s.clock.value>> ELSE <<>>

TrustedCerts(s, C) ==
    IF s.strategy = "roots"
    THEN TrustedByRoots(C, [i \in DOMAIN s.ledger |-> <<s.ledger[i][1], Meant(s.ledger[i][2])>>], s.enforce, Now(s))
    ELSE IF s.pin.some THEN TrustedByPin(C, s.pin.value, Now(s))
    ELSE TrustedSelfSigned(C, Now(s))
Trusted(s, chain) == TrustedCerts(s, [i \in DOMAIN chain |-> Meant(chain[i])])

Genuine(s, ms, leaf) ==
    /\ s.signs = "honest" /\ s.macs = "honest"
    /\ KeyView(leaf.kind, leaf.id) = s.key
    /\ BodyOf(ms, HS_CERTIFICATE_VERIFY) = <<SchemeOf[leaf.kind], Len(s.sig)>> \o s.sig
    /\ BodyOf(ms, HS_FINISHED) = s.mac

Acceptable(s) ==
    /\ ConfigOk(s) /\ HelloOk(s)
    /\ s.inner_type = CT_HANDSHAKE /\ s.outer_type = CT_APPLICATION_DATA
    /\ \E ms \in {Messages(s)} :
        /\ Ordered(ms) /\ ExtensionsOk(BodyOf(ms, HS_ENCRYPTED_EXTENSIONS)) /\ RequestOk(s, ms)
        /\ \E chain \in ChainsOf(ms) :
            /\ Trusted(s, chain) /\ HostBound(Meant(chain[1]), s.host, s.dotted)
            /\ Genuine(s, ms, Meant(chain[1]))

\* A record that is larger than the client announced, or than it can hold.
Oversized(s) ==
    \/ ServerHelloBytes(s) > s.RECV
    \/ \E n \in s.cuts \cup {Len(s.flight)}, pad \in s.pads : n + 1 + pad > s.RECV - 21

----------------------------------------------------------------------------
(* Properties. *)

\* TlsStream::connect succeeds exactly on what is acceptable: the parameters, the
\* ServerHello, the grammar and order of the flight, whatever its records and
\* whatever follows the Finished in the last of them, the trust in the chain, the
\* name, the signature and the MAC. It gives up on size only where a record or
\* the flight is larger than the buffer for it.
AcceptsExactly ==
    scn.family # "cert" =>
        /\ returned = "RecordTooLarge" => Oversized(scn)
        /\ returned = "Overflow" => srv.off > FLIGHT
        /\ pc \in {"App", "Closed"} /\ returned \notin {"RecordTooLarge", "Overflow"} =>
            ((pc = "App") <=> (Acceptable(scn) /\ srv.off <= FLIGHT))

\* VerifyStrategy::verify_chain trusts a chain when there is a path from the leaf
\* to an anchor in which every certificate is in time and every issuer may issue,
\* and refuses every other one (PinnedRoots, PinOrSelfSigned).
ChainJudgedRight ==
    scn.family = "chain" /\ (pc = "App" \/ returned = "StrategyRejected") =>
        ((pc = "App") <=> \E chain \in ChainsOf(Messages(scn)) : Trusted(scn, chain))

\* verify_hostname binds the leaf to the name the caller gave, label by label, a
\* wildcard standing for one label on the left, and an address for itself.
HostJudgedRight ==
    scn.family = "host" /\ (pc = "App" \/ returned \in {"HostnameMismatch", "NoSan", "MalformedSan"}) =>
        \A chain \in ChainsOf(Messages(scn)) :
            (pc = "App") <=> HostBound(Meant(chain[1]), scn.host, scn.dotted)

\* The two certificate parsers (tlv_cert.rs and der_cert.rs) read the same from
\* every certificate both accept, and from a well-formed one what it says.
ParsersAgree ==
    pc = "init" /\ scn.family = "cert" =>
        \A pki \in {Pki}, chain \in ChainsOf(Messages(scn)) : \A n \in Range(chain) \cap DOMAIN pki.tlv :
            \A t \in {pki.tlv[n]}, d \in {pki.der[n]} :
                /\ t.parse.err = "Ok" /\ d.parse.err = "Ok" => t.parse.view = d.parse.view /\ t.spki = d.spki
                /\ t.ca.err = "Ok" /\ d.ca.err = "Ok" => t.ca.out = d.ca.out
                /\ n \in Structures =>
                    /\ t.parse.err = "Ok" /\ d.parse.err = "Ok" /\ t.parse.view = Seen(What(n))
                    /\ ~What(n).critical => t.ca.err = "Ok" /\ d.ca.err = "Ok" /\ t.ca.out = SeenCa(What(n))

\* Client and server hold the same keys when connect returns: the application
\* secrets are bound to everything through the server's Finished, and the records
\* of the second flight open one after the other under the handshake keys of the
\* server, carry the whole flight, and a Finished over what was exchanged.
KeysAgree ==
    pc = "App" =>
        LET T0 == ServerTranscript(scn) \o Slice(scn.flight, 0, Last(Messages(scn)).end)
            secrets == ServerSecrets(scn)
            master == Extract(derive_secret("tls13 ", secrets.hs, "derived", EmptyHash), Zeros)
            after == IF out.transcript = <<>> THEN T0 ELSE out.transcript
            beforeFin == IF out.transcript = <<>> THEN T0 ELSE SubSeq(after, 1, Len(after) - 3)
            beforeCv == SubSeq(after, 1, Len(after) - 3 - 5)
        IN  /\ conn.c_ap = derive_secret("tls13 ", master, "c_ap_traffic", Hash(T0))
            /\ conn.s_ap = derive_secret("tls13 ", master, "s_ap_traffic", Hash(T0))
            /\ SubSeq(after, 1, Len(T0)) = T0
            /\ Last(out.auth) = finished_mac("tls13 ", secrets.c, Hash(beforeFin))
            /\ Len(out.auth) = 2 => out.auth[1] = <<"sig", scn.signer.cert, certificate_verify_signed_content(Hash(beforeCv))>>
            /\ Len(out.auth) = (IF Requests(Messages(scn)) /\ scn.policy = "WithClientAuth" THEN 2 ELSE 1)
            /\ \A i \in DOMAIN out.records :
                /\ decrypt_record_inplace(out.records[i], ServerKeys(scn, secrets.c), i - 1) = "Ok"
                /\ split_inner_plaintext(out.records[i].inner).type = CT_HANDSHAKE
            /\ SumSeq([i \in DOMAIN out.records |-> split_inner_plaintext(out.records[i].inner).run]) = out.len

\* The buffers that validate_construction accepts hold the second flight at every
\* legal record_size_limit of the peer, and no record exceeds that limit.
ClientFlightFits ==
    /\ pc = "App" =>
        /\ \A i \in DOMAIN out.records : InnerLen(out.records[i].inner) <= peer_limit
        /\ SumSeq([i \in DOMAIN out.records |-> out.records[i].size]) <= scn.SEND
    /\ returned = "BufferTooSmall" => srv.seq = 0

\* The ClientHello is as long as client_hello_len_with says, and every length in
\* it counts what it encloses and fits its field.
HelloAsSized ==
    pc = "init" /\ scn.family \in {"offer", "hello"} =>
        LET opts == ClientHelloOptions(scn)
            ch == write_client_hello_with(scn.F, opts)
            tree == HelloTree(scn.F, opts)
        IN  /\ ch.err = "Ok" =>
                /\ ch.fields = tree /\ ch.n = Bytes(tree) /\ ch.n <= CH_SCRATCH(scn.F)
                /\ \A i \in DOMAIN tree : tree[i][1] <= 2 => tree[i][2] < 256 ^ tree[i][1]
            /\ ch.err = "MessageTooLong" => Bytes(tree) > CH_SCRATCH(scn.F)
=============================================================================
