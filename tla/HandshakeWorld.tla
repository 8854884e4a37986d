--------------------------- MODULE HandshakeWorld ---------------------------
(***************************************************************************)
(* Certificates, server messages and the families of scenarios the         *)
(* handshake model is checked on, each the honest one with one thing       *)
(* changed.                                                                *)
(***************************************************************************)
EXTENDS ClientFlight, Hello, CertWorld

FULL == {"rsa", "mldsa", "ecdsa", "ip-host", "x25519-kx", "p256-kx", "cipher-aes", "chacha20"}

----------------------------------------------------------------------------
(* Certificates. *)

Key(kind, id) == [kind |-> kind, id |-> id]
a == 97
Host == <<a, DOT, a>>
Name(h) == <<<<DNS_NAME_TAG, h>>>>
Leaf(kind, id, by, pad) == [Says EXCEPT !.kind = kind, !.id = id, !.by = by, !.pad = pad, !.san = <<Name(Host)>>]
Ca(kind, id, by, pad, ca) ==
    [Says EXCEPT !.kind = kind, !.id = id, !.by = by, !.pad = pad, !.ca = ca, !.ku = <<4>>]

Root == Key("Ed25519", 21)
RsaRoot == Key("Rsa", 22)
Inter == Key("EcdsaP256", 23)
Inter2 == Key("MlDsa44", 24)
Old == Key("Ed25519", 26)

Basic == <<
    (*  1 *) Leaf("Ed25519", 10, Key("Ed25519", 10), "none"),
    (*  2 *) Ca("Ed25519", 21, Root, "none", <<TRUE, 1>>),
    (*  3 *) Ca("EcdsaP256", 23, Root, "none", <<TRUE, 0>>),
    (*  4 *) Leaf("Ed25519", 11, Inter, "none"),
    (*  5 *) Leaf("EcdsaP256", 12, RsaRoot, "Pss"),
    (*  6 *) Ca("Rsa", 22, RsaRoot, "Pkcs1v15", <<TRUE>>),
    (*  7 *) Ca("MlDsa44", 24, Inter, "none", <<TRUE>>),
    (*  8 *) Leaf("EcdsaP384", 13, Inter2, "none"),
    (*  9 *) Leaf("Ed25519", 14, RsaRoot, "Pkcs1v15"),
    (* 10 *) [Ca("EcdsaP256", 23, Root, "none", <<FALSE>>) EXCEPT !.nb = 2001],
    (* 11 *) [Ca("EcdsaP256", 23, Root, "none", <<TRUE>>) EXCEPT !.ku = <<2>>],
    (* 12 *) [Ca("EcdsaP256", 23, Root, "none", <<TRUE>>) EXCEPT !.na = 2010],
    (* 13 *) [Ca("EcdsaP256", 23, Root, "none", <<TRUE>>) EXCEPT !.critical = TRUE],
    (* 14 *) [Leaf("Ed25519", 11, Root, "none") EXCEPT !.forged = TRUE],
    (* 15 *) [Ca("Ed25519", 26, Old, "none", <<TRUE, 0>>) EXCEPT !.na = 2010],
    (* 16 *) Leaf("EcdsaP256", 15, Old, "none"),
    (* 17 *) Leaf("Rsa", 16, Key("Rsa", 16), "Pkcs1v15"),
    (* 18 *) Leaf("MlDsa65", 17, Key("MlDsa65", 17), "none"),
    (* 19 *) Leaf("BadPoint", 18, Root, "none"),
    (* 20 *) [Leaf("Rsa", 19, RsaRoot, "Pss") EXCEPT !.na = 2060]
>>

\* Leaves with one name pattern each, and with other subjectAltNames.
Letter(i) == <<a, 65, DOT, STAR>>[(i % 4) + 1]
Patterns ==
    [i \in 1..4 |-> <<Letter(i)>>] \o [i \in 1..16 |-> <<Letter(i \div 4), Letter(i)>>]
    \o [i \in 1..64 |-> <<Letter(i \div 16), Letter(i \div 4), Letter(i)>>]
    \o <<<<STAR, DOT, a, DOT, a>>, <<a, DOT, a, DOT, a>>, <<STAR, DOT, a, DOT>>, <<a, STAR, DOT, a>>,
         <<STAR, DOT, STAR, DOT, a>>, <<STAR, DOT, DOT, a>>>>
Loopback == <<1, 0, 0, 1>>
Sans == [i \in DOMAIN Patterns |-> <<Name(Patterns[i])>>]
        \o << <<>>, << <<>> >>, <<<<<<IP_ADDRESS_TAG, Loopback>>>>>>, <<<<<<IP_ADDRESS_TAG, <<1, 0>>>>, <<IP_ADDRESS_TAG, Loopback>>>>>>,
              <<Name(<<49, DOT, 48, DOT, 48, DOT, 49>>)>>,
              <<<<<<IP_ADDRESS_TAG, <<1>>>>, <<DNS_NAME_TAG, Host>>>>>>,
              <<<<<<DNS_NAME_TAG, <<a>>>>, <<DNS_NAME_TAG, Host>>>>>> >>
HOSTS == 100
\* The name of the i-th of them is HOSTS + i.
HostLeaf(i) == [Basic[1] EXCEPT !.san = Sans[i]]

Structures == 1..Len(Basic) \cup {HOSTS + i : i \in DOMAIN Sans}
What(n) == IF n < HOSTS THEN Basic[n] ELSE HostLeaf(n - HOSTS)

\* A certificate with one byte changed, or with one byte more.
Changed == <<1, 3, 5, 6>>
ChangedDer == <<Der(Basic[1]), Der(Basic[3]), Der(Basic[5]), Der(Basic[6])>>
Changes == UNION {{<<i, p, v>> : p \in 1..(Len(ChangedDer[i]) + 1), v \in 0..2} : i \in DOMAIN Changed}
NameOf(ch) == 10000 * ch[1] + 10 * ch[2] + ch[3]
Put(b, p, v) ==
    LET q == IF p > Len(b) THEN Len(b) + 1 ELSE p
        c == At(b, q - 1)
    IN  [i \in 1..(IF q > Len(b) THEN q ELSE Len(b)) |->
            IF i # q THEN b[i]
            ELSE CASE v = 0 -> 0 [] v = 1 -> c + 1 [] v = 2 -> Minus(c, 1) [] v = 3 -> 99]

ByTlv(b) == [parse |-> parse(FULL, b), ca |-> parse_ca_constraints(b), spki |-> spki_der(b)]
ByDer(b) == [parse |-> der_parse(FULL, b), ca |-> der_parse_ca_constraints(b), spki |-> der_spki_der(b)]

Junk == <<1, 2, 3>>
Names == Structures \cup {NameOf(ch) : ch \in Changes}
DerOf(n) ==
    IF n \in Structures THEN Der(What(n)) ELSE Put(ChangedDer[n \div 10000], (n % 10000) \div 10, n % 10)
\* 0 is what cannot be read at all.
TlvTable == (0 :> ByTlv(Junk)) @@ [n \in Names |-> ByTlv(DerOf(n))]
DerTable == (0 :> ByDer(Junk)) @@ [n \in Names |-> ByDer(DerOf(n))]
SignedTable == {SignedTriple(What(n)) : n \in {k \in Structures : ~What(k).forged}}

----------------------------------------------------------------------------
(* What the server sends. *)

Msg(t, body) == <<t, Len(body)>> \o body
EE(exts) == Msg(HS_ENCRYPTED_EXTENSIONS, <<Len(exts)>> \o exts)
Limit(n) == <<EXT_RECORD_SIZE_LIMIT, 1, n>>
CR(ctx, exts) == Msg(HS_CERTIFICATE_REQUEST, <<Len(ctx)>> \o ctx \o <<Len(exts)>> \o exts)
SigAlgs(schemes) == <<EXT_SIGNATURE_ALGORITHMS, 1 + Len(schemes), Len(schemes)>> \o schemes
CERT(names) ==
    Msg(HS_CERTIFICATE, <<0, 3 * Len(names)>> \o FlattenSeq([i \in DOMAIN names |-> <<1, names[i], 0>>]))
CV(scheme, sig) == Msg(HS_CERTIFICATE_VERIFY, <<scheme, Len(sig)>> \o sig)
Mac == <<61, 62>>
FIN == Msg(HS_FINISHED, Mac)

\* A signature by a key of a kind.
SigBy(kind) == SubSeq(<<51, 52, 53, 54>>, 1, IF kind \in {"MlDsa44", "Rsa"} THEN 3 ELSE IF kind = "MlDsa65" THEN 4 ELSE 2)
FlightOf(names, request) ==
    LET kind == What(names[1]).kind
    IN  EE(Limit(64)) \o request \o CERT(names)
        \o CV(SchemeOf[IF kind = "BadPoint" THEN "Ed25519" ELSE kind], SigBy(kind)) \o FIN

\* ServerHello: st is [random, sid, suite, group, share, first].
EncodeHello(st) ==
    LET version == <<EXT_SUPPORTED_VERSIONS, 1, TLS_1_3>>
        share == Msg(EXT_KEY_SHARE, <<st.group, Len(st.share)>> \o st.share)
        exts == IF st.first THEN version \o share ELSE share \o version
        body == <<LEGACY_VERSION, st.random, Len(st.sid)>> \o st.sid \o <<st.suite, 0, Len(exts)>> \o exts
    IN  <<CT_HANDSHAKE, LEGACY_VERSION, 2 + Len(body)>> \o Msg(HS_SERVER_HELLO, body)

HelloOf(cells) ==
    {st \in [random : {At(cells, 6)}, sid : {<<>>, Sid}, suite : {AES, CHACHA},
              group : {X25519, SECP256R1, X25519MLKEM768}, first : BOOLEAN,
              share : {Slice(cells, i, i + n) : i \in DOMAIN cells, n \in 1..3}] :
        Len(st.share) = ShareCells(st.group) /\ EncodeHello(st) = cells}

Hello0 == [random |-> 9, sid |-> <<>>, suite |-> AES, group |-> X25519, share |-> <<31>>, first |-> TRUE]

\* The secret both sides share, from the server's side.
Dhe(st) ==
    CASE st.group = X25519 -> <<<<"dh", X25519, st.share[1]>>>>
      [] st.group = SECP256R1 -> <<<<"dh", SECP256R1, st.share[3]>>>>
      [] st.group = X25519MLKEM768 ->
            <<<<"kem", X25519MLKEM768, st.share[1]>>, <<"dh", X25519, st.share[2]>>>>

WithHello(s, cells) ==
    LET known == HelloOf(cells)
        st == IF known = {} THEN Hello0 ELSE CHOOSE st \in known : TRUE
    IN  [s EXCEPT !.sh = cells, !.dhe = Dhe(st), !.suite = st.suite]

----------------------------------------------------------------------------
(* Scenarios. *)

Signer(scheme, cert_len, sig_len) ==
    [works |-> TRUE, cert |-> 801, cert_len |-> cert_len, scheme |-> scheme, sig_len |-> sig_len]
NoSigner == Signer(0, 0, 0)

NoAlpn == [some |-> FALSE, value |-> <<>>]
NoPin == [some |-> FALSE, value |-> [kind |-> "", key |-> <<>>]]
PinOf(n) == Some([kind |-> What(n).kind, key |-> KeyView(What(n).kind, What(n).id)])

Base ==
    [family |-> "base", F |-> FULL, host |-> Host, dotted |-> <<>>, middlebox_compat |-> FALSE,
     config |-> "AesAndChaCha", suite_policy |-> "Default", alpn |-> NoAlpn, policy |-> "NoClientAuth",
     signer |-> NoSigner, RECV |-> 16645, SEND |-> 4096, rng |-> TRUE,
     strategy |-> "safe", pin |-> PinOf(1), ledger |-> <<>>, anchors |-> <<>>, enforce |-> FALSE,
     clock |-> None, parser |-> "der",
     sh |-> EncodeHello(Hello0), dhe |-> Dhe(Hello0), suite |-> AES,
     flight |-> FlightOf(<<1>>, <<>>), key |-> KeyView("Ed25519", 10), sig |-> SigBy("Ed25519"), mac |-> Mac,
     signs |-> "honest", macs |-> "honest", cuts |-> {}, pads |-> {0}, inner_type |-> CT_HANDSHAKE,
     outer_type |-> CT_APPLICATION_DATA, next |-> <<>>]

Asked(s, policy, signer, ctx, exts) ==
    [s EXCEPT !.policy = policy, !.signer = signer, !.flight = FlightOf(<<1>>, CR(ctx, exts))]

EdSigner == Signer(7, 500, 64)

\* The flight cut everywhere, with padding, and one more CertificateRequest.
Cuts(b) == {[Asked(b, "WithClientAuth", EdSigner, <<41>>, SigAlgs(<<7>>))
             EXCEPT !.family = "cuts", !.cuts = 0..60, !.pads = {0, 2}]}

\* One cell of a hello changed.
Hellos == {[Hello0 EXCEPT !.group = SECP256R1, !.share = <<32, 33, 34>>, !.suite = CHACHA],
           [Hello0 EXCEPT !.sid = Sid, !.first = FALSE], Hello0,
           [Hello0 EXCEPT !.group = X25519MLKEM768, !.share = <<35, 36>>]}
HelloScenarios(b) ==
    {WithHello([b EXCEPT !.family = "hello", !.middlebox_compat = st.sid # <<>>,
                            !.F = IF st.group = X25519MLKEM768 THEN @ \cup {"mlkem"} ELSE @],
               Put(EncodeHello(st), p, v)) : st \in Hellos, p \in 1..22, v \in 0..3}
    \cup {WithHello([b EXCEPT !.config = c, !.suite_policy = r, !.middlebox_compat = mb], EncodeHello(st)) :
            st \in Hellos, c \in {"AesOnly", "ChaChaOnly", "AesAndChaCha"},
            r \in {"Default", "AesOnly", "ChaChaOnly"}, mb \in BOOLEAN}

\* One cell of a flight changed, with and without a CertificateRequest.
Requested == CR(<<41>>, <<9, 0>> \o SigAlgs(<<8, 7>>) \o <<9, 1, 7>>)
FlightScenarios(b) ==
    {[b EXCEPT !.family = "flight", !.policy = pol, !.signer = EdSigner,
                  !.flight = Put(FlightOf(<<1>>, req), p, v)] :
        pol \in {"NoClientAuth", "DeclineClientAuth", "WithClientAuth"}, req \in {<<>>, Requested, CR(<<>>, <<>>)},
        p \in 1..38, v \in 0..3}

\* Every order of up to four messages, and of five.
Message(i) == <<EE(<<>>), CR(<<>>, SigAlgs(<<7>>)), CERT(<<1>>), CV(SchemeOf["Ed25519"], SigBy("Ed25519")), FIN>>[i]
Orders == UNION {[1..n -> 1..5] : n \in 1..4} \cup {f \in [1..5 -> 1..5] : f[5] = 5}
OrderScenarios(b) ==
    {[b EXCEPT !.family = "order", !.policy = "DeclineClientAuth",
                  !.flight = FlattenSeq([i \in DOMAIN f |-> Message(f[i])])] : f \in Orders}

\* Bytes behind the Finished, below and above the capacity.
TailScenarios(b) ==
    {[b EXCEPT !.family = "tail", !.flight = @ \o [i \in 1..n |-> 7], !.cuts = {10}] :
        n \in {1, 2, 3, FLIGHT - Len(b.flight), FLIGHT - Len(b.flight) + 1}}

\* Keys, schemes and dishonest servers.
Leaves == {1, 5, 8, 17, 18, 19}
KeyScenarios(b) ==
    {[b EXCEPT !.family = "key", !.pin = PinOf(n), !.flight = EE(<<>>) \o CERT(<<n>>) \o CV(scheme, sig) \o FIN,
                  !.key = KeyView(What(n).kind, What(n).id), !.sig = sig,
                  !.signs = IF sig = SigBy(What(n).kind) THEN signs ELSE "other", !.macs = macs] :
        n \in Leaves, scheme \in Range(SchemeOf), sig \in {SigBy("Rsa"), SigBy("Ed25519"), SigBy("MlDsa65")},
        signs \in {"honest", "other"}, macs \in {"honest", "other"}}

RecordScenarios(b) ==
    {[b EXCEPT !.family = "record", !.inner_type = i, !.outer_type = o, !.RECV = r, !.pads = {pad}, !.rng = g] :
        i \in {CT_HANDSHAKE, CT_ALERT, CT_APPLICATION_DATA}, o \in {CT_APPLICATION_DATA, CT_HANDSHAKE, CT_ALERT},
        r \in {94, 95, 96}, pad \in {0, 40, 41, 42, 43, 44, 45}, g \in BOOLEAN}

\* A Scratch that was used before.
ReconnectScenarios(b) ==
    {[s EXCEPT !.next = <<[b EXCEPT !.family = "again", !.RECV = r]>>, !.cuts = {20}] : r \in {0, b.RECV},
        s \in {b, [b EXCEPT !.flight = Slice(@, 0, 21)], [b EXCEPT !.signs = "other"],
               [b EXCEPT !.host = <<a>>], [b EXCEPT !.RECV = 0]}}

\* Chains and ledgers.
AnchorOf(l) ==
    IF l[1] = "spki" THEN <<"spki", Spki(What(l[2]).kind, What(l[2]).id)>> ELSE l
Roots(s, chain, ledger, clock, enforce) ==
    [s EXCEPT !.family = "chain", !.strategy = "roots", !.ledger = ledger,
              !.anchors = [i \in DOMAIN ledger |-> AnchorOf(ledger[i])],
              !.clock = clock, !.enforce = enforce, !.parser = IF Len(chain) % 2 = 0 THEN "der" ELSE "tlv",
              !.flight = FlightOf(chain, <<>>),
              !.key = KeyView(What(chain[1]).kind, What(chain[1]).id), !.sig = SigBy(What(chain[1]).kind)]
Chains ==
    {<<x>> : x \in {4, 5, 8, 9, 14, 16, 17, 19, 20}}
    \cup {<<x, y>> : x \in {4, 5, 8, 9, 14, 16, 19, 20}, y \in {2, 3, 6, 7, 10, 11, 12, 13, 15}}
    \cup {<<x, y, z>> : x \in {4, 8, 5}, y \in {3, 7, 6, 11, 12}, z \in {2, 3, 6, 13, 7}}
    \cup {<<8, 7, 3, 2>>, <<4, 3, 2, 2>>, <<4, 3, 2, 2, 2>>}
Ledgers == {<<<<"cert", 2>>>>, <<<<"cert", 15>>, <<"cert", 6>>>>, <<<<"fp", 2>>>>, <<<<"fp", 3>>, <<"spki", 6>>>>,
            <<<<"spki", 4>>>>, <<<<"cert", 0>>, <<"cert", 7>>, <<"cert", 2>>>>, <<<<"cert", 12>>, <<"fp", 8>>>>,
            <<<<"cert", 3>>>>}
ChainScenarios(b) ==
    {Roots(b, c, l, clock, e) : c \in Chains, l \in Ledgers, clock \in {Some(2000), Some(2020)}, e \in BOOLEAN}
SingleScenarios(b) ==
    {[Roots(b, c, <<>>, clock, FALSE) EXCEPT !.strategy = "safe", !.pin = pin] :
        c \in Chains \cup {<<1>>, <<1, 0>>, <<18>>, <<18, 18>>, <<2>>, <<6>>}, clock \in {None, Some(2040), Some(2041)},
        pin \in {NoPin, PinOf(4), PinOf(17), PinOf(5)}}

\* Names.
Hostnames == {<<a>>, <<a, DOT, a>>, <<65, DOT, a>>, <<a, a, DOT, a>>, <<a, DOT, a, DOT, a>>, <<DOT, a>>, <<a, DOT>>,
              <<STAR, DOT, a>>, <<a, DOT, DOT, a>>, <<a, 98>>}
IpLiteral == <<49, DOT, 48, DOT, 48, DOT, 49>>
HostScenarios(b) ==
    {[b EXCEPT !.family = "host", !.host = h, !.dotted = IF h = IpLiteral THEN Loopback ELSE <<>>,
                  !.flight = FlightOf(<<HOSTS + i>>, <<>>)] :
        h \in Hostnames \cup {IpLiteral}, i \in DOMAIN Sans}

\* Certificates that are not what they should be.
CertScenarios(b) ==
    {[b EXCEPT !.family = "cert", !.flight = EE(<<>>) \o CERT(<<n>>) \o CV(7, <<51, 52>>) \o FIN,
                  !.parser = IF (n \div 10) % 2 = 0 THEN "tlv" ELSE "der"] : n \in Names}

\* Client authentication at the sizes that are promised to be enough.
Builds == {FULL, FULL \cup {"rsa-4096"}, FULL \ {"rsa"}}
Schemes0 == <<3, 7, 4>>
Half(n, zeros, high) == [n |-> n, zeros |-> zeros, high |-> high]
Signers(F) ==
    {Signer(3, MAX_CLIENT_CERT_DER(F), der_ecdsa_sig(Half(32, z, TRUE), Half(32, 0, h))) : z \in {0, 1, 32}, h \in BOOLEAN}
    \cup {Signer(5, 700, der_ecdsa_sig(Half(48, 0, TRUE), Half(48, 0, TRUE)))}
    \cup {Signer(7, n, 64) : n \in {0, 1, MAX_CLIENT_CERT_DER(F), MAX_CLIENT_CERT_DER(F) + 1}}
    \cup {Signer(4, 900, n) : n \in {m \in {256, 384, 512} : from_components(F, m, m) = "Ok"}}
    \cup {[Signer(4, MAX_CLIENT_CERT_DER(F), MAX_CLIENT_SIG_LEN(F)) EXCEPT !.works = w] : w \in BOOLEAN}
AuthScenarios(b) ==
    {[Asked([b EXCEPT !.family = "auth", !.F = fs[1], !.suite_policy = "AesOnly"], pol, fs[2], [i \in 1..n |-> 42], SigAlgs(Schemes0))
        EXCEPT !.flight = EE(lim) \o From(@, Len(EE(Limit(64)))),
               !.RECV = IF MAX_FLIGHT_LEN(fs[1], pol) > MIN_RECV(fs[1]) THEN MAX_FLIGHT_LEN(fs[1], pol) - short ELSE MIN_RECV(fs[1]),
               !.SEND = client_auth_send_floor(MAX_FLIGHT_LEN(fs[1], pol))] :
        fs \in UNION {{F} \X Signers(F) : F \in Builds}, pol \in {"DeclineClientAuth", "WithClientAuth"},
        n \in {0, 255}, short \in {0, 1},
        lim \in {<<>>, Limit(64), Limit(65), Limit(63), Limit(16385), Limit(16386), Limit(0), Limit(64) \o Limit(64)}}

\* Parameters of the ClientHello.
Kx == {{"x25519-kx"}, {"p256-kx"}, {"x25519-kx", "p256-kx"}, {"x25519-kx", "mlkem"}, {"x25519-kx", "p256-kx", "mlkem"}}
OfferScenarios(b) ==
    {[b EXCEPT !.family = "offer", !.F = kx \cup f \cup {"cipher-aes"},
                  !.config = IF "chacha20" \in f THEN "AesAndChaCha" ELSE "AesOnly",
                  !.suite_policy = pol, !.alpn = alpn, !.host = [i \in 1..n |-> a], !.middlebox_compat = mb] :
        kx \in Kx, f \in {{}, {"chacha20"}, {"rsa", "mldsa", "ecdsa", "chacha20"}}, pol \in {"Default", "AesOnly"},
        alpn \in {NoAlpn, Some(<<>>), Some(<<0>>), Some(<<2, 8>>), Some(<<255>>), Some(<<256>>), Some(<<250, 100>>)},
        n \in {1, 255, 256}, mb \in BOOLEAN}

Families(b) ==
    {Cuts(b), HelloScenarios(b), FlightScenarios(b), OrderScenarios(b), TailScenarios(b), KeyScenarios(b),
     RecordScenarios(b), ReconnectScenarios(b), ChainScenarios(b), SingleScenarios(b), HostScenarios(b),
     CertScenarios(b), AuthScenarios(b), OfferScenarios(b)}
=============================================================================
