------------------------------ MODULE DerCert ------------------------------
(***************************************************************************)
(* backends/der_cert.rs: the certificate parser of builds with the der     *)
(* crate, whose readers are modelled from their use. It differs from       *)
(* TlvCert in what it does not look at (the tags of most fields) and in    *)
(* what it insists on (a slice decoded as a whole has nothing behind the   *)
(* value).                                                                 *)
(***************************************************************************)
EXTENDS TlvCert

\* The tags der knows: the universal types and every other class.
KnownTag(t) == t \in {1, 2, 3, 4, 5, 6, 9, 10, 12, 19, 20, 22, 23, 24, 30, 48, 49} \/ t >= 64

\* AnyRef::decode and Reader::tlv_bytes; AnyRef::try_from, for which the value
\* is the whole slice.
Known(t) == IF t.ok /\ KnownTag(t.tag) THEN t ELSE NoTlv
Whole(t) == IF t.rest = <<>> THEN t ELSE NoTlv
der_any(b) == Known(read_tlv(b))
der_whole(b) == Whole(Known(read_tlv(b)))

KnownPrefix(ts, k) == IF k = 0 THEN ts ELSE SubSeq(ts, 1, k - 1)
AllKnown(ts) == KnownPrefix(ts, SelectInSeq(ts, LAMBDA t : ~KnownTag(t.tag)))
der_anys(b) == AllKnown(Tlvs(b))

\* ObjectIdentifier::decode.
IsOid(t) == Is(t, TAG_OID) /\ t.body # <<>>

\* BitStringRef::decode; at most 7 unused bits, and none without a byte.
IsBits(t) == Is(t, TAG_BIT_STRING) /\ At(t.body, 0) <= 7 /\ (t.body = <<0>> \/ Len(t.body) >= 2)

der_null_params(r) == NullChecks(r, der_any(r))

DerAs(kind, alg, ts, checks) ==
    Kind(kind, <<<<Is(alg, TAG_SEQUENCE), Malformed>>, <<IsOid(Tlv(ts, 1)), Malformed>>>> \o checks)
DerCurveChecks(curve) ==
    <<<<IsOid(curve), Malformed>>, <<curve.rest = <<>>, "AlgorithmHasParameters">>,
      <<At(curve.body, 0) \in {SECP256R1_OID, SECP384R1_OID}, "WrongAlgorithmOid">>>>
DerSpkiKind(F, alg, ts, oid, r) ==
    CASE oid = ED25519_OID -> DerAs("Ed25519", alg, ts, NoParams(r))
      [] oid = RSA_ENCRYPTION_OID /\ "rsa" \in F -> DerAs("Rsa", alg, ts, der_null_params(r))
      [] oid = ML_DSA_44_OID /\ "mldsa" \in F -> DerAs("MlDsa44", alg, ts, NoParams(r))
      [] oid = ML_DSA_65_OID /\ "mldsa" \in F -> DerAs("MlDsa65", alg, ts, NoParams(r))
      [] oid = EC_PUBLIC_KEY_OID /\ "ecdsa" \in F ->
            DerAs(IF At(Tlv(ts, 2).body, 0) = SECP256R1_OID THEN "EcdsaP256" ELSE "EcdsaP384", alg, ts,
                  DerCurveChecks(Tlv(ts, 2)))
      [] OTHER -> DerAs("none", alg, ts, <<<<FALSE, "WrongAlgorithmOid">>>>)
DerSpkiAlgorithm(F, alg, ts) == DerSpkiKind(F, alg, ts, At(Tlv(ts, 1).body, 0), Tlv(ts, 1).rest)
der_classify_spki_algorithm(F, alg) == DerSpkiAlgorithm(F, alg, der_anys(alg.body))

DerOuterKind(F, alg, ts, oid, r) ==
    CASE oid = SHA256_WITH_RSA_OID /\ "rsa_pss_only" \notin F -> DerAs("Pkcs1v15", alg, ts, der_null_params(r))
      [] oid = RSASSA_PSS_OID -> DerAs("Pss", alg, ts, <<<<r = <<>> \/ der_whole(r).ok, Malformed>>>>)
      [] OTHER -> DerAs("none", alg, ts, <<>>)
DerOuterAlgorithm(F, alg, ts) == DerOuterKind(F, alg, ts, At(Tlv(ts, 1).body, 0), Tlv(ts, 1).rest)
der_classify_rsa_outer_sig_alg(F, alg) == DerOuterAlgorithm(F, alg, der_anys(alg.body))

DerRsaPubkeyOf(F, outer) == RsaPubkeyIn(F, outer, der_anys(outer.body))
der_parse_rsa_pubkey(F, b) == DerRsaPubkeyOf(F, der_whole(b))

----------------------------------------------------------------------------
\* The extensions as der reads them; nothing stands behind the SEQUENCE in [3].
DerReadExtension(t, p, c) == [ReadExtension(t, p, c) EXCEPT !.ok = @ /\ IsOid(Tlv(p, 1))]
DerExtensionOf(t, p) == DerReadExtension(t, p, IF Tlv(p, 2).tag = TAG_BOOLEAN THEN 1 ELSE 0)
DerExtensionsIn(present, ok, seq, exts) ==
    [present |-> present, ok |-> ok,
     list |-> [i \in DOMAIN exts |-> DerExtensionOf(exts[i], der_anys(exts[i].body))],
     end |-> Behind(seq.body, exts, Len(exts)) = <<>>]
DerExtensionsOf(tail, ts, k, seq) ==
    DerExtensionsIn(k # 0, IF k = 0 THEN Behind(tail, ts, Len(ts)) = <<>> ELSE Is(seq, TAG_SEQUENCE), seq,
                    der_anys(seq.body))
DerExtensionsAt(tail, ts, k) == DerExtensionsOf(tail, ts, k, der_whole(Tlv(ts, k).body))
DerExtensionsTail(tail, ts) == DerExtensionsAt(tail, ts, SelectInSeq(ts, LAMBDA t : t.tag = tag_ctx_constructed(3)))
der_extensions(tail) == DerExtensionsTail(tail, der_anys(tail))

DerSanAt(x, k) == SanChecks(x, k, der_whole(IF k = 0 THEN <<>> ELSE x.list[k].value))
DerSanOf(x) == DerSanAt(x, SelectInSeq(x.list, LAMBDA e : ~e.ok \/ e.oid = SAN_OID))
der_walk_extensions_for_san(tail) == DerSanOf(der_extensions(tail))

\* The tag behind cA is looked at, and so must be one der knows.
DerConstrained(r, found) == [found EXCEPT !.checks = @ \o <<<<r = <<>> \/ KnownTag(At(r, 0)), Malformed>>>>]
DerConstraintsBehind(seq, ts, c, out, r) ==
    DerConstrained(r, Constraints(seq, Tlv(ts, 1), c, out, At(r, 0) = TAG_INTEGER, der_any(r)))
DerConstraintsIn(seq, ts, c, out) == DerConstraintsBehind(seq, ts, c, out, Behind(seq.body, ts, c))
DerConstraintsOf(seq, out) ==
    DerConstraintsIn(seq, der_anys(seq.body), IF At(seq.body, 0) = TAG_BOOLEAN THEN 1 ELSE 0, out)
der_basic_constraints(b, out) == DerConstraintsOf(der_whole(b), out)

DerKeyUsage(bs) ==
    [checks |-> <<<<Is(bs, TAG_BIT_STRING), Malformed>>>>, bit |-> (At(bs.body, 1) \div 4) % 2 = 1]
der_key_usage_cert_sign(b) == DerKeyUsage(der_whole(b))

der_ca_step(acc, e) ==
    CASE e.oid = BASIC_CONSTRAINTS_OID -> CaBasic(acc, e, der_basic_constraints(e.value, acc.out))
      [] e.oid = KEY_USAGE_OID -> CaUsage(acc, e, der_key_usage_cert_sign(e.value))
      [] OTHER -> CaAdd(acc, e, <<<<~e.critical, "UnhandledCriticalExtension">>>>, acc.out)

DerCaOf(x) == CaFound(x, FoldLeft(der_ca_step, [checks |-> <<>>, out |-> CaDefault], x.list))
der_walk_extensions_for_ca(tail) == DerCaOf(der_extensions(tail))

----------------------------------------------------------------------------
\* extensions_reader and the start of spki_der: the version is optional here.
DerTbsSpki(outer, tbs) == TbsValue(outer, tbs, Tlv(der_anys(tbs.body), SpkiPlace(tbs)))
DerOuterSpki(outer) == DerTbsSpki(outer, der_any(outer.body))
extensions_reader(b) == DerOuterSpki(der_whole(b))

DerCertChecks(outer, top, tbs, version, spki) ==
    <<M(Is(outer, TAG_SEQUENCE)), M(Tlv(top, 1).ok), M(Tlv(top, 2).ok), M(IsBits(Tlv(top, 3))),
      <<Tlv(top, 3).rest = <<>>, "TrailingBytes">>, <<At(Tlv(top, 3).body, 0) = 0, "BitStringHasUnusedBits">>,
      M(Is(Tlv(top, 1), TAG_SEQUENCE)), M(Tlv(top, 1).body # <<>> /\ KnownTag(At(Tlv(top, 1).body, 0))),
      <<At(Tlv(top, 1).body, 0) = tag_ctx_constructed(0), "UnsupportedCertVersion">>,
      M(Tlv(tbs, 1).ok), M(Is(version, TAG_INTEGER) /\ Len(version.body) = 1),
      <<At(version.body, 0) = X509_V3, "UnsupportedCertVersion">>, M(version.rest = <<>>),
      M(Tlv(tbs, 3).ok),
      <<Tlv(tbs, 3).full = Tlv(top, 2).full, "SignatureAlgorithmMismatch">>,
      M(Tlv(tbs, 7).ok), M(Is(Tlv(tbs, 7), TAG_SEQUENCE)),
      M(Tlv(spki, 1).ok), M(IsBits(Tlv(spki, 2))),
      <<Tlv(spki, 2).rest = <<>>, "TrailingBytes">>,
      <<At(Tlv(spki, 2).body, 0) = 0, "BitStringHasUnusedBits">>>>
DerCertKeyed(F, checks, top, tbs, pk, kind, alg, san) ==
    Viewed(Verdict(checks \o san.checks \o kind.checks
                   \o KeyChecks(F, kind.kind, pk, From(Tlv(top, 3).body, 1), der_parse_rsa_pubkey(F, pk), alg)),
           kind.kind, top, tbs, pk, alg.kind, san.san)
DerCertOf(F, outer, top, tbs, spki) ==
    DerCertKeyed(F, DerCertChecks(outer, top, tbs, der_any(Tlv(tbs, 1).body), spki), top, tbs,
                 From(Tlv(spki, 2).body, 1), der_classify_spki_algorithm(F, Tlv(spki, 1)),
                 der_classify_rsa_outer_sig_alg(F, Tlv(top, 2)), der_walk_extensions_for_san(Tlv(tbs, 7).rest))
DerCertTbs(F, outer, top, tbs) == DerCertOf(F, outer, top, tbs, der_anys(Tlv(tbs, 7).body))
DerCertTop(F, outer, top) == DerCertTbs(F, outer, top, der_anys(Tlv(top, 1).body))
DerCertOuter(F, outer) == DerCertTop(F, outer, der_anys(outer.body))
der_parse(F, b) == DerCertOuter(F, der_whole(b))

DerConstrainedAt(at) == Constrained(at, der_walk_extensions_for_ca(at.tlv.rest))
der_parse_ca_constraints(b) == DerConstrainedAt(extensions_reader(b))
der_spki_der(b) == SpkiOf(extensions_reader(b))
=============================================================================
