------------------------------ MODULE TlvCert ------------------------------
(***************************************************************************)
(* backends/tlv_cert.rs: the certificate parser of builds without the der  *)
(* crate. A parser returns [err, ...]; a view is what CertView keeps.      *)
(***************************************************************************)
EXTENDS Asn1

Malformed == "Malformed"
NoValue == [some |-> FALSE, value |-> <<>>]
AValue(v) == [some |-> TRUE, value |-> v]

\* The checks of take_bit_string.
BitStringChecks(t) ==
    <<<<Is(t, TAG_BIT_STRING) /\ t.body # <<>>, Malformed>>,
      <<At(t.body, 0) = 0, "BitStringHasUnusedBits">>>>

NullChecks(r, t) ==
    LET P == "AlgorithmHasParameters"
    IN  <<<<r # <<>>, P>>, <<t.ok, Malformed>>, <<t.tag = TAG_NULL /\ t.body = <<>>, P>>, <<t.rest = <<>>, P>>>>
require_explicit_null_params(r) == NullChecks(r, read_tlv(r))

\* The kind of key an AlgorithmIdentifier names, and the checks on the way. ts
\* are the values in it.
Kind(kind, checks) == [kind |-> kind, checks |-> checks]
As(kind, alg, ts, checks) ==
    Kind(kind, <<<<Is(alg, TAG_SEQUENCE), Malformed>>, <<Is(Tlv(ts, 1), TAG_OID), Malformed>>>> \o checks)
NoParams(r) == <<<<r = <<>>, "AlgorithmHasParameters">>>>
CurveChecks(curve) ==
    <<<<curve.ok, Malformed>>, <<curve.tag = TAG_OID /\ curve.rest = <<>>, "AlgorithmHasParameters">>,
      <<At(curve.body, 0) \in {SECP256R1_OID, SECP384R1_OID}, "WrongAlgorithmOid">>>>
SpkiKind(F, alg, ts, oid, r) ==
    CASE oid = ED25519_OID -> As("Ed25519", alg, ts, NoParams(r))
      [] oid = RSA_ENCRYPTION_OID /\ "rsa" \in F -> As("Rsa", alg, ts, require_explicit_null_params(r))
      [] oid = ML_DSA_44_OID /\ "mldsa" \in F -> As("MlDsa44", alg, ts, NoParams(r))
      [] oid = ML_DSA_65_OID /\ "mldsa" \in F -> As("MlDsa65", alg, ts, NoParams(r))
      [] oid = EC_PUBLIC_KEY_OID /\ "ecdsa" \in F ->
            As(IF At(Tlv(ts, 2).body, 0) = SECP256R1_OID THEN "EcdsaP256" ELSE "EcdsaP384", alg, ts,
               CurveChecks(Tlv(ts, 2)))
      [] OTHER -> As("none", alg, ts, <<<<FALSE, "WrongAlgorithmOid">>>>)
SpkiAlgorithm(F, alg, ts) == SpkiKind(F, alg, ts, At(Tlv(ts, 1).body, 0), Tlv(ts, 1).rest)
classify_spki_algorithm(F, alg) == SpkiAlgorithm(F, alg, Tlvs(alg.body))

\* The RSA padding of the outer signature; "none" for every other algorithm.
OuterKind(F, alg, ts, oid, r) ==
    CASE oid = SHA256_WITH_RSA_OID /\ "rsa_pss_only" \notin F -> As("Pkcs1v15", alg, ts, require_explicit_null_params(r))
      [] oid = RSASSA_PSS_OID ->
            As("Pss", alg, ts, <<<<r = <<>> \/ (Tlv(ts, 2).ok /\ Tlv(ts, 2).rest = <<>>), Malformed>>>>)
      [] OTHER -> As("none", alg, ts, <<>>)
OuterAlgorithm(F, alg, ts) == OuterKind(F, alg, ts, At(Tlv(ts, 1).body, 0), Tlv(ts, 1).rest)
classify_rsa_outer_sig_alg(F, alg) == OuterAlgorithm(F, alg, Tlvs(alg.body))

RsaPubkeyIn(F, outer, ts) == RsaKeyChecks(F, outer, Tlv(ts, 1), Tlv(ts, 2), Tlv(ts, 2).rest)
RsaPubkeyOf(F, outer) == RsaPubkeyIn(F, outer, Tlvs(outer.body))
parse_rsa_pubkey(F, b) == RsaPubkeyOf(F, read_tlv(b))

----------------------------------------------------------------------------
(* Extensions: the first [3] of the tail. Its elements in order, each as   *)
(* its identifier, whether it is critical and its value.                   *)

\* t is one element and p the values in it, c of which are the criticality.
ReadExtension(t, p, c) ==
    [ok |-> Is(t, TAG_SEQUENCE) /\ Is(Tlv(p, 1), TAG_OID) /\ Is(Tlv(p, 2 + c), TAG_OCTET_STRING),
     oid |-> At(Tlv(p, 1).body, 0),
     critical |-> c = 1 /\ At(Tlv(p, 2).body, 0) # 0,
     value |-> Tlv(p, 2 + c).body]
ExtensionOf(t, p) == ReadExtension(t, p, IF Tlv(p, 2).tag = TAG_BOOLEAN THEN 1 ELSE 0)
ExtensionsIn(present, ok, seq, exts) ==
    [present |-> present, ok |-> ok,
     list |-> [i \in DOMAIN exts |-> ExtensionOf(exts[i], Tlvs(exts[i].body))],
     end |-> Behind(seq.body, exts, Len(exts)) = <<>>]
\* Without a [3], every value of the tail must be readable.
ExtensionsOf(tail, ts, k, seq) ==
    ExtensionsIn(k # 0, IF k = 0 THEN Behind(tail, ts, Len(ts)) = <<>> ELSE Is(seq, TAG_SEQUENCE), seq, Tlvs(seq.body))
ExtensionsAt(tail, ts, k) == ExtensionsOf(tail, ts, k, read_tlv(Tlv(ts, k).body))
ExtensionsTail(tail, ts) == ExtensionsAt(tail, ts, SelectInSeq(ts, LAMBDA t : t.tag = tag_ctx_constructed(3)))
Extensions(tail) == ExtensionsTail(tail, Tlvs(tail))

\* The first subjectAltName, unless an extension before it cannot be read.
FirstSan(list) == SelectInSeq(list, LAMBDA e : ~e.ok \/ e.oid = SAN_OID)

\* What follows the subjectAltName is not read. k is its place, 0 for none.
SanChecks(x, k, san) ==
    [checks |-> <<<<x.ok, Malformed>>,
                  <<~x.present \/ k # 0 \/ x.end, Malformed>>,
                  <<k = 0 \/ x.list[k].ok, Malformed>>,
                  <<k = 0 \/ Is(san, TAG_SEQUENCE), Malformed>>>>,
     san |-> IF k = 0 THEN NoValue ELSE AValue(san.body)]
SanAt(x, k) == SanChecks(x, k, read_tlv(IF k = 0 THEN <<>> ELSE x.list[k].value))
SanOf(x) == SanAt(x, FirstSan(x.list))
walk_extensions_for_san(tail) == SanOf(Extensions(tail))

\* seq is the value, ts what is in it, c whether cA is there, r what follows it
\* and int what follows read as an integer.
Constraints(seq, cA, c, out, has_len, int) ==
    [checks |-> <<<<Is(seq, TAG_SEQUENCE), Malformed>>,
                  <<c = 0 \/ cA.ok, Malformed>>,
                  <<~has_len \/ (int.ok /\ int_to_u32(int.body).ok), Malformed>>>>,
     out |-> [out EXCEPT !.is_ca = IF c = 1 THEN At(cA.body, 0) # 0 ELSE @,
                         !.path_len = IF has_len THEN AValue(int_to_u32(int.body).n) ELSE @]]
ConstraintsBehind(seq, ts, c, out, r) == Constraints(seq, Tlv(ts, 1), c, out, At(r, 0) = TAG_INTEGER, read_tlv(r))
ConstraintsIn(seq, ts, c, out) == ConstraintsBehind(seq, ts, c, out, Behind(seq.body, ts, c))
ConstraintsOf(seq, out) ==
    ConstraintsIn(IF seq.rest = <<>> THEN seq ELSE NoTlv, Tlvs(seq.body),
                  IF At(seq.body, 0) = TAG_BOOLEAN THEN 1 ELSE 0, out)
parse_basic_constraints(b, out) == ConstraintsOf(read_tlv(b), out)

\* Mutant of CertSign: reads the neighbouring bit.
CertSign_next(bs) == (At(bs.body, 1) \div 2) % 2 = 1

\* keyCertSign is bit 5, mask 4 of the first data byte.
CertSign(bs) == (At(bs.body, 1) \div 4) % 2 = 1
KeyUsage(bs) == [checks |-> <<<<Is(bs, TAG_BIT_STRING) /\ bs.rest = <<>>, Malformed>>>>, bit |-> CertSign(bs)]
key_usage_cert_sign(b) == KeyUsage(read_tlv(b))

CaDefault == [is_ca |-> FALSE, path_len |-> NoValue, key_cert_sign |-> NoValue]

\* One extension of an issuer, on top of what the ones before it left.
CaAdd(acc, e, checks, out) == [checks |-> acc.checks \o <<<<e.ok, Malformed>>>> \o checks, out |-> out]
CaBasic(acc, e, bc) == CaAdd(acc, e, bc.checks, bc.out)
CaUsage(acc, e, ku) == CaAdd(acc, e, ku.checks, [acc.out EXCEPT !.key_cert_sign = AValue(ku.bit)])
CaStep(acc, e) ==
    CASE e.oid = BASIC_CONSTRAINTS_OID -> CaBasic(acc, e, parse_basic_constraints(e.value, acc.out))
      [] e.oid = KEY_USAGE_OID -> CaUsage(acc, e, key_usage_cert_sign(e.value))
      [] OTHER -> CaAdd(acc, e, <<<<~e.critical, "UnhandledCriticalExtension">>>>, acc.out)

CaFound(x, r) ==
    [checks |-> <<<<x.ok, Malformed>>>> \o r.checks \o <<<<~x.present \/ x.end, Malformed>>>>, out |-> r.out]
CaOf(x) == CaFound(x, FoldLeft(CaStep, [checks |-> <<>>, out |-> CaDefault], x.list))
walk_extensions_for_ca(tail) == CaOf(Extensions(tail))

----------------------------------------------------------------------------
\* The SubjectPublicKeyInfo of a tbsCertificate whose version is optional, with
\* the checks on the way to it; the tail with the extensions is what follows it.
TbsValue(outer, tbs, t) ==
    [err |-> Verdict(<<<<Is(outer, TAG_SEQUENCE), Malformed>>, <<Is(tbs, TAG_SEQUENCE), Malformed>>,
                       <<tbs.body # <<>>, Malformed>>, <<t.ok, Malformed>>>>), tlv |-> t]
SpkiPlace(tbs) == 6 + (IF At(tbs.body, 0) = tag_ctx_constructed(0) THEN 1 ELSE 0)
TbsSpki(outer, tbs) == TbsValue(outer, tbs, Tlv(Tlvs(tbs.body), SpkiPlace(tbs)))
OuterSpki(outer) == TbsSpki(outer, read_tlv(outer.body))
extensions_slice(b) == OuterSpki(read_tlv(b))

\* The fields of CertView for a key of the given kind.
View(kind, tbs, sig, alg, pk, san, validity) ==
    [kind |-> kind, tbs |-> tbs, signature |-> sig, outer_sig_alg |-> alg, key |-> pk, san |-> san,
     validity |-> validity]

\* What the last match of parse checks, by the kind of the key.
KeyChecks(F, kind, pk, sig, rsa_checks, alg) ==
    CASE kind = "Ed25519" -> <<<<Len(pk) = ED25519_PK, "WrongPubkeyLength">>, <<Len(sig) = ED25519_SIG, "WrongSignatureLength">>>>
      [] kind = "Rsa" -> rsa_checks \o alg.checks
      [] kind \in DOMAIN ML_DSA_PK -> <<<<Len(pk) = ML_DSA_PK[kind], "WrongMlDsaPubkeyLength">>>>
      [] kind \in DOMAIN SEC1_LEN ->
            <<<<Len(pk) = SEC1_LEN[kind] /\ At(pk, 0) = SEC1_UNCOMPRESSED, "WrongEcdsaPubkey">>>>
            \o (IF "rsa" \in F THEN alg.checks ELSE <<>>)
      [] OTHER -> <<>>

\* The view of a certificate whose parts were read.
Viewed(err, kind, top, tbs, pk, alg, san) ==
    [err |-> err,
     view |-> View(kind, Tlv(top, 1).full, From(Tlv(top, 3).body, 1),
                   IF kind \in {"Rsa", "EcdsaP256", "EcdsaP384"} THEN alg ELSE "none",
                   IF kind = "Rsa" THEN RsaKey(pk) ELSE pk, san, Tlv(tbs, 5).full)]

M(cond) == <<cond, Malformed>>
\* top are the values of the certificate, tbs those of the tbsCertificate and
\* spki those of its key.
CertChecks(outer, top, tbs, version, spki) ==
    <<M(Is(outer, TAG_SEQUENCE)), M(Is(Tlv(top, 1), TAG_SEQUENCE)), M(Is(Tlv(top, 2), TAG_SEQUENCE))>>
    \o BitStringChecks(Tlv(top, 3))
    \o <<<<Tlv(top, 3).rest = <<>>, "TrailingBytes">>,
         M(Tlv(top, 1).body # <<>>),
         <<At(Tlv(top, 1).body, 0) = tag_ctx_constructed(0), "UnsupportedCertVersion">>,
         M(Tlv(tbs, 1).ok), M(Is(version, TAG_INTEGER) /\ Len(version.body) = 1),
         <<At(version.body, 0) = X509_V3, "UnsupportedCertVersion">>, M(version.rest = <<>>),
         M(Is(Tlv(tbs, 2), TAG_INTEGER)), M(Is(Tlv(tbs, 3), TAG_SEQUENCE)),
         <<Tlv(tbs, 3).full = Tlv(top, 2).full, "SignatureAlgorithmMismatch">>,
         M(Is(Tlv(tbs, 4), TAG_SEQUENCE)), M(Is(Tlv(tbs, 5), TAG_SEQUENCE)),
         M(Is(Tlv(tbs, 6), TAG_SEQUENCE)), M(Is(Tlv(tbs, 7), TAG_SEQUENCE)),
         M(Tlv(spki, 1).ok)>>
    \o BitStringChecks(Tlv(spki, 2))
    \o <<<<Tlv(spki, 2).rest = <<>>, "TrailingBytes">>>>
CertKeyed(F, checks, top, tbs, pk, kind, alg, san) ==
    Viewed(Verdict(checks \o san.checks \o kind.checks
                   \o KeyChecks(F, kind.kind, pk, From(Tlv(top, 3).body, 1), parse_rsa_pubkey(F, pk), alg)),
           kind.kind, top, tbs, pk, alg.kind, san.san)
CertOf(F, outer, top, tbs, spki) ==
    CertKeyed(F, CertChecks(outer, top, tbs, read_tlv(Tlv(tbs, 1).body), spki), top, tbs, From(Tlv(spki, 2).body, 1),
              classify_spki_algorithm(F, Tlv(spki, 1)), classify_rsa_outer_sig_alg(F, Tlv(top, 2)),
              walk_extensions_for_san(Tlv(tbs, 7).rest))
CertTbs(F, outer, top, tbs) == CertOf(F, outer, top, tbs, Tlvs(Tlv(tbs, 7).body))
CertTop(F, outer, top) == CertTbs(F, outer, top, Tlvs(Tlv(top, 1).body))
CertOuter(F, outer) == CertTop(F, outer, Tlvs(outer.body))
parse(F, b) == CertOuter(F, read_tlv(b))

Constrained(at, ca) == [err |-> IF at.err # "Ok" THEN at.err ELSE Verdict(ca.checks), out |-> ca.out]
ConstrainedAt(at) == Constrained(at, walk_extensions_for_ca(at.tlv.rest))
parse_ca_constraints(b) == ConstrainedAt(extensions_slice(b))

SpkiOf(at) == [err |-> at.err, spki |-> at.tlv.full]
spki_der(b) == SpkiOf(extensions_slice(b))
=============================================================================
