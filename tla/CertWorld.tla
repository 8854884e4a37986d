----------------------------- MODULE CertWorld -----------------------------
(***************************************************************************)
(* Certificates for the handshake model: what a certificate says, its DER  *)
(* encoding, and what the trust strategies should make of chains of them.  *)
(***************************************************************************)
EXTENDS TrustChain

T(tag, body) ==
    <<tag>> \o (IF Len(body) < 128 THEN <<Len(body)>> ELSE <<129, Len(body)>>) \o body
SEQ(body) == T(TAG_SEQUENCE, body)
OID(o) == T(TAG_OID, <<o>>)
NULL == <<TAG_NULL, 0>>
INT(b) == T(TAG_INTEGER, IF b[1] >= 128 THEN <<0>> \o b ELSE b)
BITS(b) == T(TAG_BIT_STRING, <<0>> \o b)

UNKNOWN_OID == 90

\* The key with number id: as an SPKI carries it, and as a view keeps it.
RsaPubkey(id) == SEQ(INT(<<200, id, 1>>) \o INT(<<3>>))
KeyView(kind, id) ==
    CASE kind = "Ed25519" -> <<id, 1>>
      [] kind = "EcdsaP256" -> <<SEC1_UNCOMPRESSED, id, 1>>
      [] kind = "EcdsaP384" -> <<SEC1_UNCOMPRESSED, id, 1, 1>>
      [] kind = "MlDsa44" -> <<id, 1, 1>>
      [] kind = "MlDsa65" -> <<id, 1, 1, 1>>
      [] kind = "Rsa" -> <<200, id, 1, 0, 3>>
      [] kind = "BadPoint" -> <<id, 0>>

Spki(kind, id) ==
    LET alg == CASE kind \in {"Ed25519", "BadPoint"} -> OID(ED25519_OID)
                 [] kind = "EcdsaP256" -> OID(EC_PUBLIC_KEY_OID) \o OID(SECP256R1_OID)
                 [] kind = "EcdsaP384" -> OID(EC_PUBLIC_KEY_OID) \o OID(SECP384R1_OID)
                 [] kind = "MlDsa44" -> OID(ML_DSA_44_OID)
                 [] kind = "MlDsa65" -> OID(ML_DSA_65_OID)
                 [] kind = "Rsa" -> OID(RSA_ENCRYPTION_OID) \o NULL
    IN  SEQ(SEQ(alg) \o BITS(IF kind = "Rsa" THEN RsaPubkey(id) ELSE KeyView(kind, id)))

\* The algorithm of an issuer's signatures.
SigAlg(by, pad) ==
    SEQ(CASE by.kind = "Rsa" /\ pad = "Pkcs1v15" -> OID(SHA256_WITH_RSA_OID) \o NULL
          [] by.kind = "Rsa" /\ pad = "Pss" -> OID(RSASSA_PSS_OID)
          [] by.kind \in {"Ed25519", "BadPoint"} -> OID(ED25519_OID)
          [] by.kind = "MlDsa44" -> OID(ML_DSA_44_OID)
          [] OTHER -> OID(UNKNOWN_OID))

Ext(oid, critical, value) ==
    SEQ(OID(oid) \o (IF critical THEN T(TAG_BOOLEAN, <<255>>) ELSE <<>>) \o T(TAG_OCTET_STRING, value))

Time(year) ==
    IF year < 2050 THEN T(TAG_UTC_TIME, <<year % 100>>) ELSE T(TAG_GENERALIZED_TIME, <<year>>)

\* What a certificate says. by is the issuer's key; ca is <<>>, <<isCa>> or
\* <<isCa, pathLen>>; ku is <<>> or <<byte>>; san is <<>> or <<entries>>.
Says == [kind |-> "Ed25519", id |-> 10, by |-> [kind |-> "Ed25519", id |-> 10], pad |-> "none",
         nb |-> 2000, na |-> 2040, ca |-> <<>>, ku |-> <<>>, san |-> <<>>, critical |-> FALSE,
         forged |-> FALSE]

Encoded(san) == FlattenSeq([i \in DOMAIN san |-> T(san[i][1], san[i][2])])

Exts(c) ==
    (IF c.ca = <<>> THEN <<>>
     ELSE Ext(BASIC_CONSTRAINTS_OID, TRUE,
              SEQ((IF c.ca[1] THEN T(TAG_BOOLEAN, <<255>>) ELSE <<>>)
                  \o (IF Len(c.ca) = 2 THEN INT(<<c.ca[2]>>) ELSE <<>>))))
    \o (IF c.ku = <<>> THEN <<>> ELSE Ext(KEY_USAGE_OID, TRUE, BITS(c.ku)))
    \o (IF c.critical THEN Ext(UNKNOWN_OID, TRUE, NULL) ELSE <<>>)
    \o (IF c.san = <<>> THEN <<>> ELSE Ext(SAN_OID, FALSE, SEQ(Encoded(c.san[1]))))

TbsDer(c) ==
    SEQ(T(tag_ctx_constructed(0), INT(<<2>>)) \o INT(<<c.id>>) \o SigAlg(c.by, c.pad)
        \o SEQ(<<>>) \o SEQ(Time(c.nb) \o Time(c.na)) \o SEQ(<<>>) \o Spki(c.kind, c.id)
        \o (IF Exts(c) = <<>> THEN <<>> ELSE T(tag_ctx_constructed(3), SEQ(Exts(c)))))

SigOf(c) == <<c.by.id, c.id>>
Der(c) == SEQ(TbsDer(c) \o SigAlg(c.by, c.pad) \o BITS(SigOf(c)))

SignedTriple(c) ==
    <<KeyView(c.by.kind, c.by.id), IF c.by.kind = "Rsa" THEN c.pad ELSE "none", TbsDer(c), SigOf(c)>>

\* The view a parser should give of it.
Seen(c) ==
    [kind |-> IF c.kind = "BadPoint" THEN "Ed25519" ELSE c.kind, tbs |-> TbsDer(c), signature |-> SigOf(c),
     outer_sig_alg |-> IF c.kind \in {"Rsa", "EcdsaP256", "EcdsaP384"} /\ c.by.kind = "Rsa" THEN c.pad ELSE "none",
     key |-> KeyView(c.kind, c.id),
     san |-> IF c.san = <<>> THEN NoValue ELSE AValue(Encoded(c.san[1])),
     validity |-> SEQ(Time(c.nb) \o Time(c.na))]

SeenCa(c) ==
    [is_ca |-> c.ca # <<>> /\ c.ca[1],
     path_len |-> IF Len(c.ca) = 2 THEN AValue(c.ca[2]) ELSE NoValue,
     key_cert_sign |-> IF c.ku = <<>> THEN NoValue ELSE AValue(c.ku[1] = 4)]

----------------------------------------------------------------------------
(* What should be trusted, over what the certificates say. C is the chain, *)
(* A the ledger, both of certificates; now is <<>> or <<year>>.            *)

InTime(c, now) == now = <<>> \/ (c.nb <= now[1] /\ now[1] <= c.na)

\* Issued: with the issuer's key, under an algorithm the client can name. Only
\* RSA and ECDSA certificates keep the padding an RSA issuer used.
Issued(c, by) ==
    /\ ~c.forged /\ c.by = [kind |-> by.kind, id |-> by.id] /\ by.kind # "BadPoint"
    /\ by.kind = "Rsa" => c.kind \in {"Rsa", "EcdsaP256", "EcdsaP384"} /\ c.pad # "none"

MayIssue(by, below) ==
    /\ by.ca # <<>> /\ by.ca[1] /\ (Len(by.ca) = 2 => by.ca[2] >= below)
    /\ by.ku \in {<<>>, <<4>>} /\ ~by.critical

\* A path from the leaf to a certificate that is pinned, or to the top of the
\* chain and from there to a stored certificate.
TrustedByRoots(C, A, enforce, now) ==
    LET stored == {A[i][2] : i \in {k \in DOMAIN A : A[k][1] = "cert"}}
        timely(c) == InTime(c, now) \/ (c \in stored /\ ~enforce)
        pinned(c) == \/ \E i \in DOMAIN A : A[i][1] = "fp" /\ A[i][2] = c
                     \/ \E i \in DOMAIN A : A[i][1] = "spki" /\ <<A[i][2].kind, A[i][2].id>> = <<c.kind, c.id>>
    IN  /\ Len(C) \in 1..CAP /\ C[1].kind # "BadPoint"
        /\ \E j \in DOMAIN C :
            /\ \A i \in 1..j : timely(C[i])
            /\ \A i \in 1..(j - 1) : Issued(C[i], C[i + 1]) /\ MayIssue(C[i + 1], i - 1)
            /\ \/ pinned(C[j])
               \/ /\ j = Len(C)
                  /\ \E a \in stored : Issued(C[j], a) /\ MayIssue(a, j - 1) /\ timely(a)

\* The pinned key in the leaf, whatever else the server sends.
TrustedByPin(C, pin, now) ==
    /\ Len(C) \in 1..CAP /\ C[1].kind = pin.kind /\ pin.kind # "BadPoint" /\ KeyView(C[1].kind, C[1].id) = pin.key
    /\ InTime(C[1], now)

TrustedSelfSigned(C, now) ==
    /\ Len(C) = 1 /\ CAP >= 1 /\ ~C[1].forged /\ C[1].by = [kind |-> C[1].kind, id |-> C[1].id]
    /\ C[1].kind # "BadPoint" /\ InTime(C[1], now)

----------------------------------------------------------------------------
(* Names, label by label.                                                  *)

Labels(h) ==
    LET cuts == SetToSortSeq({0, Len(h) + 1} \cup {i \in DOMAIN h : h[i] = DOT}, LAMBDA m, n : m < n)
    IN  [k \in 1..(Len(cuts) - 1) |->
            [i \in 1..(cuts[k + 1] - cuts[k] - 1) |-> Lower(h[cuts[k] + i])]]

NameMatches(p, h) ==
    LET P == Labels(p)
        H == Labels(h)
        starless(L) == \A i \in DOMAIN L : ~Contains(L[i], STAR)
    IN  \/ starless(P) /\ P = H
        \/ /\ P[1] = <<STAR>> /\ Len(P) > 1 /\ starless(Tail(P)) /\ Tail(P) # <<<<>>>>
           /\ H[1] # <<>> /\ Tail(H) = Tail(P)

\* dotted: the four numbers of an IPv4 literal, or <<>>.
HostBound(c, h, dotted) ==
    /\ c.san # <<>>
    /\ \E i \in DOMAIN c.san[1] :
        LET e == c.san[1][i]
        IN  IF dotted = <<>> THEN e[1] = DNS_NAME_TAG /\ NameMatches(e[2], h)
            ELSE /\ e[1] = IP_ADDRESS_TAG /\ e[2] = dotted
                 /\ \A k \in 1..i : c.san[1][k][1] = IP_ADDRESS_TAG => Len(c.san[1][k][2]) \in {4, 16}
=============================================================================
