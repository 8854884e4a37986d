-------------------------------- MODULE Asn1 --------------------------------
(***************************************************************************)
(* The DER walker of backends/tlv.rs and what both certificate parsers     *)
(* know: tags, object identifiers (one byte each), and the lengths of keys *)
(* and signatures, scaled down.                                            *)
(***************************************************************************)
EXTENDS Wire

TAG_BOOLEAN == 1
TAG_INTEGER == 2
TAG_BIT_STRING == 3
TAG_OCTET_STRING == 4
TAG_NULL == 5
TAG_OID == 6
TAG_UTC_TIME == 23
TAG_GENERALIZED_TIME == 24
TAG_SEQUENCE == 48
tag_ctx_primitive(n) == 128 + n
tag_ctx_constructed(n) == 160 + n

\* Object identifiers.
ED25519_OID == 70
RSA_ENCRYPTION_OID == 71
SHA256_WITH_RSA_OID == 72
RSASSA_PSS_OID == 73
ML_DSA_44_OID == 74
ML_DSA_65_OID == 75
EC_PUBLIC_KEY_OID == 76
SECP256R1_OID == 77
SECP384R1_OID == 78
SAN_OID == 81
BASIC_CONSTRAINTS_OID == 82
KEY_USAGE_OID == 83

X509_V3 == 2
ED25519_PK == 2
ED25519_SIG == 2
ML_DSA_PK == [MlDsa44 |-> 3, MlDsa65 |-> 4]
SEC1_LEN == [EcdsaP256 |-> 3, EcdsaP384 |-> 4]
SEC1_UNCOMPRESSED == 4

\* The modulus lengths a build accepts.
RSA_2048 == 3
RsaWidths(F) == {RSA_2048} \cup (IF "rsa-1024" \in F THEN {2} ELSE {})
                \cup (IF "rsa-3072" \in F THEN {4} ELSE {}) \cup (IF "rsa-4096" \in F THEN {5} ELSE {})

----------------------------------------------------------------------------
NoTlv == [ok |-> FALSE, tag |-> 0, body |-> <<>>, full |-> <<>>, rest |-> <<>>]

\* A value behind a header of the given size.
TlvAt(b, header, len) ==
    IF Len(b) < header + len THEN NoTlv
    ELSE [ok |-> TRUE, tag |-> b[1], body |-> Slice(b, header, header + len), full |-> Slice(b, 0, header + len),
          rest |-> From(b, header + len)]

BigEndian(octets) ==
    LET value[i \in 0..Len(octets)] == IF i = 0 THEN 0 ELSE 256 * value[i - 1] + octets[i]
    IN  value[Len(octets)]

\* The long form with n octets of length, in its shortest form.
LongTlv(b, n, len) == IF b[3] # 0 /\ len >= 128 THEN TlvAt(b, 2 + n, len) ELSE NoTlv

\* Definite lengths, tags of one byte.
read_tlv(b) ==
    IF Len(b) < 2 \/ At(b, 0) % 32 = 31 THEN NoTlv
    ELSE IF b[2] < 128 THEN TlvAt(b, 2, b[2])
    ELSE IF b[2] - 128 \in 1..4 /\ Len(b) >= 2 + b[2] - 128
    THEN LongTlv(b, b[2] - 128, BigEndian(Slice(b, 2, 2 + b[2] - 128)))
    ELSE NoTlv

\* The values of b in order, up to the first that cannot be read.
Tlvs(b) ==
    LET walk[i \in 0..Len(b)] ==
            IF ~read_tlv(From(b, i)).ok THEN <<>>
            ELSE <<read_tlv(From(b, i))>> \o walk[i + Len(read_tlv(From(b, i)).full)]
    IN  walk[0]

Tlv(ts, k) == IF k \in DOMAIN ts THEN ts[k] ELSE NoTlv

\* What is left of b behind k values.
Behind(b, ts, k) == IF k = 0 THEN b ELSE Tlv(ts, k).rest
Is(t, tag) == t.ok /\ t.tag = tag

----------------------------------------------------------------------------
(* Integers: a leading zero byte only to clear the sign.                   *)

int_to_u32(b) ==
    LET sig == IF At(b, 0) = 0 THEN From(b, 1) ELSE b
    IN  [ok |-> At(b, 0) < 128 /\ Len(sig) <= 4,
         n |-> BigEndian(sig)]

Unsigned(b) == IF Len(b) >= 2 /\ b[1] = 0 /\ b[2] >= 128 THEN From(b, 1) ELSE b

\* Modulus and exponent.
RsaKey(b) ==
    LET ts == Tlvs(read_tlv(b).body) IN Unsigned(Tlv(ts, 1).body) \o <<0>> \o Unsigned(Tlv(ts, 2).body)

\* RSAPublicKey as both parsers judge it, t1 and t2 being its two integers.
RsaKeyChecks(F, outer, t1, t2, rest) ==
    LET modulus == Unsigned(t1.body)
        exp == Unsigned(t2.body)
        e == Last(<<0>> \o exp)
    IN  <<<<Is(outer, TAG_SEQUENCE), "BadRsaPubkey">>,
          <<Is(t1, TAG_INTEGER), "BadRsaPubkey">>,
          <<modulus # <<>> /\ At(modulus, 0) # 0, "BadRsaPubkey">>,
          <<Len(modulus) \in RsaWidths(F), "UnsupportedRsaKeySize">>,
          <<Is(t2, TAG_INTEGER), "BadRsaPubkey">>,
          <<exp # <<>> /\ Len(exp) <= 4 /\ At(exp, 0) # 0, "BadRsaPubkey">>,
          <<(Len(exp) > 1 \/ e >= 3) /\ e % 2 = 1, "BadRsaPubkey">>,
          <<rest = <<>>, "BadRsaPubkey">>>>
=============================================================================
