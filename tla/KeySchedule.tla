---------------------------- MODULE KeySchedule ----------------------------
(***************************************************************************)
(* hkdf.rs, the key schedule of TLS 1.3 and DTLS 1.3, over symbolic        *)
(* secrets: HKDF-Extract and HKDF-Expand are free constructors, a          *)
(* transcript hash is the sequence of cells that was hashed, so two        *)
(* secrets are equal exactly when they were derived in the same way.       *)
(*                                                                         *)
(* A label that does not fit its length field or the scratch buffer yields *)
(* an error term instead, so a derivation that the code would refuse does  *)
(* not agree with the one of the peer.                                     *)
(***************************************************************************)
EXTENDS Naturals, Sequences

HKDF_LABEL_MAX == 64
HashLen == 32

\* The number of bytes of each label in use.
LabelLen == [
    derived |-> 7, c_hs_traffic |-> 12, s_hs_traffic |-> 12, c_ap_traffic |-> 12,
    s_ap_traffic |-> 12, key |-> 3, iv |-> 2, sn |-> 2, finished |-> 8]

\* "tls13 " and "dtls13" are six bytes both.
PrefixLen == 6

Zeros == <<"zeros">>
Extract(salt, ikm) == <<"extract", salt, ikm>>

\* hkdf_expand_label_prefixed: u16 length, u8-counted prefix and label,
\* u8-counted context, all in HKDF_LABEL_MAX bytes. A context is the hash of a
\* transcript, or nothing ("none").
ExpandLabel(prefix, secret, label, ctx, n) ==
    LET label_total == PrefixLen + LabelLen[label]
        ctxLen == IF ctx[1] = "none" THEN 0 ELSE HashLen
    IN  IF \/ n > 2^16 - 1
           \/ label_total > 2^8 - 1
           \/ ctxLen > 2^8 - 1
           \/ 2 + 1 + label_total + 1 + ctxLen > HKDF_LABEL_MAX
        THEN <<"error", label>>
        ELSE <<"expand", prefix, secret, label, ctx, n>>

NoContext == <<"none", <<>>>>
EmptyHash == <<"hash", <<>>>>
Hash(transcript) == <<"hash", transcript>>

derive_secret(prefix, secret, label, th) == ExpandLabel(prefix, secret, label, th, HashLen)

early_secret == Extract(Zeros, Zeros)

handshake_secret(prefix, dhe) ==
    Extract(derive_secret(prefix, early_secret, "derived", EmptyHash), dhe)

handshake_traffic_secrets(prefix, hs, th) ==
    [c |-> derive_secret(prefix, hs, "c_hs_traffic", th),
     s |-> derive_secret(prefix, hs, "s_hs_traffic", th)]

master_secret(prefix, hs) ==
    Extract(derive_secret(prefix, hs, "derived", EmptyHash), Zeros)

application_traffic_secrets(prefix, ms, th) ==
    [c |-> derive_secret(prefix, ms, "c_ap_traffic", th),
     s |-> derive_secret(prefix, ms, "s_ap_traffic", th)]

\* keyLen is 16 for AES-128-GCM and 32 for ChaCha20-Poly1305.
traffic_keys(prefix, secret, keyLen) ==
    [key |-> ExpandLabel(prefix, secret, "key", NoContext, keyLen),
     iv |-> ExpandLabel(prefix, secret, "iv", NoContext, 12)]

\* The key that masks DTLS record numbers.
sn_key(secret, keyLen) == ExpandLabel("dtls13", secret, "sn", NoContext, keyLen)

\* HMAC over the transcript hash: HKDF-Extract is HMAC.
finished_mac(prefix, secret, th) ==
    Extract(ExpandLabel(prefix, secret, "finished", NoContext, HashLen), th)
=============================================================================
