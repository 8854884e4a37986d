------------------------------- MODULE Records -------------------------------
(***************************************************************************)
(* aead.rs: protected TLS records. The AEAD is symbolic: a record carries  *)
(* the key, nonce and additional data it was sealed under, and opens under *)
(* exactly those.                                                          *)
(*                                                                         *)
(* The inner plaintext is a run of content bytes that are not written out  *)
(* (each non-zero) followed by cells; the cells end in the content type    *)
(* and the padding. Sizes are in bytes, a cell counting one.               *)
(***************************************************************************)
EXTENDS Wire, KeySchedule

CT_CHANGE_CIPHER_SPEC == 20
CT_ALERT == 21
CT_HANDSHAKE == 22
CT_APPLICATION_DATA == 23
LEGACY_VERSION == 771

TLS_HEADER == 5
AEAD_TAG == 16
TLS_PLAINTEXT_MAX == 2^14
TLS_CIPHERTEXT_MAX == 2^14 + 256
RECORD_OVERHEAD == TLS_HEADER + AEAD_TAG

\* XOR of the IV with the sequence number: one nonce for each of them.
aead_nonce(iv, seq) == <<iv, seq>>

Seal(keys, seq, declared) ==
    [key |-> keys.key, nonce |-> aead_nonce(keys.iv, seq),
     aad |-> <<CT_APPLICATION_DATA, LEGACY_VERSION, declared>>]

InnerLen(inner) == inner.run + Len(inner.cells)

----------------------------------------------------------------------------

encrypt_record(inner, keys, seq, room) ==
    LET content == InnerLen(inner) - 1
        body == content + 1 + AEAD_TAG
        total == body + TLS_HEADER
    IN  [err |-> Verdict(<<
            <<content <= TLS_PLAINTEXT_MAX, "RecordTooLarge">>,
            <<body <= TLS_CIPHERTEXT_MAX, "RecordTooLarge">>,
            <<room >= total, "BufferTooSmall">>>>),
         record |-> [type |-> CT_APPLICATION_DATA, ver |-> LEGACY_VERSION, declared |-> body,
                     size |-> total, seal |-> Seal(keys, seq, body), inner |-> inner]]

decrypt_record_inplace(rec, keys, seq) ==
    Verdict(<<
        <<rec.size >= TLS_HEADER, "Truncated">>,
        <<rec.type = CT_APPLICATION_DATA, "UnexpectedContentType">>,
        <<rec.ver = LEGACY_VERSION, "UnexpectedLegacyVersion">>,
        <<rec.declared <= TLS_CIPHERTEXT_MAX, "RecordTooLarge">>,
        <<rec.size >= TLS_HEADER + rec.declared, "Truncated">>,
        <<rec.size = TLS_HEADER + rec.declared, "TrailingBytes">>,
        <<rec.declared >= AEAD_TAG, "Truncated">>,
        <<rec.seal = Seal(keys, seq, rec.declared), "AeadFailed">>>>)

\* The last byte that is not zero is the content type, what precedes it the
\* content.
split_inner_plaintext(inner) ==
    LET k == SelectLastInSeq(inner.cells, LAMBDA c : c # 0)
        end == IF k = 0 THEN inner.run ELSE inner.run + k
    IN  [err |-> Verdict(<<
            <<InnerLen(inner) <= TLS_CIPHERTEXT_MAX, "RecordTooLarge">>,
            <<end # 0, "EmptyInnerPlaintext">>,
            <<end - 1 <= TLS_PLAINTEXT_MAX, "RecordTooLarge">>>>),
         type |-> IF k = 0 THEN 1 ELSE inner.cells[k],
         run |-> IF k = 0 THEN Minus(inner.run, 1) ELSE inner.run,
         cells |-> SubSeq(inner.cells, 1, Minus(k, 1))]
=============================================================================
