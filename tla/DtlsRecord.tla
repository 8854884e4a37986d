----------------------------- MODULE DtlsRecord -----------------------------
(***************************************************************************)
(* The bytes of DTLS records: the unified header, the masked record number *)
(* and the AEAD (dtls/record.rs), the plaintext and handshake headers      *)
(* (dtls/framing.rs) and the ACK body (dtls/ack.rs). As in Records the     *)
(* AEAD is symbolic and contents are not written out, but every size is in *)
(* bytes.                                                                  *)
(***************************************************************************)
EXTENDS Records, RecordNumbers, FiniteSets, FiniteSetsExt

CT_ACK == 26

TAG_LEN == 16
SN_SAMPLE_LEN == 16

\* SeqNumLen: the bytes of a number on the wire, and the numbers they tell apart.
SeqBytes(two) == IF two THEN 2 ELSE 1
SeqStep(two) == 2 ^ (8 * SeqBytes(two))

\* The key schedule under the dtls13 prefix.
dtls_handshake_secret(dhe) == handshake_secret("dtls13", dhe)
dtls_handshake_traffic_secrets(hs, th) == handshake_traffic_secrets("dtls13", hs, th)
dtls_traffic_keys(secret, keyLen) == traffic_keys("dtls13", secret, keyLen)
dtls_master_secret(hs) == master_secret("dtls13", hs)
dtls_application_traffic_secrets(ms, th) == application_traffic_secrets("dtls13", ms, th)

\* EpochKeys::derive: the AEAD keys and the key of the record-number mask.
EpochKeys(secret, keyLen) ==
    [aead |-> dtls_traffic_keys(secret, keyLen), sn |-> sn_key(secret, keyLen)]

\* derive_handshake_keys: an all-zero shared secret is refused.
derive_handshake_keys(dhe, th, keyLen) ==
    LET ts == dtls_handshake_traffic_secrets(dtls_handshake_secret(dhe), th)
    IN  [err |-> Verdict(<<<<dhe # Zeros, "DhAllZero">>>>),
         client |-> EpochKeys(ts.c, keyLen), server |-> EpochKeys(ts.s, keyLen)]

\* The application keys, from the same handshake secret.
application_keys(dhe, th, keyLen) ==
    LET ts == dtls_application_traffic_secrets(dtls_master_secret(dtls_handshake_secret(dhe)), th)
    IN  [client |-> EpochKeys(ts.c, keyLen), server |-> EpochKeys(ts.s, keyLen)]

----------------------------------------------------------------------------
(* The header: a connection id (empty: none), the width of the number, is  *)
(* there a length, the low bits of the epoch.                              *)

HeaderLen(cid_len, two, length) == 1 + cid_len + SeqBytes(two) + (IF length THEN 2 ELSE 0)

\* The header with the number in the clear, which is the additional data.
Aad(h, low, body) ==
    <<h.cid, h.two, h.length, h.epoch % 4, low, IF h.length THEN body ELSE 0>>

\* XOR into the number; a number is its low bits and the masks upon it.
mask_seq(sn, sample, number) == [number EXCEPT !.masks = SymDiff(@, {<<sn, sample>>})]

\* The first SN_SAMPLE_LEN bytes of the ciphertext.
Sample(keys, seq, inner) == <<keys.aead.key, aead_nonce(keys.aead.iv, seq), inner>>

\* A record as its bytes are: `body` bytes of ciphertext and tag behind the header.
Record(keys, h, inner, body) ==
    [h |-> h, declared |-> body, body |-> body, inner |-> inner,
     size |-> HeaderLen(Len(h.cid), h.two, h.length) + body,
     number |-> mask_seq(keys.sn, Sample(keys, h.seq, inner),
                         [low |-> WireSeq(h.seq, SeqStep(h.two)), masks |-> {}]),
     sample |-> Sample(keys, h.seq, inner),
     seal |-> <<keys.aead.key, aead_nonce(keys.aead.iv, h.seq),
                Aad(h, WireSeq(h.seq, SeqStep(h.two)), body)>>]

\* The client always writes a length.
SealHeader(epoch, seq, two, cid) == [epoch |-> epoch, seq |-> seq, two |-> two, cid |-> cid, length |-> TRUE]

seal(keys, h, inner, room) ==
    LET record == Record(keys, h, inner, InnerLen(inner) + TAG_LEN)
    IN  [err |-> Verdict(<<<<record.body <= 2^16 - 1, "RecordTooLarge">>,
                           <<room >= record.size, "BufferTooSmall">>>>),
         record |-> record]

\* The AEAD accepts the ciphertext it made and no other stretch of bytes.
OpenedAt(keys, r, body_len, header, seq, avail) ==
    [err |-> Verdict(<<
        <<avail >= header + body_len /\ body_len >= SN_SAMPLE_LEN /\ body_len >= TAG_LEN + 1, "CiphertextTooShort">>,
        <<r.seal = <<keys.aead.key, aead_nonce(keys.aead.iv, seq),
                     Aad(r.h, WireSeq(seq, SeqStep(r.h.two)), body_len)>>
          /\ header + body_len = r.size, "Aead">>,
        <<split_inner_plaintext(r.inner).err = "Ok", "InnerPlaintext">>>>),
     seq |-> seq, record_len |-> header + body_len, inner |-> split_inner_plaintext(r.inner)]

\* The number behind the mask; with another key the mask stays on, and the
\* number is not the one that was sealed.
WireLow(keys, r) ==
    LET number == mask_seq(keys.sn, r.sample, r.number)
    IN  IF number.masks = {} THEN number.low ELSE number.low + 1

\* open, for the record r in front of `avail` bytes of a datagram.
open(keys, cid_len, expected_seq, r, avail) ==
    LET header == HeaderLen(cid_len, r.h.two, r.h.length)
        opened == OpenedAt(keys, r, IF r.h.length THEN r.declared ELSE Minus(avail, header), header,
                           ReconstructSeq(WireLow(keys, r), SeqStep(r.h.two), expected_seq), avail)
    IN  [opened EXCEPT !.err = Verdict(<<
            <<avail >= 1, "Truncated">>,
            <<(r.h.cid # <<>>) <=> (cid_len > 0), "CidMismatch">>,
            <<avail >= header, "Truncated">>,
            Passed(@)>>)]

----------------------------------------------------------------------------
(* Plaintext records and handshake headers.                                *)

PLAINTEXT_HEADER_LEN == 13
HS_HEADER_LEN == 12
U24_MAX == 2^24 - 1

HandshakeHeader(type, len, seq, off, flen) ==
    [type |-> type, len |-> len, seq |-> seq, off |-> off, flen |-> flen]

\* HandshakeHeader::write and write_hs_msg.
write_hs_msg(hh, body_len, room) ==
    Verdict(<<<<room >= HS_HEADER_LEN, "BufferTooSmall">>,
              <<hh.len <= U24_MAX /\ hh.off <= U24_MAX /\ hh.flen <= U24_MAX, "BufferTooSmall">>,
              <<room >= HS_HEADER_LEN + body_len, "BufferTooSmall">>>>)

\* PlaintextRecord::write.
write_plaintext(fragment_len, room) ==
    Verdict(<<<<fragment_len <= 2^16 - 1, "BufferTooSmall">>,
              <<room >= PLAINTEXT_HEADER_LEN + fragment_len, "BufferTooSmall">>>>)

\* PlaintextRecord::parse, of a record in front of `avail` bytes.
parse_plaintext(r, avail) ==
    Verdict(<<<<avail >= PLAINTEXT_HEADER_LEN, "Protocol">>,
              <<avail >= PLAINTEXT_HEADER_LEN + r.length, "Protocol">>>>)

----------------------------------------------------------------------------
(* ACK bodies: a byte count, then epoch and number of each record.         *)

MAX_ACK_RECORDS == 128
RECORD_NUMBER_LEN == 16
MAX_ACK_BODY_LEN == 2 + MAX_ACK_RECORDS * RECORD_NUMBER_LEN

\* The bits that are set, from the lowest on.
Ascending(seqs) == SelectSeq([i \in 1..MAX_ACK_RECORDS |-> i - 1], LAMBDA n : n \in seqs)

write_ack_bitmap(epoch, seqs, room) ==
    LET total == 2 + Cardinality(seqs) * RECORD_NUMBER_LEN
        order == Ascending(seqs)
    IN  [err |-> Verdict(<<<<room >= total, "BufferTooSmall">>>>),
         len |-> total, list_len |-> total - 2,
         entries |-> [i \in DOMAIN order |-> <<epoch, order[i]>>]]

\* parse_ack and AckRecords::next.
parse_ack(ack) ==
    [err |-> Verdict(<<<<ack.len >= 2, "Malformed">>,
                       <<ack.len >= 2 + ack.list_len, "Malformed">>,
                       <<ack.list_len % RECORD_NUMBER_LEN = 0, "Malformed">>>>),
     records |-> [i \in 1..(ack.list_len \div RECORD_NUMBER_LEN) |-> ack.entries[i]]]
=============================================================================
