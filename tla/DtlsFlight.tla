----------------------------- MODULE DtlsFlight -----------------------------
(***************************************************************************)
(* DtlsClient::connect over the bytes of its datagrams (dtls/client.rs):   *)
(* the hellos as they are written and parsed, the server flight record by  *)
(* record and fragment by fragment into the reassembler, the Finished, the *)
(* ACK and the first application records within their buffers. Losses,     *)
(* timeouts and repeated hellos are DtlsHandshake's concern.               *)
(*                                                                         *)
(* Two kinds of behaviours: a reassembler alone that is given any fragment *)
(* ("alone"), and a connection to a server that numbers its records.       *)
(***************************************************************************)
EXTENDS DtlsReassembly, DtlsHello

CONSTANTS
    Sessions,      \* what client and server bring along, see Session
    Datagrams,     \* name -> what a datagram of the server flight holds
    FLIGHT_BUF,    \* length of flight_buf
    Payloads, Rooms    \* what send is called with: payload lengths, lengths of `out`

VARIABLES
    phase,         \* alone, hello, flight, connected or failed
    session,
    recv_cid_len, send_cid_len, srv_seq, acked, peer_record_limit,   \* locals of connect
    arrived,       \* history: the names of the datagrams that arrived
    sent           \* history: the records sent under keys

fvars == <<phase, session, recv_cid_len, send_cid_len, srv_seq, acked, peer_record_limit, arrived, sent>>

\* Our connection id and the server's (options), the cookie the server asks
\* for (an option), its limit (an option), the build's features, the length of
\* the AEAD key, the names of the datagrams that may arrive first, second
\* and so on.
Session(F, keyLen, cid, server_cid, cookie, limit, net) ==
    [F |-> F, keyLen |-> keyLen, cid |-> cid, server_cid |-> server_cid, cookie |-> cookie,
     limit |-> limit, net |-> net]

SUITE(keyLen) == IF keyLen = 16 THEN 4865 ELSE 4867
Keys == derive_handshake_keys(<<"dhe">>, Hash(<<"hellos">>), session.keyLen)
AppKeys == application_keys(<<"dhe">>, Hash(<<"hellos", "flight">>), session.keyLen)

-----------------------------------------------------------------------------
(* The server (external): its hellos and its flight.                       *)

Filled(n) == [i \in 1..n |-> 7]
Ext(type, body) == <<type, Len(body)>> \o body
ServerHello(random, exts) == <<65277, random, 0, SUITE(session.keyLen), 0, Len(exts)>> \o exts

Retry == ServerHello(HRR_RANDOM, Ext(43, <<65276>>) \o Ext(EXT_COOKIE, <<Max(session.cookie)>> \o Filled(Max(session.cookie))))

\* It returns a connection id only if the client sent one.
ServerCid == IF session.cid = {} THEN {} ELSE session.server_cid
Accept ==
    ServerHello(1, Ext(43, <<65276>>)
        \o (IF ServerCid = {} THEN <<>> ELSE Ext(EXT_CONNECTION_ID, <<Max(ServerCid)>> \o Filled(Max(ServerCid))))
        \o Ext(EXT_KEY_SHARE, <<NAMED_GROUP_X25519, KEY_LEN>> \o Filled(KEY_LEN)))

EncryptedExtensions ==
    LET exts == Ext(10, <<NAMED_GROUP_X25519>>)
                \o (IF session.limit = {} THEN <<>> ELSE Ext(EXT_RECORD_SIZE_LIMIT, <<Max(session.limit)>>))
    IN  <<Len(exts)>> \o exts

\* It stamps the client's connection id on its records if both sent one.
StampLen == IF ServerCid = {} THEN 0 ELSE Max(session.cid)

\* r: fragments, bytes of the content, padding, number, epoch and header form.
FragSize(f) == HS_HEADER_LEN + f.end - f.off
ServerRecord(r) ==
    LET keys == IF r.epoch = 2 THEN Keys.server ELSE AppKeys.server
        inner == [run |-> r.content, cells |-> <<r.type>> \o [i \in 1..r.pad |-> 0]]
        header == [SealHeader(r.epoch, r.n, r.two, Filled(StampLen)) EXCEPT !.length = r.length]
    IN  Record(keys, header, inner, InnerLen(inner) + TAG_LEN)

-----------------------------------------------------------------------------
(* connect up to the handshake keys.                                       *)

CH_BUF == 512
CH_DGRAM == HS_HEADER_LEN + 512 + 16
COOKIE_BUF == 256

CookieFits(h) == <<Len(h.cookie) <= COOKIE_BUF, "BufferTooSmall">>

\* A ClientHello in its buffers: write_client_hello, build_client_hello_record.
WriteHello(cookie) ==
    LET len == HelloLen(session.F, session.cid, cookie) IN
    Verdict(<<Passed(write_client_hello(session.F, session.cid, cookie, CH_BUF)),
              Passed(write_hs_msg(HandshakeHeader("ch", len, 0, 0, len), len, HS_HEADER_LEN + 512)),
              Passed(write_plaintext(HS_HEADER_LEN + len, CH_DGRAM))>>)

Parsed(h, retry) ==
    <<<<h.err = "Ok", "Handshake">>, <<h.retry = retry, "Handshake">>,
      <<h.suite = SUITE(session.keyLen), "Handshake">>>>

RetryChecks(h) ==
    Parsed(h, TRUE) \o <<CookieFits(h), Passed(WriteHello({Len(h.cookie)}))>>

HelloError(h) ==
    Verdict(<<Passed(WriteHello({}))>>
            \o (IF session.cookie = {} THEN <<>> ELSE RetryChecks(parse_server_hello(Retry)))
            \o Parsed(h, FALSE)
            \o <<<<session.cid # {} => \A c \in h.cid : Len(c) <= MAX_CID_LEN, "Handshake">>,
                 <<Keys.err = "Ok", "KeySchedule">>>>)

Negotiated(h) == session.cid # {} /\ h.cid # {}

Hellos(h) ==
    /\ phase = "hello"
    /\ IF HelloError(h) # "Ok"
       THEN /\ phase' = "failed" /\ error' = HelloError(h)
            /\ UNCHANGED <<recv_cid_len, send_cid_len>>
       ELSE /\ phase' = "flight"
            /\ recv_cid_len' = IF Negotiated(h) THEN Max(session.cid) ELSE 0
            /\ send_cid_len' = IF Negotiated(h) THEN Len(CHOOSE c \in h.cid : TRUE) ELSE 0
            /\ UNCHANGED error
    /\ UNCHANGED <<slots, used, arena, got, session, srv_seq, acked, peer_record_limit, arrived, sent>>

-----------------------------------------------------------------------------
(* The flight.                                                             *)

\* parse_hello_body, for the hello in front of a datagram of n bytes.
parse_hello_body(h, n) ==
    Verdict(<<Passed(parse_plaintext(h, n)),
              <<h.type = CT_HANDSHAKE, "Protocol">>,
              <<h.length >= HS_HEADER_LEN, "Protocol">>,
              <<h.length >= HS_HEADER_LEN + h.flen, "Protocol">>>>)

\* The fragments of a record's content, one behind the other.
FeedFragment(acc, f) ==
    IF acc.st.error # "Ok" \/ acc.p + HS_HEADER_LEN > acc.len THEN acc
    ELSE IF acc.p + FragSize(f) > acc.len THEN [acc EXCEPT !.st.error = "Protocol"]
    ELSE [acc EXCEPT !.p = @ + FragSize(f), !.st = push(@, f)]

FeedContent(st, type, len, frags) ==
    IF type # CT_HANDSHAKE THEN st
    ELSE FoldLeft(FeedFragment, [st |-> st, p |-> 0, len |-> len], frags).st

\* Mutant: the walk goes on in front of the record it has opened.
FeedOpenedInPlace(acc, r, o) ==
    IF o.err # "Ok" THEN [acc EXCEPT !.stop = TRUE]
    ELSE [acc EXCEPT !.acked = IF o.seq < MAX_ACK_RECORDS THEN @ \cup {o.seq} ELSE @,
                     !.st = FeedContent(@, o.inner.type, o.inner.run + Len(o.inner.cells), r.frags),
                     !.next_seq = @ + 1]

FeedOpened(acc, r, o) ==
    IF o.err # "Ok" THEN [acc EXCEPT !.stop = TRUE]
    ELSE [acc EXCEPT !.acked = IF o.seq < MAX_ACK_RECORDS THEN @ \cup {o.seq} ELSE @,
                     !.st = FeedContent(@, o.inner.type, o.inner.run + Len(o.inner.cells), r.frags),
                     !.next_seq = @ + 1,
                     !.pos = @ + o.record_len]

\* Epoch 0 is plaintext.
is_ciphertext_record(r) == r.epoch # 0

\* One record of feed_epoch2_records; a push that fails ends connect.
FeedRecord(acc, r) ==
    IF acc.stop \/ acc.st.error # "Ok" \/ acc.pos >= acc.n THEN acc
    ELSE IF ~is_ciphertext_record(r) THEN [acc EXCEPT !.stop = TRUE]
    ELSE FeedOpened(acc, r, open(Keys.server, recv_cid_len, acc.next_seq, ServerRecord(r), acc.n - acc.pos))

Fed(start, n, records) ==
    FoldLeft(FeedRecord, [stop |-> FALSE, pos |-> start, n |-> n, next_seq |-> srv_seq,
                          acked |-> acked, st |-> state], records)

Sizes(records) == FoldLeft(LAMBDA sum, r : sum + ServerRecord(r).size, 0, records)
HelloSize(d) == SumSet({PLAINTEXT_HEADER_LEN + h.length : h \in d.hello})

\* The transport cuts a datagram to the receive buffer.
Received(d) == Min({MAX_DATAGRAM, HelloSize(d) + Sizes(d.records)})

Take(fed) ==
    /\ Becomes(fed.st) /\ srv_seq' = fed.next_seq /\ acked' = fed.acked
    /\ phase' = IF fed.st.error = "Ok" THEN "flight" ELSE "failed"

\* A datagram of the flight, perhaps with the ServerHello in front once more.
Datagram(name, d) ==
    /\ phase = "flight" /\ ~flight_complete
    /\ Len(arrived) < Len(session.net) /\ name \in session.net[Len(arrived) + 1]
    /\ arrived' = Append(arrived, name)
    /\ IF \E h \in d.hello : parse_hello_body(h, Received(d)) # "Ok"
       THEN UNCHANGED <<slots, used, arena, error, got, srv_seq, acked, phase>>
       ELSE Take(Fed(HelloSize(d), Received(d), d.records))
    /\ UNCHANGED <<session, recv_cid_len, send_cid_len, peer_record_limit, sent>>

-----------------------------------------------------------------------------
(* The Finished, the ACK and application data.                             *)

FIN_BUF == 128
MAX_ACK_SEAL_OVERHEAD == 1 + MAX_CID_LEN + 2 + 2 + 1 + TAG_LEN

Content(n, type) == [run |-> n, cells |-> <<type>>]
SealOut(keys, epoch, seq, n, type, room) ==
    seal(keys.client, SealHeader(epoch, seq, TRUE, Filled(send_cid_len)), Content(n, type), room)

Ack == write_ack_bitmap(2, acked, MAX_ACK_BODY_LEN)

\* Mutant: room for the tag is forgotten.
AckRoomShort == MAX_ACK_BODY_LEN + MAX_ACK_SEAL_OVERHEAD - TAG_LEN
AckRoom == MAX_ACK_BODY_LEN + MAX_ACK_SEAL_OVERHEAD

FinishedRecord == SealOut(Keys, 2, 0, HS_HEADER_LEN + HashLen, CT_HANDSHAKE, FIN_BUF)
AckRecord == SealOut(Keys, 2, 1, Ack.len, CT_ACK, AckRoom)

FlightLen == MapThenSumSet(LAMBDA i : IF is_complete(slots[i]) THEN 4 + slots[i].len ELSE 0, DOMAIN slots)

ConcludeError(limit) ==
    Verdict(<<<<FlightLen <= FLIGHT_BUF, "Protocol">>,
              <<limit.err = "Ok", "Handshake">>,
              <<FinishedRecord.err = "Ok", "Protocol">>,
              Passed(Ack.err),
              <<AckRecord.err = "Ok", "Protocol">>>>)

SentRecord(name, record, body) == [name |-> name, inner |-> InnerLen(record.inner), size |-> record.size, body |-> body]

\* The flight is complete and verified (DtlsHandshake, VerifyFlight).
Conclude(limit) ==
    /\ phase = "flight" /\ flight_complete
    /\ IF ConcludeError(limit) # "Ok"
       THEN /\ phase' = "failed" /\ error' = ConcludeError(limit)
            /\ UNCHANGED <<peer_record_limit, sent>>
       ELSE /\ phase' = "connected" /\ peer_record_limit' = limit.limit
            /\ sent' = <<SentRecord("fin", FinishedRecord.record, <<>>),
                         SentRecord("ack", AckRecord.record, parse_ack(Ack).records)>>
            /\ UNCHANGED error
    /\ UNCHANGED <<slots, used, arena, got, session, recv_cid_len, send_cid_len, srv_seq, acked, arrived>>

\* send: Err(RecordSizeLimit) and Err(BufferTooSmall) leave everything as it is.
Send(n, room) ==
    /\ phase = "connected" /\ Len(sent) = 2
    /\ \A limit \in peer_record_limit : n + 1 <= limit
    /\ SealOut(AppKeys, 3, 0, n, CT_APPLICATION_DATA, room).err = "Ok"
    /\ sent' = Append(sent, SentRecord("app", SealOut(AppKeys, 3, 0, n, CT_APPLICATION_DATA, room).record, <<>>))
    /\ UNCHANGED <<slots, used, arena, error, got, phase, session, recv_cid_len, send_cid_len, srv_seq,
                   acked, peer_record_limit, arrived>>

-----------------------------------------------------------------------------
FlightInit ==
    /\ Init
    /\ \/ phase = "alone" /\ session = (CHOOSE s \in Sessions : TRUE)
       \/ phase = "hello" /\ session \in Sessions
    /\ recv_cid_len = 0 /\ send_cid_len = 0 /\ srv_seq = 0 /\ acked = {}
    /\ peer_record_limit = {} /\ arrived = <<>> /\ sent = <<>>

Alone == phase = "alone" /\ (Fragment \/ Stray) /\ UNCHANGED fvars

\* connect has failed, or no more is sent to it or by it.
Over ==
    /\ error # "Ok" \/ phase = "connected" \/ Len(arrived) = Len(session.net)
    /\ UNCHANGED <<vars, fvars>>

FlightNext ==
    \/ Alone
    \/ phase = "hello" /\ Hellos(parse_server_hello(Accept))
    \/ \E name \in DOMAIN Datagrams : Datagram(name, Datagrams[name])
    \/ phase = "flight" /\ Conclude(parse_ee_record_size_limit(EncryptedExtensions))
    \/ \E n \in Payloads, room \in Rooms : Send(n, room)
    \/ Over

FlightSpec == FlightInit /\ [][FlightNext]_<<vars, fvars>>

-----------------------------------------------------------------------------
(* Properties.                                                             *)

\* n is the closest to `expected` of the numbers with its low bits.
Closest(n, step, expected) ==
    \A m \in {n - step, n + step} \cap SeqNos : AbsDiff(n, expected) < AbsDiff(m, expected)

EndOf(d, k) == HelloSize(d) + Sizes(SubSeq(d.records, 1, k))

\* The k-th record can be read: behind a hello that is whole, sealed for this
\* epoch, all there, and with a length unless it is the last.
Readable(d, k, expected) ==
    /\ \A h \in d.hello : h.length >= HS_HEADER_LEN + h.flen
    /\ d.records[k].epoch = 2
    /\ EndOf(d, k) <= MAX_DATAGRAM
    /\ d.records[k].length \/ k = Len(d.records)
    /\ Closest(d.records[k].n, SeqStep(d.records[k].two), expected)

Prefix(d, expected) ==
    Max({k \in 0..Len(d.records) : \A j \in 1..k : Readable(d, j, expected + j - 1)})

BytesIn(r) ==
    UNION {IF r.type = CT_HANDSHAKE THEN {<<r.frags[i].seq, b>> : b \in r.frags[i].off..(r.frags[i].end - 1)} ELSE {}
           : i \in DOMAIN r.frags}

\* What arrives is taken exactly: the records in front of the first that is cut
\* off, of another epoch or without a length, each of them once, whatever their
\* header form and whatever came before; their fragments reach the reassembler
\* and their numbers the ACK.
FlightFed ==
    [][\A name \in DOMAIN Datagrams :
         arrived' = Append(arrived, name) /\ error' = "Ok" =>
           LET d == Datagrams[name]
               taken == {d.records[k] : k \in 1..Prefix(d, srv_seq)}
           IN  /\ srv_seq' = srv_seq + Cardinality(taken)
               /\ acked' = acked \cup {r.n : r \in {x \in taken : x.n < MAX_ACK_RECORDS}}
               /\ got' = got \cup UNION {BytesIn(r) : r \in taken}]_<<vars, fvars>>

\* The advertised limit is "derived so a conforming record always fits the
\* datagram buffer": a record alone in its datagram whose plaintext keeps to it
\* is taken, under the longest header that was negotiated.
ConformingTaken ==
    [][\A name \in DOMAIN Datagrams :
         /\ arrived' = Append(arrived, name) /\ error' = "Ok"
         /\ Len(Datagrams[name].records) = 1 /\ Datagrams[name].hello = {}
         /\ \A r \in ToSet(Datagrams[name].records) :
              /\ r.epoch = 2 /\ Closest(r.n, SeqStep(r.two), srv_seq)
              /\ r.content + 1 + r.pad <= RECORD_SIZE_LIMIT
         => srv_seq' = srv_seq + 1]_<<vars, fvars>>

Legal ==
    /\ \A n \in session.cid \cup ServerCid : n <= MAX_CID_LEN
    /\ \A n \in session.cookie : n <= COOKIE_BUF
    /\ \A n \in session.limit : n >= 64

\* Buffers sized by hand are large enough: with ids, cookie and limit that the
\* code accepts, no hello, Finished or ACK fails for want of room, the ACK of
\* MAX_ACK_RECORDS records under the longest header included; the ACK reads as
\* the records taken in ascending order; all but the ACK keep the peer's limit.
HandshakeFits ==
    /\ Legal => error \notin {"BufferTooSmall", "Handshake"} /\ (error = "Protocol" => ~flight_complete)
    /\ phase = "connected" =>
         /\ ToSet(sent[2].body) = {<<2, n>> : n \in acked}
         /\ \A i \in 2..Len(sent[2].body) : sent[2].body[i - 1][2] < sent[2].body[i][2]
         /\ \A i \in DOMAIN sent \ {2} : \A limit \in peer_record_limit : sent[i].inner <= limit
=============================================================================
