---------------------------- MODULE TlsHandshake ----------------------------
(***************************************************************************)
(* The whole client handshake of TLS: TlsStream::connect (client/stream.rs)*)
(* drives the typestates of connection.rs through handle_server_hello,     *)
(* handle_flight_record and finalize_and_finish of client/engine.rs. One   *)
(* action is one record dispatched, every call it makes included.          *)
(*                                                                         *)
(* A scenario fixes the caller's parameters and what the server sends; the *)
(* server chooses how its flight is cut into records, pads them and puts   *)
(* ChangeCipherSpec between them. The Scratch outlives a connection.       *)
(***************************************************************************)
EXTENDS ClientFlight, Hello, TrustChain

CONSTANTS
    Scenarios,   \* families of what the caller and the server may be
    Pki,         \* Pki[parser][certificate]: see TrustChain
    Signed,      \* the signatures on certificates that were made
    MaxCcs       \* ChangeCipherSpec records of a flight

VARIABLES
    scn,         \* the scenario of this connection
    pc,          \* EngineState: init, WaitServerHello, WaitFlight, App, Closed
    returned,    \* what connect returned: "Ok" or the error
    conn,        \* the TlsConnection typestate's data
    buf,         \* Scratch::reassembler
    peer_limit,  \* TlsEngine::peer_recv_limit
    srv,         \* the server: next record number, cells sent, CCS sent
    out          \* the second flight in Scratch::send_record

engine == <<pc, buf, peer_limit, out>>
vars == <<scn, returned, conn, srv, engine>>

NoConn == [transcript |-> <<>>, hs |-> Zeros, c |-> Zeros, s |-> Zeros, keyLen |-> 0, seq_in |-> 0,
           c_ap |-> Zeros, s_ap |-> Zeros]
NoOut == [err |-> "Ok", len |-> 0, transcript |-> <<>>, auth |-> <<>>, records |-> <<>>]

\* The one cell the ClientHello is in the transcript.
ClientHelloCell == <<700>>

----------------------------------------------------------------------------
(* What connect derives from its parameters.                               *)

default_our_recv_limit(RECV) ==
    LET from_buf == Minus(RECV, RECORD_OVERHEAD)
    IN  IF from_buf > PROTO_MAX_INNER_PLAINTEXT THEN PROTO_MAX_INNER_PLAINTEXT
        ELSE IF from_buf < MIN_RECORD_SIZE_LIMIT THEN MIN_RECORD_SIZE_LIMIT ELSE from_buf

SuitesOf(s) == effective_suite_list(s.config, s.suite_policy)

ClientHelloOptions(s) ==
    [hostname |-> Some(Len(s.host)), rsl |-> Some(default_our_recv_limit(s.RECV)),
     sid |-> IF s.middlebox_compat THEN Some(LEGACY_SESSION_ID_LEN) ELSE None,
     alpn |-> s.alpn, suites |-> SuitesOf(s), ek |-> TRUE, p256 |-> TRUE]

map_client_hello_error(e) == IF e = "MessageTooLong" THEN "ClientHelloTooLong" ELSE e

\* The bytes of the record a ServerHello arrives in.
ServerHelloBytes(s) ==
    LET g == parse_server_hello(s.F, s.sh).group
    IN  TLS_HEADER + HS_HEADER + 2 + 32 + 1 + (IF At(s.sh, 7) = 0 THEN 0 ELSE 32) + 2 + 1 + 2 + (4 + 2)
        + (4 + 4 + (IF g = SECP256R1 THEN 65 ELSE IF g = X25519MLKEM768 THEN 32 + 1088 ELSE 32))

\* VerifyStrategy::verify_chain of the configured strategy.
verify_chain(s, certs, chain) ==
    IF s.strategy = "roots"
    THEN roots_verify_chain(certs, Signed, s.anchors, s.enforce, s.clock, chain)
    ELSE safe_verify_chain(certs, Signed, s.pin, s.clock, chain)

\* PreparedVerifier::matches_cert.
matches_cert(prepared, view) == prepared.family = view.kind /\ prepared.key = view.key

----------------------------------------------------------------------------
(* The server. It signs what it sends: its CertificateVerify covers what   *)
(* precedes it, unless the scenario says that it signs something else.     *)

\* The cells in front of the first message of type t.
Before(flight, t) ==
    LET us == Units(flight)
        k == SelectInSeq(us, LAMBDA u : u.type = t)
    IN  IF k = 0 THEN flight ELSE Slice(flight, 0, us[k].end - Len(us[k].full))

ServerTranscript(s) == ClientHelloCell \o From(s.sh, 3)

\* What it derives from its own share, in the group it chose.
ServerSecrets(s) ==
    LET hs == Extract(derive_secret("tls13 ", early_secret, "derived", EmptyHash), s.dhe)
    IN  [hs |-> hs,
         c |-> derive_secret("tls13 ", hs, "c_hs_traffic", Hash(ServerTranscript(s))),
         s |-> derive_secret("tls13 ", hs, "s_hs_traffic", Hash(ServerTranscript(s)))]

ServerKeys(s, secret) == traffic_keys("tls13 ", secret, IF s.suite = AES THEN 16 ELSE 32)

\* What the server has signed and authenticated.
Signs(s) ==
    IF s.signs = "honest"
    THEN {<<s.key, Hash(ServerTranscript(s) \o Before(s.flight, HS_CERTIFICATE_VERIFY)), s.sig>>} ELSE {}
Macs(s) ==
    IF s.macs = "honest"
    THEN {<<finished_mac("tls13 ", ServerSecrets(s).s, Hash(ServerTranscript(s) \o Before(s.flight, HS_FINISHED))), s.mac>>}
    ELSE {}

----------------------------------------------------------------------------
(* The answer to the server's flight. *)

\* One handshake record with the Finished alone.
build_client_finished(c_hs, th, keyLen, room) ==
    LET fin == build_finished_plaintext(c_hs, th)
        r == encrypt_record([run |-> fin.len, cells |-> <<CT_HANDSHAKE>>],
                            traffic_keys("tls13 ", c_hs, keyLen), 0, room)
    IN  [err |-> r.err, len |-> fin.len, transcript |-> <<>>, auth |-> fin.auth, records |-> <<r.record>>]

finish_handshake(s, c, transcript) == build_client_finished(c.c, Hash(transcript), c.keyLen, s.SEND)

finish_handshake_with_policy(s, c, transcript, ctx, schemes, limit) ==
    LET fl == build_flight(s.F, s.policy, s.signer, ctx, schemes, c.c, transcript, s.RECV)
        enc == encrypt_handshake_flight(traffic_keys("tls13 ", c.c, c.keyLen), fl.len, limit, s.SEND)
    IN  [err |-> IF fl.err # "Ok" THEN fl.err ELSE enc.err, len |-> fl.len,
         transcript |-> fl.transcript, auth |-> fl.auth, records |-> IF fl.err = "Ok" THEN enc.records ELSE <<>>]

\* Mutant of AppSecrets: bound to the transcript with the client's flight.
AppSecrets_late(c, through_sfin, fl) ==
    application_traffic_secrets("tls13 ", master_secret("tls13 ", c.hs),
                                Hash(IF fl.transcript = <<>> THEN through_sfin ELSE fl.transcript))

\* Bound to the transcript through the server's Finished.
AppSecrets(c, through_sfin, fl) ==
    application_traffic_secrets("tls13 ", master_secret("tls13 ", c.hs), Hash(through_sfin))

----------------------------------------------------------------------------
Init ==
    /\ \E family \in Scenarios : scn \in family
    /\ pc = "init" /\ returned = "Ok" /\ conn = NoConn /\ buf = <<>>
    /\ peer_limit = PROTO_MAX_INNER_PLAINTEXT
    /\ srv = [seq |-> 0, off |-> 0, ccs |-> 0] /\ out = NoOut

\* connect returns the error e.
Fail(e) == pc' = "Closed" /\ returned' = e /\ UNCHANGED <<conn, out>>

\* TlsEngine::new: a reused Scratch may still hold the last flight.
ReassemblerOfNew(b) == <<>>

\* TlsStream::connect up to the ClientHello, for the connection s.
ConnectVerdict(s) ==
    Verdict(<<Passed(validate_construction(s.F, s.policy, Len(s.host), s.RECV, s.SEND)),
              <<s.rng, "Rng">>,
              Passed(map_client_hello_error(write_client_hello_with(s.F, ClientHelloOptions(s)).err))>>)
Connect(s) ==
    \E e \in {ConnectVerdict(s)} :
        /\ scn' = s
        /\ srv' = [seq |-> 0, off |-> 0, ccs |-> 0] /\ out' = NoOut
        /\ peer_limit' = PROTO_MAX_INNER_PLAINTEXT
        /\ returned' = e
        /\ IF e = "Ok"
           THEN /\ pc' = "WaitServerHello" /\ buf' = ReassemblerOfNew(buf)
                /\ conn' = [NoConn EXCEPT !.transcript = ClientHelloCell]
           ELSE pc' = "Closed" /\ conn' = NoConn /\ UNCHANGED buf

FirstConnect == pc = "init" /\ Connect(scn)

\* The next connection with the same Scratch.
Reconnect == pc \in {"App", "Closed"} /\ scn.next # <<>> /\ Connect(scn.next[1])

handle_server_hello ==
    /\ pc = "WaitServerHello"
    /\ UNCHANGED <<scn, buf, srv, peer_limit>>
    /\ \E r \in {read_server_hello(scn.F, [sid |-> IF scn.middlebox_compat THEN Sid ELSE <<>>, suites |-> SuitesOf(scn)],
                                    conn.transcript, scn.sh)} :
       \E e \in {Verdict(<<<<ServerHelloBytes(scn) <= scn.RECV, "RecordTooLarge">>,
                           <<At(scn.sh, 0) = CT_HANDSHAKE, "UnexpectedContentType">>,
                           <<r.err = "Ok", r.err>>>>)} :
           IF e # "Ok" THEN Fail(e)
           ELSE /\ pc' = "WaitFlight"
                /\ conn' = [conn EXCEPT !.transcript = r.transcript, !.hs = r.hs, !.c = r.c, !.s = r.s,
                                        !.keyLen = r.keyLen]
                /\ UNCHANGED <<returned, out>>

\* Trust, identity and the transcript are settled: the answer to the server,
\* and the keys of the application data.
finish(c, transcript, view, answer, schemes, limit) ==
    \E done \in {IF answer
                 THEN finish_handshake_with_policy(scn, c, transcript,
                          certificate_request_context(view.cr.full), schemes, limit)
                 ELSE finish_handshake(scn, c, transcript)} :
    \E ap \in {AppSecrets(c, transcript, done)} :
        IF done.err # "Ok" THEN Fail(done.err)
        ELSE /\ pc' = "App" /\ returned' = "Ok" /\ out' = done
             /\ conn' = [c EXCEPT !.transcript = IF answer THEN done.transcript ELSE transcript,
                                  !.c_ap = ap.c, !.s_ap = ap.s, !.seq_in = 0]

\* finalize_server_flight: the chain, the name, CertificateVerify and Finished.
finalize_server_flight(c, flight, view, certs, chain, answer, schemes, limit) ==
    \E leaf \in {certs[IF chain = <<>> THEN 0 ELSE chain[1]].parse}, trust \in {verify_chain(scn, certs, chain)} :
    \E prepared \in {[family |-> leaf.view.kind, key |-> leaf.view.key]},
       host \in {verify_hostname(scn.F, leaf.view.san, scn.host)} :
    \E e \in {Verdict(<<<<trust = "Ok", "StrategyRejected">>,
                        <<leaf.err = "Ok", leaf.err>>,
                        <<matches_cert(prepared, leaf.view), "StrategyPubkeyMismatch">>,
                        <<host = "Ok", host>>>>)} :
        IF e # "Ok" THEN Fail(e)
        ELSE \E verified \in {verify_server_flight(c.transcript, flight, c.s, prepared, Signs(scn), Macs(scn))} :
                IF verified.err # "Ok" THEN Fail(verified.err)
                ELSE finish(c, verified.transcript, view, answer, schemes, limit)

\* finalize_and_finish, with the flight complete in b.
finalize_and_finish(c, b) ==
    \E certs \in {Pki[scn.parser]}, peek \in {peek_ee_record_size_limit(b)}, flight \in {flight_bytes(b)} :
    \E view \in {parse_server_flight(flight)} :
    \E ch \in {extract_chain(view.cert.body)}, algs \in {certificate_request_sig_algs(view.cr.full)} :
    LET legal == ~peek.some \/ peek.value \in MIN_RECORD_SIZE_LIMIT..PROTO_MAX_INNER_PLAINTEXT
        requested == view.cr # NoUnit
        answer == requested /\ ACCEPT_CERT_REQUEST(scn.policy)
        limit == IF peek.some /\ legal THEN peek.value ELSE peer_limit
        chain == [i \in DOMAIN ch.chain |->
                    IF Len(ch.chain[i]) = 1 /\ ch.chain[i][1] \in DOMAIN certs THEN ch.chain[i][1] ELSE 0]
    IN  \E e \in {Verdict(<<<<peek.err = "Ok", peek.err>>,
                            <<legal, "InvalidRecordSizeLimit">>,
                            <<view.err = "Ok", view.err>>,
                            <<~answer \/ algs.err = "Ok", algs.err>>,
                            <<answer \/ ~requested, "CertificateRequested">>,
                            <<ch.err = "Ok", ch.err>>>>)} :
            /\ peer_limit' = limit
            /\ IF e # "Ok" THEN Fail(e)
               ELSE finalize_server_flight(c, flight, view, certs, chain, answer, algs.schemes, limit)

\* handle_flight_record for the record rec, feed_server_record_inplace included.
handle_flight_record(rec) ==
    \E ccs \in {rec.type = CT_CHANGE_CIPHER_SPEC}, our \in {default_our_recv_limit(scn.RECV)},
       dec \in {decrypt_record_inplace(rec, traffic_keys("tls13 ", conn.s, conn.keyLen), conn.seq_in)},
       inner \in {split_inner_plaintext(rec.inner)} :
    \E push \in {IF ccs THEN [err |-> "Ok", buf |-> buf] ELSE push_content(buf, inner.cells)},
       c \in {IF ccs THEN conn ELSE [conn EXCEPT !.seq_in = @ + 1]} :
    \E e \in {IF ccs THEN "Ok"
              ELSE Verdict(<<
                 <<rec.declared <= Minus(scn.RECV, TLS_HEADER), "RecordTooLarge">>,
                 <<rec.type # CT_APPLICATION_DATA \/ rec.declared <= our + AEAD_TAG, "RecordTooLarge">>,
                 <<rec.type = CT_APPLICATION_DATA, "UnexpectedContentType">>,
                 <<dec = "Ok", dec>>,
                 <<inner.err = "Ok", inner.err>>,
                 <<inner.type = CT_HANDSHAKE, "UnexpectedContentType">>,
                 <<push.err = "Ok", push.err>>>>)} :
        \/ e # "Ok" /\ Fail(e) /\ UNCHANGED <<buf, peer_limit>>
        \/ /\ e = "Ok" /\ ~is_complete(push.buf)
           /\ conn' = c /\ buf' = push.buf /\ UNCHANGED <<pc, returned, peer_limit, out>>
        \/ e = "Ok" /\ is_complete(push.buf) /\ buf' = push.buf /\ finalize_and_finish(c, push.buf)

\* The server seals the next n cells of its flight, with pad bytes of padding.
FlightRecord(n, pad) ==
    LET content == Slice(scn.flight, srv.off, srv.off + n)
        inner == [run |-> 0, cells |-> content \o <<scn.inner_type>> \o [i \in 1..pad |-> 0]]
        r == encrypt_record(inner, ServerKeys(scn, ServerSecrets(scn).s), srv.seq, 2^15)
    IN  [rec |-> [r.record EXCEPT !.type = scn.outer_type], srv |-> [srv EXCEPT !.seq = @ + 1, !.off = @ + n]]

\* A record of the compatibility mode; it is not encrypted and not counted.
ChangeCipherSpec ==
    [rec |-> [type |-> CT_CHANGE_CIPHER_SPEC, ver |-> LEGACY_VERSION, declared |-> 1, size |-> 6,
              seal |-> Seal([key |-> Zeros, iv |-> Zeros], 0, 1), inner |-> [run |-> 0, cells |-> <<1>>]],
     srv |-> [srv EXCEPT !.ccs = @ + 1]]

\* What the server may send next.
Arriving ==
    {FlightRecord(n, pad) : n \in {k \in scn.cuts \cup {Len(scn.flight)} :
                                     k <= Len(scn.flight) - srv.off /\ (k > 0 \/ srv.seq = 0)}, pad \in scn.pads}
    \cup (IF srv.ccs < MaxCcs THEN {ChangeCipherSpec} ELSE {})

Record ==
    /\ pc = "WaitFlight"
    /\ \E next \in Arriving : srv' = next.srv /\ handle_flight_record(next.rec)
    /\ UNCHANGED scn

\* The transport ends behind everything the server had to send.
Eof ==
    /\ pc = "WaitFlight" /\ srv.off = Len(scn.flight)
    /\ Fail("UnexpectedEof") /\ UNCHANGED <<scn, peer_limit, buf, srv>>

Next == FirstConnect \/ Reconnect \/ handle_server_hello \/ Record \/ Eof

Spec == Init /\ [][Next]_vars
=============================================================================
