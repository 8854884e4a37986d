---------------------------- MODULE ClientFlight ----------------------------
(***************************************************************************)
(* The client's second flight: client_flight.rs (Certificate,              *)
(* CertificateVerify and Finished, and the three policies),                *)
(* backends/client_auth.rs (the bundled signers), the sizes that scratch.rs*)
(* and validate_construction promise are enough, and the fragmentation of  *)
(* encrypt_handshake_flight.                                               *)
(*                                                                         *)
(* Lengths are the real ones, in bytes. A message is [err, len, cells,     *)
(* auth]: its bytes, the cells the transcript hash takes in, where a       *)
(* certificate, a signature and a MAC are one cell each, and the term that *)
(* was signed or MACed, if any. F is the set of Cargo features.            *)
(***************************************************************************)
EXTENDS ServerFlight, Records

MAX_CLIENT_CERT_DER(F) ==
    IF "rsa-4096" \in F THEN 1536 ELSE IF "rsa-3072" \in F THEN 1280 ELSE 1024

MAX_CLIENT_SIG_LEN(F) ==
    IF "rsa-4096" \in F THEN 512 ELSE IF "rsa-3072" \in F THEN 384
    ELSE IF "rsa" \in F THEN 256 ELSE 112

HS_HEADER == 4
CERT_FRAMING == 1 + 255 + 3 + 3 + 2
EMPTY_CERT_FRAMING == 1 + 255 + 3
CV_FRAMING == 2 + 2
FINISHED_MSG == HS_HEADER + 32
CLIENT_FINISHED_LEN == 58

MAX_CLIENT_AUTH_FLIGHT(F) ==
    (HS_HEADER + CERT_FRAMING + MAX_CLIENT_CERT_DER(F))
    + (HS_HEADER + CV_FRAMING + MAX_CLIENT_SIG_LEN(F)) + FINISHED_MSG

MAX_CLIENT_EMPTY_AUTH_FLIGHT == (HS_HEADER + EMPTY_CERT_FRAMING) + FINISHED_MSG

\* ClientAuthPolicy: what each policy says of itself.
ACCEPT_CERT_REQUEST(policy) == policy # "NoClientAuth"
MAX_FLIGHT_LEN(F, policy) ==
    CASE policy = "NoClientAuth" -> 0
      [] policy = "DeclineClientAuth" -> MAX_CLIENT_EMPTY_AUTH_FLIGHT
      [] policy = "WithClientAuth" -> MAX_CLIENT_AUTH_FLIGHT(F)

----------------------------------------------------------------------------
(* The bundled signers. A scalar half of an ECDSA signature is [n, zeros,  *)
(* high]: its bytes, how many of them are leading zeros, and whether the   *)
(* first one behind those has its top bit set.                             *)

der_int(half) ==
    LET zeros == IF half.zeros < half.n THEN half.zeros ELSE half.n - 1
    IN  2 + (half.n - zeros) + (IF half.high /\ half.zeros < half.n THEN 1 ELSE 0)

der_ecdsa_sig(r, s) == 2 + der_int(r) + der_int(s)

\* RsaClientAuth::from_components: the widths that are compiled in.
from_components(F, n, d) ==
    Verdict(<<
        <<\/ "rsa-1024" \in F /\ n = 128
          \/ n = 256
          \/ "rsa-3072" \in F /\ n = 384
          \/ "rsa-4096" \in F /\ n = 512, "ClientAuthError">>,
        <<d # 0 /\ d <= n, "ClientAuthError">>>>)

\* A signature that does not fit ClientSignature is a failure of the signer.
sign(F, signer) == IF signer.works /\ signer.sig_len <= MAX_CLIENT_SIG_LEN(F) THEN "Ok" ELSE "Sign"

----------------------------------------------------------------------------
(* The messages. room is what is left of the output buffer.                *)

SigCell == 901
MacCell == 902

certificate_verify_signed_content(th) == <<"client CertificateVerify", th>>

build_client_certificate(F, signer, ctx, room) ==
    LET entry_len == 3 + signer.cert_len + 2
        body_len == 1 + Len(ctx) + 3 + entry_len
    IN  [err |-> Verdict(<<
            <<signer.cert_len # 0, "EmptyCertificate">>,
            <<signer.cert_len <= MAX_CLIENT_CERT_DER(F), "CertificateTooLong">>,
            <<Len(ctx) <= 255, "ContextTooLong">>,
            <<4 + body_len <= room, "BufferTooSmall">>>>),
         len |-> 4 + body_len,
         cells |-> <<HS_CERTIFICATE, body_len, Len(ctx)>> \o ctx
                   \o <<entry_len, signer.cert_len, signer.cert, 0>>,
         auth |-> <<>>]

build_client_empty_certificate(ctx, room) ==
    LET body_len == 1 + Len(ctx) + 3
    IN  [err |-> Verdict(<<
            <<Len(ctx) <= 255, "ContextTooLong">>,
            <<4 + body_len <= room, "BufferTooSmall">>>>),
         len |-> 4 + body_len,
         cells |-> <<HS_CERTIFICATE, body_len, Len(ctx)>> \o ctx \o <<0>>,
         auth |-> <<>>]

build_client_certificate_verify(F, signer, th, room) ==
    LET body_len == 2 + 2 + signer.sig_len
    IN  [err |-> Verdict(<<
            <<sign(F, signer) = "Ok", "Sign">>,
            <<4 + body_len <= room, "BufferTooSmall">>>>),
         len |-> 4 + body_len,
         cells |-> <<HS_CERTIFICATE_VERIFY, body_len, signer.scheme, signer.sig_len, SigCell>>,
         auth |-> <<<<"sig", signer.cert, certificate_verify_signed_content(th)>>>>]

build_finished_plaintext(c_hs, th) ==
    [err |-> "Ok", len |-> FINISHED_MSG, cells |-> <<HS_FINISHED, 32, MacCell>>,
     auth |-> <<finished_mac("tls13 ", c_hs, th)>>]

\* Appends message m to the flight fl and to its transcript, unless one failed.
Then(fl, m) ==
    IF fl.err # "Ok" THEN fl
    ELSE IF m.err # "Ok" THEN [fl EXCEPT !.err = m.err]
    ELSE [err |-> "Ok", len |-> fl.len + m.len, transcript |-> fl.transcript \o m.cells,
          auth |-> fl.auth \o m.auth]

EmptyFlight(transcript) == [err |-> "Ok", len |-> 0, transcript |-> transcript, auth |-> <<>>]

append_finished(fl, c_hs, room) ==
    LET fin == build_finished_plaintext(c_hs, Hash(fl.transcript))
    IN  Then(fl, [fin EXCEPT !.err = IF fl.len + fin.len <= room THEN "Ok" ELSE "BufferTooSmall"])

sig_algs_offer(schemes, scheme) == Contains(schemes, scheme)

build_flight(F, policy, signer, ctx, schemes, c_hs, transcript, room) ==
    LET start == EmptyFlight(transcript)
        offered == sig_algs_offer(schemes, signer.scheme)
        cert == Then([start EXCEPT !.err = IF offered THEN "Ok" ELSE "NoMutualSignatureAlgorithm"],
                     build_client_certificate(F, signer, ctx, room))
        cv == Then(cert, build_client_certificate_verify(F, signer, Hash(cert.transcript),
                                                         Minus(room, cert.len)))
        empty == Then(start, build_client_empty_certificate(ctx, room))
    IN  CASE policy = "NoClientAuth" -> [start EXCEPT !.err = "CertificateRequested"]
          [] policy = "DeclineClientAuth" -> append_finished(empty, c_hs, room)
          [] policy = "WithClientAuth" -> append_finished(cv, c_hs, room)

----------------------------------------------------------------------------
(* Records of the flight, and the buffers they need.                       *)

MIN_RECORD_SIZE_LIMIT == 64
PROTO_MAX_INNER_PLAINTEXT == 16385
CONTENT_TYPE_LEN == 1
FACADE_HOSTNAME_MAX == 255

client_auth_send_floor(max_flight) ==
    LET chunk == MIN_RECORD_SIZE_LIMIT - CONTENT_TYPE_LEN
        records == (max_flight + chunk - 1) \div chunk
    IN  max_flight + records * (RECORD_OVERHEAD + CONTENT_TYPE_LEN)

\* Mutant of encrypt_handshake_flight: the content type is not counted.
encrypt_handshake_flight_full(keys, len, peer_rsl, room) ==
    LET n == (len + peer_rsl - 1) \div peer_rsl
        size(i) == IF i < n THEN peer_rsl ELSE len - (n - 1) * peer_rsl
    IN  [err |-> "Ok",
         records |-> [i \in 1..n |->
             encrypt_record([run |-> size(i), cells |-> <<CT_HANDSHAKE>>], keys, i - 1, room).record]]

encrypt_handshake_flight(keys, len, peer_rsl, room) ==
    LET max_chunk == IF peer_rsl > CONTENT_TYPE_LEN THEN peer_rsl - CONTENT_TYPE_LEN ELSE 1
        n == (len + max_chunk - 1) \div max_chunk
        size(i) == IF i < n THEN max_chunk ELSE len - (n - 1) * max_chunk
        sealed == [i \in 1..n |->
            encrypt_record([run |-> size(i), cells |-> <<CT_HANDSHAKE>>], keys, i - 1,
                           Minus(room, (i - 1) * (max_chunk + CONTENT_TYPE_LEN + RECORD_OVERHEAD)))]
        k == SelectInSeq(sealed, LAMBDA r : r.err # "Ok")
    IN  [err |-> IF k = 0 THEN "Ok" ELSE sealed[k].err,
         records |-> [i \in 1..n |-> sealed[i].record]]

\* The smallest buffers a stream is built with.
SERVER_HELLO_RECORD_LEN(F) == IF "mlkem" \in F THEN 95 + 1088 ELSE 95

MIN_RECV(F) ==
    LET proto_floor == MIN_RECORD_SIZE_LIMIT + RECORD_OVERHEAD
    IN  IF SERVER_HELLO_RECORD_LEN(F) > proto_floor THEN SERVER_HELLO_RECORD_LEN(F) ELSE proto_floor

MIN_SEND_STANDARD == CLIENT_FINISHED_LEN

validate_construction(F, policy, hostLen, RECV, SEND) ==
    LET max_flight == MAX_FLIGHT_LEN(F, policy)
    IN  Verdict(<<
            <<hostLen <= FACADE_HOSTNAME_MAX, "HostnameTooLong">>,
            <<RECV >= MIN_RECV(F), "BufferTooSmall">>,
            <<SEND >= MIN_SEND_STANDARD, "BufferTooSmall">>,
            <<max_flight = 0 \/ SEND >= client_auth_send_floor(max_flight), "BufferTooSmall">>,
            <<max_flight = 0 \/ RECV >= max_flight, "BufferTooSmall">>>>)
=============================================================================
