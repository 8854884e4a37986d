---------------------------- MODULE ServerFlight ----------------------------
(***************************************************************************)
(* The server's encrypted flight: reassembler.rs (where it ends, and the   *)
(* record_size_limit in it), server_flight.rs (its messages, the chain in  *)
(* the Certificate, the CertificateRequest, the CertificateVerify and the  *)
(* Finished). Messages are cells, see Wire; a certificate is one cell, the *)
(* name of it.                                                             *)
(***************************************************************************)
EXTENDS Wire, KeySchedule

CONSTANTS
    FLIGHT,      \* capacity of the reassembler, in cells
    MAX_CHAIN    \* capacity of the chain

HS_ENCRYPTED_EXTENSIONS == 8
HS_CERTIFICATE == 11
HS_CERTIFICATE_REQUEST == 13
HS_CERTIFICATE_VERIFY == 15
HS_FINISHED == 20

EXT_SIGNATURE_ALGORITHMS == 13
EXT_RECORD_SIZE_LIMIT == 28

MacCells == 2

----------------------------------------------------------------------------
(* ServerFlightReassembler *)

push_content(buf, content) ==
    IF Len(buf) + Len(content) > FLIGHT
    THEN [err |-> "Overflow", buf |-> buf]
    ELSE [err |-> "Ok", buf |-> buf \o content]

\* Where the first complete Finished ends; 0 for None.
flight_end_offset(buf) ==
    LET us == Units(buf) IN Unit(us, SelectInSeq(us, LAMBDA u : u.type = HS_FINISHED)).end

is_complete(buf) == flight_end_offset(buf) # 0

\* Mutant of flight_bytes: what came behind the Finished stays in the flight.
flight_bytes_all(buf) == buf

flight_bytes(buf) == Slice(buf, 0, flight_end_offset(buf))

\* The value of the one record_size_limit in EncryptedExtensions: b is the
\* flight, ee the body of its first message, us its extensions and rsl the ones
\* with that type.
PeekLimit(err, rsl) == [err |-> err, some |-> err = "Ok" /\ rsl # <<>>,
                        value |-> IF err = "Ok" /\ rsl # <<>> THEN rsl[1].body[1] ELSE 0]
PeekExtensions(b, ee, us, rsl) ==
    PeekLimit(Verdict(<<
        <<Len(b) >= 2, "Truncated">>,
        <<At(b, 0) = HS_ENCRYPTED_EXTENSIONS, "UnexpectedHandshakeType">>,
        <<Len(b) >= 2 + At(b, 1), "Truncated">>,
        <<Len(ee) >= 1, "Truncated">>,
        <<Len(ee) = 1 + At(ee, 0), "Truncated">>,
        <<~(Len(rsl) > 1 /\ Len(rsl[1].body) = 1 /\ Len(rsl[2].body) = 1), "DuplicateExtension">>,
        <<\A k \in DOMAIN rsl : Len(rsl[k].body) = 1, "Truncated">>,
        <<UnitsEnd(us) = Minus(Len(ee), 1), "Truncated">>>>), rsl)
PeekMessage(b, ee, us) == PeekExtensions(b, ee, us, SelectSeq(us, LAMBDA u : u.type = EXT_RECORD_SIZE_LIMIT))
PeekFlight(b, ee) == PeekMessage(b, ee, Units(From(ee, 1)))
peek_ee_record_size_limit(buf) ==
    IF is_complete(buf)
    THEN PeekFlight(flight_bytes(buf), Slice(flight_bytes(buf), 2, 2 + At(flight_bytes(buf), 1)))
    ELSE PeekLimit("Truncated", <<>>)

----------------------------------------------------------------------------
(* parse_server_flight: the messages in their order, and nothing behind.   *)

parse_server_flight(content) ==
    LET us == Units(content)
        n == Len(us)
        c == IF Unit(us, 2).type = HS_CERTIFICATE_REQUEST THEN 1 ELSE 0
        is(k, t) == Unit(us, k).type = t
        Unexpected == "UnexpectedHandshakeType"
    IN  [err |-> Verdict(<<
            <<n >= 1, "Truncated">>, <<is(1, HS_ENCRYPTED_EXTENSIONS), Unexpected>>,
            <<n >= 2 + c, "Truncated">>, <<is(2 + c, HS_CERTIFICATE), Unexpected>>,
            <<n >= 3 + c, "Truncated">>, <<is(3 + c, HS_CERTIFICATE_VERIFY), Unexpected>>,
            <<n >= 4 + c, "Truncated">>, <<is(4 + c, HS_FINISHED), Unexpected>>,
            <<Unit(us, 4 + c).end = Len(content), "TrailingBytes">>>>),
         ee |-> Unit(us, 1),
         cr |-> IF c = 1 THEN us[2] ELSE NoUnit,
         cert |-> Unit(us, 2 + c),
         cv |-> Unit(us, 3 + c),
         fin |-> Unit(us, 4 + c)]

----------------------------------------------------------------------------
(* The CertificateRequest: context, extensions, and the schemes offered.   *)

cert_request_parts(creq) ==
    LET body == From(creq, 2)
        ctx_end == 1 + At(body, 0)
        exts == From(body, ctx_end + 1)
        ext_len == At(body, ctx_end)
    IN  [err |-> Verdict(<<
            <<At(creq, 0) = HS_CERTIFICATE_REQUEST, "UnexpectedHandshakeType">>,
            <<Len(body) >= 1, "Truncated">>,
            <<Len(body) >= ctx_end, "Truncated">>,
            <<Len(body) >= ctx_end + 1, "Truncated">>,
            <<Len(exts) >= ext_len, "Truncated">>,
            <<Len(exts) <= ext_len, "TrailingBytes">>>>),
         ctx |-> Slice(body, 1, ctx_end), exts |-> exts]

certificate_request_context(creq) == cert_request_parts(creq).ctx

\* The first signature_algorithms extension decides, what follows it is not
\* looked at; without one, every extension must be whole and none is offered.
SigAlgsIn(err, data) == [err |-> err, schemes |-> IF err = "Ok" THEN From(data, 1) ELSE <<>>]
FindSigAlgs(parts, us, found, data) ==
    SigAlgsIn(Verdict(<<
        Passed(parts.err),
        <<found \/ UnitsEnd(us) = Len(parts.exts), "Truncated">>,
        <<~found \/ Len(data) >= 1, "Truncated">>,
        <<~found \/ At(data, 0) = Minus(Len(data), 1), "Truncated">>,
        <<~found \/ At(data, 0) >= 1, "Truncated">>>>), data)
RequestExtensions(parts, us) ==
    LET k == SelectInSeq(us, LAMBDA u : u.type = EXT_SIGNATURE_ALGORITHMS)
    IN  FindSigAlgs(parts, us, k # 0, Unit(us, k).body)
RequestParts(parts) == RequestExtensions(parts, Units(parts.exts))
certificate_request_sig_algs(creq) == RequestParts(cert_request_parts(creq))

----------------------------------------------------------------------------
(* The Certificate: every entry in wire order, a chain that does not fit   *)
(* is refused, not cut.                                                    *)

extract_chain(body) ==
    LET after_ctx == 1 + At(body, 0)
        list_start == after_ctx + 1
        list_len == At(body, after_ctx)
        list == Slice(body, list_start, list_start + list_len)
        cert_end(p) == p + 1 + At(list, p)
        next(p) == cert_end(p) + 1 + At(list, cert_end(p))
        whole[p \in 0..Len(list)] ==
            IF p = Len(list) \/ next(p) > Len(list) THEN <<>>
            ELSE <<[cert |-> Slice(list, p + 1, cert_end(p)), end |-> next(p)]>> \o whole[next(p)]
        entries == whole[0]
        stop == UnitsEnd(entries)
        \* The capacity is looked at between the certificate and its extensions.
        long == \/ Len(entries) > MAX_CHAIN
                \/ Len(entries) = MAX_CHAIN /\ stop # Len(list) /\ cert_end(stop) + 1 <= Len(list)
        err == Verdict(<<
            <<Len(body) >= 1, "Truncated">>,
            <<Len(body) >= after_ctx + 1, "Truncated">>,
            <<list_len <= Minus(Len(body), list_start), "Truncated">>,
            <<~long, "CertChainTooLong">>,
            <<stop = Len(list), "Truncated">>>>)
    IN  [err |-> err,
         chain |-> IF err = "Ok" THEN [i \in DOMAIN entries |-> entries[i].cert] ELSE <<>>]

----------------------------------------------------------------------------
(* CertificateVerify and Finished. Signing and the MAC are symbolic: `made` *)
(* holds <<key, transcript, signature>> of every signature that was made,  *)
(* `macs` <<MAC, its cells>> of every MAC.                                 *)

\* The scheme a CertificateVerify must name for each family of key, and the
\* cells of its signature; 0 where the verifier judges the length.
SchemeOf == [Ed25519 |-> 7, Rsa |-> 4, MlDsa44 |-> 44, MlDsa65 |-> 65, EcdsaP256 |-> 3, EcdsaP384 |-> 5]
SigCells == [Ed25519 |-> 2, Rsa |-> 0, MlDsa44 |-> 3, MlDsa65 |-> 4, EcdsaP256 |-> 0, EcdsaP384 |-> 0]
MlDsa == {"MlDsa44", "MlDsa65"}

\* An ML-DSA verifier picks its parameters by the length of the signature, so
\* the scheme is bound to that length here and to the key by the verifier.
verify_certificate_verify(prepared, th, body, made) ==
    LET scheme == At(body, 0)
        sig == From(body, 2)
        f == prepared.family
        mldsa == {m \in MlDsa : SchemeOf[m] = scheme}
        paired == IF f \in MlDsa THEN mldsa # {} ELSE scheme = SchemeOf[f]
    IN  Verdict(<<
            <<Len(body) >= 2, "Truncated">>,
            <<Len(sig) = At(body, 1), "TrailingBytes">>,
            <<paired, "UnexpectedSignatureScheme">>,
            <<f # "Ed25519" \/ Len(sig) = SigCells[f], "WrongSignatureLength">>,
            <<f \notin MlDsa \/ \A m \in mldsa : Len(sig) = SigCells[m],
              "UnexpectedSignatureScheme">>,
            <<<<prepared.key, th, sig>> \in made, "CertVerifyInvalid">>>>)

verify_server_finished(secret, th, body, macs) ==
    Verdict(<<
        <<Len(body) = MacCells, "FinishedWrongLength">>,
        <<<<finished_mac("tls13 ", secret, th), body>> \in macs, "FinishedMacInvalid">>>>)

\* The transcript a CertificateVerify covers.
HashedWith(transcript, v) == transcript \o v.ee.full \o v.cr.full \o v.cert.full

FlightVerified(v, through_cert, secret, prepared, made, macs) ==
    [err |-> Verdict(<<
        Passed(v.err),
        Passed(verify_certificate_verify(prepared, Hash(through_cert), v.cv.body, made)),
        Passed(verify_server_finished(secret, Hash(through_cert \o v.cv.full), v.fin.body, macs))>>),
     transcript |-> through_cert \o v.cv.full \o v.fin.full]
MessagesVerified(transcript, v, secret, prepared, made, macs) ==
    FlightVerified(v, HashedWith(transcript, v), secret, prepared, made, macs)
verify_server_flight(transcript, plaintext, secret, prepared, made, macs) ==
    MessagesVerified(transcript, parse_server_flight(plaintext), secret, prepared, made, macs)
=============================================================================
