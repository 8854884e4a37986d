------------------------------ MODULE Identity ------------------------------
(***************************************************************************)
(* identity.rs: the hostname against the subjectAltName, the clock against *)
(* the validity window. Names are sequences of ASCII codes.                *)
(***************************************************************************)
EXTENDS Asn1

DOT == 46
STAR == 42
COLON == 58
BRACKET == 91
CLOSE_BRACKET == 93
Digits == 48..57

\* ASCII case only.
Lower(c) == IF c \in 65..90 THEN c + 32 ELSE c
ascii_eq_ignore_case(a, b) ==
    Len(a) = Len(b) /\ \A i \in DOMAIN a : Lower(a[i]) = Lower(b[i])

DNS_NAME_TAG == tag_ctx_primitive(2)
IP_ADDRESS_TAG == tag_ctx_primitive(7)

looks_like_ip_literal(h) ==
    \/ At(h, 0) = BRACKET
    \/ Contains(h, COLON)
    \/ Contains(h, DOT) /\ \A i \in DOMAIN h : h[i] \in Digits \cup {DOT}

\* Mutant of dns_name_matches: the wildcard binds any number of labels.
dns_name_matches_deep(p, h) ==
    IF At(p, 0) = STAR /\ At(p, 1) = DOT
    THEN LET suffix == From(p, 2)
         IN  Len(h) > Len(suffix) /\ ascii_eq_ignore_case(From(h, Len(h) - Len(suffix)), suffix)
    ELSE ascii_eq_ignore_case(p, h)

\* A wildcard is the whole leftmost label and stands for one label.
dns_name_matches(p, h) ==
    IF At(p, 0) = STAR /\ At(p, 1) = DOT
    THEN LET suffix == From(p, 2)
             split_at == Len(h) - Len(suffix)
             label == Slice(h, 0, split_at - 1)
         IN  /\ suffix # <<>> /\ ~Contains(suffix, STAR)
             /\ Len(h) > Len(suffix) + 1
             /\ ascii_eq_ignore_case(From(h, split_at), suffix)
             /\ At(h, split_at - 1) = DOT
             /\ label # <<>> /\ ~Contains(label, DOT)
    ELSE ~Contains(p, STAR) /\ ascii_eq_ignore_case(p, h)

\* The SAN walker: the first entry with the tag that either matches or cannot
\* be read decides. An iPAddress has 4 or 16 bytes.
BadAddress(t) == t.tag = IP_ADDRESS_TAG /\ Len(t.body) \notin {4, 16}
SanVerdict(ts, k, all) ==
    IF k # 0 THEN (IF BadAddress(ts[k]) THEN "MalformedSan" ELSE "Ok")
    ELSE IF ~all THEN "MalformedSan" ELSE "HostnameMismatch"
WalkEntries(san, ts, tag, matches) ==
    SanVerdict(ts, SelectInSeq(ts, LAMBDA t : t.tag = tag /\ (BadAddress(t) \/ t.body \in matches)),
               Behind(san, ts, Len(ts)) = <<>>)
WalkSan(san, tag, matches) == WalkEntries(san, Tlvs(san), tag, matches)
Bodies(san) == {t.body : t \in ToSet(Tlvs(san))}

match_ip_address(san, octets) ==
    IF octets = <<>> THEN "HostnameMismatch" ELSE WalkSan(san, IP_ADDRESS_TAG, {octets})

\* The address parsers of core: four digits with dots between, and "::d".
ParseV4(h) ==
    IF Len(h) = 7 /\ \A i \in 1..7 : h[i] \in (IF i % 2 = 1 THEN Digits ELSE {DOT})
    THEN <<h[1] - 48, h[3] - 48, h[5] - 48, h[7] - 48>> ELSE <<>>
ParseV6(h) ==
    IF Len(h) = 3 /\ h[1] = COLON /\ h[2] = COLON /\ h[3] \in Digits
    THEN [i \in 1..16 |-> IF i = 16 THEN h[3] - 48 ELSE 0] ELSE <<>>
ParseIp(h) == IF ParseV4(h) # <<>> THEN ParseV4(h) ELSE ParseV6(h)
Bare(h) == IF At(h, 0) = BRACKET /\ Last(h) = CLOSE_BRACKET THEN Slice(h, 1, Len(h) - 1) ELSE h

\* san is None or Some, F the features.
verify_hostname(F, san, h) ==
    IF ~san.some THEN "NoSan"
    ELSE IF ~looks_like_ip_literal(h)
    THEN WalkSan(san.value, DNS_NAME_TAG, {body \in Bodies(san.value) : dns_name_matches(body, h)})
    ELSE IF "ip-host" \notin F THEN "HostnameMismatch"
    ELSE match_ip_address(san.value, ParseIp(Bare(h)))

----------------------------------------------------------------------------
(* Validity. A time is one cell: two digits of a year for UTCTime, the     *)
(* year for GeneralizedTime. der turns both into Unix time, from 1970 on.  *)

decode_time_to_unix(t) ==
    LET y == At(t.body, 0)
        year == IF t.tag = TAG_UTC_TIME THEN (IF y < 50 THEN 2000 + y ELSE 1900 + y) ELSE y
    IN  [ok |-> t.ok /\ t.tag \in {TAG_UTC_TIME, TAG_GENERALIZED_TIME} /\ Len(t.body) = 1 /\ year >= 1970,
         year |-> year]

Window(ok, nb, na) == [ok |-> ok /\ nb.ok /\ na.ok, nb |-> nb.year, na |-> na.year]
Times(ts) == Window(Tlv(ts, 2).rest = <<>>, decode_time_to_unix(Tlv(ts, 1)), decode_time_to_unix(Tlv(ts, 2)))
parse_validity_der(seq) ==
    IF Is(seq, TAG_SEQUENCE) /\ seq.rest = <<>> THEN Times(Tlvs(seq.body)) ELSE [ok |-> FALSE, nb |-> 0, na |-> 0]

\* A closed interval.
Covers(v, now) == v.ok /\ v.nb <= now /\ now <= v.na

verify_validity(validity, now) == Covers(parse_validity_der(read_tlv(validity)), now)
=============================================================================
