----------------------------- MODULE TrustChain -----------------------------
(***************************************************************************)
(* Which chains are trusted: SafeStrategy with PinOrSelfSigned             *)
(* (traits/verify_strategy.rs, backends/pin_or_self_signed.rs) and         *)
(* PinnedRoots (backends/pinned_roots.rs), over the views of a certificate *)
(* parser.                                                                 *)
(*                                                                         *)
(* pki gives for every certificate what the parser makes of it: parse      *)
(* [err, view], ca [err, out] and spki [err, spki]. Signing is symbolic:   *)
(* Signed is the set of <<key, padding, message, signature>> that were     *)
(* made, the padding being "none" where the key leaves no choice.          *)
(* A clock is [some, value].                                               *)
(***************************************************************************)
EXTENDS DerCert, Identity

CONSTANT CAP        \* chain depth of both strategies

\* Keys the providers refuse to prepare: those with a last byte 0.
prepare(view) == Last(<<0>> \o view.key) # 0

\* A signature on view's tbs by key, read under the padding the certificate
\* itself names.
Verifies(Signed, issuer, child) ==
    <<issuer.key, IF issuer.kind = "Rsa" THEN child.outer_sig_alg ELSE "none", child.tbs, child.signature>>
        \in Signed

\* The issuer's key decides how the child's signature is read; an RSA issuer
\* needs the padding the child names.
verify_link(Signed, child, parent) ==
    LET rsa == parent.kind = "Rsa"
        Bad == "LinkSignatureInvalid"
    IN  Verdict(<<
            <<~rsa \/ child.outer_sig_alg # "none", "UnknownLinkSigAlg">>,
            <<prepare(parent), IF rsa THEN "RsaVerifierInvalid"
                               ELSE IF parent.kind \in DOMAIN ML_DSA_PK THEN "MlDsaVerifierInvalid" ELSE Bad>>,
            <<parent.kind # "Ed25519" \/ Len(child.signature) = ED25519_SIG, Bad>>,
            <<Verifies(Signed, parent, child), Bad>>>>)

check_validity(clock, view) == ~clock.some \/ verify_validity(view.validity, clock.value)

prepare_leaf(view) ==
    IF prepare(view) THEN "Ok"
    ELSE CASE view.kind = "Ed25519" -> "Ed25519VerifierInvalid"
           [] view.kind = "Rsa" -> "RsaVerifierInvalid"
           [] view.kind \in DOMAIN ML_DSA_PK -> "MlDsaVerifierInvalid"
           [] OTHER -> "EcdsaVerifierInvalid"

----------------------------------------------------------------------------
(* PinOrSelfSigned. mode is [pin |-> None or Some([kind, key])].           *)

verify_pin(leaf, pin) ==
    Verdict(<<<<leaf.kind = pin.kind, "PinAlgorithmMismatch">>, <<leaf.key = pin.key, "PinMismatch">>>>)

verify_self_sig(Signed, leaf) ==
    LET rsa == leaf.kind = "Rsa"
    IN  Verdict(<<
            <<~rsa \/ leaf.outer_sig_alg # "none", "UnknownSigAlg">>,
            <<prepare(leaf), IF rsa THEN "RsaVerifierInvalid"
                             ELSE IF leaf.kind \in DOMAIN ML_DSA_PK THEN "MlDsaVerifierInvalid"
                             ELSE "SelfSignatureInvalid">>,
            <<Verifies(Signed, leaf, leaf), "SelfSignatureInvalid">>>>)

anchors_at_leaf(mode) == mode.some

accept_chain(Signed, mode, views) ==
    IF mode.some THEN verify_pin(views[1], mode.value)
    ELSE Verdict(<<<<Len(views) = 1, "MultiCertChain">>,
                   <<verify_self_sig(Signed, views[1]) = "Ok", verify_self_sig(Signed, views[1])>>>>)

SAFE_STRATEGY_CHAIN_CAP == CAP

\* SafeStrategy::verify_chain. A pin authenticates the leaf, so only the leaf is
\* parsed and checked; otherwise the whole chain is.
safe_verify_chain(pki, Signed, mode, clock, chain) ==
    LET to_parse == IF anchors_at_leaf(mode) THEN SubSeq(chain, 1, 1) ELSE chain
        parsed == [i \in DOMAIN to_parse |-> pki[to_parse[i]].parse]
        views == [i \in DOMAIN to_parse |-> parsed[i].view]
        links == [i \in 1..Minus(Len(views), 1) |->
                    LET v == verify_link(Signed, views[i], views[i + 1]) IN <<v = "Ok", v>>]
    IN  IF chain = <<>> THEN "EmptyChain" ELSE
        Verdict(<<<<Len(chain) <= SAFE_STRATEGY_CHAIN_CAP, "ChainTooLong">>>>
                \o [i \in DOMAIN parsed |-> <<parsed[i].err = "Ok", parsed[i].err>>]
                \o links
                \o <<<<accept_chain(Signed, mode, views) = "Ok", accept_chain(Signed, mode, views)>>>>
                \o [i \in DOMAIN views |-> <<check_validity(clock, views[i]), "Validity">>]
                \o <<<<prepare_leaf(views[1]) = "Ok", prepare_leaf(views[1])>>>>)

----------------------------------------------------------------------------
(* PinnedRoots. An anchor is <<"fp", cert>>, <<"spki", spki>> or           *)
(* <<"cert", cert>>; anchors is the ledger in its order.                   *)

\* The SPKI is extracted only when an SPKI anchor is there to compare with.
anchor_matches(pki, anchors, cert) ==
    LET fp == \E i \in DOMAIN anchors : anchors[i][1] = "fp" /\ anchors[i][2] = cert
        spkis == {i \in DOMAIN anchors : anchors[i][1] = "spki"}
        spki == pki[cert].spki
    IN  [err |-> IF fp \/ spkis = {} THEN "Ok" ELSE spki.err,
         yes |-> fp \/ (spki.err = "Ok" /\ \E i \in spkis : anchors[i][2] = spki.spki)]

is_stored_cert_anchor(anchors, cert) == \E i \in DOMAIN anchors : anchors[i] = <<"cert", cert>>

\* A stored anchor may have expired unless its expiry is enforced.
check_validity_of(pki, anchors, enforce, clock, cert) ==
    (enforce \/ ~is_stored_cert_anchor(anchors, cert)) => check_validity(clock, pki[cert].parse.view)

\* Mutant of require_issuer_ca: the path length is not counted.
require_issuer_ca_any_depth(pki, cert, below) ==
    LET ca == pki[cert].ca IN Verdict(<<<<ca.err = "Ok", ca.err>>, <<ca.out.is_ca, "IssuerNotCa">>>>)

require_issuer_ca(pki, cert, below) ==
    LET ca == pki[cert].ca
    IN  Verdict(<<
            <<ca.err = "Ok", ca.err>>,
            <<ca.out.is_ca, "IssuerNotCa">>,
            <<~ca.out.key_cert_sign.some \/ ca.out.key_cert_sign.value, "IssuerKeyUsageForbidsCertSign">>,
            <<~ca.out.path_len.some \/ ca.out.path_len.value >= below, "PathLenExceeded">>>>)

\* What the walk does at certificate i (from 0) of the chain, when m is what
\* anchor_matches says of it: "Ok" for anchored, "Up" to go on, or the error.
\* Going on checks the certificate above.
Round(pki, Signed, anchors, enforce, clock, chain, i, m) ==
    LET cert == chain[i + 1]
        up == chain[i + 2]
        link == verify_link(Signed, pki[cert].parse.view, pki[up].parse.view)
        ca == require_issuer_ca(pki, up, i)
    IN  IF m.err # "Ok" THEN m.err
        ELSE IF ~check_validity_of(pki, anchors, enforce, clock, cert) THEN "Validity"
        ELSE IF m.yes THEN "Ok"
        ELSE IF i + 1 = Len(chain) THEN "Up"
        ELSE IF pki[up].parse.err # "Ok" THEN pki[up].parse.err
        ELSE IF link # "Ok" THEN link
        ELSE IF ca # "Ok" THEN ca ELSE "Up"

\* The anchor a issued the topmost certificate.
Vouches(pki, Signed, anchors, enforce, clock, chain, a) ==
    /\ a[1] = "cert" /\ pki[a[2]].parse.err = "Ok"
    /\ require_issuer_ca(pki, a[2], Len(chain) - 1) = "Ok"
    /\ verify_link(Signed, pki[Last(chain)].parse.view, pki[a[2]].parse.view) = "Ok"
    /\ check_validity_of(pki, anchors, enforce, clock, a[2])

\* The first round that does not go on decides; without one a stored anchor must
\* have signed the topmost certificate.
Walked(rounds, vouched) ==
    IF \A i \in DOMAIN rounds : rounds[i] = "Up" THEN (IF vouched THEN "Ok" ELSE "UntrustedRoot")
    ELSE rounds[SelectInSeq(rounds, LAMBDA r : r # "Up")]

\* PinnedRoots::verify_chain, up from the leaf.
roots_verify_chain(pki, Signed, anchors, enforce, clock, chain) ==
    IF chain = <<>> THEN "EmptyChain"
    ELSE IF Len(chain) > CAP THEN "ChainTooLong"
    ELSE IF pki[chain[1]].parse.err # "Ok" THEN pki[chain[1]].parse.err
    ELSE LET walked ==
                 Walked([k \in DOMAIN chain |-> Round(pki, Signed, anchors, enforce, clock, chain, k - 1,
                                                     anchor_matches(pki, anchors, chain[k]))],
                        \E k \in DOMAIN anchors : Vouches(pki, Signed, anchors, enforce, clock, chain, anchors[k]))
         IN  IF walked # "Ok" THEN walked
             ELSE IF prepare_leaf(pki[chain[1]].parse.view) = "Ok" THEN "Ok" ELSE "LeafVerifierInvalid"
=============================================================================
