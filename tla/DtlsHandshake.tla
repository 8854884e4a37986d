---------------------------- MODULE DtlsHandshake ----------------------------
(***************************************************************************)
(* DtlsClient::connect (dtls/client.rs): the ClientHello exchanges with    *)
(* and without a HelloRetryRequest, the encrypted server flight, the       *)
(* client Finished and the ACK, over a network that loses, duplicates and  *)
(* reorders datagrams.  An action is what connect does between two calls   *)
(* of transport.recv.                                                      *)
(*                                                                         *)
(* A handshake message is its name and its message_seq; how fragments of   *)
(* one are put together is DtlsReassembly's concern, so here a record      *)
(* carries whole messages.  The transcript is the sequence of the names    *)
(* hashed so far.  An epoch-2 record opens if both sides hashed the same   *)
(* hellos (the handshake keys) and its number is rebuilt rightly.          *)
(*                                                                         *)
(* The server is external and honest: it answers ClientHellos, sends its   *)
(* flight again when a ClientHello is repeated or its timer fires, and     *)
(* numbers the records of each sending anew (RFC 9147, 5.8).               *)
(***************************************************************************)
EXTENDS Sequences, FiniteSets, FiniteSetsExt, Functions, RecordNumbers

CONSTANTS
    STEP,                  \* 2^bits of the on-wire record number
    MAX_FLIGHT_ATTEMPTS,   \* sends of a ClientHello flight: 5 in the source
    MAX_FLIGHT_DATAGRAMS,  \* datagrams of the server flight: 256 in the source
    MAX_ACK_RECORDS,       \* record numbers an ACK can hold: 128 in the source
    Layouts,               \* ways to put the flight into datagrams: sequences of
                           \* sequences of records, numbered from 0
    MaxFlights             \* bound: sendings of the server flight

Messages == {"ee", "auth", "fin"}     \* auth: Certificate and CertificateVerify

ASSUME HandshakeAssumption ==
    /\ STEP \in Nat \ {0} /\ MAX_FLIGHT_ATTEMPTS \in Nat \ {0}
    /\ MAX_FLIGHT_DATAGRAMS \in Nat /\ MAX_ACK_RECORDS \in Nat /\ MaxFlights \in Nat
    /\ Layouts \subseteq Seq(Seq([kind : {"sh", "ep2"}, n : Nat, names : SUBSET Messages]) \ {<<>>})

\* The records of a layout, and their numbers: each has its own, from 0 on.
Numbered(layout) ==
    {r \in UNION {Range(layout[i]) : i \in DOMAIN layout} : r.kind = "ep2"}

ASSUME LayoutAssumption ==
    \A layout \in Layouts :
      /\ \A r, s \in Numbered(layout) : r.n = s.n => r = s
      /\ \A r \in Numbered(layout) : r.n < Cardinality(Numbered(layout))

VARIABLES
    \* locals of connect
    pc, attempts, transcript, base_seq, client_fin_msg_seq, reasm, srv_seq,
    acked_seqs, datagrams, resends_left, error,
    \* the network: everything ever sent, in each direction
    to_server, to_client,
    \* the server: does it ask for a cookie, its state, the flights sent, the
    \* epoch-2 records it sealed
    cookie, srv, flights, sealed,
    \* history: a bit that flips with every transport.recv, so that one that
    \* changes nothing is a step
    tick

local   == <<attempts, transcript, base_seq, client_fin_msg_seq, reasm, srv_seq,
             acked_seqs, datagrams, resends_left>>
server  == <<cookie, srv, flights, sealed>>
vars    == <<pc, error, local, to_server, to_client, server, tick>>

Msg(name, mseq) == [name |-> name, mseq |-> mseq]
Rec(kind, seq, msgs) == [kind |-> kind, seq |-> seq, msgs |-> msgs]

-----------------------------------------------------------------------------
(* The server's view: what it has hashed up to its ServerHello, and how it *)
(* numbers its messages (a HelloRetryRequest takes message_seq 0).         *)

ServerHellos == IF cookie THEN <<"message_hash", "hrr", "ch2", "sh">> ELSE <<"ch1", "sh">>
HelloSeq == IF cookie THEN 1 ELSE 0
FlightSeq(name) == HelloSeq + (CASE name = "ee" -> 1 [] name = "auth" -> 2 [] name = "fin" -> 3)

-----------------------------------------------------------------------------
(* Sending, and giving up.                                                 *)

\* transport.send of the ClientHello in ch_dgram.
SendHello(ch) == to_server' = to_server \cup {[name |-> ch]}

Fail(e) ==
    /\ pc' = "failed" /\ error' = e
    /\ UNCHANGED <<local, to_server, to_client, server>>

-----------------------------------------------------------------------------
(* feed_epoch2_records: the records of one datagram up to the first that   *)
(* is not ciphertext or does not open.                                     *)

Opens(r, hellos, next_seq) ==
    /\ r.kind = "ep2"
    /\ hellos = ServerHellos
    /\ ReconstructSeq(WireSeq(r.seq, STEP), STEP, next_seq) = r.seq

\* How many records are taken; next_seq counts those before each.
Opened(records, hellos, next_seq) ==
    Max({n \in 0..Len(records) : \A k \in 1..n : Opens(records[k], hellos, next_seq + k - 1)})

\* Mutant of AckedAs: the ACK lists a running count.
AckedAsCounted(r, next_seq) == {next_seq} \cap 0..(MAX_ACK_RECORDS - 1)

\* The bit set in the bitmap for the ACK, if it has one for the record.
AckedAs(r, next_seq) == {r.seq} \cap 0..(MAX_ACK_RECORDS - 1)

Feed(records, hellos, msgs, next_seq, acked) ==
    LET taken == 1..Opened(records, hellos, next_seq)
    IN  /\ reasm' = msgs \cup UNION {records[k].msgs : k \in taken}
        /\ srv_seq' = next_seq + Opened(records, hellos, next_seq)
        /\ acked_seqs' = acked \cup UNION {AckedAs(records[k], next_seq + k - 1) : k \in taken}

Finisheds == {m \in reasm : m.name = "fin"}

flight_complete ==
    /\ Finisheds # {}
    /\ \A m \in Finisheds :
         /\ m.mseq >= base_seq
         /\ \A seq \in base_seq..m.mseq : \E x \in reasm : x.mseq = seq

-----------------------------------------------------------------------------
(* The ClientHello exchanges.                                              *)

Connect ==
    /\ pc = "start"
    /\ SendHello("ch1") /\ attempts' = 1 /\ pc' = "wait1"
    /\ UNCHANGED <<error, transcript, base_seq, client_fin_msg_seq, reasm, srv_seq, acked_seqs,
                   datagrams, resends_left, to_client, server>>

Awaited == IF pc = "wait1" THEN "ch1" ELSE "ch2"

\* send_flight_await_reply: Ok(None).
ReplyTimeout ==
    /\ pc \in {"wait1", "wait2"}
    /\ IF attempts >= MAX_FLIGHT_ATTEMPTS THEN Fail("Timeout")
       ELSE /\ SendHello(Awaited) /\ attempts' = attempts + 1
            /\ UNCHANGED <<pc, error, transcript, base_seq, client_fin_msg_seq, reasm, srv_seq,
                           acked_seqs, datagrams, resends_left, to_client, server>>

\* Mutant of Retry: CH1 is hashed as it is.
RetryVerbatim(d) ==
    /\ pc = "wait1" /\ Head(d).kind = "hrr"
    /\ transcript' = <<"ch1", "hrr">>
    /\ SendHello("ch2") /\ attempts' = 1 /\ pc' = "wait2"
    /\ UNCHANGED <<error, base_seq, client_fin_msg_seq, reasm, srv_seq, acked_seqs, datagrams,
                   resends_left, to_client, server>>

\* The first reply is a HelloRetryRequest: CH1 is replaced by its hash, and
\* CH2 goes out with the cookie.
Retry(d) ==
    /\ pc = "wait1" /\ Head(d).kind = "hrr"
    /\ transcript' = <<"message_hash", "hrr">>
    /\ SendHello("ch2") /\ attempts' = 1 /\ pc' = "wait2"
    /\ UNCHANGED <<error, base_seq, client_fin_msg_seq, reasm, srv_seq, acked_seqs, datagrams,
                   resends_left, to_client, server>>

\* Mutant of AcceptHello: the Finished has the same message_seq on both paths.
AcceptHelloSameSeq(d) ==
    /\ pc \in {"wait1", "wait2"} /\ Head(d).kind = "sh"
    /\ transcript' = Append(Append(transcript, Awaited), "sh")
    /\ client_fin_msg_seq' = 2
    /\ base_seq' = (CHOOSE m \in Head(d).msgs : TRUE).mseq + 1
    /\ Feed(Tail(d), transcript', {}, 0, {})
    /\ datagrams' = 0 /\ resends_left' = MAX_FLIGHT_ATTEMPTS - 1
    /\ pc' = "flight"
    /\ UNCHANGED <<error, attempts, to_server, to_client, server>>

\* The reply is the ServerHello: the records in its tail belong to the flight.
AcceptHello(d) ==
    /\ pc \in {"wait1", "wait2"} /\ Head(d).kind = "sh"
    /\ transcript' = Append(Append(transcript, Awaited), "sh")
    /\ client_fin_msg_seq' = IF pc = "wait1" THEN 1 ELSE 2
    /\ base_seq' = (CHOOSE m \in Head(d).msgs : TRUE).mseq + 1
    /\ Feed(Tail(d), transcript', {}, 0, {})
    /\ datagrams' = 0 /\ resends_left' = MAX_FLIGHT_ATTEMPTS - 1
    /\ pc' = "flight"
    /\ UNCHANGED <<error, attempts, to_server, to_client, server>>

\* A second HelloRetryRequest, or a ciphertext record in place of a hello.
BadReply(d) ==
    \/ pc = "wait2" /\ Head(d).kind = "hrr" /\ Fail("Handshake")
    \/ pc \in {"wait1", "wait2"} /\ Head(d).kind = "ep2" /\ Fail("Protocol")

Reply(d) == Retry(d) \/ AcceptHello(d) \/ BadReply(d)

-----------------------------------------------------------------------------
(* The encrypted flight.                                                   *)

InFlight == pc = "flight" /\ ~flight_complete

TooManyDatagrams == InFlight /\ datagrams >= MAX_FLIGHT_DATAGRAMS /\ Fail("Timeout")

\* Ok(None): the last ClientHello again, to prompt the server.
FlightTimeout ==
    /\ InFlight /\ datagrams < MAX_FLIGHT_DATAGRAMS
    /\ IF resends_left = 0 THEN Fail("Timeout")
       ELSE /\ SendHello(IF client_fin_msg_seq = 1 THEN "ch1" ELSE "ch2")
            /\ resends_left' = resends_left - 1 /\ datagrams' = datagrams + 1
            /\ UNCHANGED <<pc, error, attempts, transcript, base_seq, client_fin_msg_seq, reasm,
                           srv_seq, acked_seqs, to_client, server>>

\* Mutant of FlightDatagram: a repeated hello is a protocol error.
FlightDatagramStrict(d) ==
    /\ InFlight /\ datagrams < MAX_FLIGHT_DATAGRAMS
    /\ IF Head(d).kind # "ep2" THEN Fail("Protocol") ELSE
       /\ datagrams' = datagrams + 1
       /\ Feed(d, transcript, reasm, srv_seq, acked_seqs)
       /\ UNCHANGED <<pc, error, attempts, transcript, base_seq, client_fin_msg_seq, resends_left, to_server,
                   to_client, server>>

\* Mutant of FlightDatagram: only timeouts count.
FlightDatagramUncounted(d) ==
    /\ InFlight /\ datagrams < MAX_FLIGHT_DATAGRAMS
    /\ datagrams' = datagrams
    /\ Feed(IF Head(d).kind = "ep2" THEN d ELSE Tail(d), transcript, reasm, srv_seq, acked_seqs)
    /\ UNCHANGED <<pc, error, attempts, transcript, base_seq, client_fin_msg_seq, resends_left, to_server,
                   to_client, server>>

\* A hello in front, the ServerHello repeated or a late HelloRetryRequest, is
\* skipped and its tail fed.
FlightDatagram(d) ==
    /\ InFlight /\ datagrams < MAX_FLIGHT_DATAGRAMS
    /\ datagrams' = datagrams + 1
    /\ Feed(IF Head(d).kind = "ep2" THEN d ELSE Tail(d), transcript, reasm, srv_seq, acked_seqs)
    /\ UNCHANGED <<pc, error, attempts, transcript, base_seq, client_fin_msg_seq, resends_left, to_server,
                   to_client, server>>

\* The checks on the serialized flight: the certificate chain may be refused;
\* CertificateVerify and Finished bind the server's transcript to ours.
VerifyFlight(trusted) ==
    /\ pc = "flight" /\ flight_complete
    /\ IF {m.name : m \in reasm} # Messages THEN Fail("Protocol")
       ELSE IF ~trusted THEN Fail("StrategyRejected")
       ELSE IF transcript # ServerHellos THEN Fail("CertVerify")
       ELSE /\ pc' = "finish"
            /\ transcript' = transcript \o <<"ee", "auth", "fin">>
            /\ UNCHANGED <<error, attempts, base_seq, client_fin_msg_seq, reasm, srv_seq,
                           acked_seqs, datagrams, resends_left, to_server, to_client, server>>

SendFinished ==
    /\ pc = "finish" /\ pc' = "ack"
    /\ to_server' = to_server \cup {[name |-> "fin", mseq |-> client_fin_msg_seq,
                                     transcript |-> transcript]}
    /\ UNCHANGED <<error, local, to_client, server>>

SendAck ==
    /\ pc = "ack" /\ pc' = "done"
    /\ to_server' = to_server \cup {[name |-> "ack", seqs |-> acked_seqs]}
    /\ UNCHANGED <<error, local, to_client, server>>

\* transport.send or transport.recv fails.
TransportFails == pc \notin {"done", "failed"} /\ Fail("Transport")

\* What follows a transport.recv, and what does not.
Receive ==
    /\ \/ ReplyTimeout \/ FlightTimeout
       \/ \E d \in to_client : Reply(d) \/ FlightDatagram(d)
    /\ tick' = ~tick

Proceed ==
    /\ \/ Connect \/ TooManyDatagrams \/ SendFinished \/ SendAck \/ TransportFails
       \/ \E trusted \in BOOLEAN : VerifyFlight(trusted)
    /\ UNCHANGED tick

Client == Receive \/ Proceed

-----------------------------------------------------------------------------
(* The server (external).                                                  *)

Has(name) == \E m \in to_server : m.name = name

SrvRetry ==
    /\ cookie /\ Has("ch1")
    /\ to_client' = to_client \cup {<<Rec("hrr", 0, {Msg("hrr", 0)})>>}
    /\ UNCHANGED <<pc, error, local, to_server, server>>

\* One sending of the flight: records in the layout's order, numbered on.
SealRecord(r) ==
    IF r.kind = "sh" THEN Rec("sh", 0, {Msg("sh", HelloSeq)})
    ELSE Rec("ep2", Cardinality(sealed) + r.n, {Msg(n, FlightSeq(n)) : n \in r.names})

SendFlight(layout) ==
    LET sent == [i \in 1..Len(layout) |-> [j \in 1..Len(layout[i]) |-> SealRecord(layout[i][j])]]
        records == UNION {Range(sent[i]) : i \in 1..Len(sent)}
    IN  /\ flights < MaxFlights /\ flights' = flights + 1
        /\ to_client' = to_client \cup Range(sent)
        /\ sealed' = sealed \cup {r \in records : r.kind = "ep2"}
        /\ srv' = "flight"
        /\ UNCHANGED <<pc, error, local, to_server, cookie>>

\* A ClientHello, the first copy or another, or the server's own timer.
SrvFlight(layout) ==
    /\ srv \in {"idle", "flight"} /\ Has(IF cookie THEN "ch2" ELSE "ch1")
    /\ SendFlight(layout)

SrvAccepts(m) ==
    /\ m.name = "fin" /\ m.mseq = (IF cookie THEN 2 ELSE 1)
    /\ m.transcript = ServerHellos \o <<"ee", "auth", "fin">>

SrvFinished ==
    /\ srv = "flight" /\ \E m \in to_server : SrvAccepts(m)
    /\ srv' = "done"
    /\ UNCHANGED <<pc, error, local, to_server, to_client, cookie, flights, sealed>>

Server ==
    /\ SrvRetry \/ (\E layout \in Layouts : SrvFlight(layout)) \/ SrvFinished
    /\ UNCHANGED tick

-----------------------------------------------------------------------------
Init ==
    /\ pc = "start" /\ error = "" /\ attempts = 0 /\ transcript = <<>>
    /\ base_seq = 0 /\ client_fin_msg_seq = 0 /\ reasm = {} /\ srv_seq = 0
    /\ acked_seqs = {} /\ datagrams = 0 /\ resends_left = 0
    /\ to_server = {} /\ to_client = {}
    /\ cookie \in BOOLEAN /\ srv = "idle" /\ flights = 0 /\ sealed = {}
    /\ tick = FALSE

\* connect has returned.
Returned == pc \in {"done", "failed"} /\ UNCHANGED vars

Next == Client \/ Server \/ Returned

Spec == Init /\ [][Next]_vars

\* transport.recv always returns, with a datagram or a timeout, so connect
\* keeps taking steps.
FairSpec == Spec /\ WF_vars(Client)

-----------------------------------------------------------------------------
(* Properties.                                                             *)

Accepted == pc \in {"flight", "finish", "ack", "done"}

\* Once connect has taken a ServerHello both sides have hashed the same
\* hellos, on the cookie path and on the direct one, whatever was sent twice
\* or answered late: the epoch-2 keys agree.
HellosAgree ==
    Accepted => transcript = ServerHellos \o (IF pc = "flight" THEN <<>> ELSE <<"ee", "auth", "fin">>)

\* The server can use the client's Finished: it carries the message_seq after
\* the last ClientHello and covers the transcript the server has.
FinishedAcceptable == \A m \in to_server : m.name = "fin" => SrvAccepts(m)

\* "Every epoch-2 record that authenticated is acknowledged by its real
\* sequence number": an ACK names records the server sealed, whose messages
\* have all been taken, and leaves out none of the records taken.
AckExact ==
    /\ \A s \in acked_seqs : \E r \in sealed : r.seq = s
    /\ \A r \in sealed : r.seq \in acked_seqs => r.msgs \subseteq reasm
    /\ \A m \in reasm : \E r \in sealed :
         m \in r.msgs /\ (r.seq \in acked_seqs \/ r.seq >= MAX_ACK_RECORDS)

\* Behind the ServerHello an honest server's handshake ends only with success,
\* a timeout, a transport error or the trust decision: repeated hellos, late
\* retries and duplicates "are ignored rather than aborting the handshake".
FlightNotAborted ==
    error \in {"Protocol", "Handshake", "CertVerify"} => "sh" \notin Range(transcript)

\* connect returns, however long the network repeats what was sent: the
\* attempts, the resends and the datagrams are all counted.
ConnectReturns == <>(pc \in {"done", "failed"})

\* The Handshake error is for a server that "deviated from the expected
\* flight": the server of this model never does.
HandshakeMeansDeviation == error # "Handshake"
===============================================================================
