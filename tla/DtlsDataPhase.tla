---------------------------- MODULE DtlsDataPhase ----------------------------
(***************************************************************************)
(* The data phase of the DTLS 1.3 client: DtlsClient::send and ::recv      *)
(* (dtls/client.rs), with the server, and a network that loses,            *)
(* duplicates, reorders and corrupts datagrams.                            *)
(*                                                                         *)
(* One call of recv runs until it returns.  Its outer loop takes a         *)
(* datagram (NextDatagram) and its inner loop handles the records of the   *)
(* datagram one at a time, so `dg` is dg[pos..n] and `at_head` is          *)
(* pos = 0.  A record is abstracted to its kind and number: "app" and      *)
(* "ctl" are epoch-3 records (application data; a session ticket or an     *)
(* ACK), "ep2" a record of the server's handshake flight, "plain" an       *)
(* epoch-0 record, "junk" a ciphertext record that was damaged on the way. *)
(*                                                                         *)
(* The server is external.  It waits for the client's Finished, and until  *)
(* then it may retransmit its flight; once it has the Finished, or right   *)
(* after its own when HalfRtt, it sends epoch-3 records.                   *)
(***************************************************************************)
EXTENDS Sequences, FiniteSets, FiniteSetsExt, ReplayWindow, RecordNumbers

CONSTANTS
    STEP,                 \* 2^bits of the on-wire record number: 2^8 or 2^16
    MAX_FLIGHT_ATTEMPTS,  \* resends of the Finished: 5 in the source
    Payloads,             \* payload lengths the application may send
    PEER_LIMIT,           \* the peer's record_size_limit
    HelloFirst,           \* may a resent flight start with the ServerHello, or not
    AckHonoured,          \* the client's ACK reached the server
    HalfRtt,              \* the server sends data before it has the Finished
    Gaps,                 \* numbers of records lost in a row
    MaxRecords,           \* bound: epoch-3 records the server seals
    MaxDatagrams,         \* bound: distinct datagrams the network carries
    MaxCoalesced,         \* bound: records in one datagram
    MaxSends,             \* bound: records the client seals
    MaxCorrupt,           \* bound: datagrams damaged by the network
    MaxLost               \* bound: copies of the Finished the network loses

ASSUME DataPhaseAssumption ==
    /\ STEP \in Nat /\ STEP > 2 * WINDOW
    /\ MAX_FLIGHT_ATTEMPTS \in Nat
    /\ Payloads \subseteq Nat /\ PEER_LIMIT \in Nat
    /\ HelloFirst \subseteq BOOLEAN /\ AckHonoured \in BOOLEAN /\ HalfRtt \in BOOLEAN
    /\ MaxRecords \in Nat /\ MaxRecords <= SEQ_MAX
    /\ Gaps \subseteq Nat /\ MaxDatagrams \in Nat
    /\ MaxCoalesced \in Nat /\ MaxSends \in Nat
    /\ MaxCorrupt \in Nat /\ MaxLost \in Nat

VARIABLES
    \* struct DtlsClient
    send_seq, recv_hint, server_replay, fin_resends_left, recv_stash,
    \* the running call of recv
    pc, dg, at_head,
    \* the server and the network
    net, wire, srv, srv_seq, fin_copies, fin_lost, corrupted,
    \* history: record numbers the window let through, deliveries per record
    \* number, numbers refused for a short buffer, numbers of the application
    \* records read from undamaged epoch-3 datagrams, numbers not reconstructed
    accepted, delivered, refused, arrived, unopened

client == <<send_seq, recv_hint, server_replay, fin_resends_left, recv_stash>>
call   == <<pc, dg, at_head>>
server == <<srv, srv_seq, fin_copies, fin_lost>>
network == <<net, corrupted>>
history == <<accepted, delivered, refused, arrived, unopened>>
vars == <<client, call, wire, server, network, history>>

Rec(kind, seq) == [kind |-> kind, seq |-> seq]
Kinds == {"app", "ctl", "ep2", "plain", "junk"}
Records == [kind : Kinds, seq : SeqNos]
Epoch3(r) == r.kind \in {"app", "ctl"}

SeqsOf(d, kinds) == { d[i].seq : i \in { j \in DOMAIN d : d[j].kind \in kinds } }

Init ==
    /\ send_seq = 0 /\ recv_hint = 0 /\ server_replay = NewWindow
    /\ fin_resends_left = MAX_FLIGHT_ATTEMPTS /\ recv_stash = <<>>
    /\ pc = "idle" /\ dg = <<>> /\ at_head = FALSE
    /\ net = {} /\ corrupted = 0 /\ wire = <<>>
    /\ srv = IF AckHonoured THEN "acked" ELSE "flight"
    /\ srv_seq = 0 /\ fin_copies = 1 /\ fin_lost = 0
    /\ accepted = {} /\ delivered = [s \in SeqNos |-> 0] /\ refused = {}
    /\ arrived = {} /\ unopened = {}

-----------------------------------------------------------------------------
(* DtlsClient::send                                                        *)

\* The payload and its content-type byte fit the peer's limit and
\* transport.send succeeds.  On any error nothing changes: the number is used
\* again by the next send, for a record that did not reach the wire.
Send(p) ==
    /\ pc = "idle" /\ Len(wire) < MaxSends
    /\ p + 1 <= PEER_LIMIT
    /\ wire' = Append(wire, [seq |-> send_seq, payload |-> p])
    /\ send_seq' = send_seq + 1
    /\ UNCHANGED <<recv_hint, server_replay, fin_resends_left, recv_stash,
                   call, server, network, history>>

-----------------------------------------------------------------------------
(* DtlsClient::recv                                                        *)

RecvCall ==
    /\ pc = "idle"
    /\ pc' = "recv" /\ dg' = <<>> /\ at_head' = FALSE
    /\ UNCHANGED <<client, wire, server, network, history>>

\* transport.recv timed out, Ok(None), or failed.  The stash is drained first.
RecvTimeout ==
    /\ pc = "recv" /\ dg = <<>> /\ recv_stash = <<>>
    /\ pc' = "idle"
    /\ UNCHANGED <<client, dg, at_head, wire, server, network, history>>

DrainStash ==
    /\ pc = "recv" /\ dg = <<>> /\ recv_stash # <<>>
    /\ dg' = recv_stash /\ recv_stash' = <<>> /\ at_head' = TRUE
    /\ UNCHANGED <<send_seq, recv_hint, server_replay, fin_resends_left, pc,
                   wire, server, network, history>>

\* The datagram stays in `net`: the network may deliver it again.
ReadDatagram(d) ==
    /\ pc = "recv" /\ dg = <<>> /\ recv_stash = <<>>
    /\ d \in net
    /\ dg' = d /\ at_head' = TRUE
    /\ arrived' = IF \A i \in DOMAIN d : Epoch3(d[i])
                  THEN arrived \cup SeqsOf(d, {"app"}) ELSE arrived
    /\ UNCHANGED <<client, pc, wire, server, network,
                   accepted, delivered, refused, unopened>>

\* A non-ciphertext record ends the walk.
StopAtPlaintext ==
    /\ pc = "recv" /\ dg # <<>> /\ Head(dg).kind = "plain"
    /\ dg' = <<>> /\ at_head' = FALSE
    /\ UNCHANGED <<client, pc, wire, server, network, history>>

\* Mutant of ResendFinished: the budget is not looked at.
ResendUnbounded ==
    /\ pc = "recv" /\ dg # <<>> /\ Head(dg).kind = "ep2" /\ at_head
    /\ fin_resends_left' = fin_resends_left - 1
    /\ fin_copies' = fin_copies + 1
    /\ dg' = <<>> /\ at_head' = FALSE
    /\ UNCHANGED <<send_seq, recv_hint, server_replay, recv_stash, pc, wire,
                   srv, srv_seq, fin_lost, network, history>>

\* Mutant of ResendFinished: the retransmitted flight is dropped as stray.
DropFlight ==
    /\ pc = "recv" /\ dg # <<>> /\ Head(dg).kind = "ep2" /\ at_head
    /\ UNCHANGED <<fin_resends_left, fin_copies>>
    /\ dg' = <<>> /\ at_head' = FALSE
    /\ UNCHANGED <<send_seq, recv_hint, server_replay, recv_stash, pc, wire,
                   srv, srv_seq, fin_lost, network, history>>

\* A leading epoch-2 record: the server missed the Finished.
ResendFinished ==
    /\ pc = "recv" /\ dg # <<>> /\ Head(dg).kind = "ep2" /\ at_head
    /\ IF fin_resends_left > 0
       THEN /\ fin_resends_left' = fin_resends_left - 1
            /\ fin_copies' = fin_copies + 1
       ELSE UNCHANGED <<fin_resends_left, fin_copies>>
    /\ dg' = <<>> /\ at_head' = FALSE
    /\ UNCHANGED <<send_seq, recv_hint, server_replay, recv_stash, pc, wire,
                   srv, srv_seq, fin_lost, network, history>>

\* transport.send failed: the error ends the call, the attempt is spent.
ResendFails ==
    /\ pc = "recv" /\ dg # <<>> /\ Head(dg).kind = "ep2" /\ at_head
    /\ fin_resends_left > 0 /\ fin_lost < MaxLost
    /\ fin_resends_left' = fin_resends_left - 1 /\ fin_lost' = fin_lost + 1
    /\ pc' = "idle" /\ dg' = <<>> /\ at_head' = FALSE
    /\ UNCHANGED <<send_seq, recv_hint, server_replay, recv_stash, wire,
                   srv, srv_seq, fin_copies, network, history>>

\* Record::open with the epoch-3 server keys: the AEAD nonce is the
\* reconstructed number, so the tag verifies only if that is the real one.
Opens(r) ==
    /\ Epoch3(r)
    /\ ReconstructSeq(WireSeq(r.seq, STEP), STEP, recv_hint) = r.seq

StopAtUnopened ==
    /\ pc = "recv" /\ dg # <<>>
    /\ LET r == Head(dg) IN
         /\ r.kind # "plain" /\ ~(r.kind = "ep2" /\ at_head) /\ ~Opens(r)
         /\ unopened' = IF Epoch3(r) THEN unopened \cup SeqsOf(dg, {"app"})
                        ELSE unopened
    /\ dg' = <<>> /\ at_head' = FALSE
    /\ UNCHANGED <<client, pc, wire, server, network,
                   accepted, delivered, refused, arrived>>

SkipReplay ==
    /\ pc = "recv" /\ dg # <<>> /\ Opens(Head(dg))
    /\ ~Accepts(server_replay, Head(dg).seq)
    /\ dg' = Tail(dg) /\ at_head' = FALSE
    /\ UNCHANGED <<client, pc, wire, server, network, history>>

\* What recv does with every record the window accepts.
Admit(r) ==
    /\ pc = "recv" /\ Opens(r) /\ Accepts(server_replay, r.seq)
    /\ server_replay' = MarkWindow(server_replay, r.seq)
    /\ recv_hint' = IF recv_hint >= r.seq + 1 THEN recv_hint ELSE r.seq + 1
    /\ fin_resends_left' = 0
    /\ accepted' = accepted \cup {r.seq}
    /\ at_head' = FALSE
    /\ UNCHANGED <<send_seq, wire, server, network, arrived, unopened>>

SkipControl ==
    /\ dg # <<>> /\ Head(dg).kind = "ctl" /\ Admit(Head(dg))
    /\ dg' = Tail(dg)
    /\ UNCHANGED <<recv_stash, pc, delivered, refused>>

\* Mutant of DeliverApp: the rest of the datagram is not held.
DeliverFirst ==
    /\ dg # <<>> /\ Head(dg).kind = "app" /\ Admit(Head(dg))
    /\ delivered' = [delivered EXCEPT ![Head(dg).seq] = @ + 1]
    /\ recv_stash' = <<>>
    /\ dg' = <<>> /\ pc' = "idle"
    /\ UNCHANGED refused

\* Ok(Some(len)), the rest of the datagram held for the next call.
DeliverApp ==
    /\ dg # <<>> /\ Head(dg).kind = "app" /\ Admit(Head(dg))
    /\ delivered' = [delivered EXCEPT ![Head(dg).seq] = @ + 1]
    /\ recv_stash' = Tail(dg)
    /\ dg' = <<>> /\ pc' = "idle"
    /\ UNCHANGED refused

\* The caller's buffer is shorter than the record: an error after the record
\* was marked, and the rest of the datagram is gone with the local buffer.
BufferTooSmall ==
    /\ dg # <<>> /\ Head(dg).kind = "app" /\ Admit(Head(dg))
    /\ refused' = refused \cup SeqsOf(dg, {"app"})
    /\ dg' = <<>> /\ pc' = "idle"
    /\ UNCHANGED <<recv_stash, delivered>>

Recv ==
    \/ RecvTimeout \/ DrainStash \/ (\E d \in net : ReadDatagram(d))
    \/ StopAtPlaintext \/ ResendFinished \/ ResendFails \/ StopAtUnopened \/ SkipReplay
    \/ SkipControl \/ DeliverApp \/ BufferTooSmall

-----------------------------------------------------------------------------
(* The server and the network (external)                                   *)

\* The server retransmits its flight while it has neither Finished nor ACK.
RetransmitFlight ==
    /\ srv = "flight"
    /\ \E hello \in HelloFirst :
         net' = net \cup {IF hello THEN <<Rec("plain", 0), Rec("ep2", 0)>>
                          ELSE <<Rec("ep2", 0)>>}
    /\ UNCHANGED <<client, call, wire, server, corrupted, history>>

FinishedArrives ==
    /\ fin_copies > 0
    /\ fin_copies' = fin_copies - 1 /\ srv' = "done"
    /\ UNCHANGED <<client, call, wire, srv_seq, fin_lost, network, history>>

FinishedLost ==
    /\ fin_copies > 0 /\ fin_lost < MaxLost
    /\ fin_copies' = fin_copies - 1 /\ fin_lost' = fin_lost + 1
    /\ UNCHANGED <<client, call, wire, srv, srv_seq, network, history>>

\* The `gap` records before this datagram were lost on the way.
ServerSends(kinds, gap) ==
    /\ srv = "done" \/ HalfRtt
    /\ srv_seq + gap + Len(kinds) <= MaxRecords
    /\ Cardinality(net) < MaxDatagrams
    /\ net' = net \cup {[i \in DOMAIN kinds |-> Rec(kinds[i], srv_seq + gap + i - 1)]}
    /\ srv_seq' = srv_seq + gap + Len(kinds)
    /\ UNCHANGED <<client, call, wire, srv, fin_copies, fin_lost, corrupted, history>>

Corrupt(d, i) ==
    /\ corrupted < MaxCorrupt /\ d \in net
    /\ net' = net \cup {[d EXCEPT ![i] = Rec("junk", 0)]}
    /\ corrupted' = corrupted + 1
    /\ UNCHANGED <<client, call, wire, server, history>>

KindSeqs == UNION { [1 .. n -> {"app", "ctl"}] : n \in 1 .. MaxCoalesced }

Environment ==
    \/ RetransmitFlight \/ FinishedArrives \/ FinishedLost
    \/ \E kinds \in KindSeqs, gap \in Gaps : ServerSends(kinds, gap)
    \/ \E d \in net : \E i \in DOMAIN d : Corrupt(d, i)

Next == (\E p \in Payloads : Send(p)) \/ RecvCall \/ Recv \/ Environment

Spec == Init /\ [][Next]_vars

(***************************************************************************)
(* Fairness: the application keeps calling recv and recv runs; the server  *)
(* keeps retransmitting while it waits; the network delivers some of the   *)
(* retransmitted flights, and a copy of the Finished that it does not      *)
(* lose.                                                                   *)
(***************************************************************************)
ReadFlight == \E d \in net : (\E i \in DOMAIN d : d[i].kind = "ep2") /\ ReadDatagram(d)

FairSpec ==
    /\ Spec
    /\ WF_vars(RecvCall) /\ WF_vars(Recv)
    /\ WF_vars(RetransmitFlight) /\ WF_vars(FinishedArrives)
    /\ SF_vars(ReadFlight)

-----------------------------------------------------------------------------
\* The fields of DtlsClient, of the running recv and of the environment have
\* their types, and the resend budget never leaves 0 .. MAX_FLIGHT_ATTEMPTS.
TypeOK ==
    /\ send_seq \in Nat /\ recv_hint \in Nat
    /\ server_replay \in ReplayWindows
    /\ fin_resends_left \in 0 .. MAX_FLIGHT_ATTEMPTS
    /\ recv_stash \in Seq(Records) /\ dg \in Seq(Records)
    /\ pc \in {"idle", "recv"} /\ at_head \in BOOLEAN
    /\ net \subseteq Seq(Records) /\ corrupted \in 0 .. MaxCorrupt
    /\ wire \in Seq([seq : Nat, payload : Payloads])
    /\ srv \in {"flight", "acked", "done"} /\ srv_seq \in 0 .. MaxRecords
    /\ fin_copies \in Nat /\ fin_lost \in 0 .. MaxLost
    /\ accepted \subseteq SeqNos /\ refused \subseteq SeqNos
    /\ arrived \subseteq SeqNos /\ unopened \subseteq SeqNos
    /\ delivered \in [SeqNos -> Nat]

\* The records of the server are delivered at most once each, whatever the
\* network duplicates, reorders or damages: recv marks the window before it
\* touches the caller's buffer.
AtMostOnce == \A s \in SeqNos : delivered[s] <= 1

\* The data phase implements the at-most-once datagram service.
Service == INSTANCE AtMostOnceDelivery
             WITH Ids <- SeqNos, sent <- 0 .. (srv_seq - 1), copies <- delivered
ImplementsService == Service!Spec

\* The window is exact: it refuses a record iff the record was let through
\* before or is WINDOW or more below the highest one let through, so a gap
\* inside the window stays open however the bitmap was shifted.
WindowExact ==
    \A s \in SeqNos :
        Accepts(server_replay, s) <=>
            /\ s \notin accepted
            /\ accepted = {} \/ Max(accepted) - s < WINDOW

\* A record coalesced with others is never hidden: every application record
\* of an undamaged epoch-3 datagram that was read is delivered, still held,
\* fell out of the window, was too far ahead to be numbered, or was given up
\* to a caller whose buffer was too short.
CoalescedNotHidden ==
    \A s \in arrived :
        \/ delivered[s] = 1
        \/ s \in SeqsOf(dg, {"app"}) \cup SeqsOf(recv_stash, {"app"})
        \/ s \in refused \cup unopened
        \/ s + WINDOW <= recv_hint - 1

\* A lost Finished is recovered: the server completes the handshake as long
\* as the network loses no more copies than the client may resend.
FinishedRecovered == <>(srv = "done")
=============================================================================
