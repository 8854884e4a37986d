------------------------------ MODULE TlsSession ------------------------------
(***************************************************************************)
(* One TLS 1.3 client session at the level of whole records: the engine    *)
(* (client/engine.rs), the blocking driver around it (client/stream.rs),   *)
(* the record keys of the typestate connection (connection.rs), a byte     *)
(* transport whose writes may fail part-way, and a server.                 *)
(*                                                                         *)
(* How records are cut out of transport reads is RecvBuffer's concern:     *)
(* here the framer takes the next whole record of the server's stream.  A  *)
(* record opens only under the key generation and number it was sealed     *)
(* with; generation 0 is the handshake traffic key, 1 and up the           *)
(* application keys.                                                       *)
(***************************************************************************)
EXTENDS Integers, Sequences, FiniteSets, Functions, Joining

CONSTANTS
    DownData,     \* what the server has to say, a sequence of distinct items
    UpData,       \* what the client application has to say
    ChunkLimit,   \* items in a client record: send_chunk_limit
    FinRecords,   \* numbers of records the client's final flight may take
    HsBodies,     \* post-handshake record bodies the server uses
    MaxControl,   \* bound: control records the server sends in the data phase
    MaxCalls,     \* bound: calls the application makes
    MaxFails,     \* bound: failing transport writes
    MaxBad,       \* bound: records that break the protocol
    MaxQueue      \* bound: server records on their way

\* A post-handshake record carries pieces of messages: the first and second
\* half of a NewSessionTicket, the first half of a KeyUpdate, and its second
\* half with update_requested set (K2r) or not (K2n).
Tokens == {"N1", "N2", "K1", "K2r", "K2n"}

ASSUME SessionAssumption ==
    /\ DownData \in Seq(STRING) /\ UpData \in Seq(STRING)
    /\ ChunkLimit \in Nat \ {0}
    /\ FinRecords \subseteq Nat \ {0}
    /\ HsBodies \subseteq Seq(Tokens)
    /\ MaxControl \in Nat /\ MaxCalls \in Nat /\ MaxFails \in Nat /\ MaxBad \in Nat
    /\ MaxQueue \in Nat \ {0}

VARIABLES
    \* TlsEngine; `pend` is send_record[send_acked..send_pending_len]
    state, closed, pend, hs_done, fin_unsent, parked, ph,
    \* the typestate's keys: generation and record number of each direction
    send_gen, seq_out, recv_gen, seq_in,
    \* the running call of the application, what it has left to write, the
    \* result of the last call
    call, todo, result, calls,
    \* the transport: server records not yet framed, client records written,
    \* whether a torn record follows them, end of stream, failed writes
    s2c, wire, torn, eof, fails,
    \* the server
    srv, srv_stage, srv_gen, srv_seq, srv_rgen, srv_rseq, srv_pos, desync,
    control, bad,
    \* history: the two streams and their readers, the server's close_notify
    \* seen, KeyUpdate requests seen, a failed close_notify
    down, got_down, up, got_up, ended, peer_closed, requests

engine  == <<state, closed, pend, hs_done, fin_unsent, parked, ph>>
keys    == <<send_gen, seq_out, recv_gen, seq_in>>
api     == <<call, todo, result, calls>>
pipe    == <<s2c, wire, torn, eof, fails>>
server  == <<srv, srv_stage, srv_gen, srv_seq, srv_rgen, srv_rseq, srv_pos, desync,
             control, bad>>
history == <<down, got_down, up, got_up, ended, peer_closed, requests>>
vars    == <<engine, keys, api, pipe, server, history>>

Rec(kind, gen, seq, body) == [kind |-> kind, gen |-> gen, seq |-> seq, body |-> body]

\* The record that completes the client's Finished: what follows it is sealed
\* with the application keys.
LastOfFlight(r) == r.kind = "fin" /\ r.body = <<"last">>

Reading == call \in {"read", "try_read"}

-----------------------------------------------------------------------------
(* Sending.  A pending record dominates every other event of the engine,   *)
(* so the same step serves connect, read, write_all and close.             *)

\* drive_one_send_step, mark_sent: the record is on the wire.
SendOk ==
    /\ call \notin {"idle", "gone"} /\ pend # <<>>
    /\ wire' = wire \o pend
    /\ pend' = <<>> /\ fin_unsent' = FALSE
    /\ UNCHANGED <<state, closed, hs_done, parked, ph, keys, api, s2c, torn, eof, fails,
                   server, history>>

\* The call returns.  connect gives no stream to its caller when it fails.
Return(r) ==
    /\ result' = r
    /\ call' = CASE call = "connect" -> IF r = "ok" THEN "idle" ELSE "gone"
                 [] call \in {"drop", "drop2"} -> "gone"
                 [] OTHER -> "idle"
    /\ todo' = <<>>
    /\ UNCHANGED calls

\* Mutant of SendFails: a failed write leaves the record pending.
SendFailsRetries ==
    /\ call \notin {"idle", "gone"} /\ pend # <<>> /\ fails < MaxFails
    /\ \E k \in 0..Len(pend) :
         /\ wire' = wire \o SubSeq(pend, 1, k)
         /\ torn' \in IF k < Len(pend) THEN BOOLEAN ELSE {FALSE}
    /\ fails' = fails + 1
    /\ Return("io")
    /\ UNCHANGED <<engine, keys, s2c, eof, server, down, got_down, up, got_up, ended,
                   peer_closed, requests>>

\* write_all failed: a prefix of the bytes may be out, so mark_terminal.
SendFails ==
    /\ call \notin {"idle", "gone"} /\ pend # <<>> /\ fails < MaxFails
    /\ \E k \in 0..Len(pend) :
         /\ wire' = wire \o SubSeq(pend, 1, k)
         /\ torn' \in IF k < Len(pend) THEN BOOLEAN ELSE {FALSE}
    /\ fails' = fails + 1
    /\ state' = "Closed" /\ closed' = TRUE /\ pend' = <<>>
    /\ fin_unsent' = FALSE /\ hs_done' = FALSE
    /\ Return("io")
    /\ UNCHANGED <<parked, ph, keys, s2c, eof, server, down, got_down, up, got_up, ended,
                   peer_closed, requests>>

-----------------------------------------------------------------------------
(* connect: drive_handshake and step_handshake.                            *)

\* Nothing to send and HandshakeDone not due: the framer is asked.
HsFraming ==
    /\ call = "connect" /\ pend = <<>> /\ ~(hs_done /\ ~fin_unsent)
    /\ parked = <<>> /\ ~closed

ReadServerHello ==
    /\ HsFraming /\ state = "WaitServerHello"
    /\ s2c # <<>> /\ Head(s2c).kind = "sh"
    /\ state' = "WaitFlight" /\ s2c' = Tail(s2c)
    /\ UNCHANGED <<closed, pend, hs_done, fin_unsent, parked, ph, keys, api, wire, torn, eof,
                   fails, server, history>>

\* Protected, undamaged, and the next one under the current receive keys.
Opens(r) ==
    /\ r.kind \notin {"sh", "ccs", "damaged"}
    /\ r.gen = recv_gen /\ r.seq = seq_in

\* Mutant of SkipCcs: a change_cipher_spec takes a record number.
SkipCcsCounts ==
    /\ HsFraming /\ state = "WaitFlight"
    /\ s2c # <<>> /\ Head(s2c).kind = "ccs"
    /\ s2c' = Tail(s2c) /\ seq_in' = seq_in + 1
    /\ UNCHANGED <<engine, send_gen, seq_out, recv_gen, api, wire, torn, eof, fails, server, history>>

SkipCcs ==
    /\ HsFraming /\ state = "WaitFlight"
    /\ s2c # <<>> /\ Head(s2c).kind = "ccs"
    /\ s2c' = Tail(s2c)
    /\ UNCHANGED <<engine, keys, api, wire, torn, eof, fails, server, history>>

FeedFlight ==
    /\ HsFraming /\ state = "WaitFlight"
    /\ s2c # <<>> /\ Head(s2c).kind = "flight" /\ Opens(Head(s2c))
    /\ s2c' = Tail(s2c) /\ seq_in' = seq_in + 1
    /\ UNCHANGED <<engine, send_gen, seq_out, recv_gen, api, wire, torn, eof, fails, server,
                   history>>

\* finalize_and_finish: the flight verifies, the final flight is queued under
\* the handshake keys and the application keys are installed.
FinishFlight(n) ==
    /\ HsFraming /\ state = "WaitFlight"
    /\ s2c # <<>> /\ Head(s2c).kind = "fin" /\ Opens(Head(s2c)) /\ Head(s2c).body = <<"good">>
    /\ s2c' = Tail(s2c)
    /\ state' = "App"
    /\ pend' = [i \in 1..n |-> Rec("fin", 0, i - 1, IF i = n THEN <<"last">> ELSE <<>>)]
    /\ hs_done' = TRUE /\ fin_unsent' = TRUE
    /\ send_gen' = 1 /\ seq_out' = 0 /\ recv_gen' = 1 /\ seq_in' = 0
    /\ UNCHANGED <<closed, parked, ph, api, wire, torn, eof, fails, server, history>>

\* Mutant of HandshakeDone: Done dominates Send.
HandshakeDoneEarly ==
    /\ call = "connect" /\ hs_done
    /\ hs_done' = FALSE
    /\ Return("ok")
    /\ UNCHANGED <<state, closed, pend, fin_unsent, parked, ph, keys, pipe, server, history>>

HandshakeDone ==
    /\ call = "connect" /\ pend = <<>> /\ hs_done /\ ~fin_unsent
    /\ hs_done' = FALSE
    /\ Return("ok")
    /\ UNCHANGED <<state, closed, pend, fin_unsent, parked, ph, keys, pipe, server, history>>

\* The record is not one the state expects, or does not open, or completes a
\* flight that does not verify.
HsRefuses(r) ==
    \/ state = "WaitServerHello" /\ r.kind # "sh"
    \/ state = "WaitFlight" /\ r.kind # "ccs"
         /\ ~(Opens(r) /\ r.kind \in {"flight", "fin"} /\ r.body # <<"forged">>)

\* How connect fails once nothing is left to send; "none" while it goes on.
\* AppData and a record in the App state are errors of the engine itself.
HsFailure ==
    IF parked # <<>> THEN "internal"
    ELSE IF closed THEN "closed"
    ELSE IF s2c = <<>> THEN IF eof THEN "eof" ELSE "none"
    ELSE IF state \notin {"WaitServerHello", "WaitFlight"} THEN "internal"
    ELSE IF HsRefuses(Head(s2c)) THEN "err" ELSE "none"

ConnectFails ==
    /\ call = "connect" /\ pend = <<>> /\ ~(hs_done /\ ~fin_unsent)
    /\ HsFailure # "none"
    /\ Return(HsFailure)
    /\ UNCHANGED <<engine, keys, pipe, server, history>>

\* Recv: transport.read fails.
ConnectReadFails ==
    /\ HsFraming /\ s2c = <<>> /\ fails < MaxFails
    /\ fails' = fails + 1
    /\ Return("io")
    /\ UNCHANGED <<engine, keys, s2c, wire, torn, eof, server, history>>

-----------------------------------------------------------------------------
(* read and try_read: step, the data-phase dispatch and its events.        *)

\* Mutant of Framing: the framer runs while a record is pending.
FramingUngated == Reading /\ parked = <<>> /\ ~closed

Framing == Reading /\ pend = <<>> /\ parked = <<>> /\ ~closed

\* An error of the dispatch is fatal: dispatch_data_record sets closed.  A
\* record that opened has been consumed, another one stays in the buffer.
Refuse(r) ==
    /\ closed' = TRUE
    /\ IF Opens(r) THEN s2c' = Tail(s2c) /\ seq_in' = seq_in + 1
                   ELSE UNCHANGED <<s2c, seq_in>>
    /\ Return("err")
    /\ UNCHANGED <<state, pend, hs_done, fin_unsent, parked, ph, send_gen, seq_out, recv_gen,
                   wire, torn, eof, fails, server, history>>

\* The record opened and is consumed.
Consume ==
    /\ s2c' = Tail(s2c)
    /\ UNCHANGED <<state, hs_done, fin_unsent, api, wire, torn, eof, fails, server>>

DataRefused ==
    /\ Framing /\ s2c # <<>>
    /\ LET r == Head(s2c) IN
         /\ \/ ~Opens(r)
            \/ r.kind \notin {"app", "close", "hs"}
            \/ r.kind # "hs" /\ ph # ""
         /\ Refuse(r)

DataApp ==
    /\ Framing /\ s2c # <<>>
    /\ LET r == Head(s2c) IN
         /\ Opens(r) /\ r.kind = "app" /\ ph = ""
         /\ parked' = r.body
    /\ Consume /\ seq_in' = seq_in + 1
    /\ UNCHANGED <<closed, pend, ph, send_gen, seq_out, recv_gen, history>>

DataCloseNotify ==
    /\ Framing /\ s2c # <<>>
    /\ LET r == Head(s2c) IN Opens(r) /\ r.kind = "close" /\ ph = ""
    /\ Consume /\ seq_in' = seq_in + 1
    /\ closed' = TRUE /\ peer_closed' = TRUE
    /\ UNCHANGED <<pend, parked, ph, send_gen, seq_out, recv_gen, down, got_down, up, got_up,
                   ended, requests>>

\* feed_post_handshake: what is staged after a record whose last piece is t.
Staged(t) == IF t \in {"N1", "K1"} THEN t ELSE ""

DataTicket ==
    /\ Framing /\ s2c # <<>>
    /\ LET r == Head(s2c) IN
         /\ Opens(r) /\ r.kind = "hs" /\ LastOf(r.body) \notin {"K2r", "K2n"}
         /\ ph' = Staged(LastOf(r.body))
    /\ Consume /\ seq_in' = seq_in + 1
    /\ UNCHANGED <<closed, pend, parked, send_gen, seq_out, recv_gen, history>>

\* Mutant of DataKeyUpdate: the answer is sealed with the new send keys.
KeyUpdateUnderNewKeys ==
    /\ Framing /\ s2c # <<>>
    /\ LET r == Head(s2c) IN
         /\ Opens(r) /\ r.kind = "hs" /\ LastOf(r.body) \in {"K2r", "K2n"}
         /\ IF LastOf(r.body) = "K2r"
              THEN /\ pend' = <<Rec("ku", send_gen + 1, 0, <<>>)>>
                   /\ send_gen' = send_gen + 1 /\ seq_out' = 1
                   /\ requests' = requests + 1
              ELSE UNCHANGED <<pend, send_gen, seq_out, requests>>
    /\ ph' = "" /\ recv_gen' = recv_gen + 1 /\ seq_in' = 0
    /\ Consume
    /\ UNCHANGED <<closed, parked, down, got_down, up, got_up, ended, peer_closed>>

\* process_key_update: new receive keys and, when asked, our own KeyUpdate
\* under the old send keys and then new send keys.
DataKeyUpdate ==
    /\ Framing /\ s2c # <<>>
    /\ LET r == Head(s2c) IN
         /\ Opens(r) /\ r.kind = "hs" /\ LastOf(r.body) \in {"K2r", "K2n"}
         /\ IF LastOf(r.body) = "K2r"
              THEN /\ pend' = <<Rec("ku", send_gen, seq_out, <<>>)>>
                   /\ send_gen' = send_gen + 1 /\ seq_out' = 0
                   /\ requests' = requests + 1
              ELSE UNCHANGED <<pend, send_gen, seq_out, requests>>
    /\ ph' = "" /\ recv_gen' = recv_gen + 1 /\ seq_in' = 0
    /\ Consume
    /\ UNCHANGED <<closed, parked, down, got_down, up, got_up, ended, peer_closed>>

\* AppData: read_app hands over as much as the caller's buffer takes.
ReadApp(n) ==
    /\ Reading /\ pend = <<>> /\ n <= Len(parked)
    /\ got_down' = got_down \o SubSeq(parked, 1, n)
    /\ parked' = SubSeq(parked, n + 1, Len(parked))
    /\ Return("data")
    /\ UNCHANGED <<state, closed, pend, hs_done, fin_unsent, ph, keys, pipe, server, down, up,
                   got_up, ended, peer_closed, requests>>

\* Closed: Ok(0).  The caller takes it for the peer's end of stream when the
\* peer's close_notify is what closed the engine.
ReadZero ==
    /\ Reading /\ pend = <<>> /\ parked = <<>> /\ closed
    /\ Return("zero")
    /\ ended' = (ended \/ peer_closed)
    /\ UNCHANGED <<engine, keys, pipe, server, down, got_down, up, got_up, peer_closed,
                   requests>>

\* Mutant of ReadEof: a read of 0 bytes is fed to the engine.
ReadEofSpins ==
    /\ Framing /\ s2c = <<>> /\ eof
    /\ UNCHANGED vars

\* Recv at the end of the stream: UnexpectedEof.
ReadEof ==
    /\ Framing /\ s2c = <<>> /\ eof
    /\ Return("eof")
    /\ UNCHANGED <<engine, keys, pipe, server, history>>

\* Recv: a non-blocking read finds nothing; a blocking one may fail, with
\* nothing read and the engine as it was.
ReadNothing ==
    /\ Framing /\ s2c = <<>> /\ ~eof
    /\ \/ call = "try_read" /\ Return("none")
       \/ fails < MaxFails /\ Return("io")
    /\ fails' = IF result' = "io" THEN fails + 1 ELSE fails
    /\ UNCHANGED <<engine, keys, s2c, wire, torn, eof, server, history>>

-----------------------------------------------------------------------------
(* write_all, close and Drop.                                              *)

\* write_app: one record of at most send_chunk_limit.
WriteChunk ==
    /\ call = "write" /\ pend = <<>> /\ todo # <<>> /\ ~closed /\ state = "App"
    /\ LET n == IF Len(todo) < ChunkLimit THEN Len(todo) ELSE ChunkLimit
           chunk == SubSeq(todo, 1, n) IN
         /\ pend' = <<Rec("app", send_gen, seq_out, chunk)>>
         /\ todo' = SubSeq(todo, n + 1, Len(todo))
         /\ up' = up \o chunk
    /\ seq_out' = seq_out + 1
    /\ UNCHANGED <<state, closed, hs_done, fin_unsent, parked, ph, send_gen, recv_gen, seq_in,
                   call, result, calls, pipe, server, down, got_down, got_up, ended,
                   peer_closed, requests>>

\* Mutant of WriteEnds: the last record is left pending.
WriteEndsUndrained ==
    /\ call = "write"
    /\ todo = <<>> \/ closed \/ state # "App"
    /\ Return(IF todo = <<>> THEN "ok" ELSE IF closed THEN "closed" ELSE "internal")
    /\ UNCHANGED <<engine, keys, pipe, server, history>>

\* write_all returns: all written, or the engine takes no more.
WriteEnds ==
    /\ call = "write" /\ pend = <<>>
    /\ todo = <<>> \/ closed \/ state # "App"
    /\ Return(IF todo = <<>> THEN "ok" ELSE IF closed THEN "closed" ELSE "internal")
    /\ UNCHANGED <<engine, keys, pipe, server, history>>

\* The first drain of close is over: is_closed returns, otherwise the engine
\* queues close_notify.
CloseNotify ==
    /\ call \in {"close", "drop"} /\ pend = <<>> /\ ~closed /\ state = "App"
    /\ pend' = <<Rec("close", send_gen, seq_out, <<>>)>>
    /\ seq_out' = seq_out + 1
    /\ closed' = TRUE
    /\ call' = IF call = "close" THEN "close2" ELSE "drop2"
    /\ UNCHANGED <<state, hs_done, fin_unsent, parked, ph, send_gen, recv_gen, seq_in, todo,
                   result, calls, pipe, server, history>>

CloseEnds ==
    /\ pend = <<>>
    /\ \/ call \in {"close", "drop"} /\ closed
       \/ call \in {"close2", "drop2"}
    /\ Return("done")
    /\ UNCHANGED <<engine, keys, pipe, server, history>>

-----------------------------------------------------------------------------
(* The application: one call at a time, and the drop that ends the stream. *)

Begin(c) ==
    /\ call = "idle" /\ call' = c /\ result' = ""
    /\ UNCHANGED <<engine, keys, pipe, server, history>>

Call ==
    /\ calls < MaxCalls /\ calls' = calls + 1
    /\ \/ /\ \E c \in {"read", "try_read", "close"} : Begin(c)
          /\ UNCHANGED todo
       \/ \E n \in 0..(Len(UpData) - Len(up)) :
            Begin("write") /\ todo' = SubSeq(UpData, Len(up) + 1, Len(up) + n)

DropStream == Begin("drop") /\ UNCHANGED <<todo, calls>>

Gone == call = "gone" /\ UNCHANGED vars

-----------------------------------------------------------------------------
(* External: the server and the transport.                                 *)

Emit(kind, body) ==
    /\ ~eof /\ Len(s2c) < MaxQueue
    /\ s2c' = Append(s2c, Rec(kind, srv_gen, srv_seq, body))
    /\ UNCHANGED <<engine, keys, api, wire, torn, eof, fails, srv_rgen, srv_rseq, srv_pos,
                   desync, got_down, up, got_up, ended, peer_closed, requests>>

\* The ServerHello and a change_cipher_spec are not protected: their number is
\* that of the protected record they precede.
SrvHello ==
    /\ srv = "start" /\ srv' = "hello"
    /\ Emit("sh", <<>>)
    /\ UNCHANGED <<srv_stage, srv_gen, srv_seq, control, bad, down>>

SrvCcs ==
    /\ srv = "hello" /\ control < MaxControl /\ control' = control + 1
    /\ Emit("ccs", <<>>)
    /\ UNCHANGED <<srv, srv_stage, srv_gen, srv_seq, bad, down>>

SrvFlight ==
    /\ srv = "hello" /\ srv_seq = 0 /\ srv_seq' = srv_seq + 1
    /\ Emit("flight", <<>>)
    /\ UNCHANGED <<srv, srv_stage, srv_gen, control, bad, down>>

\* The flight's last record; from here the server uses its application keys.
SrvFinished ==
    /\ srv = "hello" /\ srv' = "data" /\ srv_gen' = 1 /\ srv_seq' = 0
    /\ \/ Emit("fin", <<"good">>) /\ UNCHANGED bad
       \/ bad < MaxBad /\ bad' = bad + 1 /\ Emit("fin", <<"forged">>)
    /\ UNCHANGED <<srv_stage, control, down>>

\* Application data, from the moment the server has sent its Finished; a
\* record may carry none.  Between the pieces of a message it is an error.
SrvApp ==
    /\ srv = "data"
    /\ IF srv_stage = "" THEN UNCHANGED bad ELSE bad < MaxBad /\ bad' = bad + 1
    /\ \E n \in 0..(Len(DownData) - Len(down)) :
         LET body == SubSeq(DownData, Len(down) + 1, Len(down) + n) IN
           /\ IF n = 0 THEN control < MaxControl /\ control' = control + 1
                       ELSE UNCHANGED control
           /\ down' = down \o body
           /\ Emit("app", body)
    /\ srv_seq' = srv_seq + 1
    /\ UNCHANGED <<srv, srv_stage, srv_gen>>

\* What may follow a piece: within a record nothing follows a KeyUpdate.
Follows(t) == CASE t = "N1" -> {"N2"}
                [] t = "K1" -> {"K2r", "K2n"}
                [] t \in {"", "N2"} -> {"N1", "K1"}
                [] OTHER -> {}

SrvPostHandshake(body) ==
    /\ srv = "data" /\ control < MaxControl /\ control' = control + 1
    /\ body[1] \in Follows(srv_stage)
    /\ \A i \in 2..Len(body) : body[i] \in Follows(body[i - 1])
    /\ "K1" \in Range(body) => srv_rgen > 0
    /\ Emit("hs", body)
    /\ srv_stage' = Staged(LastOf(body))
    /\ IF LastOf(body) \in {"K2r", "K2n"} THEN srv_gen' = srv_gen + 1 /\ srv_seq' = 0
                                        ELSE srv_seq' = srv_seq + 1 /\ UNCHANGED srv_gen
    /\ UNCHANGED <<srv, bad, down>>

SrvClose ==
    /\ srv = "data" /\ srv_stage = "" /\ srv' = "closed"
    /\ Emit("close", <<>>)
    /\ srv_seq' = srv_seq + 1
    /\ UNCHANGED <<srv_stage, srv_gen, control, bad, down>>

\* A fatal alert or an unknown message, which open, a change_cipher_spec out of
\* place, a record damaged on the way.
SrvBad ==
    /\ srv # "closed" /\ bad < MaxBad /\ bad' = bad + 1
    /\ \E kind \in {"alert", "ccs", "damaged"} :
         /\ Emit(kind, <<>>)
         /\ srv_seq' = IF kind = "ccs" THEN srv_seq ELSE srv_seq + 1
    /\ UNCHANGED <<srv, srv_stage, srv_gen, control, down>>

SrvEof ==
    /\ ~eof /\ eof' = TRUE
    /\ UNCHANGED <<engine, keys, api, s2c, wire, torn, fails, server, history>>

\* The server takes the next client record, which must be the one its own
\* receive keys expect.
SrvReads ==
    /\ srv_pos < Len(wire)
    /\ LET r == wire[srv_pos + 1] IN
         /\ srv_pos' = srv_pos + 1
         /\ desync' = (desync \/ r.gen # srv_rgen \/ r.seq # srv_rseq)
         /\ IF r.kind = "ku" \/ LastOfFlight(r)
              THEN srv_rgen' = srv_rgen + 1 /\ srv_rseq' = 0
              ELSE srv_rseq' = srv_rseq + 1 /\ UNCHANGED srv_rgen
         /\ got_up' = IF r.kind = "app" THEN got_up \o r.body ELSE got_up
    /\ UNCHANGED <<engine, keys, api, pipe, srv, srv_stage, srv_gen, srv_seq, control, bad,
                   down, got_down, up, ended, peer_closed, requests>>

-----------------------------------------------------------------------------

\* After connect has transmitted the ClientHello.
Init ==
    /\ state = "WaitServerHello" /\ closed = FALSE /\ pend = <<>>
    /\ hs_done = FALSE /\ fin_unsent = FALSE /\ parked = <<>> /\ ph = ""
    /\ send_gen = 0 /\ seq_out = 0 /\ recv_gen = 0 /\ seq_in = 0
    /\ call = "connect" /\ todo = <<>> /\ result = "" /\ calls = 0
    /\ s2c = <<>> /\ wire = <<>> /\ torn = FALSE /\ eof = FALSE /\ fails = 0
    /\ srv = "start" /\ srv_stage = "" /\ srv_gen = 0 /\ srv_seq = 0
    /\ srv_rgen = 0 /\ srv_rseq = 0 /\ srv_pos = 0 /\ desync = FALSE
    /\ control = 0 /\ bad = 0
    /\ down = <<>> /\ got_down = <<>> /\ up = <<>> /\ got_up = <<>>
    /\ ended = FALSE /\ peer_closed = FALSE /\ requests = 0

Connect ==
    \/ ReadServerHello \/ SkipCcs \/ FeedFlight
    \/ \E n \in FinRecords : FinishFlight(n)
    \/ HandshakeDone \/ ConnectFails \/ ConnectReadFails

Read ==
    \/ DataRefused \/ DataApp \/ DataCloseNotify \/ DataTicket \/ DataKeyUpdate
    \/ \E n \in 1..Len(DownData) : ReadApp(n)
    \/ ReadZero \/ ReadEof \/ ReadNothing

Client == SendOk \/ SendFails \/ Connect \/ Read \/ WriteChunk \/ WriteEnds
          \/ CloseNotify \/ CloseEnds

Server ==
    \/ SrvHello \/ SrvCcs \/ SrvFlight \/ SrvFinished \/ SrvApp
    \/ \E body \in HsBodies : SrvPostHandshake(body)
    \/ SrvClose \/ SrvBad \/ SrvReads

Next == Client \/ Call \/ DropStream \/ Gone \/ Server \/ SrvEof

Spec == Init /\ [][Next]_vars

\* Fairness: connect, read, write_all and close are loops that run while they
\* can; the server answers the ClientHello with its flight and the transport
\* ends some day, so that a blocking read cannot wait for ever.
FairSpec ==
    /\ Spec
    /\ WF_vars(Client)
    /\ WF_vars(SrvHello \/ SrvFinished)
    /\ WF_vars(SrvEof)

-----------------------------------------------------------------------------
(* Properties.                                                             *)

\* Every record the client puts on the wire is sealed with the key generation
\* and number the server expects next: no number is used twice, none is
\* skipped and no record crosses a key change, whatever reads, writes, key
\* updates, closes and failed writes come in between (process_key_update
\* rotates the send keys in the middle of a read, engine.rs 964-1013).
InSync == ~desync

\* A queued record is never replaced by another one: it leaves send_record
\* when it is written or when the session is over (the Send gate of
\* engine.rs 221-223, 744-750, 1064-1070 and 1143-1149).
NothingOverwritten ==
    [][pend # <<>> /\ pend' # pend =>
         pend' = <<>> /\ (wire' = wire \o pend \/ state' = "Closed")]_vars

\* Nothing follows a record that a failed write may have left half-written:
\* mark_terminal keeps a retry from putting bytes after it (stream.rs 327-341,
\* engine.rs 1130-1139).
TornIsLast == [][torn => wire' = wire]_vars

\* connect returns Ok only when the whole final flight, the Finished in it, is
\* on the wire (the handshake_finished_pending_ack gate, engine.rs 254-257 and
\* 1122-1125).
ConnectedMeansFinished ==
    state = "App" /\ call # "connect" => \E i \in 1..Len(wire) : LastOfFlight(wire[i])

\* A server that follows the protocol is never refused: its records open, its
\* post-handshake messages may be cut anywhere, and data it sends before the
\* client's Finished arrives waits for the first read (engine.rs 775-883).
HonestNeverRefused == bad = 0 => result # "err"

\* The items of the application records on the wire, in order.
ItemsOf(r) == IF r.kind = "app" THEN r.body ELSE <<>>
AppItems(w) == Joined([i \in 1..Len(w) |-> ItemsOf(w[i])])

\* The KeyUpdates among the records w.
KeyUpdates(w) == {i \in 1..Len(w) : w[i].kind = "ku"}

\* Between calls nothing is pending; unless a write failed, everything
\* write_all accepted and an answer to every KeyUpdate request are on the wire
\* (stream.rs 274-300 and 384-409).
IdleIsFlushed ==
    call = "idle" =>
      /\ pend = <<>>
      /\ fails = 0 => /\ AppItems(wire) = up
                      /\ Cardinality(KeyUpdates(wire)) = requests

\* The session implements two reliable streams: each reader has a prefix of
\* what the other side wrote, and the client reports the server's end of
\* stream only after all of its data.
Channel == INSTANCE SecureChannel
ImplementsChannel == Channel!Spec

\* Every call returns (stream.rs loops 214-232, 275-299, 432-499).
CallsReturn == call \notin {"idle", "gone"} ~> call \in {"idle", "gone"}
===============================================================================
