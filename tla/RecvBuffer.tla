------------------------------ MODULE RecvBuffer ------------------------------
(***************************************************************************)
(* The receive buffer of the TLS client engine (client/engine.rs): one     *)
(* array `recv_record` of RECV bytes, the four cursors of `RecvState`, the *)
(* framer that finds record boundaries in whatever pieces the transport    *)
(* delivers, the lazy compaction, and the in-place parking of application  *)
(* plaintext until the caller has drained it.                              *)
(*                                                                         *)
(* A byte is modelled by its position in the stream the peer writes, so    *)
(* two different bytes are never confused: a cursor that is off by one, or *)
(* a compaction that moves the wrong range, shows as a wrong position.     *)
(***************************************************************************)
EXTENDS Integers, Sequences, Joining

CONSTANTS
    RECV,          \* capacity of recv_record
    TLS_HEADER,    \* bytes of a record header (5 in the code)
    AEAD_TAG,      \* bytes of an AEAD tag (16 in the code)
    MIN_LIMIT,     \* MIN_RECORD_SIZE_LIMIT (64)
    MAX_LIMIT,     \* PROTO_MAX_INNER_PLAINTEXT (16385)
    AuthFlightLen, \* plaintext bytes of the client-auth flight, 0 for none
    BodyLens,      \* length fields the peer uses
    MaxRecords     \* bound on the records of a behaviour

RECORD_OVERHEAD == TLS_HEADER + AEAD_TAG

\* validate_construction refuses a buffer below MIN_RECV.
ASSUME RecvAssumption ==
    /\ RECV \in Nat /\ AEAD_TAG \in Nat /\ TLS_HEADER \in Nat \ {0}
    /\ MIN_LIMIT \in Nat \ {0} /\ MAX_LIMIT \in Nat /\ MIN_LIMIT <= MAX_LIMIT
    /\ RECV >= MIN_LIMIT + TLS_HEADER + AEAD_TAG
    /\ AuthFlightLen \in 0..RECV
    /\ BodyLens \subseteq Nat
    /\ MaxRecords \in Nat

\* default_our_recv_limit: what is advertised, the buffer less the overhead,
\* clamped to what RFC 8449 allows.
OurRecvLimit ==
    LET from_buf == RECV - RECORD_OVERHEAD
    IN  IF from_buf > MAX_LIMIT THEN MAX_LIMIT
        ELSE IF from_buf < MIN_LIMIT THEN MIN_LIMIT ELSE from_buf

VARIABLES
    recs,        \* the records the peer has written, oldest first
    written,     \* length of the peer's stream
    taken,       \* stream bytes handed over by the transport
    mem,         \* recv_record: the stream position held by each byte
    filled, plain_start, plain_end, next_record,   \* RecvState
    phase,       \* which of step_handshake and step is being driven
    closed,      \* TlsEngine.closed
    ev,          \* what the last step returned; "step" when one is running
    framed,      \* records dispatched so far
    out          \* stream positions of the bytes returned to the caller

cursors == <<filled, plain_start, plain_end, next_record>>
peer    == <<recs, written>>
vars    == <<recs, written, taken, mem, filled, plain_start, plain_end,
             next_record, phase, closed, ev, framed, out>>

Kinds  == {"plain", "ctl", "fin", "app"}
Events == {"step", "Recv", "AppData", "Closed", "Error", "Failed"}

\* A record: where its header starts in the stream, its length field, and how
\* many bytes of content are left once tag, content type and padding are gone.
Record == [kind: Kinds, start: Nat, len: Nat, content: Nat]

\* A byte of the client-auth flight, which is no byte of the peer's stream.
OwnByte == -1

Parked == plain_start < plain_end

-----------------------------------------------------------------------------
(* The peer and the transport.                                             *)

\* A plaintext ServerHello or change_cipher_spec ("plain") and protected
\* handshake records ("ctl") lead up to the record that completes the server's
\* Finished ("fin"); application data only follows it.
PeerWrites(kind, len, content) ==
    /\ kind \in IF \E k \in 1..Len(recs) : recs[k].kind = "fin"
               THEN {"ctl", "app"} ELSE {"plain", "ctl", "fin"}
    /\ Len(recs) < MaxRecords
    /\ IF kind = "app" THEN content + 1 + AEAD_TAG <= len ELSE content = 0
    /\ recs' = Append(recs, [kind |-> kind, start |-> written,
                             len |-> len, content |-> content])
    /\ written' = written + TLS_HEADER + len
    /\ UNCHANGED <<taken, mem, cursors, phase, closed, ev, framed, out>>

\* recv_buffer() and advance(n): the driver reads n >= 1 bytes behind `filled`.
Fill(n) ==
    /\ ev = "Recv"
    /\ ~Parked
    /\ n \in 1..(RECV - filled)
    /\ taken + n <= written
    /\ mem' = [i \in 0..(RECV - 1) |->
                 IF i >= filled /\ i < filled + n THEN taken + (i - filled) ELSE mem[i]]
    /\ filled' = filled + n
    /\ taken' = taken + n
    /\ ev' = "step"
    /\ UNCHANGED <<peer, plain_start, plain_end, next_record, phase, closed, framed, out>>

-----------------------------------------------------------------------------
(* frame_one_record.                                                       *)

Buffered == filled - next_record

\* The length field is read from the last two header bytes. Only a byte that
\* is the length field of a record of the stream has a meaning here.
LengthAt(i) ==
    LET at == {k \in 1..Len(recs) : recs[k].start + TLS_HEADER - 1 = mem[i]}
    IN  IF at = {} THEN 0 ELSE recs[CHOOSE k \in at : TRUE].len

LengthField == LengthAt(next_record + TLS_HEADER - 1)

RecordEnd == next_record + TLS_HEADER + LengthField

HeaderBuffered == Buffered >= TLS_HEADER
TooLarge       == HeaderBuffered /\ LengthField > RECV - TLS_HEADER
RecordBuffered == HeaderBuffered /\ ~TooLarge /\ filled >= RecordEnd

\* step's order: parked plaintext first, then the closed flag, then framing.
Framing == ev = "step" /\ ~Parked /\ ~closed

\* Mutant of CompactRecv: the stale plaintext cursors move with the tail.
CompactShiftsPlain ==
    /\ mem' = [i \in 0..(RECV - 1) |->
                 IF i < Buffered THEN mem[next_record + i] ELSE mem[i]]
    /\ filled' = Buffered
    /\ plain_start' = plain_start - next_record
    /\ plain_end' = plain_end - next_record
    /\ next_record' = 0

\* Mutant of CompactRecv: the last byte of the tail is not moved.
CompactDropsByte ==
    /\ mem' = [i \in 0..(RECV - 1) |->
                 IF i < Buffered - 1 THEN mem[next_record + i] ELSE mem[i]]
    /\ filled' = Buffered
    /\ plain_start' = 0
    /\ plain_end' = 0
    /\ next_record' = 0

\* compact_recv: the unconsumed tail moves to offset 0, the cursors follow.
CompactRecv ==
    /\ mem' = [i \in 0..(RECV - 1) |->
                 IF i < Buffered THEN mem[next_record + i] ELSE mem[i]]
    /\ filled' = Buffered
    /\ plain_start' = 0
    /\ plain_end' = 0
    /\ next_record' = 0

\* Mutant of NeedMore: the tail is never compacted.
NeedMoreInPlace ==
    /\ Framing
    /\ ~TooLarge /\ ~RecordBuffered
    /\ UNCHANGED <<mem, cursors>>
    /\ ev' = "Recv"
    /\ UNCHANGED <<peer, taken, phase, closed, framed, out>>

\* Framed::Need: compacting only here, where it buys room for the next read.
NeedMore ==
    /\ Framing
    /\ ~TooLarge /\ ~RecordBuffered
    /\ IF next_record > 0 THEN CompactRecv ELSE UNCHANGED <<mem, cursors>>
    /\ ev' = "Recv"
    /\ UNCHANGED <<peer, taken, phase, closed, framed, out>>

\* RecordTooLarge from the framer: a handshake is abandoned, the data phase
\* leaves every cursor alone and reports the error.
RefuseTooLarge ==
    /\ Framing
    /\ TooLarge
    /\ ev' = IF phase = "handshake" THEN "Failed" ELSE "Error"
    /\ UNCHANGED <<peer, taken, mem, cursors, phase, closed, framed, out>>

-----------------------------------------------------------------------------
(* Dispatch of the framed record.                                          *)

FramedRecord == recs[framed + 1]

\* Mutant of WithinLimit: the tag counts against the limit.
WithinLimitNoTag ==
    FramedRecord.kind = "plain" \/ LengthField <= OurRecvLimit

\* RFC 8449 binds protected records only; ServerHello and change_cipher_spec
\* are exempt.
WithinLimit ==
    FramedRecord.kind = "plain" \/ LengthField <= OurRecvLimit + AEAD_TAG

\* A protected body above the advertised limit is refused; in the data phase
\* the error also closes the engine.
RefuseOverLimit ==
    /\ Framing
    /\ RecordBuffered
    /\ ~WithinLimit
    /\ ev' = IF phase = "handshake" THEN "Failed" ELSE "Error"
    /\ closed' = (phase = "data")
    /\ UNCHANGED <<peer, taken, mem, cursors, phase, framed, out>>

\* Handshake messages, change_cipher_spec, alerts that do not end the session:
\* nothing of the record stays in the buffer.
DispatchControl ==
    /\ Framing
    /\ RecordBuffered /\ WithinLimit
    /\ FramedRecord.kind \in {"plain", "ctl"}
    /\ next_record' = RecordEnd
    /\ framed' = framed + 1
    /\ UNCHANGED <<peer, taken, mem, filled, plain_start, plain_end, phase, closed, ev, out>>

\* finalize_and_finish: the flight is complete; a client-auth response is
\* assembled at the front of recv_record.
DispatchFinished ==
    /\ Framing
    /\ RecordBuffered /\ WithinLimit
    /\ FramedRecord.kind = "fin"
    /\ mem' = [i \in 0..(RECV - 1) |-> IF i < AuthFlightLen THEN OwnByte ELSE mem[i]]
    /\ phase' = "data"
    /\ next_record' = RecordEnd
    /\ framed' = framed + 1
    /\ UNCHANGED <<peer, taken, filled, plain_start, plain_end, closed, ev, out>>

\* Application data is decrypted where it lies and parked; an empty record
\* parks nothing.
DispatchAppData ==
    /\ Framing
    /\ RecordBuffered /\ WithinLimit
    /\ FramedRecord.kind = "app"
    /\ next_record' = RecordEnd
    /\ framed' = framed + 1
    /\ IF FramedRecord.content > 0
       THEN /\ plain_start' = next_record + TLS_HEADER
            /\ plain_end' = next_record + TLS_HEADER + FramedRecord.content
       ELSE UNCHANGED <<plain_start, plain_end>>
    /\ UNCHANGED <<peer, taken, mem, filled, phase, closed, ev, out>>

-----------------------------------------------------------------------------
(* Events and the caller.                                                  *)

YieldAppData ==
    /\ ev = "step" /\ Parked
    /\ ev' = "AppData"
    /\ UNCHANGED <<peer, taken, mem, cursors, phase, closed, framed, out>>

YieldClosed ==
    /\ ev = "step" /\ ~Parked /\ closed
    /\ ev' = "Closed"
    /\ UNCHANGED <<peer, taken, mem, cursors, phase, closed, framed, out>>

\* Mutant of ReadApp: a short read discards the rest of the record.
ReadAppDropsRest(n) ==
    /\ ev = "AppData"
    /\ LET m == IF n < plain_end - plain_start THEN n ELSE plain_end - plain_start
       IN  /\ out' = out \o [j \in 1..m |-> mem[plain_start + j - 1]]
           /\ plain_start' = plain_end
    /\ ev' = "step"
    /\ UNCHANGED <<peer, taken, mem, filled, plain_end, next_record, phase, closed, framed>>

\* read_app with room for n bytes, then the next call of read.
ReadApp(n) ==
    /\ ev = "AppData"
    /\ LET m == IF n < plain_end - plain_start THEN n ELSE plain_end - plain_start
       IN  /\ out' = out \o [j \in 1..m |-> mem[plain_start + j - 1]]
           /\ plain_start' = plain_start + m
    /\ ev' = "step"
    /\ UNCHANGED <<peer, taken, mem, filled, plain_end, next_record, phase, closed, framed>>

\* After an error or the end of the session the caller may read again; a
\* transport that has nothing left may report the end of the stream.
CallAgain ==
    /\ \/ ev \in {"Error", "Closed"}
       \/ ev = "Recv" /\ taken = written
    /\ ev' = "step"
    /\ UNCHANGED <<peer, taken, mem, cursors, phase, closed, framed, out>>

\* connect has returned an error and the engine is gone.
Dropped == ev = "Failed" /\ UNCHANGED vars

-----------------------------------------------------------------------------
Init ==
    /\ recs = <<>> /\ written = 0 /\ taken = 0
    /\ mem = [i \in 0..(RECV - 1) |-> OwnByte]
    /\ filled = 0 /\ plain_start = 0 /\ plain_end = 0 /\ next_record = 0
    /\ phase = "handshake" /\ closed = FALSE /\ ev = "step"
    /\ framed = 0 /\ out = <<>>

Frame == NeedMore \/ RefuseTooLarge \/ RefuseOverLimit

Dispatch == DispatchControl \/ DispatchFinished \/ DispatchAppData

Caller == YieldAppData \/ YieldClosed \/ CallAgain \/ Dropped

Next ==
    \/ \E k \in Kinds, l \in BodyLens : \E c \in 0..l : PeerWrites(k, l, c)
    \/ \E n \in 1..RECV : Fill(n)
    \/ Frame
    \/ Dispatch
    \/ Caller
    \/ \E n \in 1..RECV : ReadApp(n)

Spec == Init /\ [][Next]_vars

-----------------------------------------------------------------------------
(* Properties.                                                             *)

\* Shapes of the variables.
TypeOK ==
    /\ recs \in Seq(Record) /\ written \in Nat /\ taken \in Nat
    /\ mem \in [0..(RECV - 1) -> Int]
    /\ filled \in Nat /\ plain_start \in Nat /\ plain_end \in Nat /\ next_record \in Nat
    /\ phase \in {"handshake", "data"} /\ closed \in BOOLEAN /\ ev \in Events
    /\ framed \in Nat /\ out \in Seq(Int)

\* I1 of RecvState: the cursors stay ordered and inside the buffer whatever
\* the framing, parking, draining and compaction do to them.
CursorsOrdered ==
    /\ plain_start <= plain_end
    /\ plain_end <= next_record
    /\ next_record <= filled
    /\ filled <= RECV

\* Whenever step asks for more bytes there is room for at least one: the
\* driver treats an empty recv_buffer() on Recv as a breach of this promise.
RecvHasRoom == ev = "Recv" => ~Parked /\ filled < RECV

\* Where the next record of the stream starts.
Boundary == IF framed = Len(recs) THEN written ELSE recs[framed + 1].start

\* The bytes behind next_record are exactly the stream from the next record
\* boundary on, in order: framing never loses the boundary, compaction never
\* moves the wrong range, and nothing else writes over unread bytes.
BufferHoldsStream ==
    /\ taken = Boundary + Buffered
    /\ \A i \in 0..(Buffered - 1) : mem[next_record + i] = Boundary + i

\* The content of the first k records, as stream positions.
ContentOf(r) ==
    IF r.kind = "app" THEN [j \in 1..r.content |-> r.start + TLS_HEADER + j - 1] ELSE <<>>
ContentUpTo(k) == Joined([j \in 1..k |-> ContentOf(recs[j])])

\* What the caller has read, followed by what is parked, is the application
\* data of the dispatched records: no byte is lost, repeated or reordered by
\* partial reads, coalesced records and compaction.
DeliveredInOrder ==
    out \o [j \in 1..(plain_end - plain_start) |-> mem[plain_start + j - 1]]
        = ContentUpTo(framed)

\* Only a protected record above the advertised limit, or one that could never
\* fit, is refused: what default_our_recv_limit announces always fits.
LegalNeverRefused ==
    (ev \in {"Error", "Failed"} \/ closed) =>
        /\ framed < Len(recs)
        /\ FramedRecord.len > IF FramedRecord.kind = "plain" THEN RECV - TLS_HEADER
                              ELSE OurRecvLimit + AEAD_TAG
===============================================================================
