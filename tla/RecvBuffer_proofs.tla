-------------------------- MODULE RecvBuffer_proofs --------------------------
(***************************************************************************)
(* Proofs about the receive buffer, for every buffer size, header size,    *)
(* record size limit and stream of records.  A connection without client   *)
(* authentication is assumed (AuthFlightLen = 0): with it the buffered     *)
(* stream may be overwritten, which a run of RecvBuffer shows.             *)
(***************************************************************************)
EXTENDS RecvBuffer, Joining_proofs, TLAPS

\* What the peer's stream looks like: the records lie one behind the other.
StreamLaidOut ==
    /\ \A k \in 1..Len(recs) :
         /\ recs[k].start + TLS_HEADER + recs[k].len
              = IF k = Len(recs) THEN written ELSE recs[k + 1].start
         /\ recs[k].kind = "app" => recs[k].content + 1 + AEAD_TAG <= recs[k].len
    /\ \A j, k \in 1..Len(recs) :
         j < k => recs[j].start + TLS_HEADER + recs[j].len <= recs[k].start
    /\ Len(recs) = 0 => written = 0
    /\ taken <= written
    /\ framed <= Len(recs)

\* The inductive invariant.
IInv == TypeOK /\ CursorsOrdered /\ RecvHasRoom /\ StreamLaidOut /\ BufferHoldsStream

\* The constants that matter here are numbers.
LEMMA Numbers ==
    /\ RECV \in Nat /\ AEAD_TAG \in Nat /\ TLS_HEADER \in Nat /\ TLS_HEADER > 0
    /\ RECV >= TLS_HEADER
BY RecvAssumption

\* In a state of the invariant a buffered header is the header of the next
\* record of the stream, and its length field is that record's length.
LEMMA HeaderIsNext ==
    ASSUME IInv, HeaderBuffered
    PROVE  /\ framed + 1 \in 1..Len(recs)
           /\ Boundary = recs[framed + 1].start
           /\ LengthField = recs[framed + 1].len
           /\ LengthField \in Nat
<1>1. framed \in Nat /\ Len(recs) \in Nat /\ framed <= Len(recs)
  BY DEF IInv, TypeOK, StreamLaidOut
<1>2. Buffered \in Nat /\ Buffered >= TLS_HEADER
  BY Numbers DEF IInv, TypeOK, CursorsOrdered, Buffered, HeaderBuffered
<1>3. framed # Len(recs)
  BY <1>1, <1>2, Numbers DEF IInv, TypeOK, StreamLaidOut, BufferHoldsStream, Boundary
<1>4. framed + 1 \in 1..Len(recs) /\ Boundary = recs[framed + 1].start
  BY <1>1, <1>3 DEF Boundary
<1>5. recs[framed + 1] \in Record
  BY <1>4 DEF IInv, TypeOK
<1>6. mem[next_record + TLS_HEADER - 1] = recs[framed + 1].start + TLS_HEADER - 1
  <2>1. TLS_HEADER - 1 \in 0..(Buffered - 1)
    BY <1>2, Numbers
  <2>2. mem[next_record + (TLS_HEADER - 1)] = Boundary + (TLS_HEADER - 1)
    BY <2>1 DEF IInv, BufferHoldsStream
  <2>3. next_record + (TLS_HEADER - 1) = next_record + TLS_HEADER - 1
        /\ Boundary + (TLS_HEADER - 1) = recs[framed + 1].start + TLS_HEADER - 1
    BY <1>4, <1>5, Numbers DEF IInv, TypeOK, Record
  <2> QED BY <2>2, <2>3
<1> DEFINE at == {k \in 1..Len(recs) :
                    recs[k].start + TLS_HEADER - 1 = mem[next_record + TLS_HEADER - 1]}
<1>7. at = {framed + 1}
  <2>1. framed + 1 \in at
    BY <1>4, <1>6
  <2>2. ASSUME NEW k \in at PROVE k = framed + 1
    <3>1. k \in 1..Len(recs) /\ recs[k] \in Record
      BY DEF IInv, TypeOK
    <3>2. recs[k].start = recs[framed + 1].start
      BY <1>5, <1>6, <3>1, Numbers DEF Record
    <3>3. \A i, j \in 1..Len(recs) :
            i < j => recs[i].start + TLS_HEADER + recs[i].len <= recs[j].start
      BY DEF IInv, StreamLaidOut
    <3>4. ~(k < framed + 1)
      BY <1>4, <1>5, <3>1, <3>2, <3>3, Numbers, SMTT(30) DEF Record
    <3>5. ~(framed + 1 < k)
      BY <1>4, <1>5, <3>1, <3>2, <3>3, Numbers DEF Record
    <3> QED BY <1>1, <3>1, <3>4, <3>5
  <2> QED BY <2>1, <2>2
<1>8. LengthField = recs[framed + 1].len
  BY <1>7 DEF LengthField, LengthAt
<1> QED BY <1>4, <1>5, <1>8 DEF Record

\* The invariant holds of an empty array.
LEMMA InitIInv == Init => IInv
<1> SUFFICES ASSUME Init PROVE IInv
  OBVIOUS
<1> USE Numbers DEF Init
<1>1. TypeOK
  <2>1. recs \in Seq(Record) /\ out \in Seq(Int)
    OBVIOUS
  <2>2. mem \in [0..(RECV - 1) -> Int]
    BY DEF OwnByte
  <2> QED BY <2>1, <2>2, Zenon DEF TypeOK, Events
<1>2. CursorsOrdered /\ RecvHasRoom
  BY DEF CursorsOrdered, RecvHasRoom, Parked
<1>3. StreamLaidOut
  BY DEF StreamLaidOut
<1>4. BufferHoldsStream
  BY DEF BufferHoldsStream, Boundary, Buffered
<1> QED BY <1>1, <1>2, <1>3, <1>4 DEF IInv

\* The peer appends a record: the client's side does not move.
LEMMA PeerWritesStep ==
    ASSUME IInv, NEW kind \in Kinds, NEW len \in BodyLens, NEW content \in 0..len,
           PeerWrites(kind, len, content)
    PROVE  IInv'
<1> USE Numbers
<1> DEFINE r == [kind |-> kind, start |-> written, len |-> len, content |-> content]
<1>1. len \in Nat /\ content \in Nat
  BY RecvAssumption
<1>2. r \in Record
  BY <1>1 DEF IInv, TypeOK, Record
<1>3. recs' = Append(recs, r) /\ written' = written + TLS_HEADER + len
  BY DEF PeerWrites
<1>4. /\ Len(recs) \in Nat
      /\ Len(recs') = Len(recs) + 1
      /\ \A k \in 1..Len(recs) : recs'[k] = recs[k] /\ recs[k] \in Record
      /\ recs'[Len(recs) + 1] = r
  BY <1>2, <1>3 DEF IInv, TypeOK
<1>5. UNCHANGED <<taken, mem, filled, plain_start, plain_end, next_record, phase, closed,
                  ev, framed, out>>
  BY DEF PeerWrites, cursors
<1>6. TypeOK'
  BY <1>1, <1>2, <1>3, <1>5 DEF IInv, TypeOK
<1>7. CursorsOrdered' /\ RecvHasRoom'
  BY <1>5 DEF IInv, CursorsOrdered, RecvHasRoom, Parked
<1>8. StreamLaidOut'
  <2>1. ASSUME NEW k \in 1..Len(recs')
        PROVE  /\ recs'[k].start + TLS_HEADER + recs'[k].len
                     = IF k = Len(recs') THEN written' ELSE recs'[k + 1].start
               /\ recs'[k].kind = "app" => recs'[k].content + 1 + AEAD_TAG <= recs'[k].len
    <3>1. CASE k = Len(recs) + 1
      BY <3>1, <1>1, <1>3, <1>4 DEF PeerWrites
    <3>2. CASE k = Len(recs)
      BY <3>2, <1>4, <2>1 DEF IInv, StreamLaidOut
    <3>3. CASE k < Len(recs)
      BY <3>3, <1>4, <2>1 DEF IInv, StreamLaidOut
    <3> QED BY <1>4, <3>1, <3>2, <3>3
  <2>2. ASSUME NEW j \in 1..Len(recs'), NEW k \in 1..Len(recs'), j < k
        PROVE  recs'[j].start + TLS_HEADER + recs'[j].len <= recs'[k].start
    <3>1. CASE k = Len(recs) + 1
      <4>1. j \in 1..Len(recs) /\ recs'[j] = recs[j] /\ recs[j] \in Record
        BY <3>1, <1>4, <2>2
      <4>4. recs'[k].start = written
        BY <3>1, <1>4
      <4>2. CASE j = Len(recs)
        BY <3>1, <4>1, <4>2, <1>4 DEF IInv, StreamLaidOut, TypeOK, Record
      <4>3. CASE j < Len(recs)
        <5>1. Len(recs) \in 1..Len(recs) /\ recs[Len(recs)] \in Record
          BY <4>1, <4>3, <1>4
        <5>2. recs[j].start + TLS_HEADER + recs[j].len <= recs[Len(recs)].start
          BY <4>1, <4>3, <5>1 DEF IInv, StreamLaidOut
        <5>3. recs[Len(recs)].start + TLS_HEADER + recs[Len(recs)].len = written
          BY <5>1, Zenon DEF IInv, StreamLaidOut
        <5>4. /\ recs[j].start \in Nat /\ recs[j].len \in Nat /\ written \in Nat
              /\ recs[Len(recs)].start \in Nat /\ recs[Len(recs)].len \in Nat
          BY <4>1, <5>1, Zenon DEF IInv, TypeOK, Record
        <5>5. recs[j].start + TLS_HEADER + recs[j].len <= written
          <6>1. \A a, b, c, d, e \in Nat : a + TLS_HEADER + b <= c /\ c + TLS_HEADER + d = e
                                          => a + TLS_HEADER + b <= e
            OBVIOUS
          <6> QED BY <5>2, <5>3, <5>4, <6>1, ZenonT(40)
        <5> QED BY <4>1, <4>4, <5>5
      <4> QED BY <4>1, <4>2, <4>3, <1>4
    <3>2. CASE k <= Len(recs)
      BY <3>2, <1>4, <2>2 DEF IInv, StreamLaidOut
    <3> QED BY <1>4, <3>1, <3>2
  <2>3. taken' <= written' /\ framed' <= Len(recs') /\ Len(recs') # 0
    BY <1>1, <1>3, <1>4, <1>5 DEF IInv, TypeOK, StreamLaidOut
  <2> QED BY <2>1, <2>2, <2>3, Zenon DEF StreamLaidOut
<1>9. BufferHoldsStream'
  <2>1. Boundary' = Boundary
    <3>1. CASE framed = Len(recs)
      <4>1. recs'[framed' + 1].start = written /\ framed' # Len(recs')
        BY <3>1, <1>4, <1>5
      <4> QED BY <3>1, <4>1 DEF Boundary
    <3>2. CASE framed # Len(recs)
      <4>1. framed + 1 \in 1..Len(recs) /\ framed' # Len(recs') /\ framed' = framed
        BY <3>2, <1>4, <1>5 DEF IInv, TypeOK, StreamLaidOut
      <4> QED BY <3>2, <4>1, <1>4 DEF Boundary
    <3> QED BY <3>1, <3>2
  <2> QED BY <2>1, <1>5 DEF IInv, BufferHoldsStream, Buffered
<1> QED BY <1>6, <1>7, <1>8, <1>9 DEF IInv

\* Bytes arrive behind `filled`.
LEMMA FillStep ==
    ASSUME IInv, NEW n \in 1..RECV, Fill(n)
    PROVE  IInv'
<1> USE Numbers
<1>1. n \in Nat /\ n >= 1 /\ filled + n <= RECV /\ taken + n <= written
  BY DEF Fill, IInv, TypeOK
<1>2. UNCHANGED <<recs, written, plain_start, plain_end, next_record, phase, closed, framed, out>>
  BY DEF Fill, peer
<1>3. filled' = filled + n /\ taken' = taken + n /\ ev' = "step"
  BY DEF Fill
<1>4. mem' = [i \in 0..(RECV - 1) |->
                IF i >= filled /\ i < filled + n THEN taken + (i - filled) ELSE mem[i]]
  BY DEF Fill
<1>5. mem' \in [0..(RECV - 1) -> Int]
  BY <1>4 DEF IInv, TypeOK
<1>6. TypeOK'
  BY <1>1, <1>2, <1>3, <1>5 DEF IInv, TypeOK, Events
<1>7. CursorsOrdered' /\ RecvHasRoom'
  BY <1>1, <1>2, <1>3 DEF IInv, TypeOK, CursorsOrdered, RecvHasRoom
<1>8. StreamLaidOut'
  BY <1>1, <1>2, <1>3, SMTT(30) DEF IInv, TypeOK, StreamLaidOut
<1>9. BufferHoldsStream'
  <2>1. Boundary' = Boundary /\ Buffered' = Buffered + n /\ Buffered \in Nat
    BY <1>1, <1>2, <1>3, SMTT(30) DEF Boundary, Buffered, IInv, TypeOK, CursorsOrdered
  <2>2. taken = Boundary + Buffered /\ Boundary \in Int
    <3>1. framed # Len(recs) => recs[framed + 1] \in Record
      BY DEF IInv, TypeOK, StreamLaidOut
    <3> QED BY <3>1 DEF IInv, TypeOK, BufferHoldsStream, Boundary, Record
  <2>3. taken' = Boundary' + Buffered'
    BY <1>1, <1>3, <2>1, <2>2
  <2>4. ASSUME NEW i \in 0..(Buffered' - 1)
        PROVE  mem'[next_record' + i] = Boundary' + i
    <3>1. next_record + i \in 0..(RECV - 1) /\ next_record' = next_record
      BY <1>1, <1>2, <2>1 DEF Buffered, IInv, TypeOK, CursorsOrdered
    <3>2. CASE i < Buffered
      <4>1. mem'[next_record + i] = mem[next_record + i]
        BY <1>4, <3>1, <3>2 DEF Buffered, IInv, TypeOK
      <4>2. mem[next_record + i] = Boundary + i
        BY <3>2, <2>1 DEF IInv, BufferHoldsStream
      <4> QED BY <2>1, <3>1, <4>1, <4>2
    <3>3. CASE i >= Buffered
      <4>1. mem'[next_record + i] = taken + ((next_record + i) - filled)
        BY <1>1, <1>4, <2>1, <3>1, <3>3 DEF Buffered, IInv, TypeOK
      <4> QED BY <2>1, <2>2, <3>1, <4>1 DEF Buffered, IInv, TypeOK
    <3> QED BY <2>1, <3>2, <3>3
  <2> QED BY <2>3, <2>4 DEF BufferHoldsStream
<1> QED BY <1>6, <1>7, <1>8, <1>9 DEF IInv

\* Steps that only report an event.
LEMMA QuietStep ==
    ASSUME IInv,
           UNCHANGED <<recs, written, taken, mem, filled, plain_start, plain_end,
                       next_record, phase, framed, out>>,
           closed' \in BOOLEAN, ev' \in Events, ev' # "Recv"
    PROVE  IInv'
<1>1. TypeOK' /\ CursorsOrdered' /\ RecvHasRoom' /\ StreamLaidOut'
  BY DEF IInv, TypeOK, CursorsOrdered, RecvHasRoom, StreamLaidOut
<1>2. BufferHoldsStream'
  BY DEF IInv, BufferHoldsStream, Boundary, Buffered
<1> QED BY <1>1, <1>2 DEF IInv

\* Asking for more bytes, with or without a compaction, leaves room for them.
LEMMA NeedMoreStep ==
    ASSUME IInv, NeedMore
    PROVE  IInv'
<1> USE Numbers
<1>1. UNCHANGED <<recs, written, taken, phase, closed, framed, out>> /\ ev' = "Recv"
  BY DEF NeedMore, peer
<1>2. ~Parked /\ ~TooLarge /\ ~RecordBuffered
  BY DEF NeedMore, Framing
<1>3. Buffered \in Nat /\ next_record + Buffered = filled
  BY DEF IInv, TypeOK, CursorsOrdered, Buffered
<1>4. Buffered < RECV
  <2>1. CASE ~HeaderBuffered
    BY <2>1, <1>3 DEF HeaderBuffered
  <2>2. CASE HeaderBuffered
    <3>1. LengthField \in Nat
      BY <2>2, HeaderIsNext
    <3>2. LengthField <= RECV - TLS_HEADER /\ ~(filled >= next_record + TLS_HEADER + LengthField)
      BY <2>2, <3>1, <1>2 DEF TooLarge, RecordBuffered, RecordEnd
    <3> QED BY <3>1, <3>2, <1>3 DEF IInv, TypeOK
  <2> QED BY <2>1, <2>2
<1>5. Boundary' = Boundary
  BY <1>1 DEF Boundary
<1>6. CASE next_record > 0
  <2>1. /\ filled' = Buffered /\ plain_start' = 0 /\ plain_end' = 0 /\ next_record' = 0
        /\ mem' = [i \in 0..(RECV - 1) |->
                     IF i < Buffered THEN mem[next_record + i] ELSE mem[i]]
    BY <1>6 DEF NeedMore, CompactRecv
  <2>2. mem' \in [0..(RECV - 1) -> Int]
    <3>1. \A i \in 0..(RECV - 1) : i < Buffered => next_record + i \in 0..(RECV - 1)
      BY <1>3 DEF IInv, TypeOK, CursorsOrdered
    <3> QED BY <2>1, <3>1, <1>3, Zenon DEF IInv, TypeOK
  <2>3. TypeOK'
    BY <1>1, <1>3, <2>1, <2>2, Zenon DEF IInv, TypeOK, Events
  <2>4. CursorsOrdered' /\ RecvHasRoom'
    BY <1>3, <1>4, <2>1 DEF CursorsOrdered, RecvHasRoom, Parked
  <2>5. StreamLaidOut'
    BY <1>1 DEF IInv, StreamLaidOut
  <2>6. BufferHoldsStream'
    <3>1. Buffered' = Buffered
      BY <1>3, <2>1 DEF Buffered
    <3>2. ASSUME NEW i \in 0..(Buffered - 1) PROVE mem'[next_record' + i] = Boundary + i
      <4>1. mem'[i] = mem[next_record + i] /\ next_record' + i = i
        BY <1>3, <1>4, <2>1, <3>2
      <4> QED BY <4>1, <3>2 DEF IInv, BufferHoldsStream
    <3> QED BY <3>1, <3>2, <1>1, <1>5 DEF IInv, BufferHoldsStream
  <2> QED BY <2>3, <2>4, <2>5, <2>6 DEF IInv
<1>7. CASE ~(next_record > 0)
  <2>1. UNCHANGED <<mem, filled, plain_start, plain_end, next_record>>
    BY <1>7 DEF NeedMore, cursors
  <2>2. TypeOK' /\ CursorsOrdered' /\ StreamLaidOut'
    BY <1>1, <2>1 DEF IInv, TypeOK, CursorsOrdered, StreamLaidOut, Events
  <2>3. RecvHasRoom'
    BY <1>2, <1>3, <1>4, <1>7, <2>1 DEF RecvHasRoom, Parked, IInv, TypeOK
  <2>4. BufferHoldsStream'
    BY <1>1, <1>5, <2>1 DEF IInv, BufferHoldsStream, Buffered
  <2> QED BY <2>2, <2>3, <2>4 DEF IInv
<1> QED BY <1>6, <1>7

\* What every dispatch does to the cursors: the record is consumed and the
\* next one of the stream is now in front.
LEMMA ConsumeStep ==
    ASSUME IInv, Framing, RecordBuffered,
           UNCHANGED <<recs, written, taken, mem, filled>>,
           next_record' = RecordEnd, framed' = framed + 1, ev' = "step",
           phase' \in {"handshake", "data"}, closed' \in BOOLEAN, out' = out,
           plain_start' \in Nat, plain_end' \in Nat,
           plain_start' <= plain_end', plain_end' <= RecordEnd
    PROVE  IInv'
<1> USE Numbers
<1>1. /\ framed + 1 \in 1..Len(recs) /\ Boundary = recs[framed + 1].start
      /\ LengthField = recs[framed + 1].len /\ LengthField \in Nat
  BY HeaderIsNext DEF RecordBuffered
<1>2. filled >= RecordEnd /\ RecordEnd = next_record + TLS_HEADER + LengthField
  BY DEF RecordBuffered, RecordEnd
<1>3. RecordEnd \in Nat
  BY <1>1, <1>2, SMTT(30) DEF IInv, TypeOK
<1>4. TypeOK'
  BY <1>3 DEF IInv, TypeOK, Events
<1>5. CursorsOrdered' /\ RecvHasRoom'
  BY <1>2 DEF IInv, TypeOK, CursorsOrdered, RecvHasRoom
<1>6. StreamLaidOut'
  BY <1>1 DEF IInv, TypeOK, StreamLaidOut
<1>7. Boundary' = Boundary + TLS_HEADER + LengthField
  <2>1. recs[framed + 1].start + TLS_HEADER + recs[framed + 1].len
          = IF framed + 1 = Len(recs) THEN written ELSE recs[(framed + 1) + 1].start
    BY <1>1 DEF IInv, StreamLaidOut
  <2> QED BY <1>1, <2>1 DEF Boundary
<1>8. BufferHoldsStream'
  <2> DEFINE size == TLS_HEADER + LengthField
  <2>1. size \in Nat /\ RecordEnd = next_record + size
    <3>1. next_record \in Nat /\ LengthField \in Nat
      BY <1>1 DEF IInv, TypeOK
    <3> QED BY <1>2, <3>1
  <2>2. Boundary \in Nat /\ Boundary' = Boundary + size
    <3>1. recs[framed + 1] \in Record
      BY <1>1 DEF IInv, TypeOK
    <3>2. recs[framed + 1].start \in Nat
      BY <3>1 DEF Record
    <3> QED BY <1>1, <1>7, <3>2, SMTT(30)
  <2>3. Buffered \in Nat /\ next_record \in Nat /\ filled \in Nat
    BY DEF IInv, TypeOK, CursorsOrdered, Buffered
  <2> HIDE DEF size
  <2>4. Buffered' = Buffered - size
    BY <2>1, <2>3 DEF Buffered
  <2>5. taken' = Boundary' + Buffered'
    BY <2>1, <2>2, <2>3, <2>4 DEF IInv, BufferHoldsStream
  <2>6. ASSUME NEW i \in 0..(Buffered' - 1) PROVE mem'[next_record' + i] = Boundary' + i
    <3>1. size + i \in 0..(Buffered - 1)
      BY <2>1, <2>3, <2>4
    <3>2. mem[next_record + (size + i)] = Boundary + (size + i)
      BY <3>1 DEF IInv, BufferHoldsStream
    <3>3. next_record + (size + i) = next_record' + i /\ Boundary + (size + i) = Boundary' + i
      BY <2>1, <2>2, <2>3, <2>4
    <3> QED BY <3>2, <3>3
  <2> QED BY <2>5, <2>6 DEF BufferHoldsStream
<1> QED BY <1>4, <1>5, <1>6, <1>8 DEF IInv

\* The inductive step, one case per action of the next-state relation.
LEMMA NextIInv ==
    ASSUME AuthFlightLen = 0, IInv, [Next]_vars
    PROVE  IInv'
<1> USE Numbers
<1>1. CASE UNCHANGED vars
  BY <1>1 DEF vars, IInv, TypeOK, CursorsOrdered, RecvHasRoom, Parked, StreamLaidOut,
              BufferHoldsStream, Boundary, Buffered
<1>2. CASE \E k \in Kinds, l \in BodyLens : \E c \in 0..l : PeerWrites(k, l, c)
  BY <1>2, PeerWritesStep
<1>3. CASE \E n \in 1..RECV : Fill(n)
  BY <1>3, FillStep
<1>4. CASE NeedMore
  BY <1>4, NeedMoreStep
<1>5. CASE RefuseTooLarge
  BY <1>5, QuietStep DEF RefuseTooLarge, peer, cursors, Events, IInv, TypeOK
<1>6. CASE RefuseOverLimit
  BY <1>6, QuietStep DEF RefuseOverLimit, peer, cursors, Events
<1>7. CASE DispatchControl
  <2>1. /\ Framing /\ RecordBuffered /\ next_record' = RecordEnd /\ framed' = framed + 1
        /\ UNCHANGED <<recs, written, taken, mem, filled, plain_start, plain_end, phase,
                       closed, ev, out>>
    BY <1>7 DEF DispatchControl, peer
  <2>2. RecordEnd >= next_record
    BY <2>1, HeaderIsNext DEF RecordBuffered, RecordEnd, IInv, TypeOK
  <2>3. ev' = "step"
    BY <2>1 DEF Framing
  <2>4. /\ plain_start' \in Nat /\ plain_end' \in Nat /\ plain_start' <= plain_end'
        /\ plain_end' <= RecordEnd /\ phase' \in {"handshake", "data"} /\ closed' \in BOOLEAN
    <3>1. RecordEnd \in Int
      BY <2>1, HeaderIsNext DEF RecordBuffered, RecordEnd, IInv, TypeOK
    <3> QED BY <2>1, <2>2, <3>1 DEF IInv, TypeOK, CursorsOrdered
  <2> QED BY <2>1, <2>3, <2>4, ConsumeStep
<1>8. CASE DispatchFinished
  <2>1. /\ Framing /\ RecordBuffered /\ next_record' = RecordEnd /\ framed' = framed + 1
        /\ phase' = "data"
        /\ UNCHANGED <<recs, written, taken, filled, plain_start, plain_end, closed, ev, out>>
    BY <1>8 DEF DispatchFinished, peer
  <2>2. mem' = mem
    <3>1. mem' = [i \in 0..(RECV - 1) |-> IF i < 0 THEN OwnByte ELSE mem[i]]
      BY <1>8 DEF DispatchFinished
    <3> QED BY <3>1 DEF IInv, TypeOK
  <2>3. RecordEnd \in Int /\ RecordEnd >= next_record
    BY <2>1, HeaderIsNext DEF RecordBuffered, RecordEnd, IInv, TypeOK
  <2>4. /\ plain_start' \in Nat /\ plain_end' \in Nat /\ plain_start' <= plain_end'
        /\ plain_end' <= RecordEnd /\ closed' \in BOOLEAN /\ ev' = "step"
    BY <2>1, <2>3 DEF IInv, TypeOK, CursorsOrdered, Framing
  <2> QED BY <2>1, <2>2, <2>4, ConsumeStep
<1>9. CASE DispatchAppData
  <2>1. /\ Framing /\ RecordBuffered /\ next_record' = RecordEnd /\ framed' = framed + 1
        /\ UNCHANGED <<recs, written, taken, mem, filled, phase, closed, ev, out>>
    BY <1>9 DEF DispatchAppData, peer
  <2>2. /\ framed + 1 \in 1..Len(recs) /\ LengthField \in Nat
        /\ LengthField = recs[framed + 1].len
    BY <2>1, HeaderIsNext DEF RecordBuffered
  <2>3. RecordEnd \in Nat /\ RecordEnd = next_record + TLS_HEADER + LengthField
    BY <2>2 DEF RecordEnd, IInv, TypeOK
  <2>4. FramedRecord.content \in Nat /\ FramedRecord.content <= LengthField
    <3>1. recs[framed + 1] \in Record
      BY <2>2 DEF IInv, TypeOK
    <3>2. recs[framed + 1].content + 1 + AEAD_TAG <= recs[framed + 1].len
      BY <1>9, <2>2 DEF DispatchAppData, FramedRecord, IInv, StreamLaidOut
    <3>3. recs[framed + 1].content \in Nat
      BY <3>1 DEF Record
    <3> QED BY <2>2, <3>2, <3>3 DEF FramedRecord
  <2>5. /\ plain_start' \in Nat /\ plain_end' \in Nat /\ plain_start' <= plain_end'
        /\ plain_end' <= RecordEnd
    <3>1. next_record \in Nat /\ plain_start \in Nat /\ plain_end \in Nat
          /\ plain_start <= plain_end /\ plain_end <= next_record
      BY DEF IInv, TypeOK, CursorsOrdered
    <3>2. CASE FramedRecord.content > 0
      <4>1. /\ plain_start' = next_record + TLS_HEADER
            /\ plain_end' = next_record + TLS_HEADER + FramedRecord.content
        BY <1>9, <3>2 DEF DispatchAppData
      <4> QED BY <2>2, <2>3, <2>4, <3>1, <4>1
    <3>3. CASE ~(FramedRecord.content > 0)
      BY <1>9, <2>2, <2>3, <3>1, <3>3, SMTT(30) DEF DispatchAppData
    <3> QED BY <3>2, <3>3
  <2>6. ev' = "step" /\ phase' \in {"handshake", "data"} /\ closed' \in BOOLEAN
    BY <2>1 DEF Framing, IInv, TypeOK
  <2> QED BY <2>1, <2>5, <2>6, ConsumeStep
<1>10. CASE YieldAppData \/ YieldClosed \/ CallAgain
  BY <1>10, QuietStep DEF YieldAppData, YieldClosed, CallAgain, peer, cursors, Events, IInv, TypeOK
<1>11. CASE Dropped
  BY <1>1, <1>11 DEF Dropped
<1>12. ASSUME NEW n \in 1..RECV, ReadApp(n) PROVE IInv'
  <2> DEFINE m == IF n < plain_end - plain_start THEN n ELSE plain_end - plain_start
  <2>1. /\ m \in Nat /\ m <= plain_end - plain_start
        /\ out' = out \o [j \in 1..m |-> mem[plain_start + j - 1]]
        /\ plain_start' = plain_start + m
    <3>1. n \in Nat /\ plain_start \in Nat /\ plain_end \in Nat /\ plain_start <= plain_end
      BY DEF IInv, TypeOK, CursorsOrdered
    <3>2. m \in Nat /\ m <= plain_end - plain_start
      BY <3>1
    <3> QED BY <1>12, <3>2 DEF ReadApp
  <2> HIDE DEF m
  <2>2. /\ ev' = "step"
        /\ UNCHANGED <<recs, written, taken, mem, filled, plain_end, next_record, phase,
                       closed, framed>>
    BY <1>12 DEF ReadApp, peer
  <2>3. out' \in Seq(Int)
    <3>1. \A j \in 1..m : mem[plain_start + j - 1] \in Int
      BY <2>1 DEF IInv, TypeOK, CursorsOrdered
    <3>2. [j \in 1..m |-> mem[plain_start + j - 1]] \in Seq(Int)
      BY <2>1, <3>1
    <3> QED BY <2>1, <3>2 DEF IInv, TypeOK
  <2>4. TypeOK'
    BY <2>1, <2>2, <2>3 DEF IInv, TypeOK, Events
  <2>5. CursorsOrdered' /\ RecvHasRoom' /\ StreamLaidOut'
    BY <2>1, <2>2 DEF IInv, TypeOK, CursorsOrdered, RecvHasRoom, StreamLaidOut
  <2>6. BufferHoldsStream'
    BY <2>2 DEF IInv, BufferHoldsStream, Boundary, Buffered
  <2> QED BY <2>4, <2>5, <2>6 DEF IInv
<1> QED BY <1>1, <1>2, <1>3, <1>4, <1>5, <1>6, <1>7, <1>8, <1>9, <1>10, <1>11, <1>12
        DEF Next, Frame, Dispatch, Caller

\* Every reachable state satisfies the inductive invariant.
THEOREM Invariance == AuthFlightLen = 0 => (Spec => []IInv)
<1>1. ASSUME AuthFlightLen = 0 PROVE Spec => []IInv
  <2>1. IInv /\ [Next]_vars => IInv'
    BY <1>1, NextIInv
  <2> QED BY <2>1, InitIInv, PTL DEF Spec
<1> QED BY <1>1

\* I1 of RecvState: 0 <= plain_start <= plain_end <= next_record <= filled
\* <= RECV, for every buffer size and however the transport cuts the stream.
THEOREM CursorsStayOrdered == AuthFlightLen = 0 => (Spec => []CursorsOrdered)
<1>1. IInv => CursorsOrdered
  BY DEF IInv
<1> QED BY <1>1, Invariance, PTL

\* Whenever the framer asks for bytes there is room for one, so the driver's
\* RecvBufferEmptyOnRecvEvent is never raised.
THEOREM RecvAlwaysHasRoom == AuthFlightLen = 0 => (Spec => []RecvHasRoom)
<1>1. IInv => RecvHasRoom
  BY DEF IInv
<1> QED BY <1>1, Invariance, PTL

\* The unread part of the buffer is the peer's stream from the next record
\* boundary on: framing never loses synchronisation.
THEOREM FramingStaysInSync == AuthFlightLen = 0 => (Spec => []BufferHoldsStream)
<1>1. IInv => BufferHoldsStream
  BY DEF IInv
<1> QED BY <1>1, Invariance, PTL
-----------------------------------------------------------------------------
(* What is refused.                                                        *)

\* The limit that is advertised, with its tag, fits the buffer.
LEMMA LimitFits == OurRecvLimit \in Nat /\ OurRecvLimit + AEAD_TAG <= RECV - TLS_HEADER
BY RecvAssumption DEF OurRecvLimit, RECORD_OVERHEAD

\* The record the framer stands at stays where it is while the peer writes on.
LEMMA FramedStays ==
    ASSUME IInv, LegalNeverRefused, ev \in {"Error", "Failed"} \/ closed,
           NEW kind \in Kinds, NEW len \in BodyLens, NEW content \in 0..len,
           PeerWrites(kind, len, content)
    PROVE  framed' < Len(recs') /\ FramedRecord' = FramedRecord
<1>1. recs \in Seq(Record) /\ framed \in Nat /\ framed < Len(recs) /\ framed' = framed
  BY DEF IInv, TypeOK, LegalNeverRefused, PeerWrites
<1>2. [kind |-> kind, start |-> written, len |-> len, content |-> content] \in Record
  BY RecvAssumption DEF IInv, TypeOK, Record
<1>3. Len(recs') = Len(recs) + 1 /\ \A k \in 1..Len(recs) : recs'[k] = recs[k]
  BY <1>1, <1>2 DEF PeerWrites
<1> QED BY <1>1, <1>3 DEF FramedRecord

\* No step refuses a record that keeps to the limit.
LEMMA NextLegal ==
    ASSUME IInv, LegalNeverRefused, [Next]_vars
    PROVE  LegalNeverRefused'
<1> USE Numbers
<1>1. CASE /\ UNCHANGED <<recs, framed>>
           /\ (ev' \in {"Error", "Failed"} \/ closed') => (ev \in {"Error", "Failed"} \/ closed)
  BY <1>1 DEF LegalNeverRefused, FramedRecord
<1>2. CASE \E k \in Kinds, l \in BodyLens : \E c \in 0..l : PeerWrites(k, l, c)
  <2>0. PICK k \in Kinds, l \in BodyLens : \E c \in 0..l : PeerWrites(k, l, c)
    BY <1>2
  <2>1. PICK c \in 0..l : PeerWrites(k, l, c)
    BY <2>0
  <2>2. UNCHANGED <<ev, closed>>
    BY <2>1 DEF PeerWrites
  <2> QED BY <2>1, <2>2, FramedStays DEF LegalNeverRefused
<1>3. CASE RefuseTooLarge
  <2>1. HeaderBuffered /\ LengthField > RECV - TLS_HEADER /\ UNCHANGED <<recs, framed>>
    BY <1>3 DEF RefuseTooLarge, TooLarge, peer
  <2>2. framed + 1 \in 1..Len(recs) /\ FramedRecord.len > RECV - TLS_HEADER
        /\ FramedRecord.len \in Nat /\ framed \in Nat
    BY <2>1, HeaderIsNext DEF FramedRecord, IInv, TypeOK
  <2>3. FramedRecord.len > OurRecvLimit + AEAD_TAG /\ framed < Len(recs)
    BY <2>2, LimitFits
  <2> QED BY <2>1, <2>2, <2>3 DEF LegalNeverRefused, FramedRecord
<1>4. CASE RefuseOverLimit
  <2>1. RecordBuffered /\ ~WithinLimit /\ UNCHANGED <<recs, framed>>
    BY <1>4 DEF RefuseOverLimit, peer
  <2>2. framed + 1 \in 1..Len(recs) /\ LengthField = FramedRecord.len /\ LengthField \in Nat
        /\ framed \in Nat
    BY <2>1, HeaderIsNext DEF RecordBuffered, FramedRecord, IInv, TypeOK
  <2>3. FramedRecord.kind # "plain" /\ FramedRecord.len > OurRecvLimit + AEAD_TAG
    BY <2>1, <2>2, LimitFits DEF WithinLimit
  <2> QED BY <2>1, <2>2, <2>3 DEF LegalNeverRefused, FramedRecord
<1>5. CASE Dispatch
  BY <1>5 DEF Dispatch, DispatchControl, DispatchFinished, DispatchAppData, Framing, LegalNeverRefused
<1>6. CASE (\E n \in 1..RECV : Fill(n)) \/ NeedMore \/ (\E n \in 1..RECV : ReadApp(n)) \/ UNCHANGED vars
  BY <1>1, <1>6 DEF Fill, NeedMore, ReadApp, vars, peer
<1>7. CASE Caller
  BY <1>1, <1>7 DEF Caller, YieldAppData, YieldClosed, CallAgain, Dropped, vars, peer
<1> QED BY <1>2, <1>3, <1>4, <1>5, <1>6, <1>7 DEF Next, Frame

\* Only a protected record above the advertised limit, or a plaintext one that
\* exceeds the buffer, is refused, for every buffer size: what
\* default_our_recv_limit announces always fits.
THEOREM LegalAlwaysTaken == AuthFlightLen = 0 => (Spec => []LegalNeverRefused)
<1>1. ASSUME AuthFlightLen = 0 PROVE Spec => []LegalNeverRefused
  <2>1. Init => LegalNeverRefused
    BY DEF Init, LegalNeverRefused
  <2>2. LegalNeverRefused /\ IInv /\ [Next]_vars => LegalNeverRefused'
    BY NextLegal
  <2>3. Spec => []IInv
    BY <1>1, Invariance
  <2> QED BY <2>1, <2>2, <2>3, PTL DEF Spec
<1> QED BY <1>1
-----------------------------------------------------------------------------
(* What the caller reads is the application data of the records, in order. *)

\* What is parked, as stream positions.
ParkedBytes == [j \in 1..(plain_end - plain_start) |-> mem[plain_start + j - 1]]

\* The content of a record is a sequence of stream positions.
LEMMA ContentIsSeq ==
    ASSUME NEW r \in Record
    PROVE  ContentOf(r) \in Seq(Int)
<1>1. r.content \in Nat /\ r.start \in Nat
  BY DEF Record
<1>2. \A j \in 1..r.content : r.start + TLS_HEADER + j - 1 \in Int
  BY <1>1, Numbers
<1> QED BY <1>1, <1>2 DEF ContentOf

\* One more record adds its content.
LEMMA ContentNext ==
    ASSUME recs \in Seq(Record), NEW k \in Nat, k + 1 <= Len(recs)
    PROVE  /\ ContentUpTo(k) \in Seq(Int)
           /\ ContentUpTo(k + 1) = ContentUpTo(k) \o ContentOf(recs[k + 1])
<1> DEFINE ss == [j \in 1..k |-> ContentOf(recs[j])]
           tt == [j \in 1..(k + 1) |-> ContentOf(recs[j])]
           s == ContentOf(recs[k + 1])
<1>1. \A j \in 1..(k + 1) : ContentOf(recs[j]) \in Seq(Int)
  <2>1. \A j \in 1..(k + 1) : recs[j] \in Record
    OBVIOUS
  <2> QED BY <2>1, ContentIsSeq
<1> HIDE DEF s
<1>2. s \in Seq(Int) /\ ss \in Seq(Seq(Int)) /\ tt \in Seq(Seq(Int)) /\ Len(ss) = k
  BY <1>1 DEF s
<1>3. tt = Append(ss, s)
  BY <1>2 DEF s
<1> HIDE DEF ss, tt
<1>4. Joined(ss) \in Seq(Int) /\ Joined(tt) = Joined(ss) \o s
  BY <1>2, <1>3, JoinedType, JoinedAppend
<1> QED BY <1>4, Zenon DEF ContentUpTo, ss, tt, s

\* The content of the dispatched records is that of a prefix of the stream:
\* a record behind them changes nothing.
LEMMA ContentKept ==
    ASSUME IInv, \A j \in 1..Len(recs) : recs'[j] = recs[j], framed' = framed
    PROVE  /\ ContentUpTo(framed) \in Seq(Int)
           /\ ContentUpTo(framed)' = ContentUpTo(framed)
<1>1. framed \in Nat /\ framed <= Len(recs) /\ recs \in Seq(Record) /\ Len(recs) \in Nat
  BY DEF IInv, TypeOK, StreamLaidOut
<1>2. [j \in 1..framed |-> ContentOf(recs[j])] \in Seq(Seq(Int))
  <2>1. \A j \in 1..framed : recs[j] \in Record
    BY <1>1
  <2>2. \A j \in 1..framed : ContentOf(recs[j]) \in Seq(Int)
    BY <2>1, ContentIsSeq
  <2> QED BY <1>1, <2>2
<1>3. ContentUpTo(framed) \in Seq(Int)
  BY <1>2, JoinedType DEF ContentUpTo
<1>4. [j \in 1..framed |-> ContentOf(recs[j])]' = [j \in 1..framed |-> ContentOf(recs[j])]
  <2>1. \A j \in 1..framed : ContentOf(recs[j])' = ContentOf(recs[j])
    <3>1. \A j \in 1..framed : recs'[j] = recs[j]
      BY <1>1
    <3> QED BY <3>1, Zenon DEF ContentOf
  <2> QED BY <2>1
<1> QED BY <1>3, <1>4, Zenon DEF ContentUpTo

\* Nothing parked is nothing to deliver.
LEMMA NothingParked ==
    ASSUME IInv, ~Parked
    PROVE  plain_start = plain_end /\ ParkedBytes = <<>>
<1>1. plain_start = plain_end /\ plain_start \in Nat
  BY DEF IInv, TypeOK, CursorsOrdered, Parked
<1> QED BY <1>1 DEF ParkedBytes

\* A dispatched record without application data leaves the delivery alone.
LEMMA SilentDispatch ==
    ASSUME IInv, DeliveredInOrder, ~Parked, framed + 1 \in 1..Len(recs),
           ContentOf(recs[framed + 1]) = <<>>, framed' = framed + 1,
           UNCHANGED <<recs, out, plain_start, plain_end>>
    PROVE  DeliveredInOrder'
<1>1. recs \in Seq(Record) /\ framed \in Nat /\ framed + 1 <= Len(recs) /\ out \in Seq(Int)
  BY DEF IInv, TypeOK
<1>2. /\ ContentUpTo(framed) \in Seq(Int)
      /\ ContentUpTo(framed + 1) = ContentUpTo(framed) \o ContentOf(recs[framed + 1])
  BY <1>1, ContentNext, Zenon
<1>3. ContentUpTo(framed + 1) = ContentUpTo(framed)
  BY <1>2, ConcatEmptySeq
<1>4. plain_start = plain_end /\ plain_start \in Nat
  BY NothingParked DEF IInv, TypeOK
<1>5. ContentUpTo(framed)' = ContentUpTo(framed + 1)
  BY DEF ContentUpTo, ContentOf
<1>6. [j \in 1..(plain_end - plain_start) |-> mem[plain_start + j - 1]]' = <<>>
      /\ [j \in 1..(plain_end - plain_start) |-> mem[plain_start + j - 1]] = <<>>
  BY <1>4
<1> QED BY <1>3, <1>5, <1>6, Zenon DEF DeliveredInOrder

\* Application data is parked where it lies: those are its stream positions.
LEMMA ParkingDelivers ==
    ASSUME IInv, DeliveredInOrder, DispatchAppData
    PROVE  DeliveredInOrder'
<1> USE Numbers
<1> DEFINE r == recs[framed + 1]
<1>1. /\ framed + 1 \in 1..Len(recs) /\ LengthField = r.len /\ LengthField \in Nat
      /\ Boundary = r.start
  BY HeaderIsNext DEF DispatchAppData, RecordBuffered
<1>2. /\ ~Parked /\ r.kind = "app" /\ framed' = framed + 1
      /\ UNCHANGED <<recs, out, mem>> /\ filled >= RecordEnd
      /\ next_record \in Nat /\ filled \in Nat
  BY DEF DispatchAppData, peer, Framing, FramedRecord, RecordBuffered, IInv, TypeOK
<1>3. /\ r \in Record /\ r.content \in Nat /\ r.content + 1 + AEAD_TAG <= r.len
      /\ r.start \in Nat /\ r.len \in Nat
  <2>1. r \in Record
    BY <1>1 DEF IInv, TypeOK
  <2>2. r.content + 1 + AEAD_TAG <= r.len
    BY <1>1, <1>2 DEF IInv, StreamLaidOut
  <2> QED BY <2>1, <2>2 DEF Record
<1>4. ContentOf(r) = [j \in 1..r.content |-> r.start + TLS_HEADER + j - 1]
  BY <1>2 DEF ContentOf
<1>5. CASE r.content = 0
  <2>1. ContentOf(r) = <<>>
    BY <1>4, <1>5
  <2>2. UNCHANGED <<plain_start, plain_end>>
    BY <1>5 DEF DispatchAppData, FramedRecord
  <2> HIDE DEF r
  <2> QED BY <1>1, <1>2, <2>1, <2>2, SilentDispatch DEF r
<1>6. CASE r.content # 0
  <2>1. /\ plain_start' = next_record + TLS_HEADER
        /\ plain_end' = next_record + TLS_HEADER + r.content
    BY <1>3, <1>6 DEF DispatchAppData, FramedRecord
  <2>2. ASSUME NEW j \in 1..r.content
        PROVE  mem[next_record + TLS_HEADER + j - 1] = r.start + TLS_HEADER + j - 1
    <3>1. /\ TLS_HEADER + j - 1 \in 0..(Buffered - 1)
          /\ next_record + (TLS_HEADER + j - 1) = next_record + TLS_HEADER + j - 1
          /\ r.start + (TLS_HEADER + j - 1) = r.start + TLS_HEADER + j - 1
      <4>1. \A h, l, b, c, i, f, s \in Nat :
              f >= b + h + l /\ c + 1 <= l /\ i \in 1..c
                => /\ h + i - 1 \in 0..((f - b) - 1)
                   /\ b + (h + i - 1) = b + h + i - 1
                   /\ s + (h + i - 1) = s + h + i - 1
        OBVIOUS
      <4>2. r.content + 1 <= r.len /\ filled >= next_record + TLS_HEADER + r.len /\ j \in Nat
        BY <1>1, <1>2, <1>3, SMTT(30) DEF RecordEnd
      <4> HIDE DEF r
      <4> QED BY <1>2, <1>3, <4>1, <4>2 DEF Buffered
    <3>2. mem[next_record + (TLS_HEADER + j - 1)] = Boundary + (TLS_HEADER + j - 1)
      BY <3>1 DEF IInv, BufferHoldsStream
    <3> QED BY <1>1, <3>1, <3>2
  <2>3. plain_end' - plain_start' = r.content
    BY <1>2, <1>3, <2>1
  <2>4. [j \in 1..(plain_end - plain_start) |-> mem[plain_start + j - 1]]' = ContentOf(r)
    BY <1>2, <1>4, <2>1, <2>2, <2>3
  <2>5. recs \in Seq(Record) /\ framed \in Nat /\ framed + 1 <= Len(recs) /\ out \in Seq(Int)
    BY <1>1 DEF IInv, TypeOK
  <2>6. ContentUpTo(framed + 1) = ContentUpTo(framed) \o ContentOf(r)
    BY <2>5, ContentNext
  <2>7. out = ContentUpTo(framed)
    <3>1. out \o ParkedBytes = ContentUpTo(framed) /\ ParkedBytes = <<>>
      BY <1>2, NothingParked, Zenon DEF DeliveredInOrder, ParkedBytes
    <3> QED BY <2>5, <3>1, ConcatEmptySeq
  <2>8. ContentUpTo(framed)' = ContentUpTo(framed + 1)
    BY <1>2 DEF ContentUpTo, ContentOf
  <2> QED BY <1>2, <2>4, <2>6, <2>7, <2>8, Zenon DEF DeliveredInOrder
<1> QED BY <1>3, <1>5, <1>6

\* A read moves the first parked bytes to the caller.
LEMMA ReadDelivers ==
    ASSUME IInv, DeliveredInOrder, NEW n \in 1..RECV, ReadApp(n)
    PROVE  DeliveredInOrder'
<1> USE Numbers
<1> DEFINE m == IF n < plain_end - plain_start THEN n ELSE plain_end - plain_start
           first == [j \in 1..m |-> mem[plain_start + j - 1]]
           rest == [j \in 1..(plain_end - (plain_start + m)) |-> mem[plain_start + m + j - 1]]
<1>1. /\ n \in Nat /\ plain_start \in Nat /\ plain_end \in Nat /\ plain_start <= plain_end
      /\ plain_end <= RECV
  BY DEF IInv, TypeOK, CursorsOrdered
<1>2. m \in Nat /\ m <= plain_end - plain_start
  BY <1>1
<1>3. /\ out' = out \o first /\ plain_start' = plain_start + m
      /\ UNCHANGED <<recs, framed, mem, plain_end>>
  BY DEF ReadApp, peer
<1> HIDE DEF m
<1>4. first \in Seq(Int) /\ rest \in Seq(Int) /\ ParkedBytes \in Seq(Int)
      /\ Len(first) = m /\ Len(rest) = plain_end - (plain_start + m)
      /\ Len(ParkedBytes) = plain_end - plain_start
  <2>1. \A i \in 0..(RECV - 1) : mem[i] \in Int
    BY DEF IInv, TypeOK
  <2>2. \A j \in 1..m : mem[plain_start + j - 1] \in Int
    BY <1>1, <1>2, <2>1
  <2>3. \A j \in 1..(plain_end - (plain_start + m)) : mem[plain_start + m + j - 1] \in Int
    BY <1>1, <1>2, <2>1
  <2>4. \A j \in 1..(plain_end - plain_start) : mem[plain_start + j - 1] \in Int
    BY <1>1, <1>2, <2>1
  <2>5. plain_end - (plain_start + m) \in Nat /\ plain_end - plain_start \in Nat
    BY <1>1, <1>2
  <2>6. first \in Seq(Int) /\ Len(first) = m
    BY <1>2, <2>2
  <2>7. rest \in Seq(Int) /\ Len(rest) = plain_end - (plain_start + m)
    <3> DEFINE k == plain_end - (plain_start + m)
    <3>1. k \in Nat
      BY <2>5
    <3> HIDE DEF k
    <3>2. \A j \in 1..k : mem[plain_start + m + j - 1] \in Int
      BY <2>3 DEF k
    <3>3. rest = [j \in 1..k |-> mem[plain_start + m + j - 1]]
      BY DEF k
    <3> HIDE DEF rest
    <3>4. rest \in Seq(Int) /\ Len(rest) = k
      BY <3>1, <3>2, <3>3
    <3> QED BY <3>4 DEF k
  <2>8. ParkedBytes \in Seq(Int) /\ Len(ParkedBytes) = plain_end - plain_start
    <3> DEFINE k == plain_end - plain_start
    <3>1. k \in Nat
      BY <2>5
    <3> HIDE DEF k
    <3>2. \A j \in 1..k : mem[plain_start + j - 1] \in Int
      BY <2>4 DEF k
    <3>3. ParkedBytes = [j \in 1..k |-> mem[plain_start + j - 1]]
      BY DEF k, ParkedBytes
    <3>4. ParkedBytes \in Seq(Int) /\ Len(ParkedBytes) = k
      BY <3>1, <3>2, <3>3
    <3> QED BY <3>4 DEF k
  <2> QED BY <2>6, <2>7, <2>8, Zenon
<1>5. first \o rest = ParkedBytes
  <2> DEFINE both == first \o rest
  <2>1. both \in Seq(Int) /\ Len(both) = plain_end - plain_start
    BY <1>1, <1>2, <1>4
  <2>2. ASSUME NEW i \in 1..(plain_end - plain_start)
        PROVE  both[i] = ParkedBytes[i]
    <3>1. ParkedBytes[i] = mem[plain_start + i - 1]
      BY DEF ParkedBytes
    <3>2. CASE i <= m
      <4>1. i \in 1..m
        BY <1>2, <3>2
      <4>2. first[i] = mem[plain_start + i - 1]
        BY <4>1
      <4> HIDE DEF first, rest
      <4>3. both[i] = first[i]
        BY <1>4, <4>1
      <4> HIDE DEF both
      <4> QED BY <3>1, <4>2, <4>3
    <3>3. CASE ~(i <= m)
      <4>1. i - m \in 1..(plain_end - (plain_start + m))
            /\ plain_start + m + (i - m) - 1 = plain_start + i - 1
        BY <1>1, <1>2, <3>3
      <4>2. both[i] = rest[i - m]
        BY <1>1, <1>2, <1>4, <3>3, <4>1
      <4> QED BY <3>1, <4>1, <4>2, Zenon
    <3> QED BY <3>2, <3>3, Zenon
  <2> HIDE DEF both
  <2>3. \A s, t \in Seq(Int) : Len(s) = Len(t) /\ (\A i \in 1..Len(s) : s[i] = t[i]) => s = t
    OBVIOUS
  <2> QED BY <1>4, <2>1, <2>2, <2>3, Zenon DEF both
<1>6. rest = [j \in 1..(plain_end - plain_start) |-> mem[plain_start + j - 1]]'
  BY <1>3
<1>7. out \in Seq(Int)
  BY DEF IInv, TypeOK
<1>8. \A a, b, c \in Seq(Int) : (a \o b) \o c = a \o (b \o c)
  BY ConcatAssociative, SMTT(30)
<1> HIDE DEF first, rest
<1>9. (out \o first) \o rest = out \o ParkedBytes
  BY <1>4, <1>5, <1>7, <1>8, Zenon
<1>10. ContentUpTo(framed)' = ContentUpTo(framed)
  BY <1>3, ContentKept
<1> QED BY <1>3, <1>6, <1>9, <1>10, Zenon DEF DeliveredInOrder, ParkedBytes

\* The step, one case per kind of action.
LEMMA NextDelivered ==
    ASSUME IInv, DeliveredInOrder, [Next]_vars
    PROVE  DeliveredInOrder'
<1> USE Numbers
<1>1. CASE /\ UNCHANGED <<out, plain_start, plain_end, mem, framed>>
           /\ \A j \in 1..Len(recs) : recs'[j] = recs[j]
  <2>1. ContentUpTo(framed)' = ContentUpTo(framed)
    BY <1>1, ContentKept
  <2> QED BY <1>1, <2>1, Zenon DEF DeliveredInOrder
<1>2. CASE \E k \in Kinds, l \in BodyLens : \E c \in 0..l : PeerWrites(k, l, c)
  <2>0. PICK k \in Kinds, l \in BodyLens : \E c \in 0..l : PeerWrites(k, l, c)
    BY <1>2
  <2>1. PICK c \in 0..l : PeerWrites(k, l, c)
    BY <2>0
  <2> DEFINE r == [kind |-> k, start |-> written, len |-> l, content |-> c]
  <2>2. recs' = Append(recs, r) /\ UNCHANGED <<out, plain_start, plain_end, mem, framed>>
    BY <2>1 DEF PeerWrites, cursors
  <2>3. r \in Record /\ recs \in Seq(Record)
    BY RecvAssumption DEF IInv, TypeOK, Record
  <2> HIDE DEF r
  <2>4. \A j \in 1..Len(recs) : recs'[j] = recs[j]
    BY <2>2, <2>3
  <2> QED BY <1>1, <2>2, <2>4
<1>3. CASE (\E n \in 1..RECV : Fill(n)) \/ NeedMore
  <2>1. ~Parked /\ plain_start' = plain_end' /\ plain_end' \in Nat /\ UNCHANGED <<recs, framed, out>>
    <3>1. ~Parked => plain_start = plain_end /\ plain_start \in Nat
      BY NothingParked DEF IInv, TypeOK
    <3> QED BY <1>3, <3>1 DEF Fill, NeedMore, CompactRecv, Framing, peer, cursors
  <2>2. [j \in 1..(plain_end - plain_start) |-> mem[plain_start + j - 1]]' = <<>>
        /\ ParkedBytes = <<>>
    <3>1. \A a, b \in Nat : a = b => b - a = 0
      OBVIOUS
    <3>2. plain_start' \in Nat /\ plain_end' \in Nat /\ plain_start' = plain_end'
      BY <2>1
    <3>3. plain_end' - plain_start' = 0
      BY <3>1, <3>2, Zenon
    <3>4. [j \in 1..(plain_end - plain_start) |-> mem[plain_start + j - 1]]' = <<>>
      BY <3>3
    <3> QED BY <2>1, <3>4, NothingParked, Zenon
  <2>3. ContentUpTo(framed)' = ContentUpTo(framed)
    BY <2>1, ContentKept
  <2> QED BY <2>1, <2>2, <2>3, Zenon DEF DeliveredInOrder, ParkedBytes
<1>4. CASE DispatchControl \/ DispatchFinished
  <2>1. /\ framed + 1 \in 1..Len(recs) /\ recs[framed + 1].kind # "app" /\ ~Parked
        /\ framed' = framed + 1 /\ UNCHANGED <<recs, out, plain_start, plain_end>>
    BY <1>4, HeaderIsNext
       DEF DispatchControl, DispatchFinished, Framing, RecordBuffered, FramedRecord, peer
  <2>2. ContentOf(recs[framed + 1]) = <<>>
    BY <2>1 DEF ContentOf
  <2> QED BY <2>1, <2>2, SilentDispatch
<1>5. CASE DispatchAppData
  BY <1>5, ParkingDelivers
<1>6. CASE \E n \in 1..RECV : ReadApp(n)
  BY <1>6, ReadDelivers
<1>7. CASE RefuseTooLarge \/ RefuseOverLimit \/ Caller \/ UNCHANGED vars
  BY <1>1, <1>7 DEF RefuseTooLarge, RefuseOverLimit, Caller, YieldAppData, YieldClosed,
                    CallAgain, Dropped, vars, peer, cursors
<1> QED BY <1>2, <1>3, <1>4, <1>5, <1>6, <1>7 DEF Next, Frame, Dispatch

\* What the caller has read and what is parked is, byte for byte, the
\* application data of the dispatched records, however the stream is cut into
\* transport reads, records and reads of the caller.
THEOREM DeliveryInOrder == AuthFlightLen = 0 => (Spec => []DeliveredInOrder)
<1>1. ASSUME AuthFlightLen = 0 PROVE Spec => []DeliveredInOrder
  <2>1. Init => DeliveredInOrder
    <3>1. [j \in 1..0 |-> ContentOf(recs[j])] = <<>>
      OBVIOUS
    <3>2. ContentUpTo(0) = <<>>
      BY <3>1, JoinedEmpty DEF ContentUpTo
    <3>3. <<>> \o <<>> = <<>> /\ [j \in 1..(0 - 0) |-> mem[0 + j - 1]] = <<>>
      OBVIOUS
    <3> QED BY <3>2, <3>3 DEF Init, DeliveredInOrder
  <2>2. DeliveredInOrder /\ IInv /\ [Next]_vars => DeliveredInOrder'
    BY NextDelivered
  <2>3. Spec => []IInv
    BY <1>1, Invariance
  <2> QED BY <2>1, <2>2, <2>3, PTL DEF Spec
<1> QED BY <1>1

\* The variables keep their shapes: no cursor ever leaves the naturals, and no
\* byte of the buffer is ever anything but a stream position.
THEOREM TypeCorrect == AuthFlightLen = 0 => (Spec => []TypeOK)
<1>1. IInv => TypeOK
  BY DEF IInv
<1> QED BY <1>1, Invariance, PTL

===============================================================================
